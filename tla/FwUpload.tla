------------------------------ MODULE FwUpload ------------------------------
(***************************************************************************)
(* tf_fwio.c: uploading firmware to the bootloader, which asks for the     *)
(* blocks it wants.  The caller sends what was asked for until the         *)
(* bootloader says that it is done, and may start again after an error.    *)
(*                                                                         *)
(* The bootloader is not part of the repository; of it the module says     *)
(* what tf_fwio.c relies on: START is answered by ID and a request, a      *)
(* block by the next request or END, and a block counts only if it carries *)
(* the sequence number of the last request.                                *)
(***************************************************************************)
EXTENDS Integers, Sequences

CONSTANTS
    Blocks,         \* blocks of the firmware
    SeqMod,         \* sequence numbers are counted modulo SeqMod (256: one byte)
    MaxUploads,     \* how often the caller starts an upload
    MaxFaults       \* how many faults of each kind may happen

FaultKinds == {"late", "lost", "short", "garbled"}

ASSUME FwUploadAssumption ==
    /\ Blocks \in Nat \ {0}
    /\ SeqMod \in Nat \ {0}
    /\ MaxUploads \in Nat
    /\ MaxFaults \in [FaultKinds -> Nat]

VARIABLES
    toDev, toHost,  \* packets on their way
    dSeq,           \* bootloader: sequence number of its last request
    dNeed,          \* bootloader: the block it waits for, 0 if none
    flash,          \* bootloader: what this upload has written where
    pc,             \* the read that the call in progress waits for, or "idle"
    fw,             \* *fw_data: the request to be answered
    ret,            \* result of the last call
    view,           \* the caller's view: "none", "uploading", "done", "failed"
    uploads,        \* uploads started so far
    faults          \* faults that may still happen

pipes == <<toDev, toHost>>
bootloader == <<dSeq, dNeed, flash>>
host == <<pc, fw, ret, view, uploads>>
vars == <<pipes, bootloader, host, faults>>

Image == 1..Blocks
Seqs == 0..(SeqMod - 1)
Nothing == 0
Packet(c, s, b) == [cmd |-> c, seq |-> s, block |-> b]
Packets == [cmd: {"START", "DATA", "REBOOT", "ID", "REQ_DATA", "END"}, seq: Seqs, block: 0..Blocks]
Plain(c) == Packet(c, 0, Nothing)
NextSeq(s) == (s + 1) % SeqMod

TypeOK ==
    /\ toDev \in Seq(Packets) /\ toHost \in Seq(Packets)
    /\ dSeq \in Seqs /\ dNeed \in 0..Blocks
    /\ flash \in [Image -> 0..Blocks]
    /\ pc \in {"idle", "id", "req"}
    /\ fw \in [seq: Seqs, block: Image]
    /\ ret \in {0, 1, -1}
    /\ view \in {"none", "uploading", "done", "failed"}
    /\ uploads \in 0..MaxUploads
    /\ faults \in [FaultKinds -> Nat]

Empty == [b \in Image |-> Nothing]

Init ==
    /\ toDev = <<>> /\ toHost = <<>>
    /\ dSeq = 0 /\ dNeed = 0 /\ flash = Empty
    /\ pc = "idle" /\ fw = [seq |-> 0, block |-> 1] /\ ret = 0
    /\ view = "none" /\ uploads = 0
    /\ faults = MaxFaults

-----------------------------------------------------------------------------
(* The bootloader.                                                         *)

DevStart ==
    /\ toDev # <<>> /\ Head(toDev).cmd = "START"
    /\ toDev' = Tail(toDev)
    /\ dSeq' = NextSeq(dSeq)
    /\ dNeed' = 1 /\ flash' = Empty
    /\ toHost' = toHost \o <<Plain("ID"), Packet("REQ_DATA", dSeq', 1)>>

DevData ==
    /\ toDev # <<>> /\ Head(toDev).cmd = "DATA"
    /\ dNeed # 0 /\ Head(toDev).seq = dSeq
    /\ toDev' = Tail(toDev)
    /\ flash' = [flash EXCEPT ![dNeed] = Head(toDev).block]
    /\ \/ /\ dNeed < Blocks
          /\ dNeed' = dNeed + 1
          /\ dSeq' = NextSeq(dSeq)
          /\ toHost' = Append(toHost, Packet("REQ_DATA", dSeq', dNeed + 1))
       \/ /\ dNeed = Blocks
          /\ dNeed' = 0
          /\ toHost' = Append(toHost, Plain("END"))
          /\ UNCHANGED dSeq

\* A block that nobody asked for, and a reboot.
DevDrop ==
    /\ toDev # <<>>
    /\ \/ Head(toDev).cmd = "DATA" /\ ~(dNeed # 0 /\ Head(toDev).seq = dSeq) /\ UNCHANGED dNeed
       \/ Head(toDev).cmd = "REBOOT" /\ dNeed' = 0
    /\ toDev' = Tail(toDev)
    /\ UNCHANGED <<toHost, dSeq, flash>>

Bootloader == (DevStart \/ DevData \/ DevDrop) /\ UNCHANGED <<host, faults>>

-----------------------------------------------------------------------------
(* tf_fwio.c.                                                              *)

Fault(k) == faults[k] > 0 /\ faults' = [faults EXCEPT ![k] = @ - 1]

tf_send(p, ok) ==
    /\ UNCHANGED <<toHost, bootloader>>
    /\ \/ ok /\ toDev' = Append(toDev, p) /\ UNCHANGED faults
       \/ ~ok /\ Fault("short") /\ toDev' \in {toDev, Append(toDev, p)}

\* Reads reply, or fails: nothing comes in time, or fewer bytes than the
\* length says.  The checksum of a reply is not looked at, so that one that was
\* garbled on its way is as good as any other; so is one that lacks up to nine
\* bytes, because the length is that of the data alone.  What is missing reads as
\* zero: if it was data, the request is one of the garbled.
tf_get_response(ok, reply) ==
    /\ UNCHANGED <<toDev, bootloader>>
    /\ \/ /\ ok /\ toHost # <<>> /\ toHost' = Tail(toHost)
          /\ \/ reply = Head(toHost) /\ UNCHANGED faults
             \/ /\ Head(toHost).cmd = "REQ_DATA" /\ Fault("garbled")
                /\ \E b \in Image \ {Head(toHost).block} :
                    reply = [Head(toHost) EXCEPT !.block = b]
       \/ ~ok /\ toHost # <<>> /\ toHost' = Tail(toHost) /\ Fault("short")
       \/ /\ ~ok /\ toHost = <<>> /\ UNCHANGED toHost
          /\ IF toDev = <<>> THEN UNCHANGED faults ELSE Fault("late")

Return(v) ==
    /\ pc' = "idle" /\ ret' = v
    /\ view' = IF v = 0 THEN "uploading" ELSE IF v = 1 THEN "done" ELSE "failed"

AwaitOrFail(l, ok) ==
    IF ok THEN pc' = l /\ UNCHANGED <<ret, view>> ELSE Return(-1)

tf_fw_upload ==
    /\ pc = "idle" /\ view \in {"none", "failed"} /\ uploads < MaxUploads
    /\ uploads' = uploads + 1
    /\ \E ok \in BOOLEAN : tf_send(Plain("START"), ok) /\ AwaitOrFail("id", ok)
    /\ UNCHANGED fw

tf_fw_upload_id ==
    /\ pc = "id"
    /\ \E ok \in BOOLEAN, reply \in Packets :
        /\ ~ok => reply = Plain("ID")
        /\ tf_get_response(ok, reply)
        /\ AwaitOrFail("req", ok /\ reply.cmd = "ID")
    /\ UNCHANGED <<fw, uploads>>

\* Mutant of tf_wait_for_req_data: any other reply is taken for the end.
tf_wait_takes_all_for_end ==
    /\ pc = "req"
    /\ \E ok \in BOOLEAN, reply \in Packets :
        /\ ~ok => reply = Plain("END")
        /\ tf_get_response(ok, reply)
        /\ IF ok /\ reply.cmd = "REQ_DATA"
           THEN fw' = [seq |-> reply.seq, block |-> reply.block] /\ Return(0)
           ELSE Return(IF ok THEN 1 ELSE -1) /\ UNCHANGED fw
    /\ UNCHANGED uploads

\* Mutant of tf_wait_for_req_data: an error is not reported.
tf_wait_hides_errors ==
    /\ pc = "req"
    /\ \E ok \in BOOLEAN, reply \in Packets :
        /\ ~ok => reply = Plain("END")
        /\ tf_get_response(ok, reply)
        /\ IF ok /\ reply.cmd = "REQ_DATA"
           THEN fw' = [seq |-> reply.seq, block |-> reply.block] /\ Return(0)
           ELSE Return(IF ok /\ reply.cmd = "END" THEN 1 ELSE 0) /\ UNCHANGED fw
    /\ UNCHANGED uploads

\* Mutant of tf_wait_for_req_data: the sequence number is not kept.
tf_wait_forgets_seq ==
    /\ pc = "req"
    /\ \E ok \in BOOLEAN, reply \in Packets :
        /\ ~ok => reply = Plain("END")
        /\ tf_get_response(ok, reply)
        /\ IF ok /\ reply.cmd = "REQ_DATA"
           THEN fw' = [fw EXCEPT !.block = reply.block] /\ Return(0)
           ELSE Return(IF ok /\ reply.cmd = "END" THEN 1 ELSE -1) /\ UNCHANGED fw
    /\ UNCHANGED uploads

tf_wait_for_req_data ==
    /\ pc = "req"
    /\ \E ok \in BOOLEAN, reply \in Packets :
        /\ ~ok => reply = Plain("END")
        /\ tf_get_response(ok, reply)
        /\ \/ /\ ok /\ reply.cmd = "REQ_DATA"
              /\ fw' = [seq |-> reply.seq, block |-> reply.block]
              /\ Return(0)
           \/ ok /\ reply.cmd = "END" /\ Return(1) /\ UNCHANGED fw
           \/ /\ ~ok \/ reply.cmd \notin {"REQ_DATA", "END"}
              /\ Return(-1) /\ UNCHANGED fw
    /\ UNCHANGED uploads

\* Only a request that was garbled may ask for more than a packet holds.
MayAskTooMuch == faults["garbled"] < MaxFaults["garbled"]

\* The caller passes the block that *fw_data names.
tf_fw_upload_next ==
    /\ pc = "idle" /\ view = "uploading"
    /\ \/ \E ok \in BOOLEAN :
            tf_send(Packet("DATA", fw.seq, fw.block), ok) /\ AwaitOrFail("req", ok)
       \/ /\ MayAskTooMuch             \* len > MAX_DATA_SIZE
          /\ Return(-1)
          /\ UNCHANGED <<pipes, bootloader, faults>>
    /\ UNCHANGED <<fw, uploads>>

\* Nothing is waited for.  (toDev = <<>> is a bound: it keeps a caller that
\* does nothing else from filling the pipe.)
tf_fw_reboot ==
    /\ pc = "idle" /\ view # "uploading" /\ toDev = <<>>
    /\ \E ok \in BOOLEAN :
        /\ tf_send(Plain("REBOOT"), ok)
        /\ ret' = IF ok THEN 0 ELSE -1
    /\ UNCHANGED <<pc, fw, view, uploads>>

-----------------------------------------------------------------------------
Lose ==
    /\ Fault("lost")
    /\ \/ toDev # <<>> /\ toDev' = Tail(toDev) /\ UNCHANGED toHost
       \/ toHost # <<>> /\ toHost' = Tail(toHost) /\ UNCHANGED toDev
    /\ UNCHANGED <<bootloader, host>>

Library == tf_fw_upload_id \/ tf_wait_for_req_data

Next == tf_fw_upload \/ tf_fw_upload_next \/ tf_fw_reboot \/ Library \/ Bootloader \/ Lose

Spec == Init /\ [][Next]_vars

\* Reads time out, the bootloader works, and the caller goes on as long as
\* it is asked for data.
FairSpec ==
    /\ Spec
    /\ WF_vars(Library) /\ WF_vars(Bootloader)
    /\ WF_vars(tf_fw_upload_next)

-----------------------------------------------------------------------------
\* "1 if OK and finished" (tf_fwio.h:48): every block of the firmware is where
\* it belongs, however many uploads were abandoned before and whatever they
\* have left in the pipes, unless a request was garbled.
Uploaded ==
    pc = "idle" /\ view = "done" /\ faults["garbled"] = MaxFaults["garbled"] =>
        \A b \in Image : flash[b] = b

\* tf_fw_upload() and tf_fw_upload_next() answer each request with the block
\* and the sequence number that it asks for: an upload fails only after
\* something went wrong on the way.
FailsForAReason == view = "failed" => faults # MaxFaults

\* An upload that has begun ends: it is finished or reported as failed.
UploadEnds == view = "uploading" ~> view \in {"done", "failed"}
=============================================================================
