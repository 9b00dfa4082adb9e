---------------------------- MODULE FwUploadProofs ----------------------------
(***************************************************************************)
(* Theorems about FwUpload, for every size of the firmware, every range of *)
(* the sequence numbers, and any number of uploads and faults.             *)
(*                                                                         *)
(* That a finished upload is complete rests on the sequence numbers: a     *)
(* block that was sent for an earlier request is dropped.  An upload that  *)
(* was abandoned may leave one request behind, so that a number would have *)
(* to come round again while requests are left over for a block to be     *)
(* taken for another one: that takes more uploads than there are numbers.  *)
(***************************************************************************)
EXTENDS FwUpload, FiniteSetTheorems, SequenceTheorems, TLAPS

Datas == {i \in 1..Len(toDev) : toDev[i].cmd = "DATA"}
Reqs == {i \in 1..Len(toHost) : toHost[i].cmd = "REQ_DATA"}
Ends == {i \in 1..Len(toHost) : toHost[i].cmd = "END"}

\* TypeOK, with the blocks that can be asked for, and with what FwUpload takes
\* for granted of the budget.
TypeInv ==
    /\ TypeOK
    /\ \A i \in Reqs : toHost[i].block \in Image
    /\ \A k \in FaultKinds : faults[k] <= MaxFaults[k]

-----------------------------------------------------------------------------
(* The primitives.                                                         *)

\* The number after a number.
LEMMA NextNumber ==
    ASSUME NEW s \in Seqs PROVE NextSeq(s) = (IF s + 1 = SeqMod THEN 0 ELSE s + 1) /\ NextSeq(s) \in Seqs
  BY FwUploadAssumption DEF NextSeq, Seqs

\* What Packet and Plain make are packets.
LEMMA PacketType ==
    ASSUME NEW c \in {"START", "DATA", "REBOOT", "ID", "REQ_DATA", "END"},
           NEW s \in Seqs, NEW b \in 0..Blocks
    PROVE  Packet(c, s, b) \in Packets /\ Plain(c) \in Packets
  BY FwUploadAssumption DEF Packet, Plain, Packets, Seqs, Nothing

\* A fault uses up one of those that are left.
LEMMA FaultUsed ==
    ASSUME TypeInv, NEW k \in FaultKinds, Fault(k)
    PROVE  /\ faults' \in [FaultKinds -> Nat]
           /\ \A j \in FaultKinds : faults'[j] <= MaxFaults[j]
           /\ faults' # MaxFaults
           /\ \A j \in FaultKinds \ {k} : faults'[j] = faults[j]
           /\ faults'[k] < MaxFaults[k]
  <1>1. faults' = [faults EXCEPT ![k] = @ - 1] /\ faults[k] > 0
    BY DEF Fault
  <1>2. faults \in [FaultKinds -> Nat] /\ MaxFaults \in [FaultKinds -> Nat]
    BY FwUploadAssumption DEF TypeInv, TypeOK
  <1>3. faults'[k] = faults[k] - 1 /\ \A j \in FaultKinds \ {k} : faults'[j] = faults[j]
    BY <1>1, <1>2
  <1>4. faults'[k] < MaxFaults[k]
    BY <1>1, <1>2, <1>3 DEF TypeInv
  <1>5. faults' \in [FaultKinds -> Nat]
    BY <1>1, <1>2
  <1>6. \A j \in FaultKinds : faults'[j] <= MaxFaults[j]
    BY <1>2, <1>3, <1>4, <1>5 DEF TypeInv
  <1>7. faults' # MaxFaults
    BY <1>2, <1>4, <1>5
  <1>8. QED
    BY <1>3, <1>4, <1>5, <1>6, <1>7

\* What a write does, and what a read does.
LEMMA Sending ==
    ASSUME TypeInv, NEW p \in Packets, NEW ok \in BOOLEAN, tf_send(p, ok)
    PROVE  /\ toDev' = toDev \/ toDev' = Append(toDev, p)
           /\ ok => toDev' = Append(toDev, p) /\ faults' = faults
           /\ ~ok => faults' # MaxFaults
           /\ toDev' \in Seq(Packets)
           /\ UNCHANGED <<toHost, dSeq, dNeed, flash>>
           /\ faults' \in [FaultKinds -> Nat]
           /\ \A k \in FaultKinds : faults'[k] <= MaxFaults[k]
           /\ faults'["garbled"] = faults["garbled"]
  <1>1. UNCHANGED <<toHost, dSeq, dNeed, flash>>
    BY DEF tf_send, bootloader
  <1>0. toDev \in Seq(Packets) /\ faults \in [FaultKinds -> Nat]
        /\ Append(toDev, p) \in Seq(Packets) /\ "garbled" \in FaultKinds
    BY DEF TypeInv, TypeOK, FaultKinds
  <1>2. CASE ok = TRUE
    <2>1. toDev' = Append(toDev, p) /\ faults' = faults
      BY <1>2 DEF tf_send
    <2>2. QED
      BY <1>0, <1>1, <1>2, <2>1 DEF TypeInv
  <1>3. CASE ok = FALSE
    <2>1. Fault("short") /\ toDev' \in {toDev, Append(toDev, p)}
      BY <1>3 DEF tf_send
    <2>2. /\ faults' \in [FaultKinds -> Nat] /\ faults' # MaxFaults
          /\ \A k \in FaultKinds : faults'[k] <= MaxFaults[k]
          /\ faults'["garbled"] = faults["garbled"]
      BY <2>1, FaultUsed DEF FaultKinds
    <2>3. QED
      BY <1>0, <1>1, <1>3, <2>1, <2>2
  <1>4. QED
    BY <1>2, <1>3

\* What tf_get_response() takes from the pipe, and what its failure means.
LEMMA Reading ==
    ASSUME TypeInv, NEW ok \in BOOLEAN, NEW reply \in Packets, tf_get_response(ok, reply)
    PROVE  /\ UNCHANGED <<toDev, dSeq, dNeed, flash>>
           /\ \/ toHost # <<>> /\ toHost' = Tail(toHost)
              \/ ~ok /\ toHost = <<>> /\ toHost' = toHost
           /\ toHost' \in Seq(Packets)
           /\ faults' \in [FaultKinds -> Nat]
           /\ \A k \in FaultKinds : faults'[k] <= MaxFaults[k]
           /\ faults' = faults \/ faults' # MaxFaults
           /\ faults'["garbled"] <= faults["garbled"]
           /\ ok => /\ toHost # <<>> /\ reply.cmd = Head(toHost).cmd /\ reply.seq = Head(toHost).seq
                    /\ reply.block = Head(toHost).block \/ faults'["garbled"] < MaxFaults["garbled"]
                    /\ reply.cmd = "REQ_DATA" => reply.block \in Image
           /\ ~ok /\ faults' = faults => toHost = <<>> /\ toDev = <<>>
  <1>1. UNCHANGED <<toDev, dSeq, dNeed, flash>>
    BY DEF tf_get_response, bootloader
  <1>2. \/ toHost # <<>> /\ toHost' = Tail(toHost)
        \/ ~ok /\ toHost = <<>> /\ toHost' = toHost
    BY DEF tf_get_response
  <1>3. toHost' \in Seq(Packets) /\ faults \in [FaultKinds -> Nat]
    <2>1. toHost \in Seq(Packets) /\ faults \in [FaultKinds -> Nat]
      BY DEF TypeInv, TypeOK
    <2>2. toHost # <<>> => Tail(toHost) \in Seq(Packets)
      BY <2>1
    <2>3. QED
      BY <1>2, <2>1, <2>2
  <1>4. \/ faults' = faults
        \/ Fault("garbled") \/ Fault("short") \/ Fault("late")
    BY DEF tf_get_response
  <1>5. /\ faults' \in [FaultKinds -> Nat]
        /\ \A k \in FaultKinds : faults'[k] <= MaxFaults[k]
        /\ faults' = faults \/ faults' # MaxFaults
    BY <1>3, <1>4, FaultUsed DEF FaultKinds, TypeInv
  <1>6. faults'["garbled"] <= faults["garbled"]
    BY <1>3, <1>4 DEF Fault, FaultKinds
  <1>7. ASSUME ok = TRUE
        PROVE  /\ toHost # <<>> /\ reply.cmd = Head(toHost).cmd /\ reply.seq = Head(toHost).seq
               /\ reply.block = Head(toHost).block \/ faults'["garbled"] < MaxFaults["garbled"]
               /\ reply.cmd = "REQ_DATA" => reply.block \in Image
    <2>1. toHost # <<>> /\ Head(toHost) \in Packets /\ Head(toHost) = toHost[1] /\ 1 \in 1..Len(toHost)
      BY <1>7 DEF tf_get_response, TypeInv, TypeOK
    <2>2. Head(toHost).cmd = "REQ_DATA" => Head(toHost).block \in Image
      BY <2>1 DEF TypeInv, Reqs
    <2>3. CASE reply = Head(toHost)
      BY <2>1, <2>2, <2>3
    <2>4. ASSUME Head(toHost).cmd = "REQ_DATA", Fault("garbled"),
                 NEW b \in Image \ {Head(toHost).block}, reply = [Head(toHost) EXCEPT !.block = b]
          PROVE  /\ reply.cmd = Head(toHost).cmd /\ reply.seq = Head(toHost).seq
                 /\ faults'["garbled"] < MaxFaults["garbled"] /\ reply.block \in Image
      <3>1. reply.cmd = Head(toHost).cmd /\ reply.seq = Head(toHost).seq /\ reply.block = b
        BY <2>1, <2>4 DEF Packets
      <3>2. faults'["garbled"] < MaxFaults["garbled"]
        BY <2>4, FaultUsed DEF FaultKinds
      <3>3. QED
        BY <3>1, <3>2
    <2>5. \/ reply = Head(toHost)
          \/ /\ Head(toHost).cmd = "REQ_DATA" /\ Fault("garbled")
             /\ \E b \in Image \ {Head(toHost).block} : reply = [Head(toHost) EXCEPT !.block = b]
      BY <1>7 DEF tf_get_response
    <2>6. QED
      BY <2>1, <2>3, <2>4, <2>5
  <1>8. ~ok /\ faults' = faults => toHost = <<>> /\ toDev = <<>>
    <2>1. \A k \in {"short", "late"} : Fault(k) => faults' # faults
      BY <1>3 DEF Fault, FaultKinds
    <2>2. QED
      BY <2>1 DEF tf_get_response
  <1>9. ok => ok = TRUE
    OBVIOUS
  <1>10. QED
    BY <1>1, <1>2, <1>3, <1>5, <1>6, <1>7, <1>8, <1>9

-----------------------------------------------------------------------------
(* What each call does, in terms of the two primitives.                    *)

SameBootloader == UNCHANGED <<dSeq, dNeed, flash>>
MayAppend(p) == toDev' = toDev \/ toDev' = Append(toDev, p)
FaultsLeft ==
    /\ faults' \in [FaultKinds -> Nat]
    /\ \A k \in FaultKinds : faults'[k] <= MaxFaults[k]
    /\ faults'["garbled"] <= faults["garbled"]
    /\ faults' = faults \/ faults' # MaxFaults

\* The first step of tf_fw_upload().
LEMMA UploadEffect ==
    ASSUME TypeInv, tf_fw_upload
    PROVE  /\ pc = "idle" /\ view \in {"none", "failed"} /\ uploads < MaxUploads
           /\ uploads' = uploads + 1 /\ fw' = fw /\ toHost' = toHost
           /\ SameBootloader /\ FaultsLeft /\ toDev' \in Seq(Packets)
           /\ \/ /\ pc' = "id" /\ view' = view /\ ret' = ret
                 /\ toDev' = Append(toDev, Plain("START")) /\ faults' = faults
              \/ /\ pc' = "idle" /\ view' = "failed" /\ ret' = -1
                 /\ MayAppend(Plain("START")) /\ faults' # MaxFaults
  <1>1. PICK ok \in BOOLEAN : tf_send(Plain("START"), ok) /\ AwaitOrFail("id", ok)
    BY DEF tf_fw_upload
  <1>2. Plain("START") \in Packets /\ faults \in [FaultKinds -> Nat]
    BY PacketType, FwUploadAssumption DEF TypeInv, TypeOK, Seqs
  <1>3. /\ MayAppend(Plain("START")) /\ toDev' \in Seq(Packets) /\ toHost' = toHost /\ SameBootloader
        /\ ok = TRUE => toDev' = Append(toDev, Plain("START")) /\ faults' = faults
        /\ ok = FALSE => faults' # MaxFaults
        /\ FaultsLeft
    BY <1>1, <1>2, Sending DEF MayAppend, SameBootloader, FaultsLeft, FaultKinds
  <1>4. CASE ok = TRUE
    BY <1>1, <1>3, <1>4 DEF tf_fw_upload, AwaitOrFail
  <1>5. CASE ok = FALSE
    BY <1>1, <1>3, <1>5 DEF tf_fw_upload, AwaitOrFail, Return
  <1>6. QED
    BY <1>4, <1>5

\* The first step of tf_fw_upload_next().
LEMMA NextEffect ==
    ASSUME TypeInv, tf_fw_upload_next
    PROVE  LET p == Packet("DATA", fw.seq, fw.block) IN
           /\ pc = "idle" /\ view = "uploading" /\ p \in Packets
           /\ uploads' = uploads /\ fw' = fw /\ toHost' = toHost
           /\ SameBootloader /\ FaultsLeft /\ toDev' \in Seq(Packets)
           /\ \/ /\ pc' = "req" /\ view' = view /\ ret' = ret
                 /\ toDev' = Append(toDev, p) /\ faults' = faults
              \/ /\ pc' = "idle" /\ view' = "failed" /\ ret' = -1
                 /\ MayAppend(p) /\ faults' # MaxFaults
  <1> DEFINE p == Packet("DATA", fw.seq, fw.block)
  <1>2. p \in Packets /\ faults \in [FaultKinds -> Nat]
    <2>1. fw.seq \in Seqs /\ fw.block \in 0..Blocks
      BY FwUploadAssumption DEF TypeInv, TypeOK, Image
    <2>2. QED
      BY <2>1, PacketType DEF TypeInv, TypeOK
  <1> HIDE DEF p
  <1>1. pc = "idle" /\ view = "uploading" /\ fw' = fw /\ uploads' = uploads
    BY DEF tf_fw_upload_next
  <1>3. ASSUME NEW ok \in BOOLEAN, tf_send(p, ok), AwaitOrFail("req", ok)
        PROVE  /\ toHost' = toHost /\ SameBootloader /\ FaultsLeft /\ toDev' \in Seq(Packets)
               /\ \/ /\ pc' = "req" /\ view' = view /\ ret' = ret
                     /\ toDev' = Append(toDev, p) /\ faults' = faults
                  \/ /\ pc' = "idle" /\ view' = "failed" /\ ret' = -1
                     /\ MayAppend(p) /\ faults' # MaxFaults
    <2>1. /\ MayAppend(p) /\ toDev' \in Seq(Packets) /\ toHost' = toHost /\ SameBootloader
          /\ ok = TRUE => toDev' = Append(toDev, p) /\ faults' = faults
          /\ ok = FALSE => faults' # MaxFaults
          /\ FaultsLeft
      BY <1>2, <1>3, Sending DEF MayAppend, SameBootloader, FaultsLeft, FaultKinds
    <2>2. CASE ok = TRUE
      <3>1. pc' = "req" /\ view' = view /\ ret' = ret
        BY <1>3, <2>2 DEF AwaitOrFail
      <3> QED
        BY <2>1, <2>2, <3>1
    <2>3. CASE ok = FALSE
      <3>1. pc' = "idle" /\ view' = "failed" /\ ret' = -1
        BY <1>3, <2>3 DEF AwaitOrFail, Return
      <3> QED
        BY <2>1, <2>3, <3>1
    <2> QED
      BY <2>2, <2>3
  <1>4. ASSUME MayAskTooMuch, Return(-1), UNCHANGED <<pipes, bootloader, faults>>
        PROVE  /\ toHost' = toHost /\ SameBootloader /\ FaultsLeft /\ toDev' \in Seq(Packets)
               /\ pc' = "idle" /\ view' = "failed" /\ ret' = -1
               /\ MayAppend(p) /\ faults' # MaxFaults
    <2>1. toDev' = toDev /\ toHost' = toHost /\ faults' = faults /\ SameBootloader
      BY <1>4 DEF pipes, bootloader, SameBootloader
    <2>2. faults["garbled"] \in Nat /\ \A k \in FaultKinds : faults[k] <= MaxFaults[k]
      BY <1>2 DEF TypeInv, FaultKinds
    <2>3. faults # MaxFaults
      <3>1. faults["garbled"] < MaxFaults["garbled"] /\ faults["garbled"] \in Nat
        BY <1>4, <2>2 DEF MayAskTooMuch
      <3> SUFFICES ASSUME faults = MaxFaults PROVE FALSE
        OBVIOUS
      <3>2. faults["garbled"] < faults["garbled"]
        BY <3>1
      <3> QED
        BY <3>1, <3>2
    <2>4. faults'["garbled"] <= faults["garbled"]
      BY <2>1, <2>2
    <2>5. FaultsLeft
      BY <1>2, <2>1, <2>2, <2>4, Zenon DEF FaultsLeft
    <2> QED
      BY <1>4, <2>1, <2>3, <2>5 DEF Return, MayAppend, TypeInv, TypeOK
  <1>5. \/ \E ok \in BOOLEAN : tf_send(p, ok) /\ AwaitOrFail("req", ok)
        \/ MayAskTooMuch /\ Return(-1) /\ UNCHANGED <<pipes, bootloader, faults>>
    BY DEF tf_fw_upload_next, p
  <1>6. CASE \E ok \in BOOLEAN : tf_send(p, ok) /\ AwaitOrFail("req", ok)
    <2>1. PICK ok \in BOOLEAN : tf_send(p, ok) /\ AwaitOrFail("req", ok)
      BY <1>6
    <2> QED
      BY <1>1, <1>2, <1>3, <2>1 DEF p
  <1>7. CASE MayAskTooMuch /\ Return(-1) /\ UNCHANGED <<pipes, bootloader, faults>>
    BY <1>1, <1>2, <1>4, <1>7 DEF p
  <1> QED
    BY <1>5, <1>6, <1>7

\* tf_fw_reboot().
LEMMA RebootEffect ==
    ASSUME TypeInv, tf_fw_reboot
    PROVE  /\ pc = "idle" /\ view # "uploading" /\ toDev = <<>>
           /\ UNCHANGED <<pc, fw, view, uploads, toHost>>
           /\ SameBootloader /\ FaultsLeft /\ toDev' \in Seq(Packets)
           /\ ret' \in {0, -1} /\ MayAppend(Plain("REBOOT"))
  <1>1. PICK ok \in BOOLEAN : tf_send(Plain("REBOOT"), ok) /\ ret' = IF ok THEN 0 ELSE -1
    BY DEF tf_fw_reboot
  <1>2. Plain("REBOOT") \in Packets /\ faults \in [FaultKinds -> Nat]
    BY PacketType, FwUploadAssumption DEF TypeInv, TypeOK, Seqs
  <1>3. /\ MayAppend(Plain("REBOOT")) /\ toDev' \in Seq(Packets) /\ toHost' = toHost
        /\ SameBootloader /\ FaultsLeft
    BY <1>1, <1>2, Sending DEF MayAppend, SameBootloader, FaultsLeft, FaultKinds
  <1>4. ret' \in {0, -1}
    BY <1>1
  <1>5. QED
    BY <1>3, <1>4 DEF tf_fw_reboot

ReplyRead == toHost # <<>> /\ toHost' = Tail(toHost)
NothingRead == toHost = <<>> /\ toHost' = toHost

\* Why a read that was not answered as expected may end a call.
NoReply(expected) ==
    \/ faults' # MaxFaults
    \/ toHost = <<>> /\ toDev = <<>>
    \/ toHost # <<>> /\ Head(toHost).cmd \notin expected

\* tf_fw_upload() reads the id of the bootloader.
LEMMA IdEffect ==
    ASSUME TypeInv, tf_fw_upload_id
    PROVE  /\ pc = "id" /\ UNCHANGED <<toDev, fw, uploads>>
           /\ SameBootloader /\ FaultsLeft /\ toHost' \in Seq(Packets)
           /\ \/ /\ pc' = "req" /\ view' = view /\ ret' = ret
                 /\ ReplyRead /\ Head(toHost).cmd = "ID"
              \/ /\ pc' = "idle" /\ view' = "failed" /\ ret' = -1
                 /\ ReplyRead \/ NothingRead
                 /\ NoReply({"ID"})
  <1>1. PICK ok \in BOOLEAN, reply \in Packets :
            tf_get_response(ok, reply) /\ AwaitOrFail("req", ok /\ reply.cmd = "ID")
    BY DEF tf_fw_upload_id
  <1>2. /\ toDev' = toDev /\ toHost' \in Seq(Packets) /\ SameBootloader /\ FaultsLeft
        /\ ok = TRUE => ReplyRead /\ reply.cmd = Head(toHost).cmd
        /\ ok = FALSE => ReplyRead \/ NothingRead
        /\ ok = FALSE /\ faults' = faults => toHost = <<>> /\ toDev = <<>>
    BY <1>1, Reading DEF SameBootloader, FaultsLeft, ReplyRead, NothingRead
  <1>3. pc = "id" /\ fw' = fw /\ uploads' = uploads
    BY DEF tf_fw_upload_id
  <1>4. CASE ok = TRUE /\ reply.cmd = "ID"
    <2>1. pc' = "req" /\ view' = view /\ ret' = ret
      BY <1>1, <1>4 DEF AwaitOrFail
    <2>2. QED
      BY <1>2, <1>3, <1>4, <2>1
  <1>5. CASE ok = FALSE \/ reply.cmd # "ID"
    <2>1. pc' = "idle" /\ view' = "failed" /\ ret' = -1
      BY <1>1, <1>5 DEF AwaitOrFail, Return
    <2>2. NoReply({"ID"})
      BY <1>2, <1>5 DEF NoReply, ReplyRead, FaultsLeft
    <2>3. QED
      BY <1>2, <1>3, <1>5, <2>1, <2>2
  <1>6. QED
    BY <1>4, <1>5

\* tf_wait_for_req_data() returns 0, 1 or -1.
LEMMA WaitEffect ==
    ASSUME TypeInv, tf_wait_for_req_data
    PROVE  /\ pc = "req" /\ pc' = "idle" /\ UNCHANGED <<toDev, uploads>>
           /\ SameBootloader /\ FaultsLeft /\ toHost' \in Seq(Packets)
           /\ \/ /\ view' = "uploading" /\ ret' = 0
                 /\ ReplyRead /\ Head(toHost).cmd = "REQ_DATA"
                 /\ fw' \in [seq: Seqs, block: Image] /\ fw'.seq = Head(toHost).seq
                 /\ fw'.block = Head(toHost).block \/ faults'["garbled"] < MaxFaults["garbled"]
              \/ /\ view' = "done" /\ ret' = 1 /\ fw' = fw
                 /\ ReplyRead /\ Head(toHost).cmd = "END"
              \/ /\ view' = "failed" /\ ret' = -1 /\ fw' = fw
                 /\ ReplyRead \/ NothingRead
                 /\ NoReply({"REQ_DATA", "END"})
  <1>1. PICK ok \in BOOLEAN, reply \in Packets :
          /\ tf_get_response(ok, reply)
          /\ \/ /\ ok /\ reply.cmd = "REQ_DATA"
                /\ fw' = [seq |-> reply.seq, block |-> reply.block]
                /\ Return(0)
             \/ ok /\ reply.cmd = "END" /\ Return(1) /\ UNCHANGED fw
             \/ /\ ~ok \/ reply.cmd \notin {"REQ_DATA", "END"}
                /\ Return(-1) /\ UNCHANGED fw
    BY DEF tf_wait_for_req_data
  <1>2. /\ toDev' = toDev /\ toHost' \in Seq(Packets) /\ SameBootloader /\ FaultsLeft
        /\ ok = TRUE => /\ ReplyRead /\ reply.cmd = Head(toHost).cmd /\ reply.seq = Head(toHost).seq
                        /\ reply.block = Head(toHost).block \/ faults'["garbled"] < MaxFaults["garbled"]
                        /\ reply.cmd = "REQ_DATA" => reply.block \in Image
        /\ ok = FALSE => ReplyRead \/ NothingRead
        /\ ok = FALSE /\ faults' = faults => toHost = <<>> /\ toDev = <<>>
    BY <1>1, Reading DEF SameBootloader, FaultsLeft, ReplyRead, NothingRead
  <1>3. pc = "req" /\ pc' = "idle" /\ uploads' = uploads
    BY <1>1 DEF tf_wait_for_req_data, Return
  <1>4. CASE ok = TRUE /\ reply.cmd = "REQ_DATA" /\ fw' = [seq |-> reply.seq, block |-> reply.block] /\ Return(0)
    <2>1. view' = "uploading" /\ ret' = 0
      BY <1>4 DEF Return
    <2>2. reply.seq \in Seqs
      BY DEF Packets
    <2>3. QED
      BY <1>2, <1>3, <1>4, <2>1, <2>2
  <1>5. CASE ok = TRUE /\ reply.cmd = "END" /\ Return(1) /\ UNCHANGED fw
    <2>1. view' = "done" /\ ret' = 1
      BY <1>5 DEF Return
    <2>2. QED
      BY <1>2, <1>3, <1>5, <2>1
  <1>6. CASE /\ ok = FALSE \/ reply.cmd \notin {"REQ_DATA", "END"}
             /\ Return(-1) /\ UNCHANGED fw
    <2>1. view' = "failed" /\ ret' = -1
      BY <1>6 DEF Return
    <2>2. NoReply({"REQ_DATA", "END"})
      BY <1>2, <1>6 DEF NoReply, ReplyRead, FaultsLeft
    <2>3. QED
      BY <1>2, <1>3, <1>6, <2>1, <2>2
  <1>7. (ok => ok = TRUE) /\ (~ok => ok = FALSE)
    OBVIOUS
  <1>8. QED
    BY <1>1, <1>4, <1>5, <1>6, <1>7

-----------------------------------------------------------------------------
(* The bootloader and the pipes.                                           *)

\* A queue without its first packet.
LEMMA Taken ==
    ASSUME NEW q \in Seq(Packets), q # <<>>
    PROVE  /\ Head(q) = q[1] /\ Head(q) \in Packets
           /\ Tail(q) \in Seq(Packets) /\ Len(Tail(q)) = Len(q) - 1 /\ Len(q) \in Nat \ {0}
           /\ \A i \in 1..Len(Tail(q)) : Tail(q)[i] = q[i + 1]
  OBVIOUS

\* A queue with one more packet.
LEMMA Added ==
    ASSUME NEW q \in Seq(Packets), NEW p \in Packets
    PROVE  /\ Append(q, p) \in Seq(Packets) /\ Len(Append(q, p)) = Len(q) + 1 /\ Len(q) \in Nat
           /\ \A i \in 1..Len(q) : Append(q, p)[i] = q[i]
           /\ Append(q, p)[Len(q) + 1] = p
  OBVIOUS

\* The bootloader begins an upload.
LEMMA StartEffect ==
    ASSUME TypeInv, DevStart
    PROVE  /\ toDev # <<>> /\ Head(toDev).cmd = "START" /\ toDev' = Tail(toDev)
           /\ dSeq' = NextSeq(dSeq) /\ dSeq' \in Seqs /\ dNeed' = 1
           /\ flash' = Empty /\ flash' \in [Image -> 0..Blocks]
           /\ toHost' = Append(Append(toHost, Plain("ID")), Packet("REQ_DATA", dSeq', 1))
           /\ Plain("ID") \in Packets /\ Packet("REQ_DATA", dSeq', 1) \in Packets
           /\ Append(toHost, Plain("ID")) \in Seq(Packets)
           /\ toDev' \in Seq(Packets) /\ toHost' \in Seq(Packets)
  <1>1. dSeq \in Seqs /\ toDev \in Seq(Packets) /\ toHost \in Seq(Packets) /\ 1 \in 0..Blocks /\ 0 \in Seqs
    BY FwUploadAssumption DEF TypeInv, TypeOK, Seqs
  <1>2. dSeq' = NextSeq(dSeq) /\ dSeq' \in Seqs
    BY <1>1, NextNumber DEF DevStart
  <1>3. Plain("ID") \in Packets /\ Packet("REQ_DATA", dSeq', 1) \in Packets
    BY <1>1, <1>2, PacketType
  <1>4. toHost' = Append(Append(toHost, Plain("ID")), Packet("REQ_DATA", dSeq', 1))
    <2>1. toHost' = toHost \o <<Plain("ID"), Packet("REQ_DATA", dSeq', 1)>>
      BY DEF DevStart
    <2>2. ASSUME NEW p \in Packets, NEW r \in Packets
          PROVE  toHost \o <<p, r>> = Append(Append(toHost, p), r)
      BY <1>1
    <2>3. QED
      BY <1>3, <2>1, <2>2
  <1>5. flash' = Empty /\ flash' \in [Image -> 0..Blocks]
    BY FwUploadAssumption DEF DevStart, Empty, Nothing
  <1>6. toDev # <<>> /\ Head(toDev).cmd = "START" /\ toDev' = Tail(toDev) /\ dNeed' = 1
    BY DEF DevStart
  <1>7. Append(toHost, Plain("ID")) \in Seq(Packets) /\ toHost' \in Seq(Packets) /\ toDev' \in Seq(Packets)
    BY <1>1, <1>3, <1>4, <1>6
  <1>8. QED
    BY <1>2, <1>3, <1>4, <1>5, <1>6, <1>7

\* The bootloader takes a block and asks for the next.
LEMMA DataEffect ==
    ASSUME TypeInv, DevData
    PROVE  /\ toDev # <<>> /\ Head(toDev).cmd = "DATA" /\ toDev' = Tail(toDev) /\ toDev' \in Seq(Packets)
           /\ dNeed \in Image /\ Head(toDev).seq = dSeq
           /\ flash' = [flash EXCEPT ![dNeed] = Head(toDev).block]
           /\ flash' \in [Image -> 0..Blocks]
           /\ \/ /\ dNeed < Blocks /\ dNeed' = dNeed + 1 /\ dNeed' \in Image
                 /\ dSeq' = NextSeq(dSeq) /\ dSeq' \in Seqs
                 /\ Packet("REQ_DATA", dSeq', dNeed') \in Packets
                 /\ toHost' = Append(toHost, Packet("REQ_DATA", dSeq', dNeed'))
                 /\ toHost' \in Seq(Packets)
              \/ /\ dNeed = Blocks /\ dNeed' = 0 /\ dSeq' = dSeq
                 /\ Plain("END") \in Packets
                 /\ toHost' = Append(toHost, Plain("END"))
                 /\ toHost' \in Seq(Packets)
  <1>1. dSeq \in Seqs /\ toDev \in Seq(Packets) /\ toHost \in Seq(Packets) /\ 0 \in 0..Blocks /\ 0 \in Seqs
        /\ dNeed \in 0..Blocks /\ Blocks \in Nat \ {0} /\ flash \in [Image -> 0..Blocks]
    BY FwUploadAssumption DEF TypeInv, TypeOK, Seqs
  <1>2. toDev # <<>> /\ Head(toDev).cmd = "DATA" /\ toDev' = Tail(toDev) /\ Head(toDev).seq = dSeq
        /\ dNeed # 0 /\ flash' = [flash EXCEPT ![dNeed] = Head(toDev).block]
    BY DEF DevData
  <1>3. dNeed \in Image
    BY <1>1, <1>2 DEF Image
  <1>4. toDev' \in Seq(Packets) /\ Head(toDev) \in Packets
    BY <1>1, <1>2
  <1>5. flash' \in [Image -> 0..Blocks]
    BY <1>1, <1>2, <1>4 DEF Packets
  <1>6. \/ /\ dNeed < Blocks /\ dNeed' = dNeed + 1 /\ dSeq' = NextSeq(dSeq)
           /\ toHost' = Append(toHost, Packet("REQ_DATA", dSeq', dNeed + 1))
        \/ /\ dNeed = Blocks /\ dNeed' = 0 /\ dSeq' = dSeq
           /\ toHost' = Append(toHost, Plain("END"))
    BY DEF DevData
  <1>7. CASE dNeed < Blocks /\ dNeed' = dNeed + 1 /\ dSeq' = NextSeq(dSeq)
             /\ toHost' = Append(toHost, Packet("REQ_DATA", dSeq', dNeed + 1))
    <2>1. dNeed' \in Image /\ dNeed' \in 0..Blocks /\ dSeq' \in Seqs
      BY <1>1, <1>7, NextNumber DEF Image
    <2>2. Packet("REQ_DATA", dSeq', dNeed') \in Packets
      BY <2>1, PacketType
    <2>3. toHost' \in Seq(Packets) /\ toHost' = Append(toHost, Packet("REQ_DATA", dSeq', dNeed'))
      BY <1>1, <1>7, <2>2
    <2>4. QED
      BY <1>2, <1>3, <1>4, <1>5, <1>7, <2>1, <2>2, <2>3
  <1>8. CASE dNeed = Blocks /\ dNeed' = 0 /\ dSeq' = dSeq /\ toHost' = Append(toHost, Plain("END"))
    <2>1. Plain("END") \in Packets
      BY <1>1, PacketType
    <2>2. toHost' \in Seq(Packets)
      BY <1>1, <1>8, <2>1
    <2>3. QED
      BY <1>2, <1>3, <1>4, <1>5, <1>8, <2>1, <2>2
  <1>9. QED
    BY <1>6, <1>7, <1>8

\* The bootloader drops a block, or reboots.
LEMMA DropEffect ==
    ASSUME TypeInv, DevDrop
    PROVE  /\ toDev # <<>> /\ toDev' = Tail(toDev) /\ toDev' \in Seq(Packets)
           /\ UNCHANGED <<toHost, dSeq, flash>>
           /\ \/ Head(toDev).cmd = "DATA" /\ ~(dNeed # 0 /\ Head(toDev).seq = dSeq) /\ dNeed' = dNeed
              \/ Head(toDev).cmd = "REBOOT" /\ dNeed' = 0
  <1>1. toDev \in Seq(Packets)
    BY DEF TypeInv, TypeOK
  <1>2. toDev # <<>> /\ toDev' = Tail(toDev)
    BY DEF DevDrop
  <1>3. toDev' \in Seq(Packets)
    BY <1>1, <1>2
  <1>4. QED
    BY <1>2, <1>3 DEF DevDrop

\* A packet is lost in one of the pipes.
LEMMA LoseEffect ==
    ASSUME TypeInv, Lose
    PROVE  /\ SameBootloader /\ UNCHANGED host /\ FaultsLeft /\ faults' # MaxFaults
           /\ toDev' \in Seq(Packets) /\ toHost' \in Seq(Packets)
           /\ \/ toDev # <<>> /\ toDev' = Tail(toDev) /\ toHost' = toHost
              \/ toHost # <<>> /\ toHost' = Tail(toHost) /\ toDev' = toDev
  <1>1. toDev \in Seq(Packets) /\ toHost \in Seq(Packets) /\ faults \in [FaultKinds -> Nat]
        /\ "lost" \in FaultKinds /\ "garbled" \in FaultKinds /\ "lost" # "garbled"
    BY DEF TypeInv, TypeOK, FaultKinds
  <1>2. Fault("lost") /\ UNCHANGED host /\ SameBootloader
        /\ \/ toDev # <<>> /\ toDev' = Tail(toDev) /\ toHost' = toHost
           \/ toHost # <<>> /\ toHost' = Tail(toHost) /\ toDev' = toDev
    BY DEF Lose, bootloader, SameBootloader
  <1>3. FaultsLeft /\ faults' # MaxFaults
    <2>1. /\ faults' \in [FaultKinds -> Nat] /\ faults' # MaxFaults
          /\ \A k \in FaultKinds : faults'[k] <= MaxFaults[k]
          /\ \A j \in FaultKinds \ {"lost"} : faults'[j] = faults[j]
      BY <1>1, <1>2, FaultUsed
    <2>2. faults'["garbled"] = faults["garbled"] /\ faults["garbled"] \in Nat
      BY <1>1, <2>1
    <2>3. faults'["garbled"] <= faults["garbled"]
      BY <2>2
    <2>4. QED
      BY <2>1, <2>3 DEF FaultsLeft
  <1>4. CASE toDev # <<>> /\ toDev' = Tail(toDev) /\ toHost' = toHost
    BY <1>1, <1>2, <1>3, <1>4, Taken
  <1>5. CASE toHost # <<>> /\ toHost' = Tail(toHost) /\ toDev' = toDev
    BY <1>1, <1>2, <1>3, <1>5, Taken
  <1>6. QED
    BY <1>2, <1>4, <1>5

-----------------------------------------------------------------------------
(* Types.                                                                  *)

\* A garbled request still asks for a block of the firmware.
Known == \A i \in Reqs : toHost[i].block \in Image

\* The types of the next state, put together.
LEMMA TypeHolds ==
    ASSUME TypeInv, toDev' \in Seq(Packets), toHost' \in Seq(Packets),
           dSeq' \in Seqs, dNeed' \in 0..Blocks, flash' \in [Image -> 0..Blocks],
           pc' \in {"idle", "id", "req"}, fw' \in [seq: Seqs, block: Image],
           ret' \in {0, 1, -1}, view' \in {"none", "uploading", "done", "failed"},
           uploads' \in 0..MaxUploads, faults' \in [FaultKinds -> Nat],
           \A k \in FaultKinds : faults'[k] <= MaxFaults[k], Known'
    PROVE  TypeInv'
  BY DEF TypeInv, TypeOK, Known

\* What stays in the pipe is what was there.
LEMMA KnownTail ==
    ASSUME TypeInv, toHost # <<>>, toHost' = Tail(toHost) PROVE Known'
  <1>1. toHost \in Seq(Packets)
    BY DEF TypeInv, TypeOK
  <1>2. SUFFICES ASSUME NEW i \in 1..Len(toHost'), toHost'[i].cmd = "REQ_DATA"
                 PROVE  toHost'[i].block \in Image
    BY DEF Known, Reqs
  <1>3. i + 1 \in 1..Len(toHost) /\ toHost'[i] = toHost[i + 1]
    BY <1>1, <1>2, Taken
  <1>4. QED
    BY <1>2, <1>3 DEF TypeInv, Reqs

\* One more packet, and requests still name blocks of the image.
LEMMA KnownAppend ==
    ASSUME NEW q \in Seq(Packets), NEW p \in Packets, toHost' = Append(q, p),
           \A i \in 1..Len(q) : q[i].cmd = "REQ_DATA" => q[i].block \in Image,
           p.cmd = "REQ_DATA" => p.block \in Image
    PROVE  Known'
  <1>2. SUFFICES ASSUME NEW i \in 1..Len(toHost'), toHost'[i].cmd = "REQ_DATA"
                 PROVE  toHost'[i].block \in Image
    BY DEF Known, Reqs
  <1>3. CASE i \in 1..Len(q)
    BY <1>2, <1>3, Added
  <1>4. CASE i = Len(q) + 1
    BY <1>2, <1>4, Added
  <1>5. QED
    BY <1>3, <1>4, Added

\* The types hold at first.
LEMMA TypeInit == Init => TypeInv
  <1> SUFFICES ASSUME Init PROVE TypeInv
    OBVIOUS
  <1>1. Blocks \in Nat \ {0} /\ SeqMod \in Nat \ {0} /\ MaxUploads \in Nat /\ MaxFaults \in [FaultKinds -> Nat]
    BY FwUploadAssumption
  <1>2. TypeOK
    BY <1>1 DEF Init, TypeOK, Seqs, Image, Empty, Nothing
  <1>3. Reqs = {}
    BY DEF Init, Reqs
  <1>4. \A k \in FaultKinds : faults[k] <= MaxFaults[k]
    BY <1>1 DEF Init
  <1>5. QED
    BY <1>2, <1>3, <1>4 DEF TypeInv

\* Every step keeps the types.
LEMMA TypeStep == TypeInv /\ [Next]_vars => TypeInv'
  <1> SUFFICES ASSUME TypeInv, [Next]_vars PROVE TypeInv'
    OBVIOUS
  <1>0. /\ toDev \in Seq(Packets) /\ toHost \in Seq(Packets) /\ dSeq \in Seqs /\ dNeed \in 0..Blocks
        /\ flash \in [Image -> 0..Blocks] /\ pc \in {"idle", "id", "req"}
        /\ fw \in [seq: Seqs, block: Image] /\ ret \in {0, 1, -1}
        /\ view \in {"none", "uploading", "done", "failed"} /\ uploads \in 0..MaxUploads
        /\ faults \in [FaultKinds -> Nat] /\ \A k \in FaultKinds : faults[k] <= MaxFaults[k]
        /\ Known /\ MaxUploads \in Nat /\ Blocks \in Nat \ {0}
    BY FwUploadAssumption DEF TypeInv, TypeOK, Known
  <1>1. CASE tf_fw_upload
    <2>1. Known' /\ uploads' \in 0..MaxUploads
      BY <1>0, <1>1, UploadEffect DEF Known, Reqs
    <2>2. QED
      BY <1>0, <1>1, <2>1, UploadEffect, TypeHolds DEF SameBootloader, FaultsLeft
  <1>2. CASE tf_fw_upload_next
    <2>1. Known'
      BY <1>0, <1>2, NextEffect DEF Known, Reqs
    <2>2. QED
      BY <1>0, <1>2, <2>1, NextEffect, TypeHolds DEF SameBootloader, FaultsLeft
  <1>3. CASE tf_fw_reboot
    <2>1. Known'
      BY <1>0, <1>3, RebootEffect DEF Known, Reqs
    <2>2. QED
      BY <1>0, <1>3, <2>1, RebootEffect, TypeHolds DEF SameBootloader, FaultsLeft
  <1>4. CASE tf_fw_upload_id
    <2>1. Known'
      BY <1>0, <1>4, IdEffect, KnownTail DEF ReplyRead, NothingRead, Known, Reqs
    <2>2. QED
      BY <1>0, <1>4, <2>1, IdEffect, TypeHolds DEF SameBootloader, FaultsLeft
  <1>5. CASE tf_wait_for_req_data
    <2>1. Known'
      BY <1>0, <1>5, WaitEffect, KnownTail DEF ReplyRead, NothingRead, Known, Reqs
    <2>2. QED
      BY <1>0, <1>5, <2>1, WaitEffect, TypeHolds DEF SameBootloader, FaultsLeft
  <1>6. CASE DevStart /\ UNCHANGED <<host, faults>>
    <2>1. ASSUME NEW q, q = Append(toHost, Plain("ID"))
          PROVE  \A i \in 1..Len(q) : q[i].cmd = "REQ_DATA" => q[i].block \in Image
      <3>1. Plain("ID") \in Packets /\ Plain("ID").cmd = "ID"
        BY <1>6, StartEffect DEF Plain, Packet
      <3>2. SUFFICES ASSUME NEW i \in 1..Len(q), q[i].cmd = "REQ_DATA" PROVE q[i].block \in Image
        OBVIOUS
      <3>3. i \in 1..Len(toHost) /\ q[i] = toHost[i]
        BY <1>0, <2>1, <3>1, <3>2, Added
      <3>4. i \in Reqs
        BY <3>2, <3>3 DEF Reqs
      <3>5. QED
        BY <1>0, <3>3, <3>4 DEF Known
    <2>2. Packet("REQ_DATA", dSeq', 1).block \in Image
      BY <1>0 DEF Packet, Image
    <2>3. Known'
      BY <1>6, <2>1, <2>2, StartEffect, KnownAppend
    <2>4. dNeed' \in 0..Blocks
      BY <1>0, <1>6, StartEffect
    <2>5. QED
      BY <1>0, <1>6, <2>3, <2>4, StartEffect, TypeHolds DEF host
  <1>7. CASE DevData /\ UNCHANGED <<host, faults>>
    <2>1. \A i \in 1..Len(toHost) : toHost[i].cmd = "REQ_DATA" => toHost[i].block \in Image
      BY <1>0 DEF Known, Reqs
    <2>2. Packet("REQ_DATA", dSeq', dNeed').block = dNeed' /\ Plain("END").cmd # "REQ_DATA"
      BY DEF Packet, Plain
    <2>3. Known' /\ dSeq' \in Seqs /\ dNeed' \in 0..Blocks /\ toHost' \in Seq(Packets)
      <3>1. CASE dNeed = Blocks /\ dNeed' = 0 /\ dSeq' = dSeq
                 /\ Plain("END") \in Packets /\ toHost' = Append(toHost, Plain("END")) /\ toHost' \in Seq(Packets)
        <4>1. Known'
          BY <1>0, <2>1, <2>2, <3>1, KnownAppend
        <4>2. QED
          BY <1>0, <3>1, <4>1
      <3>2. CASE dNeed' \in Image /\ dSeq' \in Seqs /\ Packet("REQ_DATA", dSeq', dNeed') \in Packets
                 /\ toHost' = Append(toHost, Packet("REQ_DATA", dSeq', dNeed')) /\ toHost' \in Seq(Packets)
        <4>1. Known'
          BY <1>0, <2>1, <2>2, <3>2, KnownAppend
        <4>2. QED
          BY <1>0, <3>2, <4>1 DEF Image
      <3>3. QED
        BY <1>7, <3>1, <3>2, DataEffect
    <2>4. QED
      BY <1>0, <1>7, <2>3, DataEffect, TypeHolds DEF host
  <1>8. CASE DevDrop /\ UNCHANGED <<host, faults>>
    <2>1. Known' /\ dNeed' \in 0..Blocks
      BY <1>0, <1>8, DropEffect DEF Known, Reqs
    <2>2. QED
      BY <1>0, <1>8, <2>1, DropEffect, TypeHolds DEF host
  <1>9. CASE Lose
    <2>1. Known'
      BY <1>0, <1>9, LoseEffect, KnownTail DEF Known, Reqs
    <2>2. QED
      BY <1>0, <1>9, <2>1, LoseEffect, TypeHolds DEF SameBootloader, FaultsLeft, host
  <1>10. CASE UNCHANGED vars
    <2>1. Known'
      BY <1>0, <1>10 DEF vars, pipes, Known, Reqs
    <2>2. QED
      BY <1>0, <1>10, <2>1, TypeHolds DEF vars, pipes, bootloader, host
  <1>11. QED
    BY <1>1, <1>2, <1>3, <1>4, <1>5, <1>6, <1>7, <1>8, <1>9, <1>10 DEF Next, Library, Bootloader

\* Everything the calls and the bootloader keep is of its type.
THEOREM TypeCorrect == Spec => []TypeOK
  <1>1. TypeInv => TypeOK
    BY DEF TypeInv
  <1>2. QED
    BY <1>1, TypeInit, TypeStep, PTL DEF Spec

-----------------------------------------------------------------------------
(* Without a fault there is one packet on its way, the one that the call   *)
(* in progress needs.                                                      *)

Asking == {<<Packet("REQ_DATA", dSeq, b)>> : b \in Image}
Announcing == {<<Plain("ID"), Packet("REQ_DATA", dSeq, b)>> : b \in Image}
Delivering == {<<Packet("DATA", dSeq, b)>> : b \in Image}

Clean ==
    /\ view # "failed"
    /\ pc = "idle" /\ view # "uploading" =>
           toHost = <<>> /\ toDev \in {<<>>, <<Plain("REBOOT")>>}
    /\ pc = "id" =>
           \/ toHost = <<>> /\ toDev \in {<<Plain("START")>>, <<Plain("REBOOT"), Plain("START")>>}
           \/ toDev = <<>> /\ dNeed # 0 /\ toHost \in Announcing
    /\ pc = "req" /\ view # "uploading" =>
           toDev = <<>> /\ dNeed # 0 /\ toHost \in Asking
    /\ pc = "idle" /\ view = "uploading" =>
           toDev = <<>> /\ toHost = <<>> /\ dNeed # 0 /\ fw.seq = dSeq
    /\ pc = "req" /\ view = "uploading" =>
           \/ toHost = <<>> /\ dNeed # 0 /\ toDev \in Delivering
           \/ toDev = <<>> /\ dNeed # 0 /\ toHost \in Asking
           \/ toDev = <<>> /\ toHost = <<Plain("END")>>

CleanInv == TypeInv /\ (faults = MaxFaults => Clean)

\* Queues of one and of two packets.
LEMMA Short ==
    ASSUME NEW a, NEW b
    PROVE  /\ Head(<<a>>) = a /\ Tail(<<a>>) = <<>> /\ Append(<<>>, a) = <<a>> /\ <<a>> # <<>>
           /\ Head(<<a, b>>) = a /\ Tail(<<a, b>>) = <<b>> /\ Append(<<a>>, b) = <<a, b>> /\ <<a, b>> # <<>>
  <1>1. Head(<<a>>) = a /\ <<a>> # <<>> /\ Head(<<a, b>>) = a /\ <<a, b>> # <<>>
    OBVIOUS
  <1>2. Tail(<<a>>) = <<>> /\ Append(<<>>, a) = <<a>>
    OBVIOUS
  <1>3. Tail(<<a, b>>) = <<b>>
    OBVIOUS
  <1>4. Append(<<a>>, b) = <<a, b>>
    <2> DEFINE S == {a, b}
    <2>1. <<a>> \in Seq(S) /\ <<a, b>> \in Seq(S) /\ b \in S /\ Len(<<a>>) = 1 /\ <<a>>[1] = a
      OBVIOUS
    <2>2. Len(<<a, b>>) = 2 /\ <<a, b>>[1] = a /\ <<a, b>>[2] = b
      OBVIOUS
    <2> DEFINE q == Append(<<a>>, b)
    <2>3. q \in Seq(S) /\ Len(q) = 2 /\ q[1] = a /\ q[2] = b
      BY <2>1, AppendProperties
    <2> HIDE DEF q
    <2>4. q = <<a, b>>
      <3> DEFINE t == <<a, b>>
      <3>1. t \in Seq(S) /\ Len(t) = 2 /\ t[1] = a /\ t[2] = b
        BY <2>1, <2>2
      <3> HIDE DEF t, S
      <3>2. Len(q) = Len(t) /\ \A i \in 1..Len(q) : q[i] = t[i]
        BY <2>3, <3>1
      <3>3. q = t
        BY <2>3, <3>1, <3>2, SeqEqual
      <3>4. QED
        BY <3>3 DEF t
    <2>5. QED
      BY <2>4 DEF q
  <1>5. QED
    BY <1>1, <1>2, <1>3, <1>4

\* The fields of a packet.
LEMMA Names ==
    ASSUME NEW c, NEW s, NEW b
    PROVE  Plain(c).cmd = c /\ Packet(c, s, b).cmd = c /\ Packet(c, s, b).seq = s /\ Packet(c, s, b).block = b
  BY DEF Plain, Packet

\* Before the first fault, the pipes are in one of a few states.
LEMMA CleanStep == CleanInv /\ [Next]_vars => CleanInv'
  <1> SUFFICES ASSUME CleanInv, [Next]_vars PROVE CleanInv'
    OBVIOUS
  <1>0. TypeInv /\ TypeInv' /\ 0 \notin Image /\ 1 \in Image
    BY TypeStep, FwUploadAssumption DEF CleanInv, Image
  <1> SUFFICES ASSUME faults' = MaxFaults PROVE Clean'
    BY <1>0 DEF CleanInv
  <1>1. CASE tf_fw_upload
    <2>1. /\ faults = MaxFaults /\ pc = "idle" /\ view = "none" /\ pc' = "id" /\ view' = "none"
          /\ toHost' = toHost /\ toDev' = Append(toDev, Plain("START"))
      BY <1>0, <1>1, UploadEffect DEF FaultsLeft, CleanInv, Clean
    <2>2. toHost = <<>> /\ toDev \in {<<>>, <<Plain("REBOOT")>>}
      BY <2>1 DEF CleanInv, Clean
    <2>3. toDev' \in {<<Plain("START")>>, <<Plain("REBOOT"), Plain("START")>>}
      BY <2>1, <2>2, Short
    <2>4. QED
      BY <2>1, <2>2, <2>3 DEF Clean
  <1>2. CASE tf_fw_upload_next
    <2>1. /\ faults = MaxFaults /\ pc = "idle" /\ view = "uploading" /\ pc' = "req" /\ view' = "uploading"
          /\ toHost' = toHost /\ toDev' = Append(toDev, Packet("DATA", fw.seq, fw.block))
          /\ dSeq' = dSeq /\ dNeed' = dNeed
      BY <1>0, <1>2, NextEffect DEF FaultsLeft, SameBootloader
    <2>2. toDev = <<>> /\ toHost = <<>> /\ dNeed # 0 /\ fw.seq = dSeq /\ fw.block \in Image
      BY <2>1 DEF CleanInv, Clean, TypeInv, TypeOK
    <2>3. toDev' = <<Packet("DATA", dSeq', fw.block)>>
      BY <2>1, <2>2, Short
    <2>4. toDev' \in Delivering'
      BY <2>2, <2>3 DEF Delivering
    <2>5. QED
      BY <2>1, <2>2, <2>4 DEF Clean
  <1>3. CASE tf_fw_reboot
    <2>1. /\ faults = MaxFaults /\ pc = "idle" /\ view # "uploading" /\ pc' = pc /\ view' = view
          /\ toHost' = toHost /\ toDev = <<>> /\ MayAppend(Plain("REBOOT"))
      BY <1>0, <1>3, RebootEffect DEF FaultsLeft
    <2>2. toHost = <<>> /\ view # "failed"
      BY <2>1 DEF CleanInv, Clean
    <2>3. toDev' \in {<<>>, <<Plain("REBOOT")>>}
      BY <2>1, Short DEF MayAppend
    <2>4. QED
      BY <2>1, <2>2, <2>3 DEF Clean
  <1>4. CASE tf_fw_upload_id
    <2>1. faults = MaxFaults /\ pc = "id" /\ toDev' = toDev /\ dSeq' = dSeq /\ dNeed' = dNeed
      BY <1>0, <1>4, IdEffect DEF FaultsLeft, SameBootloader
    <2>2. CASE pc' = "req" /\ view' = view /\ ReplyRead /\ Head(toHost).cmd = "ID"
      <3>1. toDev = <<>> /\ dNeed # 0 /\ toHost \in Announcing
        BY <2>1, <2>2 DEF CleanInv, Clean, ReplyRead
      <3>2. PICK b \in Image : toHost = <<Plain("ID"), Packet("REQ_DATA", dSeq, b)>>
        BY <3>1 DEF Announcing
      <3>3. toHost' = <<Packet("REQ_DATA", dSeq', b)>>
        BY <2>1, <2>2, <3>2, Short DEF ReplyRead
      <3>4. toHost' \in Asking'
        BY <3>3 DEF Asking
      <3>5. QED
        BY <2>1, <2>2, <3>1, <3>4 DEF CleanInv, Clean
    <2>3. CASE NoReply({"ID"})
      <3>1. \/ toHost = <<>> /\ toDev = <<>>
            \/ toHost # <<>> /\ Head(toHost).cmd # "ID"
        BY <2>3 DEF NoReply
      <3>2. \/ toHost = <<>> /\ toDev \in {<<Plain("START")>>, <<Plain("REBOOT"), Plain("START")>>}
            \/ toDev = <<>> /\ dNeed # 0 /\ toHost \in Announcing
        BY <2>1 DEF CleanInv, Clean
      <3>3. \A q \in Announcing : q # <<>> /\ Head(q).cmd = "ID"
        BY Short, Names DEF Announcing
      <3>4. <<Plain("START")>> # <<>> /\ <<Plain("REBOOT"), Plain("START")>> # <<>>
        BY Short
      <3>5. \/ toDev # <<>> /\ toHost = <<>>
            \/ toHost # <<>> /\ Head(toHost).cmd = "ID"
        BY <3>2, <3>3, <3>4
      <3>6. QED
        BY <3>1, <3>5
    <2>4. QED
      BY <1>0, <1>4, <2>2, <2>3, IdEffect
  <1>5. CASE tf_wait_for_req_data
    <2>1. faults = MaxFaults /\ pc = "req" /\ pc' = "idle" /\ toDev' = toDev /\ dSeq' = dSeq /\ dNeed' = dNeed
      BY <1>0, <1>5, WaitEffect DEF FaultsLeft, SameBootloader
    <2>2. /\ view # "failed"
          /\ \/ toHost = <<>> /\ dNeed # 0 /\ toDev \in Delivering
             \/ toDev = <<>> /\ dNeed # 0 /\ toHost \in Asking
             \/ toDev = <<>> /\ toHost = <<Plain("END")>>
      BY <2>1 DEF CleanInv, Clean
    <2>3. /\ \A q \in Asking : q # <<>> /\ Head(q).cmd = "REQ_DATA" /\ Head(q).seq = dSeq /\ Tail(q) = <<>>
          /\ \A q \in Delivering : q # <<>>
          /\ <<Plain("END")>> # <<>> /\ Head(<<Plain("END")>>).cmd = "END" /\ Tail(<<Plain("END")>>) = <<>>
      <3>1. ASSUME NEW b
            PROVE  LET p == Packet("REQ_DATA", dSeq, b) IN
                   <<p>> # <<>> /\ Head(<<p>>) = p /\ Tail(<<p>>) = <<>> /\ p.cmd = "REQ_DATA" /\ p.seq = dSeq
        BY Short, Names
      <3>2. \A q \in Asking : q # <<>> /\ Head(q).cmd = "REQ_DATA" /\ Head(q).seq = dSeq /\ Tail(q) = <<>>
        BY <3>1 DEF Asking
      <3>3. \A q \in Delivering : q # <<>>
        BY Short DEF Delivering
      <3>4. <<Plain("END")>> # <<>> /\ Head(<<Plain("END")>>).cmd = "END" /\ Tail(<<Plain("END")>>) = <<>>
        BY Short, Names
      <3>5. QED
        BY <3>2, <3>3, <3>4
    <2>4. CASE view' = "uploading" /\ ReplyRead /\ Head(toHost).cmd = "REQ_DATA" /\ fw'.seq = Head(toHost).seq
      <3>1. toDev = <<>> /\ dNeed # 0 /\ toHost \in Asking
        BY <2>2, <2>3, <2>4 DEF ReplyRead
      <3>2. toDev' = <<>> /\ toHost' = <<>> /\ dNeed' # 0 /\ fw'.seq = dSeq'
        BY <2>1, <2>3, <2>4, <3>1 DEF ReplyRead
      <3>3. QED
        BY <2>1, <2>4, <3>2 DEF Clean
    <2>5. CASE view' = "done" /\ ReplyRead /\ Head(toHost).cmd = "END"
      <3>1. toDev = <<>> /\ toHost = <<Plain("END")>>
        BY <2>2, <2>3, <2>5 DEF ReplyRead
      <3>2. QED
        BY <2>1, <2>3, <2>5, <3>1 DEF Clean, ReplyRead
    <2>6. CASE NoReply({"REQ_DATA", "END"})
      <3>1. \/ toHost = <<>> /\ toDev = <<>>
            \/ toHost # <<>> /\ Head(toHost).cmd \notin {"REQ_DATA", "END"}
        BY <2>6 DEF NoReply
      <3>2. \/ toHost = <<>> /\ toDev # <<>>
            \/ toHost # <<>> /\ Head(toHost).cmd \in {"REQ_DATA", "END"}
        BY <2>2, <2>3
      <3>3. QED
        BY <3>1, <3>2
    <2>7. QED
      BY <1>0, <1>5, <2>4, <2>5, <2>6, WaitEffect
  <1>6. CASE DevStart /\ UNCHANGED <<host, faults>>
    <2>1. /\ faults = MaxFaults /\ pc' = pc /\ view' = view /\ dNeed' = 1
          /\ toDev # <<>> /\ Head(toDev).cmd = "START" /\ toDev' = Tail(toDev)
          /\ toHost' = Append(Append(toHost, Plain("ID")), Packet("REQ_DATA", dSeq', 1))
      BY <1>0, <1>6, StartEffect DEF host
    <2>2. \A q \in Delivering : Head(q).cmd = "DATA"
      BY Short, Names DEF Delivering
    <2>3. /\ Head(<<Plain("REBOOT")>>).cmd = "REBOOT" /\ Head(<<Plain("REBOOT"), Plain("START")>>).cmd = "REBOOT"
          /\ Tail(<<Plain("START")>>) = <<>>
      BY Short, Names
    <2>4. pc = "id" /\ view # "failed" /\ toHost = <<>> /\ toDev = <<Plain("START")>>
      <3>1. Clean /\ pc \in {"idle", "id", "req"}
        BY <2>1 DEF CleanInv, TypeInv, TypeOK
      <3>2. CASE pc = "idle"
        BY <2>1, <2>3, <3>1, <3>2 DEF Clean
      <3>3. CASE pc = "req"
        BY <2>1, <2>2, <3>1, <3>3 DEF Clean
      <3>4. CASE pc = "id"
        BY <2>1, <2>3, <3>1, <3>4 DEF Clean
      <3>5. QED
        BY <3>1, <3>2, <3>3, <3>4
    <2>5. toDev' = <<>> /\ toHost' = <<Plain("ID"), Packet("REQ_DATA", dSeq', 1)>>
      <3>1. toDev' = <<>> /\ toHost' = Append(Append(<<>>, Plain("ID")), Packet("REQ_DATA", dSeq', 1))
        BY <2>1, <2>3, <2>4
      <3>2. \A a, b : Append(Append(<<>>, a), b) = <<a, b>>
        BY Short
      <3>3. QED
        BY <3>1, <3>2
    <2>6. toHost' \in Announcing'
      BY <1>0, <2>5 DEF Announcing
    <2>7. QED
      BY <2>1, <2>4, <2>5, <2>6 DEF Clean
  <1>7. CASE DevData /\ UNCHANGED <<host, faults>>
    <2>1. /\ faults = MaxFaults /\ pc' = pc /\ view' = view
          /\ toDev # <<>> /\ Head(toDev).cmd = "DATA" /\ toDev' = Tail(toDev)
          /\ \/ /\ dNeed' # 0 /\ dNeed' \in Image
                /\ toHost' = Append(toHost, Packet("REQ_DATA", dSeq', dNeed'))
             \/ toHost' = Append(toHost, Plain("END"))
      BY <1>0, <1>7, DataEffect DEF host
    <2>2. \A q \in Delivering : Tail(q) = <<>>
      BY Short DEF Delivering
    <2>3. /\ Head(<<Plain("REBOOT")>>).cmd = "REBOOT" /\ Head(<<Plain("REBOOT"), Plain("START")>>).cmd = "REBOOT"
          /\ Head(<<Plain("START")>>).cmd = "START"
      BY Short, Names
    <2>4. pc = "req" /\ view = "uploading" /\ toHost = <<>> /\ toDev \in Delivering
      BY <1>0, <2>1, <2>3 DEF CleanInv, Clean, TypeInv, TypeOK
    <2>5. toDev' = <<>>
      BY <2>1, <2>2, <2>4
    <2>6. \/ dNeed' # 0 /\ toHost' \in Asking'
          \/ toHost' = <<Plain("END")>>
      BY <2>1, <2>4, Short DEF Asking
    <2>7. QED
      BY <2>1, <2>4, <2>5, <2>6 DEF Clean
  <1>8. CASE DevDrop /\ UNCHANGED <<host, faults>>
    <2>1. /\ faults = MaxFaults /\ pc' = pc /\ view' = view /\ toDev # <<>> /\ toDev' = Tail(toDev)
          /\ toHost' = toHost
          /\ \/ Head(toDev).cmd = "DATA" /\ ~(dNeed # 0 /\ Head(toDev).seq = dSeq)
             \/ Head(toDev).cmd = "REBOOT"
      BY <1>0, <1>8, DropEffect DEF host
    <2>2. \A q \in Delivering : Head(q).cmd = "DATA" /\ Head(q).seq = dSeq
      BY Short, Names DEF Delivering
    <2>3. /\ Tail(<<Plain("REBOOT"), Plain("START")>>) = <<Plain("START")>>
          /\ Head(<<Plain("START")>>).cmd = "START" /\ Tail(<<Plain("REBOOT")>>) = <<>>
      BY Short, Names
    <2>4. \/ /\ pc = "idle" /\ view \notin {"uploading", "failed"} /\ toHost = <<>> /\ toDev = <<Plain("REBOOT")>>
          \/ /\ pc = "id" /\ view # "failed" /\ toHost = <<>> /\ toDev = <<Plain("REBOOT"), Plain("START")>>
      BY <1>0, <2>1, <2>2, <2>3 DEF CleanInv, Clean, TypeInv, TypeOK
    <2>5. QED
      BY <2>1, <2>3, <2>4 DEF Clean
  <1>9. CASE Lose
    BY <1>0, <1>9, LoseEffect
  <1>10. CASE UNCHANGED vars
    BY <1>10 DEF vars, pipes, bootloader, host, CleanInv, Clean, Asking, Announcing, Delivering
  <1>11. QED
    BY <1>1, <1>2, <1>3, <1>4, <1>5, <1>6, <1>7, <1>8, <1>9, <1>10 DEF Next, Library, Bootloader

\* FailsForAReason: each request is answered with the block and the sequence
\* number that it asks for, so that no upload fails, however often it is
\* tried, unless a packet was late, lost, short or garbled before.
THEOREM NoFailureByItself == Spec => []FailsForAReason
  <1>1. Init => CleanInv
    <2> SUFFICES ASSUME Init PROVE CleanInv
      OBVIOUS
    <2>1. Clean
      BY DEF Init, Clean
    <2>2. QED
      BY <2>1, TypeInit DEF CleanInv
  <1>2. CleanInv => FailsForAReason
    BY DEF CleanInv, Clean, FailsForAReason
  <1>3. QED
    BY <1>1, <1>2, CleanStep, PTL DEF Spec

-----------------------------------------------------------------------------
(* What is on its way, and how old it is.                                  *)

At(q, c) == {i \in 1..Len(q) : q[i].cmd = c}
Starts(q) == Cardinality(At(q, "START"))

\* How many requests ago, of a bootloader that is at d, s was asked for.
Age(d, s) == IF s <= d THEN d - s ELSE d + SeqMod - s

\* An age is less than the number of sequence numbers.
LEMMA AgeRange == \A d, s \in Seqs : Age(d, s) \in Nat /\ Age(d, s) < SeqMod /\ Age(d, d) = 0
  BY FwUploadAssumption DEF Age, Seqs

\* A number that does not come round again grows older by one.
LEMMA AgeGrows ==
    ASSUME NEW d \in Seqs, NEW s \in Seqs, Age(d, s) + 1 < SeqMod
    PROVE  Age(NextSeq(d), s) = Age(d, s) + 1
  BY NextNumber, FwUploadAssumption DEF Age, Seqs

\* Only the last number has the age 0.
LEMMA AgeZero ==
    ASSUME NEW d \in Seqs, NEW s \in Seqs, Age(d, s) = 0 PROVE s = d
  BY FwUploadAssumption DEF Age, Seqs

\* The fields of a packet have their types.
LEMMA Fields == \A p \in Packets : p.seq \in Seqs /\ p.block \in 0..Blocks
  BY DEF Packets

\* The places of a command are places of packets.
LEMMA AtIndex ==
    ASSUME NEW q \in Seq(Packets), NEW c
    PROVE  \A i \in At(q, c) : i \in Nat /\ i \in 1..Len(q) /\ q[i].cmd = c /\ q[i] \in Packets /\ q[i].seq \in Seqs
  <1>1. SUFFICES ASSUME NEW i \in At(q, c)
                 PROVE  i \in Nat /\ i \in 1..Len(q) /\ q[i].cmd = c /\ q[i] \in Packets /\ q[i].seq \in Seqs
    OBVIOUS
  <1>2. i \in 1..Len(q) /\ q[i].cmd = c
    BY DEF At
  <1>3. q[i] \in Packets /\ i \in Nat
    BY <1>2
  <1>4. QED
    BY <1>2, <1>3, Fields

\* The places in a queue of which the first packet was taken.
LEMMA AtTail ==
    ASSUME NEW q \in Seq(Packets), q # <<>>, NEW c
    PROVE  \A i \in At(Tail(q), c) : i \in Nat /\ i + 1 \in At(q, c) /\ Tail(q)[i] = q[i + 1]
  <1>1. SUFFICES ASSUME NEW i \in At(Tail(q), c)
                 PROVE  i \in Nat /\ i + 1 \in At(q, c) /\ Tail(q)[i] = q[i + 1]
    OBVIOUS
  <1>2. i \in 1..Len(Tail(q)) /\ Tail(q)[i].cmd = c
    BY DEF At
  <1>3. i \in Nat /\ Tail(q)[i] = q[i + 1] /\ i + 1 \in 1..Len(q)
    BY <1>2, Taken
  <1>4. QED
    BY <1>2, <1>3 DEF At

\* t is q with p added.
Longer(t, q, p) == t = Append(q, p)

\* The places in a queue to which a packet was added.
LEMMA AtAppend ==
    ASSUME NEW q \in Seq(Packets), NEW p \in Packets, NEW c, NEW t, Longer(t, q, p)
    PROVE  /\ \A i \in At(t, c) : i \in At(q, c) \/ i = Len(q) + 1
           /\ \A i \in At(q, c) : t[i] = q[i]
           /\ t[Len(q) + 1] = p
           /\ p.cmd # c => \A i \in At(t, c) : i \in At(q, c)
  <1>1. /\ t \in Seq(Packets) /\ Len(t) = Len(q) + 1 /\ Len(q) \in Nat
        /\ \A i \in 1..Len(q) : t[i] = q[i]
        /\ t[Len(q) + 1] = p
    BY Added DEF Longer
  <1>2. ASSUME NEW i \in At(t, c)
        PROVE  i \in At(q, c) \/ (i = Len(q) + 1 /\ p.cmd = c)
    <2>1. i \in 1..Len(t) /\ t[i].cmd = c
      BY DEF At
    <2>2. CASE i \in 1..Len(q)
      BY <1>1, <2>1, <2>2 DEF At
    <2>3. CASE i = Len(q) + 1
      BY <1>1, <2>1, <2>3
    <2>4. QED
      BY <1>1, <2>1, <2>2, <2>3
  <1>3. \A i \in At(q, c) : t[i] = q[i]
    BY <1>1 DEF At
  <1>4. QED
    BY <1>1, <1>2, <1>3

\* Such a place is an old one or the new one.
LEMMA AtAdded ==
    ASSUME NEW q \in Seq(Packets), NEW p \in Packets, NEW c, NEW t, Longer(t, q, p)
    PROVE  \A i \in At(t, c) : \/ i \in At(q, c) /\ t[i] = q[i] /\ i < Len(q) + 1
                               \/ i = Len(q) + 1 /\ t[i] = p
  <1>1. \A i \in At(q, c) : i < Len(q) + 1 /\ t[i] = q[i]
    <2>1. Len(q) \in Nat /\ \A i \in 1..Len(q) : t[i] = q[i]
      BY Added DEF Longer
    <2>2. \A i \in At(q, c) : i \in 1..Len(q)
      BY DEF At
    <2>3. QED
      BY <2>1, <2>2
  <1>2. t[Len(q) + 1] = p /\ \A i \in At(t, c) : i \in At(q, c) \/ i = Len(q) + 1
    BY AtAppend
  <1>3. QED
    BY <1>1, <1>2

\* The uploads on their way to the bootloader are finitely many.
LEMMA StartsNat ==
    ASSUME NEW q \in Seq(Packets)
    PROVE  Starts(q) \in Nat /\ IsFiniteSet(At(q, "START"))
  <1>1. IsFiniteSet(1..Len(q))
    BY FS_Interval
  <1>2. At(q, "START") \subseteq 1..Len(q)
    BY DEF At
  <1>3. QED
    BY <1>1, <1>2, FS_Subset, FS_CardinalityType DEF Starts

\* Only a START adds to them.
LEMMA StartsAppend ==
    ASSUME NEW q \in Seq(Packets), NEW p \in Packets
    PROVE  Starts(Append(q, p)) <= IF p.cmd = "START" THEN Starts(q) + 1 ELSE Starts(q)
  <1> DEFINE A == At(q, "START")  B == At(Append(q, p), "START")
  <1>1. IsFiniteSet(A) /\ Cardinality(A) \in Nat /\ Cardinality(B) \in Nat /\ IsFiniteSet(B)
    BY StartsNat, Added DEF Starts
  <1>2. CASE p.cmd = "START"
    <2>1. B \subseteq A \cup {Len(q) + 1}
      <3>1. \A t : Longer(t, q, p) => At(t, "START") \subseteq A \cup {Len(q) + 1}
        BY AtAppend
      <3>2. QED
        BY <3>1 DEF Longer
    <2> HIDE DEF A, B
    <2>2. IsFiniteSet(A \cup {Len(q) + 1}) /\ Cardinality(A \cup {Len(q) + 1}) <= Cardinality(A) + 1
      <3>1. ASSUME NEW x
            PROVE  /\ IsFiniteSet(A \cup {x})
                   /\ Cardinality(A \cup {x}) = IF x \in A THEN Cardinality(A) ELSE Cardinality(A) + 1
        BY <1>1, FS_AddElement
      <3>2. ASSUME NEW x PROVE Cardinality(A \cup {x}) <= Cardinality(A) + 1
        <4>1. PICK n : n = Cardinality(A \cup {x})
          OBVIOUS
        <4>2. n = Cardinality(A) \/ n = Cardinality(A) + 1
          BY <3>1, <4>1
        <4>3. n <= Cardinality(A) + 1
          BY <1>1, <4>2
        <4>4. QED
          BY <4>1, <4>3
      <3>3. QED
        BY <3>1, <3>2
    <2>3. Cardinality(B) <= Cardinality(A \cup {Len(q) + 1})
      BY <2>1, <2>2, FS_Subset
    <2>4. Cardinality(A \cup {Len(q) + 1}) \in Nat
      BY <2>2, FS_CardinalityType
    <2>5. Cardinality(B) <= Cardinality(A) + 1
      BY <1>1, <2>2, <2>3, <2>4
    <2>6. QED
      BY <1>2, <2>5 DEF Starts, A, B
  <1>3. CASE p.cmd # "START"
    <2>1. B \subseteq A
      <3>1. \A t : Longer(t, q, p) => At(t, "START") \subseteq A
        BY <1>3, AtAppend
      <3>2. QED
        BY <3>1 DEF Longer
    <2>2. Cardinality(B) <= Cardinality(A)
      BY <1>1, <2>1, FS_Subset
    <2>3. QED
      BY <1>3, <2>2 DEF Starts
  <1>4. QED
    BY <1>2, <1>3

\* Taking a START takes one of them away.
LEMMA StartsTail ==
    ASSUME NEW q \in Seq(Packets), q # <<>>
    PROVE  /\ Starts(Tail(q)) <= Starts(q)
           /\ Head(q).cmd = "START" => Starts(Tail(q)) + 1 <= Starts(q)
  <1> DEFINE A == At(q, "START")  B == At(Tail(q), "START")  f == [i \in B |-> i + 1]
  <1>1. /\ IsFiniteSet(A) /\ Cardinality(A) \in Nat /\ IsFiniteSet(B) /\ Cardinality(B) \in Nat
        /\ A \subseteq Nat /\ B \subseteq Nat
    BY StartsNat, Taken, AtIndex DEF Starts
  <1>2. ASSUME NEW C, C \subseteq A, \A i \in B : i + 1 \in C
        PROVE  Cardinality(B) <= Cardinality(C)
    <2>1. IsFiniteSet(C) /\ Cardinality(C) \in Nat
      BY <1>1, <1>2, FS_Subset, FS_CardinalityType
    <2>2. f \in Injection(B, C)
      BY <1>1, <1>2 DEF Injection, IsInjective
    <2> HIDE DEF f, B
    <2>3. QED
      BY <2>1, <2>2, FS_Injection
  <1>3. \A i \in B : i + 1 \in A /\ i + 1 # 1
    <2>1. \A i \in B : i + 1 \in A
      BY AtTail
    <2>2. \A i \in B : i \in 1..Len(Tail(q))
      BY DEF At
    <2>3. QED
      BY <2>1, <2>2, Taken
  <1> HIDE DEF A, B
  <1>4. Cardinality(B) <= Cardinality(A)
    BY <1>2, <1>3
  <1>5. ASSUME Head(q).cmd = "START" PROVE Cardinality(B) + 1 <= Cardinality(A)
    <2>1. 1 \in A
      BY <1>5, Taken DEF At, A
    <2>2. Cardinality(A \ {1}) = Cardinality(A) - 1
      BY <1>1, <2>1, FS_RemoveElement
    <2>3. Cardinality(B) <= Cardinality(A \ {1})
      <3>1. A \ {1} \subseteq A /\ \A i \in B : i + 1 \in A \ {1}
        BY <1>3
      <3>2. QED
        BY <1>2, <3>1
    <2>4. QED
      BY <1>1, <2>2, <2>3
  <1>6. QED
    BY <1>4, <1>5 DEF Starts, A, B

-----------------------------------------------------------------------------
(* Requests and their blocks, in the order in which they were asked for:   *)
(* the blocks in q, then what the caller is about to answer (F), then the  *)
(* requests in h.  n uploads were started, and d is the number of the last *)
(* request.                                                                *)

Valid(d, q, F, h, n) ==
    /\ d \in Seqs /\ q \in Seq(Packets) /\ h \in Seq(Packets) /\ n \in Nat
    /\ F \subseteq [seq: Seqs, block: Image]

InOrder(d, q, F, h, n) ==
    /\ \A i \in At(q, "DATA") : Age(d, q[i].seq) + Starts(q) < n
    /\ \A f \in F : Age(d, f.seq) + Starts(q) < n
    /\ \A j \in At(h, "REQ_DATA") : Age(d, h[j].seq) + Starts(q) < n
    /\ \A i, j \in At(q, "DATA") : i < j => Age(d, q[j].seq) < Age(d, q[i].seq)
    /\ \A i \in At(q, "DATA"), f \in F : Age(d, f.seq) < Age(d, q[i].seq)
    /\ \A i \in At(q, "DATA"), j \in At(h, "REQ_DATA") : Age(d, h[j].seq) < Age(d, q[i].seq)
    /\ \A f \in F, j \in At(h, "REQ_DATA") : Age(d, h[j].seq) < Age(d, f.seq)
    /\ \A i, j \in At(h, "REQ_DATA") : i < j => Age(d, h[j].seq) < Age(d, h[i].seq)
    /\ Starts(q) <= n

\* What answers the last request is the block that it asks for.
Right(d, q, F, h, need, fl) ==
    need # 0 =>
        /\ \A i \in At(q, "DATA") : Age(d, q[i].seq) = 0 => q[i].block = need
        /\ \A f \in F : Age(d, f.seq) = 0 => f.block = need
        /\ \A j \in At(h, "REQ_DATA") : Age(d, h[j].seq) = 0 => h[j].block = need
        /\ \A b \in 1..(need - 1) : fl[b] = b

\* Ages and numbers of uploads are natural numbers.
LEMMA Ages ==
    ASSUME NEW d, NEW q, NEW F, NEW h, NEW n, Valid(d, q, F, h, n)
    PROVE  /\ \A i \in At(q, "DATA") : Age(d, q[i].seq) \in Nat /\ i \in Nat
           /\ \A f \in F : Age(d, f.seq) \in Nat
           /\ \A j \in At(h, "REQ_DATA") : Age(d, h[j].seq) \in Nat /\ j \in Nat
           /\ Starts(q) \in Nat /\ n \in Nat
  <1>1. \A i \in At(q, "DATA") : Age(d, q[i].seq) \in Nat /\ i \in Nat
    BY AtIndex, AgeRange DEF Valid
  <1>2. \A j \in At(h, "REQ_DATA") : Age(d, h[j].seq) \in Nat /\ j \in Nat
    BY AtIndex, AgeRange DEF Valid
  <1>3. \A f \in F : Age(d, f.seq) \in Nat
    BY AgeRange DEF Valid
  <1>4. QED
    BY <1>1, <1>2, <1>3, StartsNat DEF Valid

\* A packet is taken from q, or from h.
LEMMA OrderTake ==
    ASSUME NEW d, NEW q, NEW F, NEW h, NEW n, Valid(d, q, F, h, n), q # <<>>, InOrder(d, q, F, h, n)
    PROVE  Valid(d, Tail(q), F, h, n) /\ InOrder(d, Tail(q), F, h, n)
  <1> DEFINE t == Tail(q)
  <1>1. Valid(d, t, F, h, n)
    BY Taken DEF Valid
  <1>2. \A i \in At(t, "DATA") : i \in Nat /\ i + 1 \in At(q, "DATA") /\ t[i] = q[i + 1]
    BY AtTail DEF Valid
  <1>3. Starts(t) <= Starts(q) /\ Starts(t) \in Nat /\ Starts(q) \in Nat
    BY <1>1, StartsTail, StartsNat DEF Valid
  <1> HIDE DEF t
  <1>4. /\ \A i \in At(t, "DATA") : Age(d, t[i].seq) + Starts(t) < n
        /\ \A f \in F : Age(d, f.seq) + Starts(t) < n
        /\ \A j \in At(h, "REQ_DATA") : Age(d, h[j].seq) + Starts(t) < n
        /\ Starts(t) <= n
    BY <1>1, <1>2, <1>3, Ages DEF InOrder
  <1>5. /\ \A i, j \in At(t, "DATA") : i < j => Age(d, t[j].seq) < Age(d, t[i].seq)
        /\ \A i \in At(t, "DATA"), f \in F : Age(d, f.seq) < Age(d, t[i].seq)
        /\ \A i \in At(t, "DATA"), j \in At(h, "REQ_DATA") : Age(d, h[j].seq) < Age(d, t[i].seq)
    BY <1>2 DEF InOrder
  <1>6. InOrder(d, t, F, h, n)
    BY <1>4, <1>5 DEF InOrder
  <1>7. QED
    BY <1>1, <1>6 DEF t

\* Reading an answer keeps the order of ages.
LEMMA OrderRead ==
    ASSUME NEW d, NEW q, NEW F, NEW h, NEW n, Valid(d, q, F, h, n), h # <<>>, InOrder(d, q, F, h, n)
    PROVE  Valid(d, q, F, Tail(h), n) /\ InOrder(d, q, F, Tail(h), n)
  <1> DEFINE t == Tail(h)
  <1>1. Valid(d, q, F, t, n)
    BY Taken DEF Valid
  <1>2. \A i \in At(t, "REQ_DATA") : i \in Nat /\ i + 1 \in At(h, "REQ_DATA") /\ t[i] = h[i + 1]
    BY AtTail DEF Valid
  <1> HIDE DEF t
  <1>3. /\ \A j \in At(t, "REQ_DATA") : Age(d, t[j].seq) + Starts(q) < n
        /\ \A i \in At(q, "DATA"), j \in At(t, "REQ_DATA") : Age(d, t[j].seq) < Age(d, q[i].seq)
        /\ \A f \in F, j \in At(t, "REQ_DATA") : Age(d, t[j].seq) < Age(d, f.seq)
        /\ \A i, j \in At(t, "REQ_DATA") : i < j => Age(d, t[j].seq) < Age(d, t[i].seq)
    BY <1>2 DEF InOrder
  <1>4. InOrder(d, q, F, t, n)
    BY <1>3 DEF InOrder
  <1>5. QED
    BY <1>1, <1>4 DEF t

\* The request at the head of h becomes the one that is about to be answered.
LEMMA OrderAnswer ==
    ASSUME NEW d, NEW q, NEW F, NEW h, NEW n, Valid(d, q, F, h, n), h # <<>>, InOrder(d, q, F, h, n),
           Head(h).cmd = "REQ_DATA",
           NEW f \in [seq: Seqs, block: Image], f.seq = Head(h).seq
    PROVE  Valid(d, q, {f}, Tail(h), n) /\ InOrder(d, q, {f}, Tail(h), n)
  <1>1. Valid(d, q, F, Tail(h), n) /\ InOrder(d, q, F, Tail(h), n)
    BY OrderRead
  <1>2. 1 \in At(h, "REQ_DATA") /\ h[1].seq = f.seq
    BY Taken DEF Valid, At
  <1>3. \A j \in At(Tail(h), "REQ_DATA") : Age(d, Tail(h)[j].seq) < Age(d, f.seq)
    <2>1. SUFFICES ASSUME NEW j \in At(Tail(h), "REQ_DATA")
                   PROVE  Age(d, Tail(h)[j].seq) < Age(d, f.seq)
      OBVIOUS
    <2>2. j \in Nat /\ j + 1 \in At(h, "REQ_DATA") /\ Tail(h)[j] = h[j + 1] /\ j # 0
      <3>1. j \in Nat /\ j + 1 \in At(h, "REQ_DATA") /\ Tail(h)[j] = h[j + 1]
        BY AtTail DEF Valid
      <3>2. j \in 1..Len(Tail(h))
        BY DEF At
      <3>3. QED
        BY <3>1, <3>2
    <2>3. 1 < j + 1
      BY <2>2
    <2>4. QED
      BY <1>2, <2>2, <2>3 DEF InOrder
  <1>4. Age(d, f.seq) + Starts(q) < n /\ \A i \in At(q, "DATA") : Age(d, f.seq) < Age(d, q[i].seq)
    BY <1>2 DEF InOrder
  <1>5. Valid(d, q, {f}, Tail(h), n)
    BY <1>1 DEF Valid
  <1>6. InOrder(d, q, {f}, Tail(h), n)
    BY <1>1, <1>3, <1>4 DEF InOrder
  <1>7. QED
    BY <1>5, <1>6

\* So does forgetting the request that was to be answered.
LEMMA OrderForget ==
    ASSUME NEW d, NEW q, NEW F, NEW h, NEW n, Valid(d, q, F, h, n), InOrder(d, q, F, h, n)
    PROVE  Valid(d, q, {}, h, n) /\ InOrder(d, q, {}, h, n)
  BY DEF Valid, InOrder

\* START or REBOOT is sent; the upload that START begins counts.
LEMMA OrderSend ==
    ASSUME NEW d, NEW q, NEW F, NEW h, NEW n, Valid(d, q, F, h, n), InOrder(d, q, F, h, n),
           NEW p \in Packets, p.cmd # "DATA", NEW m \in Nat,
           m >= IF p.cmd = "START" THEN n + 1 ELSE n
    PROVE  /\ Valid(d, Append(q, p), F, h, m) /\ InOrder(d, Append(q, p), F, h, m)
           /\ Valid(d, q, F, h, m) /\ InOrder(d, q, F, h, m)
  <1> DEFINE t == Append(q, p)
  <1>1. Valid(d, t, F, h, m) /\ Valid(d, q, F, h, m)
    BY Added DEF Valid
  <1>2. \A i \in At(t, "DATA") : i \in At(q, "DATA") /\ t[i] = q[i]
    <2>1. q \in Seq(Packets) /\ Longer(t, q, p)
      BY DEF Valid, Longer
    <2> HIDE DEF t
    <2>2. QED
      BY <2>1, AtAppend
  <1>3. Starts(t) <= (IF p.cmd = "START" THEN Starts(q) + 1 ELSE Starts(q))
    BY StartsAppend DEF Valid
  <1>4. Starts(t) \in Nat /\ Starts(q) \in Nat /\ n \in Nat
    BY <1>1, StartsNat DEF Valid
  <1> HIDE DEF t
  <1>5. n <= m /\ \A a \in Nat : a + Starts(q) < n => a + Starts(t) < m
    <2>1. CASE p.cmd = "START"
      BY <1>3, <1>4, <2>1
    <2>2. CASE p.cmd # "START"
      BY <1>3, <1>4, <2>2
    <2>3. QED
      BY <2>1, <2>2
  <1>6. Starts(t) <= m /\ Starts(q) <= m
    <2>1. Starts(q) <= n
      BY DEF InOrder
    <2>2. QED
      BY <1>3, <1>4, <2>1
  <1>7. InOrder(d, q, F, h, m)
    <2>1. \A a \in Nat : a + Starts(q) < n => a + Starts(q) < m
      BY <1>4, <1>5
    <2>2. QED
      BY <1>6, <2>1, Ages DEF InOrder
  <1>8. /\ \A i \in At(t, "DATA") : Age(d, t[i].seq) + Starts(t) < m
        /\ \A f \in F : Age(d, f.seq) + Starts(t) < m
        /\ \A j \in At(h, "REQ_DATA") : Age(d, h[j].seq) + Starts(t) < m
    BY <1>2, <1>5, Ages DEF InOrder
  <1>9. /\ \A i, j \in At(t, "DATA") : i < j => Age(d, t[j].seq) < Age(d, t[i].seq)
        /\ \A i \in At(t, "DATA"), f \in F : Age(d, f.seq) < Age(d, t[i].seq)
        /\ \A i \in At(t, "DATA"), j \in At(h, "REQ_DATA") : Age(d, h[j].seq) < Age(d, t[i].seq)
    BY <1>2 DEF InOrder
  <1>10. InOrder(d, t, F, h, m)
    BY <1>6, <1>8, <1>9 DEF InOrder
  <1>11. QED
    BY <1>1, <1>7, <1>10 DEF t

\* The request that was about to be answered is answered.
LEMMA OrderData ==
    ASSUME NEW d, NEW q, NEW h, NEW n, NEW f, Valid(d, q, {f}, h, n), InOrder(d, q, {f}, h, n),
           NEW p \in Packets, p.cmd = "DATA", p.seq = f.seq
    PROVE  Valid(d, Append(q, p), {}, h, n) /\ InOrder(d, Append(q, p), {}, h, n)
  <1> DEFINE t == Append(q, p)
  <1>1. Valid(d, t, {}, h, n) /\ q \in Seq(Packets) /\ Longer(t, q, p)
    BY Added DEF Valid, Longer
  <1>2. Starts(t) <= Starts(q) /\ Starts(t) \in Nat /\ Starts(q) \in Nat /\ n \in Nat
    <2>1. Starts(t) <= Starts(q)
      BY <1>1, StartsAppend
    <2>2. QED
      BY <1>1, <2>1, StartsNat DEF Valid
  <1> HIDE DEF t
  <1>3. \A i \in At(t, "DATA") : \/ i \in At(q, "DATA") /\ t[i] = q[i] /\ i < Len(q) + 1
                                 \/ i = Len(q) + 1 /\ t[i] = p
    BY <1>1, AtAdded
  <1>4. \A a \in Nat : a + Starts(q) < n => a + Starts(t) < n
    BY <1>2
  <1>5. \A j \in At(h, "REQ_DATA") : Age(d, h[j].seq) + Starts(t) < n
    BY <1>4, Ages DEF InOrder
  <1>6. \A i \in At(t, "DATA") : Age(d, t[i].seq) + Starts(t) < n
    <2>1. Age(d, p.seq) + Starts(t) < n
      BY <1>4, Ages DEF InOrder
    <2>2. \A i \in At(q, "DATA") : Age(d, q[i].seq) + Starts(t) < n
      BY <1>4, Ages DEF InOrder
    <2>3. QED
      BY <1>3, <2>1, <2>2
  <1>7. \A i \in At(t, "DATA"), j \in At(h, "REQ_DATA") : Age(d, h[j].seq) < Age(d, t[i].seq)
    BY <1>3 DEF InOrder
  <1>8. \A i, j \in At(t, "DATA") : i < j => Age(d, t[j].seq) < Age(d, t[i].seq)
    <2>1. SUFFICES ASSUME NEW i \in At(t, "DATA"), NEW j \in At(t, "DATA"), i < j
                   PROVE  Age(d, t[j].seq) < Age(d, t[i].seq)
      OBVIOUS
    <2>2. i \in Nat /\ j \in Nat /\ j <= Len(q) + 1 /\ Len(q) \in Nat
      BY <1>1, <1>3 DEF At, Valid
    <2>3. i \in At(q, "DATA") /\ t[i] = q[i]
      BY <1>3, <2>1, <2>2
    <2>4. CASE j \in At(q, "DATA") /\ t[j] = q[j]
      BY <2>1, <2>3, <2>4 DEF InOrder
    <2>5. CASE t[j] = p
      BY <2>3, <2>5 DEF InOrder
    <2>6. QED
      BY <1>3, <2>4, <2>5
  <1>9. Starts(t) <= n
    BY <1>2 DEF InOrder
  <1>10. InOrder(d, t, {}, h, n)
    BY <1>5, <1>6, <1>7, <1>8, <1>9 DEF InOrder
  <1>11. QED
    BY <1>1, <1>10 DEF t

\* ID or END is sent.
LEMMA OrderReply ==
    ASSUME NEW d, NEW q, NEW F, NEW h, NEW n, Valid(d, q, F, h, n), InOrder(d, q, F, h, n),
           NEW p \in Packets, p.cmd # "REQ_DATA"
    PROVE  Valid(d, q, F, Append(h, p), n) /\ InOrder(d, q, F, Append(h, p), n)
  <1> DEFINE t == Append(h, p)
  <1>1. Valid(d, q, F, t, n) /\ h \in Seq(Packets) /\ Longer(t, h, p)
    BY Added DEF Valid, Longer
  <1> HIDE DEF t
  <1>2. \A i \in At(t, "REQ_DATA") : i \in At(h, "REQ_DATA") /\ t[i] = h[i]
    BY <1>1, AtAppend
  <1>3. InOrder(d, q, F, t, n)
    BY <1>2 DEF InOrder
  <1>4. QED
    BY <1>1, <1>3 DEF t

\* The bootloader asks for a block, while every earlier request is older.
LEMMA OrderAsk ==
    ASSUME NEW d, NEW q, NEW F, NEW h, NEW n, Valid(d, q, F, h, n), InOrder(d, q, F, h, n), Starts(q) < n,
           \A i \in At(q, "DATA") : Age(d, q[i].seq) > 0,
           \A f \in F : Age(d, f.seq) > 0,
           \A j \in At(h, "REQ_DATA") : Age(d, h[j].seq) > 0,
           NEW p \in Packets, p.cmd = "REQ_DATA", p.seq = d
    PROVE  Valid(d, q, F, Append(h, p), n) /\ InOrder(d, q, F, Append(h, p), n)
  <1> DEFINE t == Append(h, p)
  <1>1. Valid(d, q, F, t, n) /\ h \in Seq(Packets) /\ Longer(t, h, p)
    BY Added DEF Valid, Longer
  <1>2. Age(d, p.seq) = 0 /\ Starts(q) \in Nat /\ n \in Nat
    BY AgeRange, StartsNat DEF Valid
  <1> HIDE DEF t
  <1>3. \A j \in At(t, "REQ_DATA") : \/ j \in At(h, "REQ_DATA") /\ t[j] = h[j] /\ j < Len(h) + 1
                                     \/ j = Len(h) + 1 /\ t[j] = p
    BY <1>1, AtAdded
  <1>4. \A j \in At(t, "REQ_DATA") : Age(d, t[j].seq) + Starts(q) < n
    <2>1. Age(d, p.seq) + Starts(q) < n
      BY <1>2
    <2>2. QED
      BY <1>3, <2>1 DEF InOrder
  <1>5. \A i \in At(q, "DATA"), j \in At(t, "REQ_DATA") : Age(d, t[j].seq) < Age(d, q[i].seq)
    <2>1. \A i \in At(q, "DATA") : Age(d, p.seq) < Age(d, q[i].seq)
      BY <1>2, Ages
    <2>2. QED
      BY <1>3, <2>1 DEF InOrder
  <1>6. \A f \in F, j \in At(t, "REQ_DATA") : Age(d, t[j].seq) < Age(d, f.seq)
    <2>1. \A f \in F : Age(d, p.seq) < Age(d, f.seq)
      BY <1>2, Ages
    <2>2. QED
      BY <1>3, <2>1 DEF InOrder
  <1>7. \A i, j \in At(t, "REQ_DATA") : i < j => Age(d, t[j].seq) < Age(d, t[i].seq)
    <2>1. SUFFICES ASSUME NEW i \in At(t, "REQ_DATA"), NEW j \in At(t, "REQ_DATA"), i < j
                   PROVE  Age(d, t[j].seq) < Age(d, t[i].seq)
      OBVIOUS
    <2>2. i \in Nat /\ j \in Nat /\ j <= Len(h) + 1 /\ Len(h) \in Nat
      BY <1>1, <1>3 DEF At, Valid
    <2>3. i \in At(h, "REQ_DATA") /\ t[i] = h[i]
      BY <1>3, <2>1, <2>2
    <2>4. CASE j \in At(h, "REQ_DATA") /\ t[j] = h[j]
      BY <2>1, <2>3, <2>4 DEF InOrder
    <2>5. CASE t[j] = p
      BY <1>2, <2>3, <2>5, Ages
    <2>6. QED
      BY <1>3, <2>4, <2>5
  <1>8. InOrder(d, q, F, t, n)
    BY <1>4, <1>5, <1>6, <1>7 DEF InOrder
  <1>9. QED
    BY <1>1, <1>8 DEF t

\* An upload begins at the bootloader: everything on its way is one request
\* older, and none of it as old as the numbers go.
LEMMA OrderStart ==
    ASSUME NEW d, NEW q, NEW F, NEW h, NEW n, Valid(d, q, F, h, n), InOrder(d, q, F, h, n), n <= SeqMod,
           q # <<>>, Head(q).cmd = "START"
    PROVE  LET e == NextSeq(d)  t == Tail(q) IN
           /\ Valid(e, t, F, h, n) /\ InOrder(e, t, F, h, n) /\ Starts(t) < n
           /\ \A i \in At(t, "DATA") : Age(e, t[i].seq) > 0
           /\ \A f \in F : Age(e, f.seq) > 0
           /\ \A j \in At(h, "REQ_DATA") : Age(e, h[j].seq) > 0
  <1> DEFINE e == NextSeq(d)  t == Tail(q)
  <1>1. Valid(d, t, F, h, n) /\ InOrder(d, t, F, h, n)
    BY OrderTake
  <1>2. e \in Seqs /\ Starts(t) + 1 <= Starts(q) /\ Starts(t) \in Nat /\ Starts(q) \in Nat /\ n \in Nat
    BY <1>1, NextNumber, StartsTail, StartsNat DEF Valid
  <1>3. \A i \in At(t, "DATA") : i + 1 \in At(q, "DATA") /\ t[i] = q[i + 1]
    BY AtTail DEF Valid
  <1>4. ASSUME NEW s \in Seqs, Age(d, s) + Starts(q) < n
        PROVE  Age(e, s) = Age(d, s) + 1 /\ Age(e, s) + Starts(t) < n /\ Age(e, s) > 0 /\ Age(d, s) \in Nat
    <2>1. d \in Seqs /\ Age(d, s) \in Nat /\ SeqMod \in Nat
      BY AgeRange, FwUploadAssumption DEF Valid
    <2>2. Age(d, s) + 1 < SeqMod /\ Age(d, s) + 1 + Starts(t) < n
      BY <1>2, <1>4, <2>1
    <2>3. Age(e, s) = Age(d, s) + 1
      BY <2>1, <2>2, AgeGrows
    <2>4. QED
      BY <2>1, <2>2, <2>3
  <1> HIDE DEF e
  <1>5. \A i \in At(t, "DATA") : /\ Age(e, t[i].seq) = Age(d, t[i].seq) + 1 /\ Age(e, t[i].seq) + Starts(t) < n
                                 /\ Age(e, t[i].seq) > 0 /\ Age(d, t[i].seq) \in Nat
    <2>1. SUFFICES ASSUME NEW i \in At(t, "DATA")
                   PROVE  /\ Age(e, t[i].seq) = Age(d, t[i].seq) + 1 /\ Age(e, t[i].seq) + Starts(t) < n
                          /\ Age(e, t[i].seq) > 0 /\ Age(d, t[i].seq) \in Nat
      OBVIOUS
    <2>2. t[i].seq \in Seqs
      BY <1>1, AtIndex DEF Valid
    <2>3. Age(d, t[i].seq) + Starts(q) < n
      BY <1>3 DEF InOrder
    <2>4. QED
      BY <1>4, <2>2, <2>3
  <1>6. \A f \in F : /\ Age(e, f.seq) = Age(d, f.seq) + 1 /\ Age(e, f.seq) + Starts(t) < n
                     /\ Age(e, f.seq) > 0 /\ Age(d, f.seq) \in Nat
    <2>1. \A f \in F : f.seq \in Seqs
      BY DEF Valid
    <2>2. QED
      BY <1>4, <2>1 DEF InOrder
  <1>7. \A j \in At(h, "REQ_DATA") : /\ Age(e, h[j].seq) = Age(d, h[j].seq) + 1 /\ Age(e, h[j].seq) + Starts(t) < n
                                     /\ Age(e, h[j].seq) > 0 /\ Age(d, h[j].seq) \in Nat
    <2>1. \A j \in At(h, "REQ_DATA") : h[j].seq \in Seqs
      BY AtIndex DEF Valid
    <2>2. QED
      BY <1>4, <2>1 DEF InOrder
  <1>8. Starts(t) < n
    BY <1>2 DEF InOrder
  <1> HIDE DEF t
  <1>9. /\ \A i, j \in At(t, "DATA") : i < j => Age(e, t[j].seq) < Age(e, t[i].seq)
        /\ \A i \in At(t, "DATA"), f \in F : Age(e, f.seq) < Age(e, t[i].seq)
        /\ \A i \in At(t, "DATA"), j \in At(h, "REQ_DATA") : Age(e, h[j].seq) < Age(e, t[i].seq)
    BY <1>1, <1>5, <1>6, <1>7 DEF InOrder
  <1>10. /\ \A f \in F, j \in At(h, "REQ_DATA") : Age(e, h[j].seq) < Age(e, f.seq)
         /\ \A i, j \in At(h, "REQ_DATA") : i < j => Age(e, h[j].seq) < Age(e, h[i].seq)
    BY <1>1, <1>6, <1>7 DEF InOrder
  <1>11. InOrder(e, t, F, h, n)
    <2>1. Starts(t) <= n
      BY <1>2, <1>8
    <2>2. QED
      BY <1>5, <1>6, <1>7, <1>9, <1>10, <2>1 DEF InOrder
  <1>12. Valid(e, t, F, h, n)
    BY <1>1, <1>2 DEF Valid
  <1>13. QED
    BY <1>5, <1>6, <1>7, <1>8, <1>11, <1>12 DEF e, t

\* A block that answers the last request is the only one, and nothing else was
\* asked for.
LEMMA Alone ==
    ASSUME NEW d, NEW q, NEW F, NEW h, NEW n, Valid(d, q, F, h, n), InOrder(d, q, F, h, n),
           q # <<>>, Head(q).cmd = "DATA", Head(q).seq = d
    PROVE  /\ At(Tail(q), "DATA") = {} /\ F = {} /\ At(h, "REQ_DATA") = {}
           /\ Starts(Tail(q)) < n
  <1>1. 1 \in At(q, "DATA") /\ q[1].seq = d
    BY Taken DEF At, Valid
  <1>2. Age(d, q[1].seq) = 0
    BY <1>1, AgeRange DEF Valid
  <1>3. F = {} /\ At(h, "REQ_DATA") = {}
    BY <1>1, <1>2, Ages DEF InOrder
  <1>4. ASSUME NEW i \in At(Tail(q), "DATA") PROVE FALSE
    <2>1. i \in Nat /\ i + 1 \in At(q, "DATA")
      BY AtTail DEF Valid
    <2>2. i \in 1..Len(Tail(q))
      BY DEF At
    <2>3. 1 < i + 1
      BY <2>1, <2>2
    <2>4. Age(d, q[i + 1].seq) < 0 /\ Age(d, q[i + 1].seq) \in Nat
      BY <1>1, <1>2, <2>1, <2>3, Ages DEF InOrder
    <2>5. QED
      BY <2>4
  <1>5. Starts(Tail(q)) < n
    <2>1. Starts(q) < n /\ Starts(q) \in Nat /\ n \in Nat
      BY <1>1, <1>2, Ages DEF InOrder
    <2>2. Starts(Tail(q)) <= Starts(q) /\ Starts(Tail(q)) \in Nat
      BY StartsTail, Taken, StartsNat DEF Valid
    <2>3. QED
      BY <2>1, <2>2
  <1>6. QED
    BY <1>3, <1>4, <1>5

\* Nothing is on its way: the next number may come.
LEMMA OrderNone ==
    ASSUME NEW d, NEW q, NEW h, NEW n, Valid(d, q, {}, h, n), NEW e \in Seqs,
           At(q, "DATA") = {}, At(h, "REQ_DATA") = {}, Starts(q) < n
    PROVE  Valid(e, q, {}, h, n) /\ InOrder(e, q, {}, h, n)
  <1>1. Starts(q) <= n
    BY StartsNat DEF Valid
  <1>2. QED
    BY <1>1 DEF Valid, InOrder

\* Taking a packet keeps blocks and numbers in accord.
LEMMA RightTake ==
    ASSUME NEW d, NEW q, NEW F, NEW h, NEW n, Valid(d, q, F, h, n), q # <<>>, NEW need, NEW fl,
           Right(d, q, F, h, need, fl)
    PROVE  Right(d, Tail(q), F, h, need, fl)
  <1> DEFINE t == Tail(q)
  <1>1. \A i \in At(t, "DATA") : i + 1 \in At(q, "DATA") /\ t[i] = q[i + 1]
    BY AtTail DEF Valid
  <1> HIDE DEF t
  <1>2. Right(d, t, F, h, need, fl)
    BY <1>1 DEF Right
  <1>3. QED
    BY <1>2 DEF t

\* So does reading an answer.
LEMMA RightRead ==
    ASSUME NEW d, NEW q, NEW F, NEW h, NEW n, Valid(d, q, F, h, n), h # <<>>, NEW need, NEW fl,
           Right(d, q, F, h, need, fl)
    PROVE  Right(d, q, F, Tail(h), need, fl)
  <1> DEFINE t == Tail(h)
  <1>1. \A i \in At(t, "REQ_DATA") : i + 1 \in At(h, "REQ_DATA") /\ t[i] = h[i + 1]
    BY AtTail DEF Valid
  <1> HIDE DEF t
  <1>2. Right(d, q, F, t, need, fl)
    BY <1>1 DEF Right
  <1>3. QED
    BY <1>2 DEF t

\* A request that was read is the one to be answered.
LEMMA RightAnswer ==
    ASSUME NEW d, NEW q, NEW F, NEW h, NEW n, Valid(d, q, F, h, n), h # <<>>, NEW need, NEW fl,
           Right(d, q, F, h, need, fl),
           Head(h).cmd = "REQ_DATA", NEW f, f.seq = Head(h).seq, f.block = Head(h).block
    PROVE  Right(d, q, {f}, Tail(h), need, fl)
  <1>1. Right(d, q, F, Tail(h), need, fl)
    BY RightRead
  <1>2. 1 \in At(h, "REQ_DATA") /\ h[1].seq = f.seq /\ h[1].block = f.block
    BY Taken DEF Valid, At
  <1>3. QED
    BY <1>1, <1>2 DEF Right

\* So does sending a packet that is not a block.
LEMMA RightSend ==
    ASSUME NEW d, NEW q, NEW F, NEW h, NEW n, Valid(d, q, F, h, n), NEW need, NEW fl,
           Right(d, q, F, h, need, fl), NEW p \in Packets, p.cmd # "DATA"
    PROVE  Right(d, Append(q, p), F, h, need, fl)
  <1> DEFINE t == Append(q, p)
  <1>1. q \in Seq(Packets) /\ Longer(t, q, p)
    BY DEF Valid, Longer
  <1> HIDE DEF t
  <1>2. \A i \in At(t, "DATA") : i \in At(q, "DATA") /\ t[i] = q[i]
    BY <1>1, AtAppend
  <1>3. Right(d, t, F, h, need, fl)
    BY <1>2 DEF Right
  <1>4. QED
    BY <1>3 DEF t

\* A block goes out under the number of its request.
LEMMA RightData ==
    ASSUME NEW d, NEW q, NEW h, NEW n, NEW f, Valid(d, q, {f}, h, n), NEW need, NEW fl,
           Right(d, q, {f}, h, need, fl),
           NEW p \in Packets, p.cmd = "DATA", p.seq = f.seq, p.block = f.block
    PROVE  Right(d, Append(q, p), {}, h, need, fl)
  <1> DEFINE t == Append(q, p)
  <1>1. q \in Seq(Packets) /\ Longer(t, q, p)
    BY DEF Valid, Longer
  <1> HIDE DEF t
  <1>2. \A i \in At(t, "DATA") : \/ i \in At(q, "DATA") /\ t[i] = q[i]
                                 \/ t[i] = p
    BY <1>1, AtAdded
  <1>3. Right(d, t, {}, h, need, fl)
    BY <1>2 DEF Right
  <1>4. QED
    BY <1>3 DEF t

\* A block is asked for; every request before it is older.
LEMMA RightAsk ==
    ASSUME NEW d, NEW q, NEW F, NEW h, NEW n, Valid(d, q, F, h, n), NEW need, NEW fl,
           \A i \in At(q, "DATA") : Age(d, q[i].seq) > 0,
           \A f \in F : Age(d, f.seq) > 0,
           \A j \in At(h, "REQ_DATA") : Age(d, h[j].seq) > 0,
           \A b \in 1..(need - 1) : fl[b] = b,
           NEW p \in Packets, p.block = need
    PROVE  Right(d, q, F, Append(h, p), need, fl)
  <1> DEFINE t == Append(h, p)
  <1>1. h \in Seq(Packets) /\ Longer(t, h, p)
    BY DEF Valid, Longer
  <1> HIDE DEF t
  <1>2. \A i \in At(t, "REQ_DATA") : \/ i \in At(h, "REQ_DATA") /\ t[i] = h[i]
                                     \/ t[i] = p
    BY <1>1, AtAdded
  <1>3. Right(d, q, F, t, need, fl)
    BY <1>2, Ages DEF Right
  <1>4. QED
    BY <1>3 DEF t

-----------------------------------------------------------------------------
(* What the bootloader has sent: an ID is followed by a request, and END   *)
(* can only be the oldest packet, and the last one of an upload that needs *)
(* no more.                                                                *)

Shape(h, need) ==
    /\ \A i \in 1..Len(h) : h[i].cmd \in {"ID", "REQ_DATA", "END"}
    /\ \A i \in At(h, "ID") : i + 1 \in At(h, "REQ_DATA")
    /\ \A i \in At(h, "END") : i = 1
    /\ h # <<>> /\ h[Len(h)].cmd = "END" => need = 0

\* What remains of the answers has the form that the bootloader gave them.
LEMMA ShapeTail ==
    ASSUME NEW h \in Seq(Packets), h # <<>>, NEW need, Shape(h, need)
    PROVE  /\ Shape(Tail(h), need)
           /\ At(Tail(h), "END") = {}
  <1> DEFINE t == Tail(h)
  <1>1. /\ t \in Seq(Packets) /\ Len(t) = Len(h) - 1 /\ Len(h) \in Nat \ {0}
        /\ \A i \in 1..Len(t) : t[i] = h[i + 1]
    BY Taken
  <1> HIDE DEF t
  <1>2. \A i \in 1..Len(t) : t[i].cmd \in {"ID", "REQ_DATA", "END"}
    BY <1>1 DEF Shape
  <1>3. ASSUME NEW i \in At(t, "ID") PROVE i + 1 \in At(t, "REQ_DATA")
    <2>1. i \in 1..Len(t) /\ t[i].cmd = "ID"
      BY DEF At
    <2>2. i + 1 \in At(h, "ID")
      BY <1>1, <2>1 DEF At
    <2>3. i + 2 \in 1..Len(h) /\ h[i + 2].cmd = "REQ_DATA"
      <3>1. (i + 1) + 1 \in At(h, "REQ_DATA") /\ (i + 1) + 1 = i + 2
        BY <2>1, <2>2 DEF Shape
      <3>2. QED
        BY <3>1 DEF At
    <2>4. i + 1 \in 1..Len(t) /\ t[i + 1] = h[i + 2]
      <3>1. i + 1 \in 1..Len(t) /\ (i + 1) + 1 = i + 2
        BY <1>1, <2>1, <2>3
      <3>2. QED
        BY <1>1, <3>1
    <2>5. QED
      BY <2>3, <2>4 DEF At
  <1>4. At(t, "END") = {}
    <2>1. SUFFICES ASSUME NEW i \in 1..Len(t), t[i].cmd = "END" PROVE FALSE
      BY DEF At
    <2>2. i + 1 \in At(h, "END")
      BY <1>1, <2>1 DEF At
    <2>3. QED
      BY <2>2 DEF Shape
  <1>5. t # <<>> /\ t[Len(t)].cmd = "END" => need = 0
    <2>1. SUFFICES ASSUME t # <<>>, t[Len(t)].cmd = "END" PROVE FALSE
      OBVIOUS
    <2>2. Len(t) \in 1..Len(t)
      BY <1>1, <2>1
    <2>3. QED
      BY <1>4, <2>1, <2>2 DEF At
  <1>6. Shape(t, need)
    BY <1>2, <1>3, <1>4, <1>5 DEF Shape
  <1>7. QED
    BY <1>4, <1>6 DEF t

\* So have the answers after a new START.
LEMMA ShapeStart ==
    ASSUME NEW h \in Seq(Packets), NEW need, Shape(h, need), NEW m,
           NEW a \in Packets, a.cmd = "ID", NEW p \in Packets, p.cmd = "REQ_DATA"
    PROVE  LET t == Append(Append(h, a), p) IN
           /\ Shape(t, m)
           /\ At(t, "END") = At(h, "END")
  <1> DEFINE g == Append(h, a)  t == Append(g, p)
  <1>1. /\ g \in Seq(Packets) /\ Len(g) = Len(h) + 1 /\ Len(h) \in Nat
        /\ \A i \in 1..Len(h) : g[i] = h[i]
        /\ g[Len(h) + 1] = a
    BY Added
  <1> HIDE DEF g
  <1>2. /\ t \in Seq(Packets) /\ Len(t) = Len(g) + 1
        /\ \A i \in 1..Len(g) : t[i] = g[i]
        /\ t[Len(g) + 1] = p
    BY <1>1, Added
  <1> HIDE DEF t
  <1>3. /\ Len(t) = Len(h) + 2
        /\ \A i \in 1..Len(h) : t[i] = h[i]
        /\ t[Len(h) + 1] = a /\ t[Len(h) + 2] = p
    <2>1. Len(t) = Len(h) + 2 /\ Len(g) + 1 = Len(h) + 2
      BY <1>1, <1>2
    <2>2. Len(h) + 1 \in 1..Len(g) /\ \A i \in 1..Len(h) : i \in 1..Len(g)
      BY <1>1
    <2>3. QED
      BY <1>1, <1>2, <2>1, <2>2
  <1>4. \A i \in 1..Len(t) : i \in 1..Len(h) \/ i = Len(h) + 1 \/ i = Len(h) + 2
    BY <1>1, <1>3
  <1>5. At(t, "END") = At(h, "END")
    <2>1. At(t, "END") \subseteq At(h, "END")
      BY <1>3, <1>4 DEF At
    <2>2. At(h, "END") \subseteq At(t, "END")
      BY <1>1, <1>3 DEF At
    <2>3. QED
      BY <2>1, <2>2
  <1>6. \A i \in 1..Len(t) : t[i].cmd \in {"ID", "REQ_DATA", "END"}
    BY <1>3, <1>4 DEF Shape
  <1>7. ASSUME NEW i \in At(t, "ID") PROVE i + 1 \in At(t, "REQ_DATA")
    <2>1. i \in 1..Len(t) /\ t[i].cmd = "ID"
      BY DEF At
    <2>2. CASE i \in 1..Len(h)
      <3>1. i \in At(h, "ID")
        BY <1>3, <2>1, <2>2 DEF At
      <3>2. i + 1 \in 1..Len(h) /\ h[i + 1].cmd = "REQ_DATA"
        BY <3>1 DEF Shape, At
      <3>3. QED
        BY <1>1, <1>3, <3>2 DEF At
    <2>3. CASE i = Len(h) + 1
      <3>1. i + 1 = Len(h) + 2 /\ Len(h) + 2 \in 1..Len(t)
        BY <1>1, <1>3, <2>3
      <3>2. QED
        BY <1>3, <3>1 DEF At
    <2>4. CASE i = Len(h) + 2
      BY <1>3, <2>1, <2>4
    <2>5. QED
      BY <1>4, <2>1, <2>2, <2>3, <2>4
  <1>8. t[Len(t)].cmd = "REQ_DATA"
    BY <1>3
  <1>9. Shape(t, m)
    BY <1>5, <1>6, <1>7, <1>8 DEF Shape
  <1>10. QED
    BY <1>5, <1>9 DEF t, g

\* When nothing is asked for and more is needed, nothing is on its way.
LEMMA ShapeEmpty ==
    ASSUME NEW h \in Seq(Packets), NEW need, need # 0, Shape(h, need), At(h, "REQ_DATA") = {}
    PROVE  h = <<>>
  <1>1. SUFFICES ASSUME h # <<>> PROVE FALSE
    OBVIOUS
  <1>2. Len(h) \in 1..Len(h) /\ Len(h) \in Nat /\ Len(h) + 1 \notin 1..Len(h)
    BY <1>1
  <1>3. h[Len(h)].cmd \in {"ID", "REQ_DATA"}
    BY <1>1, <1>2 DEF Shape
  <1>4. h[Len(h)].cmd # "REQ_DATA"
    BY <1>2 DEF At
  <1>5. Len(h) \in At(h, "ID")
    BY <1>2, <1>3, <1>4 DEF At
  <1>6. QED
    BY <1>5 DEF Shape

\* So has a single answer.
LEMMA ShapeOne ==
    ASSUME NEW p \in Packets, NEW need,
           p.cmd = "REQ_DATA" \/ (p.cmd = "END" /\ need = 0)
    PROVE  Shape(Append(<<>>, p), need)
  <1> DEFINE t == Append(<<>>, p)
  <1>1. Len(t) = 1 /\ t[1] = p
    OBVIOUS
  <1> HIDE DEF t
  <1>2. \A i \in 1..Len(t) : i = 1 /\ t[i] = p
    BY <1>1
  <1>3. At(t, "ID") = {} /\ \A i \in At(t, "END") : i = 1
    BY <1>2 DEF At
  <1>4. t[Len(t)] = p
    BY <1>1
  <1>5. Shape(t, need)
    BY <1>2, <1>3, <1>4 DEF Shape
  <1>6. QED
    BY <1>5 DEF t

-----------------------------------------------------------------------------
(* The invariant.                                                          *)

Answering == pc = "idle" /\ view = "uploading"
Beginning == pc = "req" /\ view # "uploading"
Continuing == pc = "req" /\ view = "uploading"
Finished == pc = "idle" /\ view = "done"
Intact == faults["garbled"] = MaxFaults["garbled"]
Complete == \A b \in Image : flash[b] = b

\* The request that the caller is about to answer.
Owed == IF Answering THEN {fw} ELSE {}

\* An END that was left over is not read as the answer to a block that was
\* just sent, nor does one come before what was asked for is stored.
Stage ==
    /\ pc = "id" => view # "uploading"
    /\ Answering => At(toHost, "END") = {}
    /\ Beginning => /\ At(toHost, "END") = {}
                    /\ \A i \in At(toDev, "DATA") : Age(dSeq, toDev[i].seq) > 0
    /\ Continuing => /\ toDev # <<>> => toDev[Len(toDev)].cmd = "DATA"
                     /\ At(toHost, "END") # {} => toDev = <<>> /\ (Intact => Complete)
    /\ Finished => /\ \A i \in 1..Len(toDev) : toDev[i].cmd = "REBOOT"
                   /\ Intact => Complete

UploadInv ==
    /\ TypeInv
    /\ InOrder(dSeq, toDev, Owed, toHost, uploads)
    /\ Intact => Right(dSeq, toDev, Owed, toHost, dNeed, flash)
    /\ Shape(toHost, dNeed)
    /\ Stage

\* The types that the lemmas above ask for.
LEMMA Typed == TypeInv => Valid(dSeq, toDev, Owed, toHost, uploads)
  <1> SUFFICES ASSUME TypeInv PROVE Valid(dSeq, toDev, Owed, toHost, uploads)
    OBVIOUS
  <1>1. dSeq \in Seqs /\ toDev \in Seq(Packets) /\ toHost \in Seq(Packets)
        /\ uploads \in Nat /\ fw \in [seq: Seqs, block: Image]
    BY FwUploadAssumption DEF TypeInv, TypeOK
  <1>2. QED
    BY <1>1 DEF Valid, Owed

\* What no fault has garbled now, none had garbled before.
LEMMA IntactBefore == TypeInv /\ FaultsLeft /\ Intact' => Intact
  <1> SUFFICES ASSUME TypeInv, FaultsLeft, Intact' PROVE Intact
    OBVIOUS
  <1>1. /\ faults["garbled"] \in Nat /\ MaxFaults["garbled"] \in Nat /\ faults'["garbled"] = MaxFaults["garbled"]
        /\ faults'["garbled"] <= faults["garbled"] /\ faults["garbled"] <= MaxFaults["garbled"]
    BY FwUploadAssumption DEF TypeInv, TypeOK, FaultsLeft, Intact, FaultKinds
  <1>2. QED
    BY <1>1 DEF Intact

\* The invariant of the uploads holds at first.
LEMMA UploadInit == Init => UploadInv
  <1> SUFFICES ASSUME Init PROVE UploadInv
    OBVIOUS
  <1>1. toDev = <<>> /\ toHost = <<>> /\ Owed = {} /\ pc = "idle" /\ view = "none" /\ uploads = 0 /\ dNeed = 0
    BY DEF Init, Owed, Answering
  <1>2. \A c : At(toDev, c) = {} /\ At(toHost, c) = {}
    BY <1>1 DEF At
  <1>3. Starts(toDev) = 0
    BY <1>2, FS_EmptySet DEF Starts
  <1>4. InOrder(dSeq, toDev, Owed, toHost, uploads)
    BY <1>1, <1>2, <1>3 DEF InOrder
  <1>5. Right(dSeq, toDev, Owed, toHost, dNeed, flash)
    BY <1>1 DEF Right
  <1>6. Shape(toHost, dNeed)
    BY <1>1, <1>2 DEF Shape
  <1>7. Stage
    BY <1>1 DEF Stage, Answering, Beginning, Continuing, Finished
  <1>8. QED
    BY <1>4, <1>5, <1>6, <1>7, TypeInit DEF UploadInv

\* The calls.

\* tf_fw_upload() adds a START.
LEMMA UploadKeeps == UploadInv /\ tf_fw_upload /\ TypeInv' => UploadInv'
  <1> SUFFICES ASSUME UploadInv, tf_fw_upload, TypeInv' PROVE UploadInv'
    OBVIOUS
  <1> DEFINE p == Plain("START")
  <1>1. /\ TypeInv /\ Valid(dSeq, toDev, Owed, toHost, uploads)
        /\ InOrder(dSeq, toDev, Owed, toHost, uploads)
        /\ Intact => Right(dSeq, toDev, Owed, toHost, dNeed, flash)
        /\ Shape(toHost, dNeed)
    BY Typed DEF UploadInv
  <1>2. /\ pc = "idle" /\ view \in {"none", "failed"} /\ uploads' = uploads + 1
        /\ toHost' = toHost /\ SameBootloader /\ FaultsLeft /\ MayAppend(p)
        /\ (pc' = "id" /\ view' = view) \/ (pc' = "idle" /\ view' = "failed")
    BY <1>1, UploadEffect DEF MayAppend
  <1>3. Owed = {} /\ Owed' = {}
    BY <1>2 DEF Owed, Answering
  <1>4. p \in Packets /\ p.cmd = "START" /\ uploads \in Nat /\ uploads' \in Nat
    BY <1>1, <1>2, PacketType, Names, FwUploadAssumption DEF TypeInv, TypeOK, Seqs
  <1> HIDE DEF p
  <1>5. /\ InOrder(dSeq, Append(toDev, p), {}, toHost, uploads')
        /\ InOrder(dSeq, toDev, {}, toHost, uploads')
    BY <1>1, <1>2, <1>3, <1>4, OrderSend
  <1>6. InOrder(dSeq', toDev', Owed', toHost', uploads')
    BY <1>2, <1>3, <1>5 DEF MayAppend, SameBootloader
  <1>7. Intact' => Right(dSeq', toDev', Owed', toHost', dNeed', flash')
    <2>1. Intact => Right(dSeq, Append(toDev, p), {}, toHost, dNeed, flash)
      BY <1>1, <1>3, <1>4, RightSend
    <2>2. QED
      BY <1>1, <1>2, <1>3, <2>1, IntactBefore DEF MayAppend, SameBootloader
  <1>8. Stage'
    BY <1>2 DEF Stage, Answering, Beginning, Continuing, Finished
  <1>9. Shape(toHost', dNeed')
    BY <1>1, <1>2 DEF SameBootloader
  <1>10. QED
    BY <1>6, <1>7, <1>8, <1>9 DEF UploadInv

\* tf_fw_upload_next() answers the last request.
LEMMA NextKeeps == UploadInv /\ tf_fw_upload_next /\ TypeInv' => UploadInv'
  <1> SUFFICES ASSUME UploadInv, tf_fw_upload_next, TypeInv' PROVE UploadInv'
    OBVIOUS
  <1> DEFINE p == Packet("DATA", fw.seq, fw.block)
  <1>1. /\ TypeInv /\ Valid(dSeq, toDev, Owed, toHost, uploads)
        /\ InOrder(dSeq, toDev, Owed, toHost, uploads)
        /\ Intact => Right(dSeq, toDev, Owed, toHost, dNeed, flash)
        /\ Shape(toHost, dNeed) /\ Stage
    BY Typed DEF UploadInv
  <1>2. /\ pc = "idle" /\ view = "uploading" /\ uploads' = uploads /\ p \in Packets
        /\ toHost' = toHost /\ SameBootloader /\ FaultsLeft
        /\ \/ pc' = "req" /\ view' = "uploading" /\ toDev' = Append(toDev, p)
           \/ pc' = "idle" /\ view' = "failed" /\ MayAppend(p)
    BY <1>1, NextEffect DEF MayAppend
  <1>3. Owed = {fw} /\ Owed' = {} /\ MayAppend(p) /\ p.cmd = "DATA" /\ p.seq = fw.seq /\ p.block = fw.block
    BY <1>2, Names DEF Owed, Answering, MayAppend
  <1> HIDE DEF p
  <1>4. InOrder(dSeq, Append(toDev, p), {}, toHost, uploads)
    BY <1>1, <1>2, <1>3, OrderData
  <1>5. InOrder(dSeq, toDev, {}, toHost, uploads)
    BY <1>1, OrderForget
  <1>6. InOrder(dSeq', toDev', Owed', toHost', uploads')
    BY <1>2, <1>3, <1>4, <1>5 DEF MayAppend, SameBootloader
  <1>7. Intact' => Right(dSeq', toDev', Owed', toHost', dNeed', flash')
    <2>1. Intact => Right(dSeq, Append(toDev, p), {}, toHost, dNeed, flash)
      BY <1>1, <1>2, <1>3, RightData
    <2>2. Intact => Right(dSeq, toDev, {}, toHost, dNeed, flash)
      BY <1>1 DEF Right
    <2>3. QED
      BY <1>1, <1>2, <1>3, <2>1, <2>2, IntactBefore DEF MayAppend, SameBootloader
  <1>8. Stage'
    <2>1. At(toHost', "END") = {}
      BY <1>1, <1>2 DEF Stage, Answering
    <2>2. CASE pc' = "req" /\ view' = "uploading" /\ toDev' = Append(toDev, p)
      <3>1. toDev'[Len(toDev')].cmd = "DATA"
        BY <1>1, <1>2, <1>3, <2>2, Added DEF Valid
      <3>2. QED
        BY <2>1, <2>2, <3>1 DEF Stage, Answering, Beginning, Continuing, Finished
    <2>3. CASE pc' = "idle" /\ view' = "failed"
      BY <2>3 DEF Stage, Answering, Beginning, Continuing, Finished
    <2>4. QED
      BY <1>2, <2>2, <2>3
  <1>9. Shape(toHost', dNeed')
    BY <1>1, <1>2 DEF SameBootloader
  <1>10. QED
    BY <1>6, <1>7, <1>8, <1>9 DEF UploadInv

\* tf_fw_reboot() is sent when no upload is in progress.
LEMMA RebootKeeps == UploadInv /\ tf_fw_reboot /\ TypeInv' => UploadInv'
  <1> SUFFICES ASSUME UploadInv, tf_fw_reboot, TypeInv' PROVE UploadInv'
    OBVIOUS
  <1> DEFINE p == Plain("REBOOT")
  <1>1. /\ TypeInv /\ Valid(dSeq, toDev, Owed, toHost, uploads)
        /\ InOrder(dSeq, toDev, Owed, toHost, uploads)
        /\ Intact => Right(dSeq, toDev, Owed, toHost, dNeed, flash)
        /\ Shape(toHost, dNeed) /\ Stage
    BY Typed DEF UploadInv
  <1>2. /\ pc = "idle" /\ view # "uploading" /\ toDev = <<>> /\ uploads' = uploads
        /\ pc' = pc /\ view' = view /\ fw' = fw
        /\ toHost' = toHost /\ SameBootloader /\ FaultsLeft /\ MayAppend(p)
    BY <1>1, RebootEffect
  <1>3. Owed = {} /\ Owed' = {}
    BY <1>2 DEF Owed, Answering
  <1>4. p \in Packets /\ p.cmd = "REBOOT" /\ uploads \in Nat
    BY <1>1, <1>2, PacketType, Names, FwUploadAssumption DEF TypeInv, TypeOK, Seqs
  <1> HIDE DEF p
  <1>5. InOrder(dSeq, Append(toDev, p), {}, toHost, uploads)
    <2>1. uploads >= (IF p.cmd = "START" THEN uploads + 1 ELSE uploads)
      BY <1>4
    <2>2. QED
      BY <1>1, <1>3, <1>4, <2>1, OrderSend
  <1>6. InOrder(dSeq', toDev', Owed', toHost', uploads')
    BY <1>1, <1>2, <1>3, <1>5 DEF MayAppend, SameBootloader
  <1>7. Intact' => Right(dSeq', toDev', Owed', toHost', dNeed', flash')
    <2>1. Intact => Right(dSeq, Append(toDev, p), {}, toHost, dNeed, flash)
      BY <1>1, <1>3, <1>4, RightSend
    <2>2. QED
      BY <1>1, <1>2, <1>3, <2>1, IntactBefore DEF MayAppend, SameBootloader
  <1>8. Stage'
    <2>1. \A i \in 1..Len(toDev') : toDev'[i].cmd = "REBOOT"
      <3>1. toDev' = <<>> \/ toDev' = <<p>>
        BY <1>2, Short DEF MayAppend
      <3>2. QED
        BY <1>4, <3>1
    <2>2. Finished' => (Intact' => Complete')
      BY <1>1, <1>2, IntactBefore DEF Stage, Finished, Complete, SameBootloader
    <2>3. QED
      BY <1>2, <2>1, <2>2 DEF Stage, Answering, Beginning, Continuing, Finished
  <1>9. Shape(toHost', dNeed')
    BY <1>1, <1>2 DEF SameBootloader
  <1>10. QED
    BY <1>6, <1>7, <1>8, <1>9 DEF UploadInv

\* Reading the id of the bootloader.
LEMMA IdKeeps == UploadInv /\ tf_fw_upload_id /\ TypeInv' => UploadInv'
  <1> SUFFICES ASSUME UploadInv, tf_fw_upload_id, TypeInv' PROVE UploadInv'
    OBVIOUS
  <1>1. /\ TypeInv /\ Valid(dSeq, toDev, Owed, toHost, uploads)
        /\ InOrder(dSeq, toDev, Owed, toHost, uploads)
        /\ Intact => Right(dSeq, toDev, Owed, toHost, dNeed, flash)
        /\ Shape(toHost, dNeed) /\ Stage /\ toHost \in Seq(Packets)
    BY Typed DEF UploadInv, TypeInv, TypeOK
  <1>2. /\ pc = "id" /\ toDev' = toDev /\ uploads' = uploads
        /\ SameBootloader /\ FaultsLeft
        /\ \/ pc' = "req" /\ view' = view /\ ReplyRead /\ Head(toHost).cmd = "ID"
           \/ pc' = "idle" /\ view' = "failed" /\ (ReplyRead \/ NothingRead)
    BY <1>1, IdEffect
  <1>3. Owed = {} /\ Owed' = {}
    BY <1>2 DEF Owed, Answering
  <1>4. ASSUME ReplyRead
        PROVE  /\ InOrder(dSeq', toDev', Owed', toHost', uploads')
               /\ Intact' => Right(dSeq', toDev', Owed', toHost', dNeed', flash')
               /\ Shape(toHost', dNeed')
    <2>1. InOrder(dSeq, toDev, {}, Tail(toHost), uploads) /\ Shape(Tail(toHost), dNeed)
      BY <1>1, <1>3, <1>4, OrderRead, ShapeTail DEF ReplyRead
    <2>2. Intact => Right(dSeq, toDev, {}, Tail(toHost), dNeed, flash)
      BY <1>1, <1>3, <1>4, RightRead DEF ReplyRead
    <2>3. QED
      BY <1>1, <1>2, <1>3, <1>4, <2>1, <2>2, IntactBefore DEF SameBootloader, ReplyRead
  <1>5. ASSUME NothingRead
        PROVE  /\ InOrder(dSeq', toDev', Owed', toHost', uploads')
               /\ Intact' => Right(dSeq', toDev', Owed', toHost', dNeed', flash')
               /\ Shape(toHost', dNeed')
    BY <1>1, <1>2, <1>3, <1>5, IntactBefore DEF SameBootloader, NothingRead
  <1>6. Stage'
    <2>1. CASE pc' = "req" /\ view' = view /\ ReplyRead /\ Head(toHost).cmd = "ID"
      <3>1. At(toHost', "END") = {}
        BY <1>1, <2>1, ShapeTail DEF ReplyRead
      <3>2. 2 \in At(toHost, "REQ_DATA")
        <4>1. 1 \in At(toHost, "ID")
          BY <1>1, <2>1, Taken DEF ReplyRead, At
        <4>2. 1 + 1 \in At(toHost, "REQ_DATA")
          BY <1>1, <4>1 DEF Shape
        <4>3. QED
          BY <4>2
      <3>3. \A i \in At(toDev, "DATA") : Age(dSeq, toDev[i].seq) > 0
        <4>1. Age(dSeq, toHost[2].seq) \in Nat /\ \A i \in At(toDev, "DATA") : Age(dSeq, toDev[i].seq) \in Nat
          BY <1>1, <3>2, Ages
        <4>2. \A i \in At(toDev, "DATA") : Age(dSeq, toHost[2].seq) < Age(dSeq, toDev[i].seq)
          BY <1>1, <3>2 DEF InOrder
        <4>3. QED
          BY <4>1, <4>2
      <3>4. view # "uploading"
        BY <1>1, <1>2 DEF Stage
      <3>5. QED
        BY <1>2, <2>1, <3>1, <3>3, <3>4
        DEF Stage, Answering, Beginning, Continuing, Finished, SameBootloader
    <2>2. CASE pc' = "idle" /\ view' = "failed"
      BY <2>2 DEF Stage, Answering, Beginning, Continuing, Finished
    <2>3. QED
      BY <1>2, <2>1, <2>2
  <1>7. QED
    BY <1>2, <1>4, <1>5, <1>6 DEF UploadInv

\* tf_wait_for_req_data() takes a request, the end, or neither.
LEMMA WaitKeeps == UploadInv /\ tf_wait_for_req_data /\ TypeInv' => UploadInv'
  <1> SUFFICES ASSUME UploadInv, tf_wait_for_req_data, TypeInv' PROVE UploadInv'
    OBVIOUS
  <1>1. /\ TypeInv /\ Valid(dSeq, toDev, Owed, toHost, uploads)
        /\ InOrder(dSeq, toDev, Owed, toHost, uploads)
        /\ Intact => Right(dSeq, toDev, Owed, toHost, dNeed, flash)
        /\ Shape(toHost, dNeed) /\ Stage /\ toHost \in Seq(Packets)
    BY Typed DEF UploadInv, TypeInv, TypeOK
  <1>2. /\ pc = "req" /\ pc' = "idle" /\ toDev' = toDev /\ uploads' = uploads
        /\ SameBootloader /\ FaultsLeft
        /\ \/ /\ view' = "uploading" /\ ReplyRead /\ Head(toHost).cmd = "REQ_DATA"
              /\ fw' \in [seq: Seqs, block: Image] /\ fw'.seq = Head(toHost).seq
              /\ fw'.block = Head(toHost).block \/ faults'["garbled"] < MaxFaults["garbled"]
           \/ view' = "done" /\ ReplyRead /\ Head(toHost).cmd = "END"
           \/ view' = "failed" /\ (ReplyRead \/ NothingRead)
    BY <1>1, WaitEffect
  <1>3. Owed = {}
    BY <1>2 DEF Owed, Answering
  <1>4. ASSUME ReplyRead
        PROVE  /\ InOrder(dSeq, toDev, {}, toHost', uploads)
               /\ Intact => Right(dSeq, toDev, {}, toHost', dNeed, flash)
               /\ Shape(toHost', dNeed) /\ At(toHost', "END") = {}
    <2>1. InOrder(dSeq, toDev, {}, Tail(toHost), uploads)
          /\ Shape(Tail(toHost), dNeed) /\ At(Tail(toHost), "END") = {}
      BY <1>1, <1>3, <1>4, OrderRead, ShapeTail DEF ReplyRead
    <2>2. Intact => Right(dSeq, toDev, {}, Tail(toHost), dNeed, flash)
      BY <1>1, <1>3, <1>4, RightRead DEF ReplyRead
    <2>3. QED
      BY <1>4, <2>1, <2>2 DEF ReplyRead
  <1>5. CASE /\ view' = "uploading" /\ ReplyRead /\ Head(toHost).cmd = "REQ_DATA"
             /\ fw' \in [seq: Seqs, block: Image] /\ fw'.seq = Head(toHost).seq
             /\ fw'.block = Head(toHost).block \/ faults'["garbled"] < MaxFaults["garbled"]
    <2>1. Owed' = {fw'}
      BY <1>2, <1>5 DEF Owed, Answering
    <2>2. InOrder(dSeq, toDev, {fw'}, Tail(toHost), uploads)
      BY <1>1, <1>5, OrderAnswer DEF ReplyRead
    <2>3. Intact' => Right(dSeq, toDev, {fw'}, Tail(toHost), dNeed, flash)
      <3>1. SUFFICES ASSUME Intact' PROVE Right(dSeq, toDev, {fw'}, Tail(toHost), dNeed, flash)
        OBVIOUS
      <3>2. faults'["garbled"] = MaxFaults["garbled"] /\ MaxFaults["garbled"] \in Nat
        BY <3>1, FwUploadAssumption DEF Intact, FaultKinds
      <3>3. fw'.block = Head(toHost).block
        BY <1>5, <3>2
      <3>4. Right(dSeq, toDev, Owed, toHost, dNeed, flash)
        BY <1>1, <1>2, <3>1, IntactBefore
      <3>5. QED
        BY <1>1, <1>5, <3>3, <3>4, RightAnswer DEF ReplyRead
    <2>4. Stage'
      BY <1>2, <1>4, <1>5 DEF Stage, Answering, Beginning, Continuing, Finished
    <2>5. QED
      BY <1>2, <1>4, <1>5, <2>1, <2>2, <2>3, <2>4 DEF UploadInv, SameBootloader, ReplyRead
  <1>6. CASE view' = "done" /\ ReplyRead /\ Head(toHost).cmd = "END"
    <2>1. Owed' = {}
      BY <1>6 DEF Owed, Answering
    <2>2. 1 \in At(toHost, "END")
      BY <1>1, <1>6, Taken DEF ReplyRead, At
    <2>3. Continuing
      BY <1>1, <1>2, <2>2 DEF Stage, Beginning, Continuing
    <2>4. toDev = <<>> /\ (Intact => Complete)
      BY <1>1, <2>2, <2>3 DEF Stage
    <2>5. Intact' => Complete'
      BY <1>1, <1>2, <2>4, IntactBefore DEF Complete, SameBootloader
    <2>6. Stage'
      BY <1>2, <1>6, <2>4, <2>5 DEF Stage, Answering, Beginning, Continuing, Finished
    <2>7. QED
      BY <1>1, <1>2, <1>4, <1>6, <2>1, <2>6, IntactBefore DEF UploadInv, SameBootloader
  <1>7. CASE view' = "failed" /\ (ReplyRead \/ NothingRead)
    <2>1. Owed' = {}
      BY <1>7 DEF Owed, Answering
    <2>2. /\ InOrder(dSeq, toDev, {}, toHost', uploads)
          /\ Intact => Right(dSeq, toDev, {}, toHost', dNeed, flash)
          /\ Shape(toHost', dNeed)
      BY <1>1, <1>3, <1>4, <1>7 DEF NothingRead
    <2>3. Stage'
      BY <1>2, <1>7 DEF Stage, Answering, Beginning, Continuing, Finished
    <2>4. QED
      BY <1>1, <1>2, <2>1, <2>2, <2>3, IntactBefore DEF UploadInv, SameBootloader
  <1>8. QED
    BY <1>2, <1>5, <1>6, <1>7

\* The pipes.

\* A packet to the bootloader is gone, taken or lost.
LEMMA TakeKeeps ==
    ASSUME UploadInv, TypeInv', toDev # <<>>, toDev' = Tail(toDev), toHost' = toHost,
           dSeq' = dSeq, flash' = flash, UNCHANGED host, FaultsLeft,
           dNeed' = dNeed \/ dNeed' = 0
    PROVE  UploadInv'
  <1>1. /\ TypeInv /\ Valid(dSeq, toDev, Owed, toHost, uploads)
        /\ InOrder(dSeq, toDev, Owed, toHost, uploads)
        /\ Intact => Right(dSeq, toDev, Owed, toHost, dNeed, flash)
        /\ Shape(toHost, dNeed) /\ Stage /\ toDev \in Seq(Packets)
    BY Typed DEF UploadInv, TypeInv, TypeOK
  <1>2. pc' = pc /\ view' = view /\ fw' = fw /\ uploads' = uploads
    BY DEF host
  <1>3. Owed' = Owed
    BY <1>2 DEF Owed, Answering
  <1>4. InOrder(dSeq', toDev', Owed', toHost', uploads')
    BY <1>1, <1>2, <1>3, OrderTake
  <1>5. Intact' => Right(dSeq', toDev', Owed', toHost', dNeed', flash')
    <2>1. Intact => Right(dSeq, Tail(toDev), Owed, toHost, dNeed, flash)
      BY <1>1, RightTake
    <2>2. Right(dSeq, Tail(toDev), Owed, toHost, 0, flash)
      BY DEF Right
    <2>3. QED
      BY <1>1, <1>3, <2>1, <2>2, IntactBefore
  <1>6. Shape(toHost', dNeed')
    BY <1>1 DEF Shape
  <1>7. Stage'
    <2>1. \A i \in 1..Len(Tail(toDev)) : Tail(toDev)[i] = toDev[i + 1] /\ i + 1 \in 1..Len(toDev)
      BY <1>1, Taken
    <2>2. \A i \in At(toDev', "DATA") : i + 1 \in At(toDev, "DATA") /\ toDev'[i] = toDev[i + 1]
      BY <1>1, AtTail
    <2>3. CASE pc = "id"
      BY <1>1, <1>2, <2>3 DEF Stage, Answering, Beginning, Continuing, Finished
    <2>4. CASE Answering
      BY <1>1, <1>2, <2>4 DEF Stage, Answering, Beginning, Continuing, Finished
    <2>5. CASE Beginning
      <3>1. \A i \in At(toDev', "DATA") : Age(dSeq, toDev'[i].seq) > 0
        BY <1>1, <2>2, <2>5 DEF Stage
      <3>2. QED
        BY <1>1, <1>2, <2>5, <3>1 DEF Stage, Answering, Beginning, Continuing, Finished
    <2>6. CASE Continuing
      <3>1. At(toHost, "END") = {}
        BY <1>1, <2>6 DEF Stage
      <3>2. toDev' # <<>> => toDev'[Len(toDev')].cmd = "DATA"
        <4>1. SUFFICES ASSUME toDev' # <<>> PROVE toDev'[Len(toDev')].cmd = "DATA"
          OBVIOUS
        <4>2. Len(toDev') + 1 = Len(toDev) /\ toDev'[Len(toDev')] = toDev[Len(toDev)]
          BY <1>1, <4>1, Taken
        <4>3. QED
          BY <1>1, <2>6, <4>2 DEF Stage
      <3>3. QED
        BY <1>2, <2>6, <3>1, <3>2 DEF Stage, Answering, Beginning, Continuing, Finished
    <2>7. CASE Finished
      <3>1. \A i \in 1..Len(toDev') : toDev'[i].cmd = "REBOOT"
        BY <1>1, <2>1, <2>7 DEF Stage
      <3>2. Intact' => Complete'
        BY <1>1, <2>7, IntactBefore DEF Stage, Complete
      <3>3. QED
        BY <1>2, <2>7, <3>1, <3>2 DEF Stage, Answering, Beginning, Continuing, Finished
    <2>8. CASE pc = "idle" /\ view \notin {"uploading", "done"}
      BY <1>2, <2>8 DEF Stage, Answering, Beginning, Continuing, Finished
    <2>9. pc \in {"idle", "id", "req"}
      BY <1>1 DEF TypeInv, TypeOK
    <2>10. QED
      BY <2>3, <2>4, <2>5, <2>6, <2>7, <2>8, <2>9 DEF Answering, Beginning, Continuing, Finished
  <1>8. QED
    BY <1>4, <1>5, <1>6, <1>7 DEF UploadInv

\* Losing a packet takes one from a pipe.
LEMMA LoseKeeps == UploadInv /\ Lose /\ TypeInv' => UploadInv'
  <1> SUFFICES ASSUME UploadInv, Lose, TypeInv' PROVE UploadInv'
    OBVIOUS
  <1>1. /\ TypeInv /\ Valid(dSeq, toDev, Owed, toHost, uploads)
        /\ InOrder(dSeq, toDev, Owed, toHost, uploads)
        /\ Intact => Right(dSeq, toDev, Owed, toHost, dNeed, flash)
        /\ Shape(toHost, dNeed) /\ Stage /\ toHost \in Seq(Packets)
    BY Typed DEF UploadInv, TypeInv, TypeOK
  <1>2. /\ SameBootloader /\ UNCHANGED host /\ FaultsLeft
        /\ \/ toDev # <<>> /\ toDev' = Tail(toDev) /\ toHost' = toHost
           \/ toHost # <<>> /\ toHost' = Tail(toHost) /\ toDev' = toDev
    BY <1>1, LoseEffect
  <1>3. CASE toDev # <<>> /\ toDev' = Tail(toDev) /\ toHost' = toHost
    BY <1>2, <1>3, TakeKeeps DEF SameBootloader
  <1>4. CASE toHost # <<>> /\ toHost' = Tail(toHost) /\ toDev' = toDev
    <2>1. pc' = pc /\ view' = view /\ fw' = fw /\ uploads' = uploads
      BY <1>2 DEF host
    <2>2. Owed' = Owed
      BY <2>1 DEF Owed, Answering
    <2>3. InOrder(dSeq', toDev', Owed', toHost', uploads')
      BY <1>1, <1>2, <1>4, <2>1, <2>2, OrderRead DEF SameBootloader
    <2>4. Shape(toHost', dNeed') /\ At(toHost', "END") = {}
      BY <1>1, <1>2, <1>4, ShapeTail DEF SameBootloader
    <2>5. Intact' => Right(dSeq', toDev', Owed', toHost', dNeed', flash')
      <3>1. Intact => Right(dSeq, toDev, Owed, Tail(toHost), dNeed, flash)
        BY <1>1, <1>4, RightRead
      <3>2. QED
        BY <1>1, <1>2, <1>4, <2>2, <3>1, IntactBefore DEF SameBootloader
    <2>6. Stage'
      <3>1. Intact' /\ (Intact => Complete) => Complete'
        BY <1>1, <1>2, IntactBefore DEF Complete, SameBootloader
      <3>2. QED
        BY <1>1, <1>2, <1>4, <2>1, <2>4, <3>1
        DEF Stage, Answering, Beginning, Continuing, Finished, SameBootloader
    <2>7. QED
      BY <2>3, <2>4, <2>5, <2>6 DEF UploadInv
  <1>5. QED
    BY <1>2, <1>3, <1>4

\* The bootloader.

\* The bootloader begins again, with the number after the last.
LEMMA StartKeeps ==
    MaxUploads <= SeqMod /\ UploadInv /\ DevStart /\ UNCHANGED <<host, faults>> /\ TypeInv' => UploadInv'
  <1> SUFFICES ASSUME MaxUploads <= SeqMod, UploadInv, DevStart, UNCHANGED <<host, faults>>, TypeInv'
               PROVE  UploadInv'
    OBVIOUS
  <1> DEFINE id == Plain("ID")  p == Packet("REQ_DATA", dSeq', 1)  g == Append(toHost, id)
             e == NextSeq(dSeq)  t == Tail(toDev)
  <1>1. /\ TypeInv /\ Valid(dSeq, toDev, Owed, toHost, uploads)
        /\ InOrder(dSeq, toDev, Owed, toHost, uploads)
        /\ Shape(toHost, dNeed) /\ Stage /\ toHost \in Seq(Packets) /\ toDev \in Seq(Packets)
        /\ uploads <= SeqMod
    <2>1. TypeInv /\ uploads \in 0..MaxUploads /\ MaxUploads \in Nat /\ SeqMod \in Nat
      BY FwUploadAssumption DEF UploadInv, TypeInv, TypeOK
    <2>2. uploads <= SeqMod
      BY <2>1
    <2>3. /\ InOrder(dSeq, toDev, Owed, toHost, uploads)
          /\ Shape(toHost, dNeed) /\ Stage
      BY DEF UploadInv
    <2>4. toHost \in Seq(Packets) /\ toDev \in Seq(Packets)
      BY <2>1 DEF TypeInv, TypeOK
    <2>5. QED
      BY <2>1, <2>2, <2>3, <2>4, Typed
  <1>2. /\ toDev # <<>> /\ Head(toDev).cmd = "START" /\ toDev' = t
        /\ dSeq' = e /\ dSeq' \in Seqs /\ dNeed' = 1
        /\ toHost' = Append(g, p) /\ id \in Packets /\ p \in Packets
    BY <1>1, StartEffect
  <1>3. id.cmd = "ID" /\ p.cmd = "REQ_DATA" /\ p.seq = e /\ p.block = 1
    BY <1>2, Names
  <1>4. pc' = pc /\ view' = view /\ fw' = fw /\ uploads' = uploads /\ faults' = faults
    BY DEF host
  <1>5. Owed' = Owed
    BY <1>4 DEF Owed, Answering
  <1>6. /\ Valid(e, t, Owed, toHost, uploads) /\ InOrder(e, t, Owed, toHost, uploads) /\ Starts(t) < uploads
        /\ \A i \in At(t, "DATA") : Age(e, t[i].seq) > 0
        /\ \A f \in Owed : Age(e, f.seq) > 0
        /\ \A j \in At(toHost, "REQ_DATA") : Age(e, toHost[j].seq) > 0
    BY <1>1, <1>2, OrderStart
  <1>7. Longer(g, toHost, id)
    BY DEF Longer
  <1>8. Shape(toHost', dNeed') /\ At(toHost', "END") = At(toHost, "END")
    BY <1>1, <1>2, <1>3, ShapeStart
  <1> HIDE DEF id, p, e, t
  <1>9. Valid(e, t, Owed, g, uploads) /\ InOrder(e, t, Owed, g, uploads)
    BY <1>2, <1>3, <1>6, OrderReply
  <1> HIDE DEF g
  <1>10. \A j \in At(g, "REQ_DATA") : Age(e, g[j].seq) > 0
    <2>1. \A j \in At(g, "REQ_DATA") : \/ j \in At(toHost, "REQ_DATA") /\ g[j] = toHost[j]
                                       \/ g[j] = id
      BY <1>1, <1>2, <1>7, AtAdded
    <2>2. \A j \in At(g, "REQ_DATA") : g[j].cmd = "REQ_DATA"
      BY DEF At
    <2>3. QED
      BY <1>3, <1>6, <2>1, <2>2
  <1>11. InOrder(dSeq', toDev', Owed', toHost', uploads')
    BY <1>2, <1>3, <1>4, <1>5, <1>6, <1>9, <1>10, OrderAsk
  <1>12. Right(dSeq', toDev', Owed', toHost', dNeed', flash')
    <2>1. \A b \in 1..(1 - 1) : flash'[b] = b
      OBVIOUS
    <2>2. Right(e, t, Owed, Append(g, p), 1, flash')
      BY <1>2, <1>3, <1>6, <1>9, <1>10, <2>1, RightAsk
    <2>3. QED
      BY <1>2, <1>5, <2>2
  <1>13. Stage'
    <2>1. toDev'= t /\ \A i \in At(t, "DATA") : Age(dSeq', t[i].seq) > 0
      BY <1>2, <1>6
    <2>2. CASE pc = "id"
      BY <1>1, <1>4, <2>2 DEF Stage, Answering, Beginning, Continuing, Finished
    <2>3. CASE Answering
      BY <1>1, <1>4, <1>8, <2>3 DEF Stage, Answering, Beginning, Continuing, Finished
    <2>4. CASE Beginning
      BY <1>1, <1>4, <1>8, <2>1, <2>4 DEF Stage, Answering, Beginning, Continuing, Finished
    <2>5. CASE Continuing
      <3>1. At(toHost', "END") = {}
        BY <1>1, <1>2, <1>8, <2>5 DEF Stage
      <3>2. toDev' # <<>> => toDev'[Len(toDev')].cmd = "DATA"
        <4>1. SUFFICES ASSUME toDev' # <<>> PROVE toDev'[Len(toDev')].cmd = "DATA"
          OBVIOUS
        <4>2. Len(toDev') + 1 = Len(toDev) /\ toDev'[Len(toDev')] = toDev[Len(toDev)]
          BY <1>1, <1>2, <4>1, Taken DEF t
        <4>3. QED
          BY <1>1, <1>2, <2>5, <4>2 DEF Stage
      <3>3. QED
        BY <1>4, <2>5, <3>1, <3>2 DEF Stage, Answering, Beginning, Continuing, Finished
    <2>6. CASE Finished
      <3>1. 1 \in 1..Len(toDev) /\ toDev[1].cmd = "START"
        BY <1>1, <1>2, Taken
      <3>2. QED
        BY <1>1, <2>6, <3>1 DEF Stage
    <2>7. CASE pc = "idle" /\ view \notin {"uploading", "done"}
      BY <1>4, <2>7 DEF Stage, Answering, Beginning, Continuing, Finished
    <2>8. pc \in {"idle", "id", "req"}
      BY <1>1 DEF TypeInv, TypeOK
    <2>9. QED
      BY <2>2, <2>3, <2>4, <2>5, <2>6, <2>7, <2>8 DEF Answering, Beginning, Continuing, Finished
  <1>14. QED
    BY <1>8, <1>11, <1>12, <1>13 DEF UploadInv

\* The bootloader takes the block that it asked for.
LEMMA DataKeeps == UploadInv /\ DevData /\ UNCHANGED <<host, faults>> /\ TypeInv' => UploadInv'
  <1> SUFFICES ASSUME UploadInv, DevData, UNCHANGED <<host, faults>>, TypeInv' PROVE UploadInv'
    OBVIOUS
  <1> DEFINE t == Tail(toDev)
  <1>1. /\ TypeInv /\ Valid(dSeq, toDev, Owed, toHost, uploads)
        /\ InOrder(dSeq, toDev, Owed, toHost, uploads)
        /\ Intact => Right(dSeq, toDev, Owed, toHost, dNeed, flash)
        /\ Shape(toHost, dNeed) /\ Stage /\ toHost \in Seq(Packets) /\ toDev \in Seq(Packets)
        /\ dSeq \in Seqs /\ flash \in [Image -> 0..Blocks]
    BY Typed DEF UploadInv, TypeInv, TypeOK
  <1>2. /\ toDev # <<>> /\ Head(toDev).cmd = "DATA" /\ toDev' = t
        /\ dNeed \in Image /\ dNeed # 0 /\ dNeed \in Nat /\ Blocks \in Nat
        /\ Head(toDev).seq = dSeq
        /\ flash' = [flash EXCEPT ![dNeed] = Head(toDev).block]
    BY <1>1, DataEffect, FwUploadAssumption DEF Image
  <1>3. pc' = pc /\ view' = view /\ fw' = fw /\ uploads' = uploads /\ faults' = faults
    BY DEF host
  <1>4. At(t, "DATA") = {} /\ Owed = {} /\ At(toHost, "REQ_DATA") = {} /\ Starts(t) < uploads
    BY <1>1, <1>2, Alone
  <1>5. Owed' = {} /\ ~Answering
    BY <1>3, <1>4 DEF Owed, Answering
  <1>6. toHost = <<>>
    BY <1>1, <1>2, <1>4, ShapeEmpty
  <1>7. Valid(dSeq, t, {}, toHost, uploads)
    BY <1>1, <1>2, <1>4, OrderTake
  <1>8. 1 \in At(toDev, "DATA") /\ Age(dSeq, toDev[1].seq) = 0 /\ Head(toDev) = toDev[1]
    BY <1>1, <1>2, Taken, AgeRange DEF At
  <1>9. Intact => Head(toDev).block = dNeed /\ \A b \in 1..(dNeed - 1) : flash[b] = b
    BY <1>1, <1>2, <1>8 DEF Right
  <1>10. Intact => \A b \in 1..dNeed : flash'[b] = b
    <2>1. SUFFICES ASSUME Intact, NEW b \in 1..dNeed PROVE flash'[b] = b
      OBVIOUS
    <2>2. b \in Image /\ (b = dNeed \/ b \in 1..(dNeed - 1))
      BY <1>2 DEF Image
    <2>3. QED
      BY <1>1, <1>2, <1>9, <2>1, <2>2
  <1>11. ~Beginning /\ ~Finished
    <2>1. ~Beginning
      BY <1>1, <1>8 DEF Stage
    <2>2. 1 \in 1..Len(toDev) /\ toDev[1].cmd = "DATA"
      BY <1>8 DEF At
    <2>3. QED
      BY <1>1, <2>1, <2>2 DEF Stage
  <1>12. Continuing => toDev' = <<>>
    <2>1. SUFFICES ASSUME Continuing, t # <<>> PROVE FALSE
      BY <1>2
    <2>2. /\ t \in Seq(Packets) /\ Len(t) + 1 = Len(toDev) /\ Len(t) \in 1..Len(t)
          /\ t[Len(t)] = toDev[Len(toDev)]
      BY <1>1, <1>2, <2>1, Taken
    <2>3. t[Len(t)].cmd = "DATA"
      BY <1>1, <1>2, <2>1, <2>2 DEF Stage
    <2>4. QED
      BY <1>4, <2>2, <2>3 DEF At
  <1> HIDE DEF t
  <1>13. CASE /\ dNeed < Blocks /\ dNeed' = dNeed + 1
              /\ dSeq' \in Seqs /\ Packet("REQ_DATA", dSeq', dNeed') \in Packets
              /\ toHost' = Append(toHost, Packet("REQ_DATA", dSeq', dNeed'))
    <2> DEFINE p == Packet("REQ_DATA", dSeq', dNeed')
    <2>1. p \in Packets /\ p.cmd = "REQ_DATA" /\ p.seq = dSeq' /\ p.block = dNeed' /\ toHost' = Append(toHost, p)
      BY <1>13, Names
    <2> HIDE DEF p
    <2>2. Valid(dSeq', t, {}, toHost, uploads) /\ InOrder(dSeq', t, {}, toHost, uploads)
      BY <1>4, <1>7, <1>13, OrderNone
    <2>3. InOrder(dSeq', toDev', Owed', toHost', uploads')
      BY <1>2, <1>3, <1>4, <1>5, <2>1, <2>2, OrderAsk
    <2>4. Intact' => Right(dSeq', toDev', Owed', toHost', dNeed', flash')
      <3>1. SUFFICES ASSUME Intact PROVE Right(dSeq', t, {}, Append(toHost, p), dNeed', flash')
        BY <1>2, <1>3, <1>5, <2>1 DEF Intact
      <3>2. \A b \in 1..(dNeed' - 1) : flash'[b] = b
        BY <1>2, <1>10, <1>13, <3>1
      <3>3. QED
        BY <1>4, <2>1, <2>2, <3>2, RightAsk
    <2>5. Shape(toHost', dNeed')
      BY <1>6, <2>1, ShapeOne
    <2>6. At(toHost', "END") = {}
      <3>1. Len(toHost') = 1 /\ toHost'[1] = p
        BY <1>6, <2>1
      <3>2. \A i \in 1..Len(toHost') : toHost'[i] = p
        BY <3>1
      <3>3. QED
        BY <2>1, <3>2 DEF At
    <2>7. Stage'
      BY <1>1, <1>3, <1>5, <1>11, <1>12, <2>6 DEF Stage, Answering, Beginning, Continuing, Finished
    <2>8. QED
      BY <2>3, <2>4, <2>5, <2>7 DEF UploadInv
  <1>14. CASE /\ dNeed = Blocks /\ dNeed' = 0 /\ dSeq' = dSeq
              /\ Plain("END") \in Packets /\ toHost' = Append(toHost, Plain("END"))
    <2> DEFINE p == Plain("END")
    <2>1. p \in Packets /\ p.cmd = "END" /\ toHost' = Append(toHost, p)
      BY <1>14, Names
    <2> HIDE DEF p
    <2>2. InOrder(dSeq, t, {}, toHost, uploads)
      BY <1>1, <1>4, <1>7, OrderNone
    <2>3. InOrder(dSeq', toDev', Owed', toHost', uploads')
      BY <1>2, <1>3, <1>5, <1>7, <1>14, <2>1, <2>2, OrderReply
    <2>4. Right(dSeq', toDev', Owed', toHost', dNeed', flash')
      BY <1>14 DEF Right
    <2>5. Shape(toHost', dNeed')
      BY <1>6, <1>14, <2>1, ShapeOne
    <2>6. Intact' => Complete'
      BY <1>3, <1>10, <1>14 DEF Intact, Complete, Image
    <2>7. Stage'
      BY <1>1, <1>3, <1>5, <1>11, <1>12, <2>6 DEF Stage, Answering, Beginning, Continuing, Finished
    <2>8. QED
      BY <2>3, <2>4, <2>5, <2>7 DEF UploadInv
  <1>15. QED
    BY <1>1, <1>13, <1>14, DataEffect

\* Every step keeps the invariant, as long as no number comes round again.
LEMMA UploadStep == MaxUploads <= SeqMod /\ UploadInv /\ [Next]_vars => UploadInv'
  <1> SUFFICES ASSUME MaxUploads <= SeqMod, UploadInv, [Next]_vars PROVE UploadInv'
    OBVIOUS
  <1>1. TypeInv /\ TypeInv'
    BY TypeStep DEF UploadInv
  <1>2. CASE tf_fw_upload
    BY <1>1, <1>2, UploadKeeps
  <1>3. CASE tf_fw_upload_next
    BY <1>1, <1>3, NextKeeps
  <1>4. CASE tf_fw_reboot
    BY <1>1, <1>4, RebootKeeps
  <1>5. CASE tf_fw_upload_id
    BY <1>1, <1>5, IdKeeps
  <1>6. CASE tf_wait_for_req_data
    BY <1>1, <1>6, WaitKeeps
  <1>7. CASE DevStart /\ UNCHANGED <<host, faults>>
    BY <1>1, <1>7, StartKeeps
  <1>8. CASE DevData /\ UNCHANGED <<host, faults>>
    BY <1>1, <1>8, DataKeeps
  <1>9. CASE DevDrop /\ UNCHANGED <<host, faults>>
    <2>1. /\ toDev # <<>> /\ toDev' = Tail(toDev) /\ toHost' = toHost /\ dSeq' = dSeq /\ flash' = flash
          /\ dNeed' = dNeed \/ dNeed' = 0
      BY <1>1, <1>9, DropEffect
    <2>2. FaultsLeft
      <3>1. /\ faults' = faults /\ faults \in [FaultKinds -> Nat] /\ faults["garbled"] \in Nat
            /\ \A k \in FaultKinds : faults[k] <= MaxFaults[k]
        BY <1>1, <1>9 DEF TypeInv, TypeOK, FaultKinds
      <3>2. faults'["garbled"] <= faults["garbled"]
        BY <3>1
      <3>3. QED
        BY <3>1, <3>2 DEF FaultsLeft
    <2>3. QED
      BY <1>1, <1>9, <2>1, <2>2, TakeKeeps
  <1>10. CASE Lose
    BY <1>1, <1>10, LoseKeeps
  <1>11. CASE UNCHANGED vars
    BY <1>1, <1>11 DEF UploadInv, Stage, Owed, Answering, Beginning, Continuing, Finished, Intact, Complete,
                       vars, pipes, bootloader, host
  <1>12. QED
    BY <1>2, <1>3, <1>4, <1>5, <1>6, <1>7, <1>8, <1>9, <1>10, <1>11 DEF Next, Library, Bootloader

\* Uploaded: when tf_fw_upload_next() says that the upload is finished, every
\* block is where it belongs, whatever earlier uploads have left in the
\* pipes, as long as the caller starts no more of them than there are
\* sequence numbers (of which tf_fwio.c has 256).
THEOREM FinishedIsComplete == MaxUploads <= SeqMod => (Spec => []Uploaded)
  <1>1. UploadInv => Uploaded
    BY DEF UploadInv, Stage, Finished, Intact, Complete, Uploaded
  <1>2. SUFFICES ASSUME MaxUploads <= SeqMod PROVE Spec => []Uploaded
    OBVIOUS
  <1>3. UploadInv /\ [Next]_vars => UploadInv'
    BY <1>2, UploadStep
  <1>4. QED
    BY <1>1, <1>3, UploadInit, PTL DEF Spec

=============================================================================
