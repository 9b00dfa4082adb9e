----------------------------- MODULE TfIoProofs -----------------------------
(***************************************************************************)
(* Theorems about TfIo, for every value of its constants: first its types  *)
(* and tf->pending, then the conversation with the device: request and     *)
(* answer stay in step, and what the application is told is what the       *)
(* device has done.                                                        *)
(*                                                                         *)
(* The theorems about the conversation are about sessions with usbdevfs,   *)
(* which begin with a reset of the bus, in which no answer is late, no     *)
(* write fails, at most two packets are lost, and any number of packets    *)
(* are damaged and of processes die.  With a third packet lost they are    *)
(* false: tf_init() may lose its CANCEL, its CANCEL and its FAIL, and then *)
(* its SUCCESS asks for the next page of a listing that a process left     *)
(* behind when it died.                                                    *)
(***************************************************************************)
EXTENDS TfIo, SequenceTheorems, TLAPS

\* Where the loop counters may be: tf_init tries four commands, the third one
\* after FAIL and SUCCESS.
AttemptInv ==
    /\ attempt \in 1..MaxCancelTries
    /\ pc \in {"init", "init_reply"} => attempt \in 1..4
    /\ pc \in {"init_fail", "init_success"} => attempt = 3

\* The timeout is doubled exactly while a put waits for the answer to a block,
\* and that block is one that was still to be put.
PutInv ==
    /\ timeout = IF pc = "put_data" THEN 2 ELSE 1
    /\ pc = "put_data" => sent < Blocks
    /\ sent \in 0..Blocks

\* The inductive invariant behind TypeOK, in the parts that its proof takes
\* one by one.
PipesOK == ToppyTypeOK /\ faults \in [FaultKinds -> Nat]

CallOK ==
    /\ dev \in BOOLEAN /\ error \in ErrorCodes /\ pending \in BOOLEAN
    /\ pc \in {"idle"} \cup Reads \cup Writes
    /\ op \in Ops /\ ret \in ErrorCodes
    /\ AttemptInv

AppOK ==
    /\ txn \in Views
    /\ item \in Files \cup {NoFile}
    /\ got \in Seq([file: Files \cup {NoFile}, n: Int])

TypeInv == PipesOK /\ CallOK /\ PutInv /\ AppOK

\* tf->pending belongs to an open get; the two places that wait for a block of
\* a file are reached from tf_cmd_get_next only.
PendingInv ==
    /\ pending => dev /\ pc = "idle" /\ txn = "get"
    /\ pc \in {"get_next", "gn_data"} => op = "get_next"

-----------------------------------------------------------------------------
(* The two primitives keep the packets on the pipes well formed.           *)

\* A fault uses up a unit of its budget.
LEMMA FaultType ==
    ASSUME faults \in [FaultKinds -> Nat], NEW k \in FaultKinds, Fault(k)
    PROVE  faults' \in [FaultKinds -> Nat]
  BY DEF Fault

\* tf_send() puts a packet of the library on the pipe, or none.
LEMMA SendType ==
    ASSUME PipesOK, NEW p \in HostPackets, NEW e, tf_send(p, e)
    PROVE  PipesOK'
  <1>1. Append(toDev, p) \in Seq(HostPackets)
    BY DEF PipesOK, ToppyTypeOK
  <1>2. toDev' \in Seq(HostPackets)
    BY <1>1 DEF tf_send, PipesOK, ToppyTypeOK
  <1>3. faults' \in [FaultKinds -> Nat]
    BY FaultType DEF tf_send, PipesOK, FaultKinds
  <1>4. QED
    BY <1>2, <1>3 DEF tf_send, PipesOK, ToppyTypeOK, device

\* A read that succeeds returns a packet of the device.
LEMMA ReadType ==
    ASSUME PipesOK, NEW e, tf_get_response(e)
    PROVE  /\ PipesOK'
           /\ e = TF_ERR_NONE => reply \in DevicePackets
  <1>1. toHost # <<>> => Head(toHost) \in DevicePackets /\ Tail(toHost) \in Seq(DevicePackets)
    BY DEF PipesOK, ToppyTypeOK
  <1>2. toHost' \in Seq(DevicePackets)
    BY <1>1 DEF tf_get_response, PipesOK, ToppyTypeOK
  <1>3. faults' \in [FaultKinds -> Nat]
    BY FaultType DEF tf_get_response, PipesOK, FaultKinds
  <1>4. e = TF_ERR_NONE => reply \in DevicePackets
    BY <1>1 DEF tf_get_response, reply, TF_ERR_NONE, TF_ERR_IO, TF_ERR_CRC, TF_ERR_NOCONN
  <1>5. QED
    BY <1>2, <1>3, <1>4 DEF tf_get_response, PipesOK, ToppyTypeOK, device

\* Whatever was read, the functions return one of the documented errors.
LEMMA ResultType ==
    ASSUME PipesOK, NEW e \in ErrorCodes, NEW c, tf_get_response(e)
    PROVE  Expect(e, c) \in ErrorCodes /\ ExpectOrFail(e, c) \in ErrorCodes
  <1>1. Expect(e, c) \in ErrorCodes
    BY DEF Expect, ErrorCodes
  <1>2. Read(e, "FAIL") => -reply.n \in ErrorCodes
    BY ReadType DEF Read, DevicePackets, ErrorCodes
  <1>3. QED
    BY <1>1, <1>2 DEF ExpectOrFail

\* After a call the application is in one of its views.
LEMMA ViewType ==
    ASSUME NEW o, NEW v PROVE AfterCall(o, v) \in Views
  BY DEF AfterCall, AfterSuccess, AfterError, Views

\* The device only ever answers with packets of the protocol.
LEMMA AnswerType ==
    ASSUME ToppyTypeOK, NEW p \in DevicePackets, Answer(p)
    PROVE  toHost' \in Seq(DevicePackets)
  BY DEF ToppyTypeOK, Answer

\* The device takes the request at the head of its queue.
LEMMA HandleType ==
    ASSUME ToppyTypeOK, NEW c, Handle(c)
    PROVE  toDev' \in Seq(HostPackets) /\ Head(toDev) \in HostPackets /\ Head(toDev).cmd = c
  BY DEF ToppyTypeOK, Handle

\* The device answers with packets of its kind.
LEMMA DeviceType ==
    ASSUME ToppyTypeOK, ToppyNext PROVE ToppyTypeOK'
  <1> USE DEF ToppyTypeOK, DeviceModes
  <1>1. \A c \in {"SUCCESS", "SIZE_RESULT", "DIREND", "FILE_END"} : Plain(c) \in DevicePackets
    BY DEF Plain, Packet, DevicePackets
  <1>2. \A r \in FailCodes : Packet("FAIL", NoFile, r) \in DevicePackets
    BY DEF Packet, DevicePackets
  <1>3. \A f \in Files \cup {NoFile}, i \in Nat :
            ListPage(f, i) \in DevicePackets /\ FileBlock(f, i) \in DevicePackets
    BY <1>1 DEF ListPage, FileBlock, Packet, DevicePackets
  <1>4. CASE DevCancel
    BY <1>1, <1>4, AnswerType, HandleType DEF DevCancel
  <1>5. CASE DevReset
    BY <1>1, <1>5, AnswerType DEF DevReset
  <1>6. CASE DevSimple
    <2>1. PICK c \in SimpleCmds \cup {"SIZE"} :
            Handle(c) /\ Answer(Plain(IF c = "SIZE" THEN "SIZE_RESULT" ELSE "SUCCESS"))
      BY <1>6 DEF DevSimple
    <2>2. QED
      BY <1>1, <1>6, <2>1, AnswerType, HandleType DEF DevSimple, device
  <1>7. CASE DevDir
    <2>1. Head(toDev).file \in Files \cup {NoFile}
      BY <1>7, HandleType DEF DevDir, HostPackets
    <2>2. ListPage(Head(toDev).file, 1) \in DevicePackets
      BY <1>3, <2>1
    <2>3. QED
      BY <1>7, <2>1, <2>2, AnswerType, HandleType DEF DevDir
  <1>8. CASE DevGet
    <2>1. Head(toDev).file \in Files \cup {NoFile}
      BY <1>8, HandleType DEF DevGet, HostPackets
    <2>2. Packet("FILE_START", Head(toDev).file, 0) \in DevicePackets
      BY <2>1 DEF Packet, DevicePackets
    <2>3. QED
      BY <1>8, <2>1, <2>2, AnswerType, HandleType DEF DevGet
  <1>9. CASE DevContinue
    <2>1. toDev' \in Seq(HostPackets) /\ UNCHANGED <<dFile, dRecv>>
      BY <1>9, HandleType DEF DevContinue
    <2>2. /\ ListPage(dFile, dPos + 1) \in DevicePackets
          /\ FileBlock(dFile, dPos + 1) \in DevicePackets
      BY <1>3
    <2>3. toHost' \in Seq(DevicePackets)
      BY <1>2, <1>9, <2>2, AnswerType DEF DevContinue
    <2>4. dMode' \in DeviceModes /\ dPos' \in Nat
      BY <1>9 DEF DevContinue
    <2>5. QED
      BY <2>1, <2>3, <2>4
  <1>10. CASE DevPut
    <2>1. Head(toDev).file \in Files \cup {NoFile}
      BY <1>10, HandleType DEF DevPut, HostPackets
    <2>2. QED
      BY <1>1, <1>10, <2>1, AnswerType, HandleType DEF DevPut
  <1>11. CASE DevReceive
    <2>1. PICK c \in {"FILE_START", "FILE_DATA", "FILE_END"} :
            /\ Handle(c) /\ Answer(Plain("SUCCESS"))
            /\ dMode' = IF c = "FILE_END" THEN "idle" ELSE "recv"
            /\ dRecv' = IF c = "FILE_DATA" THEN dRecv \cup {Head(toDev).n} ELSE dRecv
            /\ UNCHANGED <<dFile, dPos>>
      BY <1>11 DEF DevReceive
    <2>2. Head(toDev).n \in Int
      BY <2>1, HandleType DEF HostPackets
    <2>3. QED
      BY <1>1, <2>1, <2>2, AnswerType, HandleType
  <1>12. CASE DevAbort
    BY <1>12, HandleType DEF DevAbort
  <1>13. CASE DevRefuse
    BY <1>2, <1>13, AnswerType, HandleType DEF DevRefuse, device
  <1>14. CASE DevDeaf
    BY <1>14, HandleType DEF DevDeaf, device
  <1>15. QED
    BY <1>4, <1>5, <1>6, <1>7, <1>8, <1>9, <1>10, <1>11, <1>12, <1>13, <1>14 DEF ToppyNext
\* What Packet and Plain make are packets of the library.
LEMMA PacketType ==
    ASSUME NEW c \in Requests \cup {"CANCEL", "RESET", "SUCCESS", "FAIL"},
           NEW f \in Files \cup {NoFile}, NEW i \in Int
    PROVE  Packet(c, f, i) \in HostPackets /\ Plain(c) \in HostPackets
  BY DEF Packet, Plain, HostPackets

-----------------------------------------------------------------------------
(* Type correctness.                                                       *)

\* The packets without fields are packets of the library.
LEMMA SentPackets ==
    \A c \in {"SUCCESS", "CANCEL", "SIZE", "FILE_START", "FILE_END"} : Plain(c) \in HostPackets
  BY PacketType DEF Requests

\* The fields of what the device sends have their types.
LEMMA ReplyFields ==
    ASSUME NEW p \in DevicePackets PROVE p.file \in Files \cup {NoFile} /\ p.n \in Int
  <1>1. FailCodes \subseteq Int
    BY ToppyAssumption
  <1>2. CASE p.cmd = "FAIL"
    BY <1>1, <1>2 DEF DevicePackets
  <1>3. CASE p.cmd # "FAIL"
    BY <1>3 DEF DevicePackets
  <1>4. QED
    BY <1>2, <1>3

\* The results that the functions return are error codes.
LEMMA CodeType ==
    /\ {TF_ERR_NONE, TF_ERR_DONE, TF_ERR_IO} \subseteq ErrorCodes
    /\ {0, 1, -1} \subseteq ErrorCodes
  BY DEF ErrorCodes, IoErrors, TF_ERR_NONE, TF_ERR_DONE, TF_ERR_CRC

\* The types hold at first.
LEMMA TypeInit == Init => TypeInv
  <1> SUFFICES ASSUME Init PROVE TypeInv
    OBVIOUS
  <1>1. PipesOK
    BY TfIoAssumption DEF Init, ToppyInit, PipesOK, ToppyTypeOK, DeviceModes
  <1>2. CallOK
    <2>1. TF_ERR_NONE \in ErrorCodes
      BY DEF ErrorCodes
    <2>2. AttemptInv
      BY DEF Init, AttemptInv, MaxCancelTries
    <2>3. QED
      BY <2>1, <2>2 DEF Init, CallOK, Ops
  <1>3. PutInv
    BY ToppyAssumption DEF Init, PutInv
  <1>4. AppOK
    BY DEF Init, AppOK, Views
  <1>5. QED
    BY <1>1, <1>2, <1>3, <1>4 DEF TypeInv

\* Every step keeps the pipes and the device within their types.
LEMMA PipesStep ==
    ASSUME TypeInv, [Next]_vars
    PROVE  PipesOK'
  <1> USE DEF TypeInv
  <1>1. CASE tf_init_fail
    <2>1. Packet("FAIL", NoFile, 2) \in HostPackets
      BY PacketType
    <2>2. QED
      BY <1>1, <2>1, SendType DEF tf_init_fail
  <1>2. CASE get_cancel_fail
    <2>1. Packet("FAIL", NoFile, TF_ERR_CRC) \in HostPackets
      BY PacketType DEF TF_ERR_CRC
    <2>2. QED
      BY <1>2, <2>1, SendType DEF get_cancel_fail
  <1>3. CASE tf_cmd_put_data
    <2>1. Packet("FILE_DATA", NoFile, sent + 1) \in HostPackets
      BY PacketType DEF Requests, PutInv
    <2>2. QED
      BY <1>3, <2>1, SendType DEF tf_cmd_put_data
  <1>4. CASE tf_cmd_get_next
    <2>1. CASE pending
      BY <1>4, <2>1 DEF tf_cmd_get_next, PipesOK, ToppyTypeOK, pipes, device
    <2>2. CASE ~pending
      BY <1>4, <2>2, SentPackets, SendType DEF tf_cmd_get_next
    <2>3. QED
      BY <2>1, <2>2
  <1>5. CASE tf_cmd_size \/ tf_cmd_dir_next \/ tf_init_success \/ get_dirents_end
    BY <1>5, SentPackets, SendType
    DEF tf_cmd_size, tf_cmd_dir_next, tf_init_success, get_dirents_end
  <1>6. CASE tf_cmd_get_next_end \/ tf_cmd_get_next_data \/ get_cancel_cancel \/
             tf_cmd_put_start
    BY <1>6, SentPackets, SendType
    DEF tf_cmd_get_next_end, tf_cmd_get_next_data, get_cancel_cancel, tf_cmd_put_start
  <1>7. CASE tf_cmd_put_done \/ put_done_cancel \/ put_cancel_cancel
    BY <1>7, SentPackets, SendType
    DEF tf_cmd_put_done, put_done_cancel, put_cancel_cancel
  <1>8. CASE tf_init_cmd
    <2>1. InitCmds[attempt] \in Requests \cup {"CANCEL"}
      BY <1>8 DEF tf_init_cmd, CallOK, AttemptInv, InitCmds, Requests, SimpleCmds
    <2>2. QED
      BY <1>8, <2>1, SendType, PacketType DEF tf_init_cmd
  <1>9. ASSUME NEW c \in SimpleCmds \cup {"CANCEL", "RESET"}, tf_cmd(c) PROVE PipesOK'
    BY <1>9, SendType, PacketType DEF tf_cmd, Requests
  <1>10. ASSUME NEW f \in Files, tf_cmd_dir_first(f) PROVE PipesOK'
    <2>1. "DIR" \in Requests
      BY DEF Requests
    <2>2. Packet("DIR", f, 0) \in HostPackets
      BY <2>1, PacketType
    <2>3. QED
      BY <1>10, <2>2, SendType DEF tf_cmd_dir_first
  <1>11. ASSUME NEW f \in Files, tf_cmd_get(f) PROVE PipesOK'
    <2>1. "GET" \in Requests
      BY DEF Requests
    <2>2. Packet("GET", f, 0) \in HostPackets
      BY <2>1, PacketType
    <2>3. QED
      BY <1>11, <2>2, SendType DEF tf_cmd_get
  <1>12. ASSUME NEW f \in Files, tf_cmd_put(f) PROVE PipesOK'
    <2>1. "PUT" \in Requests
      BY DEF Requests
    <2>2. Packet("PUT", f, 0) \in HostPackets
      BY <2>1, PacketType
    <2>3. QED
      BY <1>12, <2>2, SendType DEF tf_cmd_put
  <1>13. CASE tf_cmd_reply \/ tf_cmd_size_reply \/ tf_init_reply \/ get_dirents \/
             tf_cmd_get_reply
    BY <1>13, ReadType
    DEF tf_cmd_reply, tf_cmd_size_reply, tf_init_reply, get_dirents, tf_cmd_get_reply
  <1>14. CASE tf_cmd_get_next_reply \/ get_cancel_drain \/ get_cancel_cancelled \/
             get_cancel_retry \/ tf_cmd_put_reply
    BY <1>14, ReadType
    DEF tf_cmd_get_next_reply, get_cancel_drain, get_cancel_cancelled, get_cancel_retry,
        tf_cmd_put_reply
  <1>15. CASE tf_cmd_put_started \/ tf_cmd_put_data_reply \/ tf_cmd_put_done_reply \/
             put_done_cancelled \/ put_cancel_cancelled
    BY <1>15, ReadType
    DEF tf_cmd_put_started, tf_cmd_put_data_reply, tf_cmd_put_done_reply,
        put_done_cancelled, put_cancel_cancelled
  <1>16. CASE tf_init \/ tf_cmd_get_cancel \/ tf_cmd_put_cancel \/ topfield_close
    BY <1>16
    DEF PipesOK, ToppyTypeOK, tf_init, tf_cmd_get_cancel, tf_cmd_put_cancel,
        topfield_close, pipes, device
  <1>17. CASE topfield_open
    <2>1. toDev' \in Seq(HostPackets) /\ toHost' \in Seq(DevicePackets)
      <3>1. CASE toDev' = <<>> /\ toHost' = <<>>
        BY <3>1
      <3>2. CASE UNCHANGED pipes
        BY <3>2 DEF PipesOK, ToppyTypeOK, pipes
      <3>3. QED
        BY <1>17, <3>1, <3>2 DEF topfield_open
    <2>2. QED
      BY <1>17, <2>1 DEF topfield_open, PipesOK, ToppyTypeOK, device
  <1>18. CASE Toppy5000
    BY <1>18, DeviceType DEF Toppy5000, PipesOK
  <1>19. CASE Lose
    <2>1. faults' \in [FaultKinds -> Nat]
      BY <1>19, FaultType DEF Lose, PipesOK, FaultKinds
    <2>2. toDev' \in Seq(HostPackets) /\ toHost' \in Seq(DevicePackets)
      <3>1. CASE toDev # <<>> /\ toDev' = Tail(toDev) /\ UNCHANGED toHost
        BY <3>1 DEF PipesOK, ToppyTypeOK
      <3>2. CASE toHost # <<>> /\ toHost' = Tail(toHost) /\ UNCHANGED toDev
        BY <3>2 DEF PipesOK, ToppyTypeOK
      <3>3. QED
        BY <1>19, <3>1, <3>2 DEF Lose
    <2>3. QED
      BY <1>19, <2>1, <2>2 DEF Lose, PipesOK, ToppyTypeOK, device
  <1>20. CASE Crash
    <2>1. faults' \in [FaultKinds -> Nat]
      BY <1>20, FaultType DEF Crash, PipesOK, FaultKinds
    <2>2. QED
      BY <1>20, <2>1 DEF Crash, PipesOK, ToppyTypeOK, pipes, device
  <1>21. CASE UNCHANGED vars
    BY <1>21 DEF vars, PipesOK, ToppyTypeOK, pipes, device
  <1>22. QED
    BY <1>1, <1>2, <1>3, <1>4, <1>5, <1>6, <1>7, <1>8, <1>9, <1>10, <1>11,
       <1>12, <1>13, <1>14, <1>15, <1>16, <1>17, <1>18, <1>19, <1>20, <1>21
    DEF Next, Application, Library, vars

\* Every step keeps the state of the call within its types.
LEMMA CallStep ==
    ASSUME TypeInv, [Next]_vars
    PROVE  CallOK'
  <1> USE DEF TypeInv
  <1>1. CASE tf_cmd_get_cancel
    <2>1. pc' \in {"gc_drain", "gc_fail"}
      BY <1>1 DEF tf_cmd_get_cancel, Goto
    <2>2. UNCHANGED <<dev, error, ret>> /\ pending' = FALSE /\ op' = "get_cancel" /\ attempt' = 1
      BY <1>1 DEF tf_cmd_get_cancel, Goto, Enter
    <2>3. AttemptInv'
      BY <2>1, <2>2 DEF AttemptInv, MaxCancelTries
    <2>4. pc' \in Reads \cup Writes /\ op' \in Ops
      BY <2>1, <2>2 DEF Reads, Writes, Ops
    <2>5. QED
      BY <2>2, <2>3, <2>4 DEF CallOK
  <1>2. CASE topfield_close \/ tf_cmd_size
    BY <1>2, CodeType
    DEF CallOK, AttemptInv, Reads, Writes, Ops, handle, topfield_close, tf_cmd_size,
        Enter, Goto, Return, AwaitOrReturn, PutCancelled, MaxCancelTries
  <1>3. CASE tf_cmd_dir_next \/ tf_init_fail
    BY <1>3, CodeType
    DEF CallOK, AttemptInv, Reads, Writes, Ops, handle, tf_cmd_dir_next, tf_init_fail,
        Enter, Goto, Return, AwaitOrReturn, PutCancelled, MaxCancelTries
  <1>4. CASE tf_init_success \/ get_dirents_end
    BY <1>4, CodeType
    DEF CallOK, AttemptInv, Reads, Writes, Ops, handle, tf_init_success,
        get_dirents_end, Enter, Goto, Return, AwaitOrReturn, PutCancelled,
        MaxCancelTries
  <1>5. CASE tf_cmd_get_next \/ tf_cmd_get_next_end
    BY <1>5, CodeType
    DEF CallOK, AttemptInv, Reads, Writes, Ops, handle, tf_cmd_get_next,
        tf_cmd_get_next_end, Enter, Goto, Return, AwaitOrReturn, PutCancelled,
        MaxCancelTries
  <1>6. CASE tf_cmd_get_next_data \/ get_cancel_fail
    BY <1>6, CodeType
    DEF CallOK, AttemptInv, Reads, Writes, Ops, handle, tf_cmd_get_next_data,
        get_cancel_fail, Enter, Goto, Return, AwaitOrReturn, PutCancelled,
        MaxCancelTries
  <1>7. CASE get_cancel_cancel \/ tf_cmd_put_start
    BY <1>7, CodeType
    DEF CallOK, AttemptInv, Reads, Writes, Ops, handle, get_cancel_cancel,
        tf_cmd_put_start, Enter, Goto, Return, AwaitOrReturn, PutCancelled,
        MaxCancelTries
  <1>8. CASE tf_cmd_put_data \/ tf_cmd_put_done
    BY <1>8, CodeType
    DEF CallOK, AttemptInv, Reads, Writes, Ops, handle, tf_cmd_put_data,
        tf_cmd_put_done, Enter, Goto, Return, AwaitOrReturn, PutCancelled,
        MaxCancelTries
  <1>9. CASE put_done_cancel \/ put_cancel_cancel
    BY <1>9, CodeType
    DEF CallOK, AttemptInv, Reads, Writes, Ops, handle, put_done_cancel,
        put_cancel_cancel, Enter, Goto, Return, AwaitOrReturn, PutCancelled,
        MaxCancelTries
  <1>10. CASE tf_init \/ tf_cmd_put_cancel
    BY <1>10, CodeType
    DEF CallOK, AttemptInv, Reads, Writes, Ops, handle, tf_init, tf_cmd_put_cancel,
        Enter, Goto, Return, AwaitOrReturn, PutCancelled, MaxCancelTries
  <1>11. CASE tf_init_cmd
    BY <1>11, CodeType
    DEF CallOK, AttemptInv, Reads, Writes, Ops, handle, tf_init_cmd, InitGiveUpOn, Goto,
        Return, MaxCancelTries
  <1>12. ASSUME NEW c \in SimpleCmds \cup {"CANCEL", "RESET"}, tf_cmd(c) PROVE CallOK'
    BY <1>12
    DEF CallOK, AttemptInv, Reads, Writes, Ops, handle, tf_cmd, Enter, Goto, Return,
        AwaitOrReturn
  <1>13. ASSUME NEW f \in Files, tf_cmd_dir_first(f) PROVE CallOK'
    BY <1>13
    DEF CallOK, AttemptInv, Reads, Writes, Ops, handle, tf_cmd_dir_first, Enter, Goto,
        Return, AwaitOrReturn
  <1>14. ASSUME NEW f \in Files, tf_cmd_get(f) PROVE CallOK'
    BY <1>14
    DEF CallOK, AttemptInv, Reads, Writes, Ops, handle, tf_cmd_get, Enter, Goto, Return,
        AwaitOrReturn
  <1>15. ASSUME NEW f \in Files, tf_cmd_put(f) PROVE CallOK'
    BY <1>15
    DEF CallOK, AttemptInv, Reads, Writes, Ops, handle, tf_cmd_put, Enter, Goto, Return,
        AwaitOrReturn
  <1>16. CASE tf_cmd_reply \/ tf_cmd_size_reply \/ tf_init_reply
    BY <1>16, ResultType, CodeType
    DEF CallOK, AttemptInv, Reads, Writes, Ops, handle, tf_cmd_reply, tf_cmd_size_reply,
        tf_init_reply, CmdResult, Goto, Return, InitGiveUpOn, PutCancelled,
        MaxCancelTries
  <1>17. CASE get_dirents \/ tf_cmd_get_reply \/ tf_cmd_get_next_reply
    BY <1>17, ResultType, CodeType
    DEF CallOK, AttemptInv, Reads, Writes, Ops, handle, get_dirents, tf_cmd_get_reply,
        tf_cmd_get_next_reply, CmdResult, Goto, Return, InitGiveUpOn, PutCancelled,
        MaxCancelTries
  <1>18. CASE get_cancel_drain \/ get_cancel_cancelled \/ get_cancel_retry
    BY <1>18, ResultType, CodeType
    DEF CallOK, AttemptInv, Reads, Writes, Ops, handle, get_cancel_drain,
        get_cancel_cancelled, get_cancel_retry, CmdResult, Goto, Return, InitGiveUpOn,
        PutCancelled, MaxCancelTries
  <1>19. CASE tf_cmd_put_reply \/ tf_cmd_put_started \/ tf_cmd_put_data_reply
    BY <1>19, ResultType, CodeType
    DEF CallOK, AttemptInv, Reads, Writes, Ops, handle, tf_cmd_put_reply,
        tf_cmd_put_started, tf_cmd_put_data_reply, CmdResult, Goto, Return,
        InitGiveUpOn, PutCancelled, MaxCancelTries
  <1>20. CASE tf_cmd_put_done_reply \/ put_done_cancelled \/ put_cancel_cancelled
    BY <1>20, ResultType, CodeType
    DEF CallOK, AttemptInv, Reads, Writes, Ops, handle, tf_cmd_put_done_reply,
        put_done_cancelled, put_cancel_cancelled, CmdResult, Goto, Return, InitGiveUpOn,
        PutCancelled, MaxCancelTries
  <1>21. CASE topfield_open
    BY <1>21, CodeType
    DEF CallOK, AttemptInv, Reads, Writes, Ops, handle, topfield_open, call, app,
        MaxCancelTries
  <1>22. CASE Crash
    <2>1. /\ dev' = FALSE /\ error' = TF_ERR_NONE /\ pending' = FALSE
          /\ pc' = "idle" /\ op' = "close" /\ ret' = TF_ERR_NONE /\ attempt' = 1
      BY <1>22 DEF Crash
    <2>2. AttemptInv'
      BY <2>1 DEF AttemptInv, MaxCancelTries
    <2>3. op' \in Ops
      BY <2>1 DEF Ops
    <2>4. QED
      BY <2>1, <2>2, <2>3, CodeType DEF CallOK
  <1>23. CASE Lose
    BY <1>23, CodeType
    DEF CallOK, AttemptInv, Reads, Writes, Ops, handle, Lose, call, app, MaxCancelTries
  <1>24. CASE Toppy5000
    BY <1>24, CodeType
    DEF CallOK, AttemptInv, Reads, Writes, Ops, handle, Toppy5000, call, app,
        MaxCancelTries
  <1>25. CASE UNCHANGED vars
    BY <1>25
    DEF CallOK, AttemptInv, Reads, Writes, Ops, handle, vars, call
  <1>26. QED
    BY <1>1, <1>2, <1>3, <1>4, <1>5, <1>6, <1>7, <1>8, <1>9, <1>10, <1>11,
       <1>12, <1>13, <1>14, <1>15, <1>16, <1>17, <1>18, <1>19, <1>20, <1>21,
       <1>22, <1>23, <1>24, <1>25
    DEF Next, Application, Library, vars

\* The timeout is the long one exactly while a put waits for its answer.
LEMMA PutStep ==
    ASSUME TypeInv, [Next]_vars
    PROVE  PutInv'
  <1> USE DEF TypeInv
  <1>1. CASE tf_cmd_size \/ tf_cmd_dir_next \/ tf_init_fail \/ tf_init_success
    BY <1>1
    DEF PutInv, tf_cmd_size, tf_cmd_dir_next, tf_init_fail, tf_init_success, Enter,
        PutCancelled, handle, Goto, Return, AwaitOrReturn
  <1>2. CASE get_dirents_end \/ tf_cmd_get_next \/ tf_cmd_get_next_end \/
             tf_cmd_get_next_data
    BY <1>2
    DEF PutInv, get_dirents_end, tf_cmd_get_next, tf_cmd_get_next_end,
        tf_cmd_get_next_data, Enter, PutCancelled, handle, Goto, Return, AwaitOrReturn
  <1>3. CASE get_cancel_fail \/ get_cancel_cancel \/ tf_cmd_put_start \/ tf_cmd_put_done
    BY <1>3
    DEF PutInv, get_cancel_fail, get_cancel_cancel, tf_cmd_put_start, tf_cmd_put_done,
        Enter, PutCancelled, handle, Goto, Return, AwaitOrReturn
  <1>4. CASE put_done_cancel \/ put_cancel_cancel
    BY <1>4
    DEF PutInv, put_done_cancel, put_cancel_cancel, Enter, PutCancelled, handle, Goto,
        Return, AwaitOrReturn
  <1>5. CASE tf_cmd_reply \/ tf_cmd_size_reply \/ tf_init_reply \/ get_dirents
    BY <1>5
    DEF PutInv, tf_cmd_reply, tf_cmd_size_reply, tf_init_reply, get_dirents,
        InitGiveUpOn, PutCancelled, Goto, Return, AwaitOrReturn
  <1>6. CASE tf_cmd_get_reply \/ tf_cmd_get_next_reply \/ get_cancel_drain \/
             get_cancel_cancelled
    BY <1>6
    DEF PutInv, tf_cmd_get_reply, tf_cmd_get_next_reply, get_cancel_drain,
        get_cancel_cancelled, InitGiveUpOn, PutCancelled, Goto, Return, AwaitOrReturn
  <1>7. CASE get_cancel_retry \/ tf_cmd_put_reply \/ tf_cmd_put_started \/
             tf_cmd_put_done_reply
    BY <1>7
    DEF PutInv, get_cancel_retry, tf_cmd_put_reply, tf_cmd_put_started,
        tf_cmd_put_done_reply, InitGiveUpOn, PutCancelled, Goto, Return, AwaitOrReturn
  <1>8. CASE put_done_cancelled \/ put_cancel_cancelled
    BY <1>8
    DEF PutInv, put_done_cancelled, put_cancel_cancelled, InitGiveUpOn, PutCancelled,
        Goto, Return, AwaitOrReturn
  <1>9. CASE tf_init_cmd
    BY <1>9
    DEF PutInv, tf_init_cmd, InitGiveUpOn, Goto, Return, AwaitOrReturn
  <1>10. CASE tf_cmd_put_data
    BY <1>10
    DEF PutInv, tf_cmd_put_data, Enter, Goto, Return, AwaitOrReturn
  <1>11. CASE tf_cmd_put_data_reply
    <2>0. SavedTimeout = 1
      BY <1>11 DEF tf_cmd_put_data_reply, SavedTimeout, PutInv
    <2>1. sent' \in {sent, sent + 1} /\ pc' = "idle" /\ timeout' = 1 /\ sent < Blocks
      BY <1>11, <2>0 DEF tf_cmd_put_data_reply, Return, PutInv
    <2>2. QED
      BY <2>1, ToppyAssumption DEF PutInv
  <1>12. ASSUME NEW c \in SimpleCmds \cup {"CANCEL", "RESET"}, tf_cmd(c) PROVE PutInv'
    BY <1>12, ToppyAssumption
    DEF PutInv, tf_cmd, Enter, Goto, Return, AwaitOrReturn
  <1>13. ASSUME NEW f \in Files, tf_cmd_dir_first(f) PROVE PutInv'
    BY <1>13, ToppyAssumption
    DEF PutInv, tf_cmd_dir_first, Enter, Goto, Return, AwaitOrReturn
  <1>14. ASSUME NEW f \in Files, tf_cmd_get(f) PROVE PutInv'
    BY <1>14, ToppyAssumption
    DEF PutInv, tf_cmd_get, Enter, Goto, Return, AwaitOrReturn
  <1>15. ASSUME NEW f \in Files, tf_cmd_put(f) PROVE PutInv'
    BY <1>15, ToppyAssumption
    DEF PutInv, tf_cmd_put, Enter, Goto, Return, AwaitOrReturn
  <1>16. CASE tf_init \/ tf_cmd_get_cancel \/ tf_cmd_put_cancel \/ topfield_close
    BY <1>16
    DEF PutInv, tf_init, tf_cmd_get_cancel, tf_cmd_put_cancel, topfield_close, Enter,
        handle, Goto, Return, AwaitOrReturn
  <1>17. CASE topfield_open \/ Crash
    BY <1>17, ToppyAssumption
    DEF PutInv, topfield_open, Crash
  <1>18. CASE Toppy5000 \/ Lose \/ UNCHANGED vars
    BY <1>18
    DEF PutInv, Toppy5000, Lose, vars, handle, call, app
  <1>19. QED
    BY <1>1, <1>2, <1>3, <1>4, <1>5, <1>6, <1>7, <1>8, <1>9, <1>10, <1>11,
       <1>12, <1>13, <1>14, <1>15, <1>16, <1>17, <1>18
    DEF Next, Application, Library, vars

\* Every step keeps the state of the application within its types.
LEMMA AppStep ==
    ASSUME TypeInv, [Next]_vars
    PROVE  AppOK'
  <1> USE DEF TypeInv
  <1>1. CASE tf_cmd_size \/ tf_cmd_dir_next \/ tf_init_fail \/ tf_init_success
    BY <1>1, ViewType
    DEF AppOK, tf_cmd_size, tf_cmd_dir_next, tf_init_fail, tf_init_success, Enter,
        PutCancelled, Goto, Return, AwaitOrReturn
  <1>2. CASE get_dirents_end \/ tf_cmd_get_next \/ tf_cmd_get_next_end \/
             tf_cmd_get_next_data
    BY <1>2, ViewType
    DEF AppOK, get_dirents_end, tf_cmd_get_next, tf_cmd_get_next_end,
        tf_cmd_get_next_data, Enter, PutCancelled, Goto, Return, AwaitOrReturn
  <1>3. CASE get_cancel_fail \/ get_cancel_cancel \/ tf_cmd_put_start \/ tf_cmd_put_data
    BY <1>3, ViewType
    DEF AppOK, get_cancel_fail, get_cancel_cancel, tf_cmd_put_start, tf_cmd_put_data,
        Enter, PutCancelled, Goto, Return, AwaitOrReturn
  <1>4. CASE tf_cmd_put_done \/ put_done_cancel \/ put_cancel_cancel
    BY <1>4, ViewType
    DEF AppOK, tf_cmd_put_done, put_done_cancel, put_cancel_cancel, Enter, PutCancelled,
        Goto, Return, AwaitOrReturn
  <1>5. CASE tf_init_cmd
    BY <1>5, ViewType
    DEF AppOK, tf_init_cmd, InitGiveUpOn, Goto, Return, AwaitOrReturn
  <1>6. CASE tf_cmd_reply \/ tf_cmd_size_reply \/ tf_init_reply \/ tf_cmd_get_reply
    BY <1>6, ViewType
    DEF AppOK, tf_cmd_reply, tf_cmd_size_reply, tf_init_reply, tf_cmd_get_reply,
        InitGiveUpOn, PutCancelled, Goto, Return, AwaitOrReturn
  <1>7. CASE get_cancel_drain \/ get_cancel_cancelled \/ get_cancel_retry \/
             tf_cmd_put_reply
    BY <1>7, ViewType
    DEF AppOK, get_cancel_drain, get_cancel_cancelled, get_cancel_retry,
        tf_cmd_put_reply, InitGiveUpOn, PutCancelled, Goto, Return, AwaitOrReturn
  <1>8. CASE tf_cmd_put_started \/ tf_cmd_put_data_reply \/ tf_cmd_put_done_reply \/
             put_done_cancelled
    BY <1>8, ViewType
    DEF AppOK, tf_cmd_put_started, tf_cmd_put_data_reply, tf_cmd_put_done_reply,
        put_done_cancelled, InitGiveUpOn, PutCancelled, Goto, Return, AwaitOrReturn
  <1>9. CASE put_cancel_cancelled
    BY <1>9, ViewType
    DEF AppOK, put_cancel_cancelled, InitGiveUpOn, PutCancelled, Goto, Return,
        AwaitOrReturn
  <1>10. CASE get_dirents
    <2>1. got' = got \/ (Deliver(reply) /\ reply \in DevicePackets)
      BY <1>10, ReadType DEF get_dirents, Read
    <2>2. txn' \in Views
      BY <1>10, ViewType DEF get_dirents, Goto, Return, AppOK
    <2>3. got' \in Seq([file: Files \cup {NoFile}, n: Int])
      <3>1. CASE got' = got
        BY <3>1 DEF AppOK
      <3>2. CASE Deliver(reply) /\ reply \in DevicePackets
        BY <3>2, ReplyFields DEF AppOK, Deliver
      <3>3. QED
        BY <2>1, <3>1, <3>2
    <2>4. QED
      BY <1>10, <2>2, <2>3 DEF get_dirents, AppOK
  <1>11. CASE tf_cmd_get_next_reply
    <2>1. got' = got \/ (Deliver(reply) /\ reply \in DevicePackets)
      BY <1>11, ReadType DEF tf_cmd_get_next_reply, Read
    <2>2. txn' \in Views
      BY <1>11, ViewType DEF tf_cmd_get_next_reply, Goto, Return, AppOK
    <2>3. got' \in Seq([file: Files \cup {NoFile}, n: Int])
      <3>1. CASE got' = got
        BY <3>1 DEF AppOK
      <3>2. CASE Deliver(reply) /\ reply \in DevicePackets
        BY <3>2, ReplyFields DEF AppOK, Deliver
      <3>3. QED
        BY <2>1, <3>1, <3>2
    <2>4. QED
      BY <1>11, <2>2, <2>3 DEF tf_cmd_get_next_reply, AppOK
  <1>12. ASSUME NEW c \in SimpleCmds \cup {"CANCEL", "RESET"}, tf_cmd(c) PROVE AppOK'
    BY <1>12, ViewType
    DEF AppOK, tf_cmd, Enter, Goto, Return, AwaitOrReturn
  <1>13. ASSUME NEW f \in Files, tf_cmd_dir_first(f) PROVE AppOK'
    BY <1>13, ViewType
    DEF AppOK, tf_cmd_dir_first, Enter, Goto, Return, AwaitOrReturn
  <1>14. ASSUME NEW f \in Files, tf_cmd_get(f) PROVE AppOK'
    BY <1>14, ViewType
    DEF AppOK, tf_cmd_get, Enter, Goto, Return, AwaitOrReturn
  <1>15. ASSUME NEW f \in Files, tf_cmd_put(f) PROVE AppOK'
    BY <1>15, ViewType
    DEF AppOK, tf_cmd_put, Enter, Goto, Return, AwaitOrReturn
  <1>16. CASE tf_init \/ tf_cmd_get_cancel \/ tf_cmd_put_cancel \/ topfield_close
    BY <1>16, ViewType
    DEF AppOK, tf_init, tf_cmd_get_cancel, tf_cmd_put_cancel, topfield_close, Enter,
        Views, Goto, Return, AwaitOrReturn
  <1>17. CASE topfield_open
    BY <1>17
    DEF AppOK, topfield_open, Views
  <1>18. CASE Crash
    BY <1>18
    DEF AppOK, Crash, Views
  <1>19. CASE Toppy5000 \/ Lose \/ UNCHANGED vars
    BY <1>19
    DEF AppOK, Toppy5000, Lose, vars, app
  <1>20. QED
    BY <1>1, <1>2, <1>3, <1>4, <1>5, <1>6, <1>7, <1>8, <1>9, <1>10, <1>11,
       <1>12, <1>13, <1>14, <1>15, <1>16, <1>17, <1>18, <1>19
    DEF Next, Application, Library, vars

\* TypeOK, with the ranges of the loop counters, the timeout and the errors, in
\* every reachable state.
THEOREM TypeCorrect == Spec => []TypeOK
  <1>1. TypeInv /\ [Next]_vars => TypeInv'
    BY PipesStep, CallStep, PutStep, AppStep DEF TypeInv
  <1>2. TypeInv => TypeOK
    BY DEF TypeInv, PipesOK, CallOK, AppOK, PutInv, AttemptInv, TypeOK
  <1>3. QED
    BY <1>1, <1>2, TypeInit, PTL DEF Spec

-----------------------------------------------------------------------------
(* tf->pending.                                                            *)

\* Every step keeps the flag to where a get is in progress.
LEMMA PendingStep ==
    ASSUME ~CancelsMidGet, PendingInv, [Next]_vars
    PROVE  PendingInv'
  <1>1. CASE tf_init_fail \/ tf_init_success \/ get_dirents_end \/ get_cancel_fail
    BY <1>1
    DEF PendingInv, tf_init_fail, tf_init_success, get_dirents_end, get_cancel_fail,
        PutCancelled, Goto, Return, AwaitOrReturn
  <1>2. CASE get_cancel_cancel \/ tf_cmd_put_start \/ put_done_cancel \/ put_cancel_cancel
    BY <1>2
    DEF PendingInv, get_cancel_cancel, tf_cmd_put_start, put_done_cancel,
        put_cancel_cancel, PutCancelled, Goto, Return, AwaitOrReturn
  <1>3. CASE tf_cmd_put_data \/ tf_cmd_put_done \/ tf_cmd_size \/ tf_cmd_dir_next
    BY <1>3
    DEF PendingInv, tf_cmd_put_data, tf_cmd_put_done, tf_cmd_size, tf_cmd_dir_next,
        Enter, Goto, Return, AwaitOrReturn
  <1>4. CASE tf_init_cmd
    BY <1>4
    DEF PendingInv, tf_init_cmd, InitGiveUpOn, Goto, Return, AwaitOrReturn
  <1>5. CASE tf_cmd_get_next
    BY <1>5
    DEF PendingInv, tf_cmd_get_next, Enter, Goto, Return, AwaitOrReturn
  <1>6. CASE tf_cmd_get_next_end
    BY <1>6
    DEF PendingInv, tf_cmd_get_next_end, Goto, Return, AwaitOrReturn
  <1>7. CASE tf_cmd_get_next_data
    <2>1. ~pending /\ op = "get_next" /\ pc' = "idle" /\ ret' = TF_ERR_NONE
      BY <1>7 DEF tf_cmd_get_next_data, Return, PendingInv
    <2>2. pending' => dev
      <3>1. PICK e \in ErrorCodes : tf_send(Plain("SUCCESS"), e) /\ pending' = (e = TF_ERR_NONE)
        BY <1>7 DEF tf_cmd_get_next_data
      <3>2. e = TF_ERR_NONE => dev
        BY <3>1 DEF tf_send, TF_ERR_NONE, TF_ERR_IO, TF_ERR_NOCONN
      <3>3. QED
        BY <3>1, <3>2
    <2>3. dev => txn' = "get"
      BY <1>7, <2>1 DEF tf_cmd_get_next_data, Return, AfterCall, AfterSuccess
    <2>4. QED
      BY <1>7, <2>1, <2>2, <2>3 DEF tf_cmd_get_next_data, PendingInv
  <1>8. CASE tf_cmd_reply \/ tf_cmd_size_reply \/ tf_init_reply \/ get_dirents
    BY <1>8
    DEF PendingInv, tf_cmd_reply, tf_cmd_size_reply, tf_init_reply, get_dirents,
        InitGiveUpOn, PutCancelled, Goto, Return, AwaitOrReturn
  <1>9. CASE tf_cmd_get_reply \/ tf_cmd_get_next_reply \/ get_cancel_drain \/
             get_cancel_cancelled
    BY <1>9
    DEF PendingInv, tf_cmd_get_reply, tf_cmd_get_next_reply, get_cancel_drain,
        get_cancel_cancelled, InitGiveUpOn, PutCancelled, Goto, Return, AwaitOrReturn
  <1>10. CASE get_cancel_retry \/ tf_cmd_put_reply \/ tf_cmd_put_started \/
             tf_cmd_put_data_reply
    BY <1>10
    DEF PendingInv, get_cancel_retry, tf_cmd_put_reply, tf_cmd_put_started,
        tf_cmd_put_data_reply, InitGiveUpOn, PutCancelled, Goto, Return, AwaitOrReturn
  <1>11. CASE tf_cmd_put_done_reply \/ put_done_cancelled \/ put_cancel_cancelled
    BY <1>11
    DEF PendingInv, tf_cmd_put_done_reply, put_done_cancelled, put_cancel_cancelled,
        InitGiveUpOn, PutCancelled, Goto, Return, AwaitOrReturn
  <1>12. ASSUME NEW c \in SimpleCmds \cup {"CANCEL", "RESET"}, tf_cmd(c) PROVE PendingInv'
    BY <1>12
    DEF PendingInv, tf_cmd, Enter, CmdViews, Goto, Return, AwaitOrReturn
  <1>13. ASSUME NEW f \in Files, tf_cmd_dir_first(f) PROVE PendingInv'
    BY <1>13
    DEF PendingInv, tf_cmd_dir_first, Enter, Goto, Return, AwaitOrReturn
  <1>14. ASSUME NEW f \in Files, tf_cmd_get(f) PROVE PendingInv'
    BY <1>14
    DEF PendingInv, tf_cmd_get, Enter, Goto, Return, AwaitOrReturn
  <1>15. ASSUME NEW f \in Files, tf_cmd_put(f) PROVE PendingInv'
    BY <1>15
    DEF PendingInv, tf_cmd_put, Enter, Goto, Return, AwaitOrReturn
  <1>16. CASE tf_init \/ tf_cmd_get_cancel \/ tf_cmd_put_cancel \/ topfield_close
    BY <1>16
    DEF PendingInv, tf_init, tf_cmd_get_cancel, tf_cmd_put_cancel, topfield_close,
        Enter, handle, Goto, Return, AwaitOrReturn
  <1>17. CASE topfield_open \/ Crash
    BY <1>17
    DEF PendingInv, topfield_open, Crash
  <1>18. CASE Toppy5000 \/ Lose \/ UNCHANGED vars
    BY <1>18
    DEF PendingInv, Toppy5000, Lose, vars, handle, call, app
  <1>19. QED
    BY <1>1, <1>2, <1>3, <1>4, <1>5, <1>6, <1>7, <1>8, <1>9, <1>10, <1>11,
       <1>12, <1>13, <1>14, <1>15, <1>16, <1>17, <1>18
    DEF Next, Application, Library, vars

\* As long as the application does not end a get with tf_cmd_cancel(), no
\* function other than tf_cmd_get_next and tf_cmd_get_cancel ever runs while an
\* answer is on its way.
THEOREM PendingIsOwned == ~CancelsMidGet => (Spec => []PendingOwned)
  <1> SUFFICES ASSUME ~CancelsMidGet PROVE Spec => []PendingOwned
    OBVIOUS
  <1>1. Init => PendingInv
    BY DEF Init, PendingInv
  <1>2. PendingInv /\ [Next]_vars => PendingInv'
    BY PendingStep
  <1>3. PendingInv => PendingOwned
    BY DEF PendingInv, PendingOwned
  <1>4. QED
    BY <1>1, <1>2, <1>3, PTL DEF Spec

-----------------------------------------------------------------------------
(* The conversation with the device.                                       *)


Lost == faults["lost"]

Mild ==
    /\ ResetOnOpen /\ ~CancelsMidGet
    /\ \A b \in Budgets : b["late"] = 0 /\ b["write"] = 0 /\ b["lost"] <= 2

FaultsLeft ==
    /\ faults["late"] = 0 /\ faults["write"] = 0 /\ Lost <= 2
    /\ \E b \in Budgets : Lost <= b["lost"]

-----------------------------------------------------------------------------
(* The invariant.                                                          *)

\* Where the function in progress waits for an answer, and whether the request
\* is part of a transaction on the device or may come in any mode.  The answer
\* that tf->pending announces is waited for although no function is running.
Commanding == pc \in {"cmd", "init_reply", "gc_cancelled", "pc_cancelled", "pd_cancelled"}
Getting == pc \in {"get_next", "gc_drain"} \/ pending
NextPage == pc = "dirents" /\ op = "dir_next"
Awaits == pc \in Reads \ {"gc_retry"} \/ pending
Continues == Getting \/ NextPage \/ pc \in {"put_started", "put_data", "put_done"}

\* The device is in the transaction of the application, and as far as it is.
InDir == dMode = "dir" /\ dFile = item /\ dPos = Len(got) /\ Len(got) <= Blocks
InGet == dMode = "get" /\ dFile = item /\ dPos = Len(got) /\ Len(got) <= Blocks
InPut == dMode = "put" /\ dFile = item /\ dRecv = {} /\ sent = 0
InRecv == dMode = "recv" /\ dFile = item /\ dRecv = 1..sent

\* The device would take a SUCCESS for the request of a page or block.
Stuck == dMode \in {"dir", "get"}

\* The i-th packet under way to the device will not be answered.  A SUCCESS to
\* a device that is stuck is harmless only behind a FAIL that cannot be lost.
Silent(i) ==
    \/ toDev[i].cmd = "FAIL"
    \/ /\ toDev[i].cmd = "SUCCESS"
       /\ Stuck => i = 2 /\ toDev[1].cmd = "FAIL" /\ Lost = 0

\* p is the request of the function in progress.
Asked(p) ==
    \/ Commanding /\ pc # "init_reply" /\ p.cmd \in SimpleCmds \cup {"CANCEL", "RESET"}
    \/ pc = "init_reply" /\ p.cmd = InitCmds[attempt]
    \/ pc = "size" /\ p.cmd = "SIZE"
    \/ pc = "dirents" /\ op = "dir_first" /\ p.cmd = "DIR" /\ p.file = item /\ got = <<>>
    \/ NextPage /\ p.cmd = "SUCCESS" /\ InDir
    \/ pc = "get" /\ p.cmd = "GET" /\ p.file = item /\ got = <<>>
    \/ Getting /\ p.cmd = "SUCCESS" /\ InGet
    \/ pc = "put" /\ p.cmd = "PUT" /\ p.file = item /\ sent = 0
    \/ pc = "put_started" /\ p.cmd = "FILE_START" /\ InPut
    \/ pc = "put_data" /\ p.cmd = "FILE_DATA" /\ p.n = sent + 1 /\ InRecv
    \/ pc = "put_done" /\ p.cmd = "FILE_END" /\ InRecv

\* p is the next page or block of what the application asked for.
NextPart(p, m) ==
    /\ p.file = item /\ p.n = Len(got) + 1 /\ p.n <= Blocks
    /\ dMode = m /\ dFile = item /\ dPos = p.n

\* p answers that request, and the device is where the answer says it is.
Answered(p) ==
    \/ p.cmd = "FAIL"
    \/ Commanding /\ p.cmd = "SUCCESS" /\ dMode = "idle"
    \/ pc = "size" /\ p.cmd = "SIZE_RESULT" /\ dMode = "idle"
    \/ pc = "dirents" /\ p.cmd = "DIRENT" /\ NextPart(p, "dir")
    \/ pc = "dirents" /\ p.cmd = "DIREND" /\ Len(got) = Blocks /\ dMode = "dirend"
    \/ pc = "get" /\ p.cmd = "FILE_START" /\ InGet
    \/ Getting /\ p.cmd = "FILE_DATA" /\ NextPart(p, "get")
    \/ Getting /\ p.cmd = "FILE_END" /\ Len(got) = Blocks /\ dMode = "getend"
    \/ pc = "put" /\ p.cmd = "SUCCESS" /\ InPut
    \/ pc = "put_started" /\ p.cmd = "SUCCESS" /\ InRecv
    \/ /\ pc = "put_data" /\ p.cmd = "SUCCESS"
       /\ dMode = "recv" /\ dFile = item /\ dRecv = 1..(sent + 1)
    \/ /\ pc = "put_done" /\ p.cmd = "SUCCESS"
       /\ dMode = "idle" /\ dFile = item /\ dRecv = 1..sent

\* At most one answer is under way, and it is the answer to the request.  Under
\* way to the device there is at most one request, behind packets that are not
\* answered, and behind none when it continues a transaction.
Conversation ==
    /\ toHost # <<>> => Awaits /\ toDev = <<>> /\ Len(toHost) = 1 /\ Answered(toHost[1])
    /\ \A i \in 1..Len(toDev) : (Awaits => i < Len(toDev)) => Silent(i)
    /\ Awaits /\ toDev # <<>> => Asked(toDev[Len(toDev)])
    /\ Continues => Len(toDev) <= 1

\* Where no answer is awaited in the middle of a transaction, the device is in
\* the same transaction.
Stage ==
    /\ pc = "idle" /\ txn = "dir" => InDir /\ toDev = <<>>
    /\ pc = "idle" /\ txn = "get" /\ ~pending => InGet /\ toDev = <<>>
    /\ pc = "idle" /\ txn = "put" => InRecv /\ toDev = <<>>
    /\ pc = "gn_data" => InGet /\ toDev = <<>>
    /\ pc = "put_start" => InPut /\ toDev = <<>>
    /\ pc = "dir_end" => dMode = "dirend" /\ toDev = <<>> /\ Len(got) = Blocks
    /\ pc = "gn_end" => dMode = "getend" /\ toDev = <<>> /\ Len(got) = Blocks

\* tf_init() gets the device unstuck: each of its CANCELs that fails to has
\* been lost, and then its FAIL will not be.
InitStage ==
    /\ pc \in {"init", "init_reply"} /\ attempt <= 2 /\ Stuck =>
          /\ Lost <= 3 - attempt
          /\ pc = "init_reply" /\ toDev = <<>> => Lost <= 2 - attempt
    /\ pc = "init_fail" => toDev = <<>> /\ (Stuck => Lost = 0)
    /\ pc = "init_success" => Len(toDev) <= 1 /\ (Stuck => toDev # <<>> /\ Lost = 0)

\* Which function is in progress where.
Caller ==
    /\ pc \in {"init", "init_reply", "init_fail", "init_success"} => op = "init"
    /\ pc \in {"gc_drain", "gc_fail", "gc_cancel", "gc_cancelled", "gc_retry"} => op = "get_cancel"
    /\ pc \in {"pc_cancel", "pc_cancelled"} => op = "put_cancel"
    /\ pc = "cmd" => op \in SimpleCmds \cup {"CANCEL", "RESET"}
    /\ pc = "size" => op = "size"
    /\ pc \in {"dirents", "dir_end"} => op \in {"dir_first", "dir_next"}
    /\ pc = "get" => op = "get"
    /\ pc \in {"get_next", "gn_data", "gn_end"} => op = "get_next"
    /\ pc \in {"put", "put_start", "put_started"} => op = "put"
    /\ pc = "put_data" => op = "put_data"
    /\ pc \in {"put_done", "pd_cancel", "pd_cancelled"} => op = "put_done"
    /\ pending => op = "get_next"
    /\ pc \in {"pd_cancel", "pd_cancelled"} => ret \notin {TF_ERR_NONE, TF_ERR_DONE}

\* The functions that leave no transaction behind when they succeed.
Finishing == SimpleCmds \cup
    {"CANCEL", "RESET", "size", "init", "get_cancel", "put_done", "put_cancel"}

\* What a successful return means.
Acknowledged ==
    pc = "idle" /\ ret = TF_ERR_NONE =>
        /\ op \in Ops \ {"open", "close", "dir_first", "dir_next", "get_next"} => toDev = <<>>
        /\ op \in Finishing => dMode = "idle"
        /\ op = "put_done" => dRecv = 1..sent /\ dFile = item

Session == Conversation /\ Stage /\ InitStage /\ Caller /\ Acknowledged

\* The parts that the application was given are those of what it asked for.
GotInOrder == \A i \in DOMAIN got : got[i] = [file |-> item, n |-> i]

SessionInv ==
    /\ TypeInv /\ PendingInv /\ FaultsLeft /\ GotInOrder
    /\ dev => Session

-----------------------------------------------------------------------------
(* The two primitives in a mild session.                                   *)

\* A write succeeds, and the packet is behind those that are under way.
LEMMA SendSucceeds ==
    ASSUME FaultsLeft, dev = TRUE, NEW p, NEW e, tf_send(p, e)
    PROVE  /\ e = TF_ERR_NONE
           /\ toDev' = Append(toDev, p)
           /\ UNCHANGED <<toHost, dMode, dFile, dPos, dRecv, faults>>
  BY DEF tf_send, FaultsLeft, Fault, device

\* A read is made when nothing is under way to the device, takes the answer if
\* there is one, and fails otherwise.
LEMMA ReadSucceeds ==
    ASSUME TypeInv, FaultsLeft, dev = TRUE, Conversation, NEW e, tf_get_response(e)
    PROVE  /\ toDev = <<>> /\ toDev' = <<>> /\ toHost' = <<>>
           /\ UNCHANGED <<dMode, dFile, dPos, dRecv>>
           /\ Lost' = Lost /\ FaultsLeft'
           /\ e = TF_ERR_NONE => Awaits /\ Answered(reply) /\ reply \in DevicePackets
           /\ e # TF_ERR_NONE => e \in {TF_ERR_IO, TF_ERR_CRC}
  <1> USE DEF TF_ERR_NONE, TF_ERR_IO, TF_ERR_CRC, TF_ERR_NOCONN
  <1>1. faults \in [FaultKinds -> Nat] /\ toHost \in Seq(DevicePackets)
    BY DEF TypeInv, PipesOK, ToppyTypeOK
  <1>2. UNCHANGED <<toDev, dMode, dFile, dPos, dRecv>>
    BY DEF tf_get_response, device
  <1>3. toHost = <<>> => toDev = <<>>
    BY DEF tf_get_response, FaultsLeft, Fault
  <1>4. toHost # <<>> => toDev = <<>> /\ Len(toHost) = 1 /\ Awaits /\ Answered(toHost[1])
    BY DEF Conversation
  <1>5. toHost' = <<>>
    BY <1>1, <1>4 DEF tf_get_response
  <1>6. faults' = faults \/ faults' = [faults EXCEPT !["corrupt"] = @ - 1]
    BY <1>3 DEF tf_get_response, Fault, FaultsLeft
  <1>7. \A k \in {"late", "write", "lost"} : faults'[k] = faults[k]
    BY <1>1, <1>6 DEF FaultKinds
  <1>8. Lost' = Lost /\ FaultsLeft'
    BY <1>7 DEF Lost, FaultsLeft
  <1>9. e = TF_ERR_NONE => Awaits /\ Answered(reply) /\ reply \in DevicePackets
    BY <1>1, <1>4 DEF tf_get_response, reply
  <1>10. e # TF_ERR_NONE => e \in {TF_ERR_IO, TF_ERR_CRC}
    BY DEF tf_get_response
  <1>11. QED
    BY <1>2, <1>3, <1>4, <1>5, <1>8, <1>9, <1>10

\* Nothing under way is in order, whoever waits for it.
LEMMA NothingUnderWay ==
    ASSUME toDev' = <<>>, toHost' = <<>> PROVE Conversation'
  BY DEF Conversation

\* A request may be sent when no answer is awaited, and one that continues a
\* transaction when nothing is under way.
LEMMA Asking ==
    ASSUME TypeInv, Conversation, ~Awaits,
           NEW p, toDev' = Append(toDev, p), Asked(p)', Awaits',
           UNCHANGED <<toHost, dMode, faults>>,
           Continues' => toDev = <<>>
    PROVE  Conversation'
  <1>1. toDev \in Seq(HostPackets) /\ toHost = <<>>
    BY DEF TypeInv, PipesOK, ToppyTypeOK, Conversation
  <1>2. Len(toDev') = Len(toDev) + 1 /\ toDev'[Len(toDev')] = p
    BY <1>1
  <1>3. ASSUME NEW i \in 1..Len(toDev'), i < Len(toDev') PROVE Silent(i)'
    <2>1. i \in 1..Len(toDev) /\ toDev'[i] = toDev[i] /\ toDev'[1] = toDev[1]
      BY <1>1, <1>2, <1>3
    <2>2. Silent(i)
      BY <2>1 DEF Conversation
    <2>3. QED
      BY <2>1, <2>2 DEF Silent, Stuck, Lost
  <1>4. Continues' => Len(toDev') <= 1
    BY <1>1, <1>2
  <1>5. QED
    BY <1>1, <1>2, <1>3, <1>4 DEF Conversation

\* A packet that is not answered may be sent when no answer is awaited: FAIL
\* always, SUCCESS to a device that does not take it for a request, or will not
\* when it has handled what is under way.
LEMMA Telling ==
    ASSUME TypeInv, Conversation, ~Awaits,
           NEW p, toDev' = Append(toDev, p), ~Awaits', ~Continues',
           UNCHANGED <<toHost, dMode, faults>>,
           \/ p.cmd = "FAIL"
           \/ p.cmd = "SUCCESS" /\ (Stuck => Len(toDev) = 1 /\ Lost = 0)
    PROVE  Conversation'
  <1>1. toDev \in Seq(HostPackets) /\ toHost = <<>>
    BY DEF TypeInv, PipesOK, ToppyTypeOK, Conversation
  <1>2. Len(toDev') = Len(toDev) + 1 /\ toDev'[Len(toDev')] = p
    BY <1>1
  <1>3. ASSUME NEW i \in 1..Len(toDev') PROVE Silent(i)'
    <2>1. CASE i <= Len(toDev)
      <3>1. i \in 1..Len(toDev) /\ toDev'[i] = toDev[i] /\ toDev'[1] = toDev[1]
        BY <1>1, <1>2, <2>1
      <3>2. Silent(i)
        BY <3>1 DEF Conversation
      <3>3. QED
        BY <3>1, <3>2 DEF Silent, Stuck, Lost
    <2>2. CASE i = Len(toDev) + 1
      <3>1. toDev'[i] = p
        BY <1>2, <2>2
      <3>2. CASE p.cmd = "FAIL"
        BY <3>1, <3>2 DEF Silent
      <3>3. CASE p.cmd = "SUCCESS" /\ ~Stuck
        BY <3>1, <3>3 DEF Silent, Stuck
      <3>4. CASE p.cmd = "SUCCESS" /\ Stuck
        <4>1. Len(toDev) = 1 /\ Lost = 0 /\ i = 2
          <5>1. Len(toDev) = 1 /\ Lost = 0
            BY <3>4
          <5>2. QED
            BY <2>2, <5>1
        <4>2. toDev'[1] = toDev[1]
          BY <1>1, <4>1
        <4>3. Silent(1)
          BY <4>1 DEF Conversation
        <4>4. toDev[1].cmd = "FAIL"
          BY <3>4, <4>3 DEF Silent
        <4>5. QED
          BY <3>1, <3>4, <4>1, <4>2, <4>4 DEF Silent, Lost
      <3>5. QED
        BY <3>2, <3>3, <3>4
    <2>3. QED
      BY <1>1, <1>2, <2>1, <2>2
  <1>4. QED
    BY <1>1, <1>3 DEF Conversation

-----------------------------------------------------------------------------
(* The device.                                                             *)

\* A queue of one packet is empty when that is taken.
LEMMA OnePacket ==
    ASSUME NEW S, NEW s \in Seq(S), Len(s) = 1
    PROVE  s[1] = Head(s) /\ Tail(s) = <<>> /\ s # <<>>
  <1>1. s # <<>> /\ s[1] = Head(s)
    OBVIOUS
  <1>2. Tail(s) \in Seq(S) /\ Len(Tail(s)) = 0
    BY <1>1
  <1>3. QED
    BY <1>1, <1>2, EmptySeq

\* What the device does with a packet that it does not answer.
LEMMA SilentHead ==
    ASSUME TypeInv, ToppyNext, toDev # <<>>, Silent(1)
    PROVE  /\ toDev' = Tail(toDev)
           /\ UNCHANGED <<toHost, dFile, dPos, dRecv>>
           /\ \/ dMode' = "idle"
              \/ dMode' = dMode /\ dMode \notin {"dir", "get", "dirend", "getend"}
  <1>1. toDev[1] = Head(toDev) /\ toDev \in Seq(HostPackets)
    BY DEF TypeInv, PipesOK, ToppyTypeOK
  <1>2. CASE toDev[1].cmd = "FAIL"
    BY <1>1, <1>2
    DEF ToppyNext, Handle, DevCancel, DevReset, DevSimple, DevDir, DevGet, DevContinue,
        DevPut, DevReceive, DevAbort, DevRefuse, DevDeaf, Requests, SimpleCmds
  <1>3. CASE toDev[1].cmd = "SUCCESS" /\ ~Stuck
    BY <1>1, <1>3
    DEF ToppyNext, Handle, DevCancel, DevReset, DevSimple, DevDir, DevGet, DevContinue,
        DevPut, DevReceive, DevAbort, DevRefuse, DevDeaf, Requests, SimpleCmds, Stuck
  <1>4. QED
    BY <1>2, <1>3 DEF Silent

\* What the device does with a request: nothing at all, or it refuses it, or it
\* does what it was asked and says so.
Reply(r) == toHost' = <<r>>
Ignored == toHost' = <<>> /\ UNCHANGED device
Refused == \E r : Reply(r) /\ r.cmd = "FAIL" /\ UNCHANGED device
Obeyed(c) == \E r : Reply(r) /\ r.cmd = c

\* What the device may do with the only packet on the way to it.
LEMMA RequestHead ==
    ASSUME TypeInv, ToppyNext, toHost = <<>>, Len(toDev) = 1,
           toDev[1].cmd # "FAIL"
    PROVE  /\ toDev' = <<>>
           /\ toDev[1].cmd \in SimpleCmds \cup {"CANCEL", "RESET"} =>
                Ignored \/ Refused \/ (Obeyed("SUCCESS") /\ dMode' = "idle")
           /\ toDev[1].cmd = "CANCEL" => dMode' = "idle"
           /\ toDev[1].cmd = "SIZE" =>
                Ignored \/ Refused \/ (Obeyed("SIZE_RESULT") /\ dMode' = "idle")
           /\ toDev[1].cmd = "DIR" =>
                \/ Ignored \/ Refused
                \/ /\ Reply(ListPage(toDev[1].file, 1))
                   /\ dMode' = IF Blocks > 0 THEN "dir" ELSE "dirend"
                   /\ dFile' = toDev[1].file /\ dPos' = 1
           /\ toDev[1].cmd = "GET" =>
                \/ Ignored \/ Refused
                \/ Obeyed("FILE_START") /\ dMode' = "get" /\ dFile' = toDev[1].file /\ dPos' = 0
           /\ toDev[1].cmd = "PUT" =>
                \/ Ignored \/ Refused
                \/ Obeyed("SUCCESS") /\ dMode' = "put" /\ dFile' = toDev[1].file /\ dRecv' = {}
  <1>1. toDev \in Seq(HostPackets)
    BY DEF TypeInv, PipesOK, ToppyTypeOK
  <1>2. toDev[1] = Head(toDev) /\ Tail(toDev) = <<>> /\ toDev # <<>>
    BY <1>1, OnePacket
  <1>3. \A r : Append(toHost, r) = <<r>>
    OBVIOUS
  <1>4. toDev' = <<>>
    BY <1>2
    DEF ToppyNext, Handle, Answer, DevCancel, DevReset, DevSimple, DevDir, DevGet,
        DevContinue, DevPut, DevReceive, DevAbort, DevRefuse, DevDeaf, Requests, SimpleCmds,
        InTurn, device
  <1>5. ASSUME toDev[1].cmd \in SimpleCmds \cup {"CANCEL", "RESET"}
        PROVE  Ignored \/ Refused \/ (Obeyed("SUCCESS") /\ dMode' = "idle")
    BY <1>2, <1>3, <1>5
    DEF ToppyNext, Handle, Answer, DevCancel, DevReset, DevSimple, DevDir, DevGet,
        DevContinue, DevPut, DevReceive, DevAbort, DevRefuse, DevDeaf, Requests, SimpleCmds,
        InTurn, device,
        Ignored, Refused, Obeyed, Reply, Packet, Plain
  <1>6. toDev[1].cmd = "CANCEL" => dMode' = "idle"
    BY <1>2
    DEF ToppyNext, Handle, Answer, DevCancel, DevReset, DevSimple, DevDir, DevGet,
        DevContinue, DevPut, DevReceive, DevAbort, DevRefuse, DevDeaf, Requests, SimpleCmds,
        InTurn, device
  <1>7. ASSUME toDev[1].cmd = "SIZE"
        PROVE  Ignored \/ Refused \/ (Obeyed("SIZE_RESULT") /\ dMode' = "idle")
    BY <1>2, <1>3, <1>7
    DEF ToppyNext, Handle, Answer, DevCancel, DevReset, DevSimple, DevDir, DevGet,
        DevContinue, DevPut, DevReceive, DevAbort, DevRefuse, DevDeaf, Requests, SimpleCmds,
        InTurn, device,
        Ignored, Refused, Obeyed, Reply, Packet, Plain
  <1>8. ASSUME toDev[1].cmd = "DIR"
        PROVE  \/ Ignored \/ Refused
               \/ /\ Reply(ListPage(toDev[1].file, 1))
                  /\ dMode' = IF Blocks > 0 THEN "dir" ELSE "dirend"
                  /\ dFile' = toDev[1].file /\ dPos' = 1
    BY <1>2, <1>3, <1>8
    DEF ToppyNext, Handle, Answer, DevCancel, DevReset, DevSimple, DevDir, DevGet,
        DevContinue, DevPut, DevReceive, DevAbort, DevRefuse, DevDeaf, Requests, SimpleCmds,
        InTurn, device,
        Ignored, Refused, Reply, Packet
  <1>9. ASSUME toDev[1].cmd = "GET"
        PROVE  \/ Ignored \/ Refused
               \/ Obeyed("FILE_START") /\ dMode' = "get" /\ dFile' = toDev[1].file /\ dPos' = 0
    BY <1>2, <1>3, <1>9
    DEF ToppyNext, Handle, Answer, DevCancel, DevReset, DevSimple, DevDir, DevGet,
        DevContinue, DevPut, DevReceive, DevAbort, DevRefuse, DevDeaf, Requests, SimpleCmds,
        InTurn, device,
        Ignored, Refused, Obeyed, Reply, Packet
  <1>10. ASSUME toDev[1].cmd = "PUT"
         PROVE  \/ Ignored \/ Refused
                \/ Obeyed("SUCCESS") /\ dMode' = "put" /\ dFile' = toDev[1].file /\ dRecv' = {}
    BY <1>2, <1>3, <1>10
    DEF ToppyNext, Handle, Answer, DevCancel, DevReset, DevSimple, DevDir, DevGet,
        DevContinue, DevPut, DevReceive, DevAbort, DevRefuse, DevDeaf, Requests, SimpleCmds,
        InTurn, device,
        Ignored, Refused, Obeyed, Reply, Packet, Plain
  <1>11. QED
    BY <1>4, <1>5, <1>6, <1>7, <1>8, <1>9, <1>10

\* What it does with a packet that continues a transaction.
LEMMA ContinueHead ==
    ASSUME TypeInv, ToppyNext, toHost = <<>>, Len(toDev) = 1
    PROVE  /\ toDev[1].cmd = "SUCCESS" /\ dMode = "dir" =>
                /\ Reply(ListPage(dFile, dPos + 1)) /\ dPos' = dPos + 1 /\ dFile' = dFile
                /\ dMode' = IF dPos < Blocks THEN "dir" ELSE "dirend"
           /\ toDev[1].cmd = "SUCCESS" /\ dMode = "get" =>
                \/ Refused
                \/ /\ Reply(FileBlock(dFile, dPos + 1)) /\ dPos' = dPos + 1 /\ dFile' = dFile
                   /\ dMode' = IF dPos < Blocks THEN "get" ELSE "getend"
           /\ toDev[1].cmd = "FILE_START" /\ dMode = "put" =>
                \/ Refused
                \/ Obeyed("SUCCESS") /\ dMode' = "recv" /\ dFile' = dFile /\ dRecv' = dRecv
           /\ toDev[1].cmd = "FILE_DATA" /\ dMode = "recv" =>
                \/ Refused
                \/ /\ Obeyed("SUCCESS") /\ dMode' = "recv" /\ dFile' = dFile
                   /\ dRecv' = dRecv \cup {toDev[1].n}
           /\ toDev[1].cmd = "FILE_END" /\ dMode = "recv" =>
                \/ Refused
                \/ Obeyed("SUCCESS") /\ dMode' = "idle" /\ dFile' = dFile /\ dRecv' = dRecv
           /\ toDev[1].cmd = "SUCCESS" => toDev' = <<>>
  <1>1. toDev \in Seq(HostPackets)
    BY DEF TypeInv, PipesOK, ToppyTypeOK
  <1>2. toDev[1] = Head(toDev) /\ Tail(toDev) = <<>> /\ toDev # <<>>
    BY <1>1, OnePacket
  <1>3. \A r : Append(toHost, r) = <<r>>
    OBVIOUS
  <1>4. ASSUME toDev[1].cmd = "SUCCESS" PROVE DevContinue
    BY <1>2, <1>4
    DEF ToppyNext, Handle, Answer, DevCancel, DevReset, DevSimple, DevDir, DevGet,
        DevContinue, DevPut, DevReceive, DevAbort, DevRefuse, DevDeaf, Requests, SimpleCmds,
        InTurn, device
  <1>5. ASSUME toDev[1].cmd = "SUCCESS", dMode = "dir"
        PROVE  /\ Reply(ListPage(dFile, dPos + 1)) /\ dPos' = dPos + 1 /\ dFile' = dFile
               /\ dMode' = IF dPos < Blocks THEN "dir" ELSE "dirend"
    BY <1>3, <1>4, <1>5 DEF DevContinue, Answer, Reply
  <1>6. ASSUME toDev[1].cmd = "SUCCESS", dMode = "get"
        PROVE  \/ Refused
               \/ /\ Reply(FileBlock(dFile, dPos + 1)) /\ dPos' = dPos + 1 /\ dFile' = dFile
                  /\ dMode' = IF dPos < Blocks THEN "get" ELSE "getend"
    BY <1>3, <1>4, <1>6 DEF DevContinue, Answer, Reply, Refused, Packet, device
  <1>7. ASSUME toDev[1].cmd \in {"FILE_START", "FILE_DATA", "FILE_END"},
               dMode = IF toDev[1].cmd = "FILE_START" THEN "put" ELSE "recv"
        PROVE  Refused \/ DevReceive
    BY <1>2, <1>3, <1>7
    DEF ToppyNext, Handle, Answer, DevCancel, DevReset, DevSimple, DevDir, DevGet,
        DevContinue, DevPut, DevReceive, DevAbort, DevRefuse, DevDeaf, Requests, SimpleCmds,
        InTurn, device,
        Refused, Reply, Packet
  <1>8. ASSUME DevReceive, toDev[1].cmd \in {"FILE_START", "FILE_DATA", "FILE_END"}
        PROVE  /\ Obeyed("SUCCESS") /\ dFile' = dFile
               /\ dMode' = IF toDev[1].cmd = "FILE_END" THEN "idle" ELSE "recv"
               /\ dRecv' = IF toDev[1].cmd = "FILE_DATA" THEN dRecv \cup {toDev[1].n} ELSE dRecv
    BY <1>2, <1>3, <1>8 DEF DevReceive, Handle, Answer, Obeyed, Reply, Plain, Packet
  <1>9. toDev[1].cmd = "SUCCESS" => toDev' = <<>>
    BY <1>2, <1>4 DEF DevContinue, Handle
  <1>10. QED
    BY <1>5, <1>6, <1>7, <1>8, <1>9

-----------------------------------------------------------------------------
(* What happens to the packets under way.                                  *)

OnlyThePipes == UNCHANGED <<dev, error, pending, timeout, pc, op, ret, attempt, txn, item, got, sent>>

\* The first of the packets that are not answered is handled or lost.
LEMMA HeadGone ==
    ASSUME TypeInv, Session, toDev # <<>>, Awaits => Len(toDev) # 1,
           toDev' = Tail(toDev), UNCHANGED <<toHost, dFile, dPos, dRecv>>, OnlyThePipes,
           \/ dMode' = "idle" \/ (dMode' = dMode /\ ~Stuck)
           \/ dMode' = dMode /\ Lost > 0 /\ Lost' = Lost - 1
    PROVE  Session'
  <1> USE DEF OnlyThePipes
  <1>1. toDev \in Seq(HostPackets) /\ Lost \in Nat /\ attempt \in Nat
    BY DEF TypeInv, PipesOK, ToppyTypeOK, CallOK, AttemptInv, Lost, FaultKinds, MaxCancelTries
  <1>2. /\ Len(toDev') = Len(toDev) - 1 /\ Len(toDev) \in Nat \ {0}
        /\ \A i \in 1..Len(toDev') : toDev'[i] = toDev[i + 1]
    BY <1>1, HeadTailProperties
  <1>3. /\ Awaits' <=> Awaits
        /\ Continues' <=> Continues
    BY DEF Awaits, Continues, Getting, NextPage
  <1>4. Stuck' => Stuck /\ Lost > 0 /\ Lost' = Lost - 1
    BY DEF Stuck
  <1>5. Conversation'
    <2>1. toHost' = <<>>
      BY DEF Session, Conversation
    <2>2. ASSUME NEW i \in 1..Len(toDev'), Awaits' => i < Len(toDev') PROVE Silent(i)'
      <3>1. i + 1 \in 1..Len(toDev) /\ (Awaits => i + 1 < Len(toDev)) /\ toDev'[i] = toDev[i + 1]
        BY <1>2, <1>3, <2>2
      <3>2. Silent(i + 1)
        BY <3>1 DEF Session, Conversation
      <3>3. ~(Stuck' /\ Stuck /\ Lost = 0)
        BY <1>1, <1>4
      <3>4. QED
        BY <1>4, <3>1, <3>2, <3>3 DEF Silent
    <2>3. Awaits' /\ toDev' # <<>> => Asked(toDev[Len(toDev)])'
      <3> SUFFICES ASSUME Awaits', toDev' # <<>> PROVE Asked(toDev[Len(toDev)])'
        OBVIOUS
      <3>1. Len(toDev) > 1
        BY <1>2, <1>3
      <3>2. toDev'[Len(toDev')] = toDev[Len(toDev)]
        BY <1>2, <3>1
      <3>3. Asked(toDev[Len(toDev)]) /\ ~Continues
        BY <1>2, <1>3, <3>1 DEF Session, Conversation
      <3>4. QED
        BY <3>2, <3>3 DEF Asked, Commanding, Continues, Getting, NextPage
    <2>4. Continues' => Len(toDev') <= 1
      BY <1>2, <1>3 DEF Session, Conversation
    <2>5. QED
      BY <2>1, <2>2, <2>3, <2>4 DEF Conversation
  <1>6. Stage'
    BY DEF Session, Stage
  <1>7. InitStage'
    BY <1>1, <1>2, <1>4 DEF Session, InitStage
  <1>8. Caller' /\ Acknowledged'
    BY DEF Session, Caller, Acknowledged, Ops
  <1>9. QED
    BY <1>5, <1>6, <1>7, <1>8 DEF Session

\* The request of the function in progress is handled or lost, or the answer to
\* it is.
LEMMA RequestGone ==
    ASSUME TypeInv, PendingInv, Session, Awaits, OnlyThePipes,
           toDev' = <<>>,
           \/ toHost' = <<>>
           \/ Len(toHost') = 1 /\ Answered(toHost[1])',
           Lost' \in Int,
           pc = "init_reply" /\ attempt <= 2 /\ Stuck' =>
                Stuck /\ Lost' <= Lost /\ (toDev = <<>> \/ Lost' <= Lost - 1)
    PROVE  Session'
  <1> USE DEF OnlyThePipes
  <1>1. Awaits' <=> Awaits
    BY DEF Awaits
  <1>2. pc = "idle" => pending /\ txn = "get" /\ op = "get_next"
    BY DEF Session, Caller, PendingInv, Awaits, Reads
  <1>3. pc \in (Reads \ {"gc_retry"}) \cup {"idle"}
    BY DEF Awaits, PendingInv
  <1>4. Conversation'
    BY <1>1 DEF Conversation
  <1>5. Stage'
    BY <1>2, <1>3 DEF Stage, Reads
  <1>6. Caller'
    BY DEF Session, Caller
  <1>7. attempt \in Nat /\ Lost \in Int
    BY DEF TypeInv, CallOK, AttemptInv, MaxCancelTries, PipesOK, Lost, FaultKinds
  <1>8. InitStage'
    BY <1>3, <1>7 DEF Session, InitStage, Reads
  <1>9. Acknowledged'
    BY <1>2 DEF Acknowledged, Finishing, SimpleCmds
  <1>10. QED
    BY <1>4, <1>5, <1>6, <1>8, <1>9 DEF Session

\* The device's answer to the request of the function in progress is the one
\* that the function relies on.
LEMMA AnswerFits ==
    ASSUME TypeInv, PendingInv, Session, Awaits, toHost = <<>>, Len(toDev) = 1, ToppyNext, OnlyThePipes
    PROVE  /\ toDev' = <<>>
           /\ toHost' = <<>> \/ (Len(toHost') = 1 /\ Answered(toHost[1])')
           /\ toDev[1].cmd = "CANCEL" => dMode' = "idle"
           /\ pc = "init_reply" => toDev[1].cmd = InitCmds[attempt]
  <1> USE DEF OnlyThePipes
  <1> DEFINE Fits == toHost' = <<>> \/ (Len(toHost') = 1 /\ Answered(toHost[1])')
  <1>1. \A r : Reply(r) => Len(toHost') = 1 /\ toHost'[1] = r
    <2>1. ASSUME NEW r, toHost' = <<r>> PROVE Len(toHost') = 1 /\ toHost'[1] = r
      BY <2>1
    <2>2. QED
      BY <2>1 DEF Reply
  <1>2. Ignored \/ Refused => Fits
    <2>1. Ignored => Fits
      BY DEF Ignored, Answered
    <2>2. ASSUME NEW r, Reply(r), r.cmd = "FAIL" PROVE Fits
      BY <1>1, <2>2 DEF Answered
    <2>3. QED
      BY <2>1, <2>2 DEF Refused
  <1>3. Asked(toDev[1])
    BY DEF Session, Conversation
  <1>4. pc = "init_reply" => InitCmds[attempt] \in {"CANCEL", "READY"}
    BY DEF InitCmds, TypeInv, CallOK, AttemptInv
  <1>5. toDev[1].cmd # "FAIL"
    BY <1>4, <1>3 DEF Asked, SimpleCmds
  <1>6. Blocks \in Nat /\ Len(got) \in Nat /\ dPos \in Nat /\ sent \in Nat
    BY ToppyAssumption DEF TypeInv, AppOK, PutInv, PipesOK, ToppyTypeOK
  <1>7. Commanding => toDev[1].cmd \in SimpleCmds \cup {"CANCEL", "RESET"}
    BY <1>4, <1>3 DEF Asked, Commanding, NextPage, Getting, PendingInv, SimpleCmds
  <1>8. ASSUME Commanding PROVE Fits
    BY <1>1, <1>2, <1>5, <1>7, <1>8, RequestHead DEF Answered, Commanding, Obeyed
  <1>9. ASSUME pc = "size", toDev[1].cmd = "SIZE" PROVE Fits
    BY <1>1, <1>2, <1>9, RequestHead DEF Answered, Obeyed
  <1>10. ASSUME pc = "dirents", toDev[1].cmd = "DIR", toDev[1].file = item, got = <<>> PROVE Fits
    BY <1>1, <1>2, <1>6, <1>10, RequestHead
    DEF Answered, NextPart, ListPage, Packet, Plain
  <1>11. ASSUME NextPage, toDev[1].cmd = "SUCCESS", InDir PROVE Fits
    BY <1>1, <1>2, <1>6, <1>11, ContinueHead
    DEF Answered, NextPage, InDir, NextPart, ListPage, Packet, Plain
  <1>12. ASSUME pc = "get", toDev[1].cmd = "GET", toDev[1].file = item, got = <<>> PROVE Fits
    BY <1>1, <1>2, <1>6, <1>12, RequestHead DEF Answered, Obeyed, InGet
  <1>13. ASSUME Getting, toDev[1].cmd = "SUCCESS", InGet PROVE Fits
    BY <1>1, <1>2, <1>6, <1>13, ContinueHead
    DEF Answered, Getting, InGet, NextPart, FileBlock, Packet, Plain
  <1>14. ASSUME pc = "put", toDev[1].cmd = "PUT", toDev[1].file = item, sent = 0 PROVE Fits
    BY <1>1, <1>2, <1>14, RequestHead DEF Answered, Obeyed, InPut
  <1>15. ASSUME pc = "put_started", toDev[1].cmd = "FILE_START", InPut PROVE Fits
    <2>1. 1..sent = {}
      BY <1>15 DEF InPut
    <2>2. QED
      BY <1>1, <1>2, <1>15, <2>1, ContinueHead DEF Answered, Obeyed, InPut, InRecv
  <1>16. ASSUME pc = "put_data", toDev[1].cmd = "FILE_DATA", toDev[1].n = sent + 1, InRecv
         PROVE  Fits
    <2>1. (1..sent) \cup {sent + 1} = 1..(sent + 1)
      BY <1>6
    <2>2. QED
      BY <1>1, <1>2, <1>16, <2>1, ContinueHead DEF Answered, Obeyed, InRecv
  <1>17. ASSUME pc = "put_done", toDev[1].cmd = "FILE_END", InRecv PROVE Fits
    BY <1>1, <1>2, <1>17, ContinueHead DEF Answered, Obeyed, InRecv
  <1>18. Fits
    BY <1>3, <1>8, <1>9, <1>10, <1>11, <1>12, <1>13, <1>14, <1>15, <1>16, <1>17
    DEF Asked, Commanding
  <1>19. pc = "init_reply" => toDev[1].cmd = InitCmds[attempt]
    BY <1>3 DEF Asked, NextPage, Getting, TypeInv, PendingInv
  <1>20. QED
    BY <1>5, <1>18, <1>19, RequestHead

\* Whatever the device does keeps the conversation in order.
LEMMA DeviceStep ==
    ASSUME TypeInv, PendingInv, Session, Toppy5000 PROVE Session'
  <1>1. ToppyNext /\ OnlyThePipes /\ faults' = faults
    BY DEF Toppy5000, handle, call, app, OnlyThePipes
  <1>2. toDev # <<>>
    BY <1>1
    DEF ToppyNext, Handle, DevCancel, DevReset, DevSimple, DevDir, DevGet, DevContinue,
        DevPut, DevReceive, DevAbort, DevRefuse, DevDeaf
  <1>3. toHost = <<>> /\ Len(toDev) \in Nat /\ Len(toDev) >= 1 /\ Lost \in Nat
    BY <1>1, <1>2, EmptySeq
    DEF Session, Conversation, TypeInv, PipesOK, ToppyTypeOK, Lost, FaultKinds
  <1>4. CASE Awaits => Len(toDev) # 1
    <2>1. Silent(1)
      <3>1. 1 \in 1..Len(toDev) /\ (Awaits => 1 < Len(toDev))
        BY <1>3, <1>4
      <3>2. QED
        BY <3>1 DEF Session, Conversation
    <2>2. QED
      BY <1>1, <1>2, <1>4, <2>1, SilentHead, HeadGone DEF Stuck
  <1>5. CASE Awaits /\ Len(toDev) = 1
    <2>1. /\ toDev' = <<>>
          /\ toHost' = <<>> \/ (Len(toHost') = 1 /\ Answered(toHost[1])')
          /\ toDev[1].cmd = "CANCEL" => dMode' = "idle"
          /\ pc = "init_reply" => toDev[1].cmd = InitCmds[attempt]
      BY <1>1, <1>3, <1>5, AnswerFits
    <2>2. ~(pc = "init_reply" /\ attempt <= 2 /\ Stuck')
      <3>1. pc = "init_reply" /\ attempt <= 2 => attempt \in {1, 2}
        BY <1>1 DEF TypeInv, CallOK, AttemptInv, MaxCancelTries
      <3>2. pc = "init_reply" /\ attempt <= 2 => InitCmds[attempt] = "CANCEL"
        BY <3>1 DEF InitCmds
      <3>3. QED
        BY <2>1, <3>2 DEF Stuck
    <2>3. Lost' \in Int
      BY <1>1, <1>3 DEF Lost
    <2>4. QED
      BY <1>1, <1>5, <2>1, <2>2, <2>3, RequestGone
  <1>6. QED
    BY <1>4, <1>5

\* So does the loss of a packet.
LEMMA LoseStep ==
    ASSUME TypeInv, PendingInv, Session, Lose PROVE Session'
  <1>1. OnlyThePipes /\ UNCHANGED <<dMode, dFile, dPos, dRecv>>
    BY DEF Lose, device, handle, call, app, OnlyThePipes
  <1>2. Lost > 0 /\ Lost' = Lost - 1 /\ Lost \in Nat
    BY <1>1 DEF Lose, Fault, Lost, TypeInv, PipesOK, FaultKinds
  <1>3. toDev \in Seq(HostPackets) /\ toHost \in Seq(DevicePackets)
    BY <1>1 DEF TypeInv, PipesOK, ToppyTypeOK
  <1>4. CASE toDev # <<>> /\ toDev' = Tail(toDev) /\ UNCHANGED toHost
    <2>1. CASE Awaits => Len(toDev) # 1
      BY <1>1, <1>2, <1>4, <2>1, HeadGone
    <2>2. CASE Awaits /\ Len(toDev) = 1
      <3>1. toDev' = <<>>
        BY <1>3, <1>4, <2>2, OnePacket
      <3>2. toHost' = <<>>
        BY <1>1, <1>4 DEF Session, Conversation
      <3>3. QED
        BY <1>1, <1>2, <2>2, <3>1, <3>2, RequestGone DEF Stuck
    <2>3. QED
      BY <2>1, <2>2
  <1>5. CASE toHost # <<>> /\ toHost' = Tail(toHost) /\ UNCHANGED toDev
    <2>1. Awaits /\ toDev' = <<>> /\ Len(toHost) = 1
      BY <1>1, <1>5 DEF Session, Conversation
    <2>2. toHost' = <<>>
      BY <1>3, <1>5, <2>1, OnePacket
    <2>3. QED
      BY <1>1, <1>2, <2>1, <2>2, RequestGone DEF Stuck
  <1>6. QED
    BY <1>4, <1>5 DEF Lose

-----------------------------------------------------------------------------
(* The calls of the application that send a request.                       *)

\* A function has sent its request and waits.
LEMMA Awaiting ==
    ASSUME TypeInv, Session, ~Awaits,
           NEW p, toDev' = Append(toDev, p),
           UNCHANGED <<toHost, dMode, dFile, dPos, dRecv, faults>>,
           pc' \in Reads \ {"gc_retry", "init_reply"},
           Asked(p)', Continues' => toDev = <<>>, Caller'
    PROVE  Session'
  <1>1. Awaits'
    BY DEF Awaits
  <1>2. Conversation'
    BY <1>1, Asking DEF Session
  <1>3. Stage' /\ InitStage' /\ Acknowledged'
    BY DEF Stage, InitStage, Acknowledged, Reads
  <1>4. QED
    BY <1>2, <1>3 DEF Session

\* What the state is in which a call can be made, but for those that need not
\* have read what tf->pending announces.
LEMMA AtCall ==
    ASSUME PendingInv, NEW o, NEW views, "get" \notin views, Enter(o, views)
    PROVE  pc = "idle" /\ txn \in views /\ op' = o /\ pending = FALSE /\ ~Awaits
  BY DEF PendingInv, Enter, Awaits, Reads

\* Requests that need one answer: tf_cmd() and tf_cmd_size().
LEMMA SimpleCalls ==
    ASSUME TypeInv, PendingInv, FaultsLeft, Session, dev = TRUE, ~CancelsMidGet,
           \/ \E c \in SimpleCmds \cup {"CANCEL", "RESET"} : tf_cmd(c)
           \/ tf_cmd_size
    PROVE  Session'
  <1>1. ASSUME NEW c \in SimpleCmds \cup {"CANCEL", "RESET"}, tf_cmd(c) PROVE Session'
    <2>1. PICK e \in ErrorCodes : tf_send(Plain(c), e) /\ AwaitOrReturn("cmd", c, e)
      BY <1>1 DEF tf_cmd
    <2>2. /\ toDev' = Append(toDev, Plain(c)) /\ e = TF_ERR_NONE
          /\ UNCHANGED <<toHost, dMode, dFile, dPos, dRecv, faults>>
      BY <2>1, SendSucceeds
    <2>3. pc' = "cmd" /\ pending' = pending /\ ret' = ret
      BY <1>1, <2>1, <2>2 DEF tf_cmd, AwaitOrReturn, Goto
    <2>4. op' = c /\ pending = FALSE /\ ~Awaits
      BY <1>1, AtCall DEF tf_cmd, CmdViews
    <2>5. Asked(Plain(c))'
      BY <2>3 DEF Asked, Commanding, Plain, Packet
    <2>6. Caller' /\ ~Continues'
      BY <2>3, <2>4 DEF Caller, Continues, Getting, NextPage
    <2>7. QED
      BY <2>2, <2>3, <2>4, <2>5, <2>6, Awaiting DEF Reads
  <1>2. CASE tf_cmd_size
    <2>1. PICK e \in ErrorCodes : tf_send(Plain("SIZE"), e) /\ AwaitOrReturn("size", "size", e)
      BY <1>2 DEF tf_cmd_size
    <2>2. /\ toDev' = Append(toDev, Plain("SIZE")) /\ e = TF_ERR_NONE
          /\ UNCHANGED <<toHost, dMode, dFile, dPos, dRecv, faults>>
      BY <2>1, SendSucceeds
    <2>3. pc' = "size" /\ pending' = pending
      BY <1>2, <2>1, <2>2 DEF tf_cmd_size, AwaitOrReturn, Goto
    <2>4. op' = "size" /\ pending = FALSE /\ ~Awaits
      BY <1>2, AtCall DEF tf_cmd_size
    <2>5. Asked(Plain("SIZE"))'
      BY <2>3 DEF Asked, Plain, Packet
    <2>6. Caller' /\ ~Continues'
      BY <2>3, <2>4 DEF Caller, Continues, Getting, NextPage
    <2>7. QED
      BY <2>2, <2>3, <2>4, <2>5, <2>6, Awaiting DEF Reads
  <1>3. QED
    BY <1>1, <1>2

\* Calls that begin a listing, a get or a put.
LEMMA TransferCalls ==
    ASSUME TypeInv, PendingInv, FaultsLeft, Session, dev = TRUE,
           NEW f \in Files, tf_cmd_dir_first(f) \/ tf_cmd_get(f) \/ tf_cmd_put(f)
    PROVE  Session'
  <1>1. CASE tf_cmd_dir_first(f)
    <2>1. PICK e \in ErrorCodes :
            tf_send(Packet("DIR", f, 0), e) /\ AwaitOrReturn("dirents", "dir_first", e)
      BY <1>1 DEF tf_cmd_dir_first
    <2>2. /\ toDev' = Append(toDev, Packet("DIR", f, 0)) /\ e = TF_ERR_NONE
          /\ UNCHANGED <<toHost, dMode, dFile, dPos, dRecv, faults>>
      BY <2>1, SendSucceeds
    <2>3. pc' = "dirents" /\ pending' = pending /\ item' = f /\ got' = <<>>
      BY <1>1, <2>1, <2>2 DEF tf_cmd_dir_first, AwaitOrReturn, Goto
    <2>4. op' = "dir_first" /\ pending = FALSE /\ ~Awaits
      BY <1>1, AtCall DEF tf_cmd_dir_first
    <2>5. Asked(Packet("DIR", f, 0))'
      BY <2>3, <2>4 DEF Asked, Packet
    <2>6. Caller' /\ ~Continues'
      BY <2>3, <2>4 DEF Caller, Continues, Getting, NextPage
    <2>7. QED
      BY <2>2, <2>3, <2>4, <2>5, <2>6, Awaiting DEF Reads
  <1>2. CASE tf_cmd_get(f)
    <2>1. PICK e \in ErrorCodes : tf_send(Packet("GET", f, 0), e) /\ AwaitOrReturn("get", "get", e)
      BY <1>2 DEF tf_cmd_get
    <2>2. /\ toDev' = Append(toDev, Packet("GET", f, 0)) /\ e = TF_ERR_NONE
          /\ UNCHANGED <<toHost, dMode, dFile, dPos, dRecv, faults>>
      BY <2>1, SendSucceeds
    <2>3. pc' = "get" /\ pending' = pending /\ item' = f /\ got' = <<>>
      BY <1>2, <2>1, <2>2 DEF tf_cmd_get, AwaitOrReturn, Goto
    <2>4. op' = "get" /\ pending = FALSE /\ ~Awaits
      BY <1>2, AtCall DEF tf_cmd_get
    <2>5. Asked(Packet("GET", f, 0))'
      BY <2>3, <2>4 DEF Asked, Packet
    <2>6. Caller' /\ ~Continues'
      BY <2>3, <2>4 DEF Caller, Continues, Getting, NextPage
    <2>7. QED
      BY <2>2, <2>3, <2>4, <2>5, <2>6, Awaiting DEF Reads
  <1>3. CASE tf_cmd_put(f)
    <2>1. PICK e \in ErrorCodes : tf_send(Packet("PUT", f, 0), e) /\ AwaitOrReturn("put", "put", e)
      BY <1>3 DEF tf_cmd_put
    <2>2. /\ toDev' = Append(toDev, Packet("PUT", f, 0)) /\ e = TF_ERR_NONE
          /\ UNCHANGED <<toHost, dMode, dFile, dPos, dRecv, faults>>
      BY <2>1, SendSucceeds
    <2>3. pc' = "put" /\ pending' = pending /\ item' = f /\ sent' = 0
      BY <1>3, <2>1, <2>2 DEF tf_cmd_put, AwaitOrReturn, Goto
    <2>4. op' = "put" /\ pending = FALSE /\ ~Awaits
      BY <1>3, AtCall DEF tf_cmd_put
    <2>5. Asked(Packet("PUT", f, 0))'
      BY <2>3, <2>4 DEF Asked, Packet
    <2>6. Caller' /\ ~Continues'
      BY <2>3, <2>4 DEF Caller, Continues, Getting, NextPage
    <2>7. QED
      BY <2>2, <2>3, <2>4, <2>5, <2>6, Awaiting DEF Reads
  <1>4. QED
    BY <1>1, <1>2, <1>3

\* The calls that go on with a transaction: the device is in it (Stage), and
\* nothing is under way to it.
LEMMA ContinuingCalls ==
    ASSUME TypeInv, PendingInv, FaultsLeft, Session, dev = TRUE,
           tf_cmd_dir_next \/ tf_cmd_put_data \/ tf_cmd_put_done
    PROVE  Session'
  <1>1. CASE tf_cmd_dir_next
    <2>1. PICK e \in ErrorCodes :
            tf_send(Plain("SUCCESS"), e) /\ AwaitOrReturn("dirents", "dir_next", e)
      BY <1>1 DEF tf_cmd_dir_next
    <2>2. /\ toDev' = Append(toDev, Plain("SUCCESS")) /\ e = TF_ERR_NONE
          /\ UNCHANGED <<toHost, dMode, dFile, dPos, dRecv, faults>>
      BY <2>1, SendSucceeds
    <2>3. pc' = "dirents" /\ pending' = pending /\ item' = item /\ got' = got
      BY <1>1, <2>1, <2>2 DEF tf_cmd_dir_next, AwaitOrReturn, Goto
    <2>4. op' = "dir_next" /\ pending = FALSE /\ ~Awaits /\ InDir /\ toDev = <<>>
      <3>1. op' = "dir_next" /\ pending = FALSE /\ ~Awaits /\ pc = "idle" /\ txn = "dir"
        BY <1>1, AtCall DEF tf_cmd_dir_next, Enter
      <3>2. QED
        BY <3>1 DEF Session, Stage
    <2>5. Asked(Plain("SUCCESS"))'
      BY <2>2, <2>3, <2>4 DEF Asked, Plain, Packet, NextPage, InDir
    <2>6. Caller'
      BY <2>3, <2>4 DEF Caller
    <2>7. QED
      BY <2>2, <2>3, <2>4, <2>5, <2>6, Awaiting DEF Reads
  <1>2. CASE tf_cmd_put_data
    <2> DEFINE block == Packet("FILE_DATA", NoFile, sent + 1)
    <2>1. PICK e \in ErrorCodes :
            tf_send(block, e) /\ AwaitOrReturn("put_data", "put_data", e)
      BY <1>2 DEF tf_cmd_put_data
    <2>2. /\ toDev' = Append(toDev, block) /\ e = TF_ERR_NONE
          /\ UNCHANGED <<toHost, dMode, dFile, dPos, dRecv, faults>>
      BY <2>1, SendSucceeds
    <2>3. pc' = "put_data" /\ pending' = pending /\ item' = item /\ sent' = sent
      BY <1>2, <2>1, <2>2 DEF tf_cmd_put_data, AwaitOrReturn, Goto
    <2>4. op' = "put_data" /\ pending = FALSE /\ ~Awaits /\ InRecv /\ toDev = <<>>
      <3>1. op' = "put_data" /\ pending = FALSE /\ ~Awaits /\ pc = "idle" /\ txn = "put"
        BY <1>2, AtCall DEF tf_cmd_put_data, Enter
      <3>2. QED
        BY <3>1 DEF Session, Stage
    <2>5. PICK p : p = block
      OBVIOUS
    <2>6. Asked(p)'
      BY <2>2, <2>3, <2>4, <2>5 DEF Asked, Packet, InRecv
    <2>7. Caller'
      BY <2>3, <2>4 DEF Caller
    <2>8. toDev' = Append(toDev, p)
      BY <2>2, <2>5
    <2>9. QED
      BY <2>2, <2>3, <2>4, <2>6, <2>7, <2>8, Awaiting DEF Reads
  <1>3. CASE tf_cmd_put_done
    <2>1. PICK e \in ErrorCodes :
            tf_send(Plain("FILE_END"), e) /\ AwaitOrReturn("put_done", "put_done", e)
      BY <1>3 DEF tf_cmd_put_done
    <2>2. /\ toDev' = Append(toDev, Plain("FILE_END")) /\ e = TF_ERR_NONE
          /\ UNCHANGED <<toHost, dMode, dFile, dPos, dRecv, faults>>
      BY <2>1, SendSucceeds
    <2>3. pc' = "put_done" /\ pending' = pending /\ item' = item /\ sent' = sent
      BY <1>3, <2>1, <2>2 DEF tf_cmd_put_done, AwaitOrReturn, Goto
    <2>4. op' = "put_done" /\ pending = FALSE /\ ~Awaits /\ InRecv /\ toDev = <<>>
      <3>1. op' = "put_done" /\ pending = FALSE /\ ~Awaits /\ pc = "idle" /\ txn = "put"
        BY <1>3, AtCall DEF tf_cmd_put_done, Enter
      <3>2. QED
        BY <3>1 DEF Session, Stage
    <2>5. Asked(Plain("FILE_END"))'
      BY <2>2, <2>3, <2>4 DEF Asked, Plain, Packet, InRecv
    <2>6. Caller'
      BY <2>3, <2>4 DEF Caller
    <2>7. QED
      BY <2>2, <2>3, <2>4, <2>5, <2>6, Awaiting DEF Reads
  <1>4. QED
    BY <1>1, <1>2, <1>3

\* The answer that tf->pending announces becomes the one that tf_cmd_get_next or
\* tf_cmd_get_cancel waits for.
LEMMA PendingTakenUp ==
    ASSUME TypeInv, PendingInv, Session, pending = TRUE,
           pc' \in {"get_next", "gc_drain"}, pending' = FALSE, Caller',
           UNCHANGED <<toDev, toHost, dMode, dFile, dPos, dRecv, faults, item, got, sent>>
    PROVE  Session'
  <1>1. pc = "idle" /\ txn = "get"
    BY DEF PendingInv
  <1>2. Awaits /\ Awaits' /\ Continues
    BY DEF Awaits, Reads, Continues, Getting
  <1>3. ASSUME NEW p, Asked(p) PROVE Asked(p)'
    BY <1>1, <1>3 DEF Asked, Commanding, NextPage, Getting, InGet
  <1>4. ASSUME NEW p, Answered(p) PROVE Answered(p)'
    BY <1>1, <1>4 DEF Answered, Commanding, NextPage, Getting, NextPart
  <1>5. toHost # <<>> => Awaits' /\ toDev' = <<>> /\ Len(toHost') = 1 /\ Answered(toHost[1])'
    <2>1. toHost # <<>> => toDev = <<>> /\ Len(toHost) = 1 /\ Answered(toHost[1])
      BY DEF Session, Conversation
    <2>2. PICK p : p = toHost[1]
      OBVIOUS
    <2>3. QED
      BY <1>2, <1>4, <2>1, <2>2
  <1>6. toDev # <<>> => Len(toDev) <= 1 /\ Asked(toDev[Len(toDev)])'
    <2>1. toDev # <<>> => Len(toDev) <= 1 /\ Asked(toDev[Len(toDev)])
      BY <1>2 DEF Session, Conversation
    <2>2. PICK p : p = toDev[Len(toDev)]
      OBVIOUS
    <2>3. QED
      BY <1>3, <2>1, <2>2
  <1>7. ASSUME NEW i \in 1..Len(toDev), i < Len(toDev) PROVE Silent(i)'
    BY <1>2, <1>7 DEF Session, Conversation, Silent
  <1>8. Len(toDev) <= 1
    BY <1>2 DEF Session, Conversation
  <1>9. Conversation'
    BY <1>2, <1>5, <1>6, <1>7, <1>8 DEF Conversation
  <1>10. Stage' /\ InitStage' /\ Acknowledged'
    BY DEF Stage, InitStage, Acknowledged
  <1>11. QED
    BY <1>9, <1>10 DEF Session

\* tf_cmd_get_next(): either the SUCCESS is sent now, or it was sent with the
\* previous block.
LEMMA GetNextCall ==
    ASSUME TypeInv, PendingInv, FaultsLeft, Session, dev = TRUE, tf_cmd_get_next
    PROVE  Session'
  <1>1. pc = "idle" /\ txn = "get" /\ op' = "get_next" /\ pending' = FALSE
    BY DEF tf_cmd_get_next, Enter
  <1>2. UNCHANGED <<item, got, sent>>
    BY DEF tf_cmd_get_next
  <1>3. CASE pending = TRUE
    <2>1. UNCHANGED <<toDev, toHost, dMode, dFile, dPos, dRecv, faults>> /\ pc' = "get_next"
      BY <1>3 DEF tf_cmd_get_next, Goto, pipes, device
    <2>2. Caller'
      BY <1>1, <2>1 DEF Caller
    <2>3. QED
      BY <1>1, <1>2, <1>3, <2>1, <2>2, PendingTakenUp
  <1>4. CASE pending = FALSE
    <2>1. PICK e \in ErrorCodes :
            tf_send(Plain("SUCCESS"), e) /\ AwaitOrReturn("get_next", "get_next", e)
      BY <1>4 DEF tf_cmd_get_next
    <2>2. /\ toDev' = Append(toDev, Plain("SUCCESS")) /\ e = TF_ERR_NONE
          /\ UNCHANGED <<toHost, dMode, dFile, dPos, dRecv, faults>>
      BY <2>1, SendSucceeds
    <2>3. pc' = "get_next"
      BY <2>1, <2>2 DEF AwaitOrReturn, Goto
    <2>4. InGet /\ toDev = <<>> /\ ~Awaits
      BY <1>1, <1>4 DEF Session, Stage, Awaits, Reads
    <2>5. Asked(Plain("SUCCESS"))'
      BY <1>2, <2>2, <2>3, <2>4 DEF Asked, Plain, Packet, Getting, InGet
    <2>6. Caller'
      BY <1>1, <2>3 DEF Caller
    <2>7. QED
      BY <2>2, <2>3, <2>4, <2>5, <2>6, Awaiting DEF Reads
  <1>5. QED
    BY <1>3, <1>4 DEF TypeInv, CallOK

\* Nothing is sent and nothing is read.
LEMMA NothingSent ==
    ASSUME Session, ~Awaits, ~Awaits', ~Continues', pc' \in Writes,
           UNCHANGED <<toDev, toHost, dMode, faults>>,
           Stage', InitStage', Caller'
    PROVE  Session'
  <1>1. ASSUME NEW i \in 1..Len(toDev) PROVE Silent(i)'
    BY DEF Session, Conversation, Silent, Stuck, Lost
  <1>2. Conversation'
    BY <1>1 DEF Session, Conversation
  <1>3. Acknowledged'
    BY DEF Acknowledged, Writes
  <1>4. QED
    BY <1>2, <1>3 DEF Session

\* Calls that send nothing in their first step.
LEMMA QuietCalls ==
    ASSUME TypeInv, PendingInv, FaultsLeft, Session,
           tf_init \/ tf_cmd_put_cancel \/ tf_cmd_get_cancel
    PROVE  Session'
  <1>1. CASE tf_init
    <2>1. op' = "init" /\ pending = FALSE /\ ~Awaits
      BY <1>1, AtCall DEF tf_init
    <2>2. /\ UNCHANGED <<toDev, toHost, dMode, faults, pending>>
          /\ pc' = "init" /\ attempt' = 1
      BY <1>1 DEF tf_init, Goto, pipes, device, handle
    <2>3. ~Awaits' /\ ~Continues' /\ Stage' /\ Caller'
      BY <2>1, <2>2 DEF Awaits, Reads, Continues, Getting, NextPage, Stage, Caller
    <2>4. InitStage'
      BY <2>2 DEF InitStage, FaultsLeft, Lost
    <2>5. QED
      BY <2>1, <2>2, <2>3, <2>4, NothingSent DEF Writes
  <1>2. CASE tf_cmd_put_cancel
    <2>1. op' = "put_cancel" /\ pending = FALSE /\ ~Awaits
      BY <1>2, AtCall DEF tf_cmd_put_cancel
    <2>2. UNCHANGED <<toDev, toHost, dMode, faults, pending>> /\ pc' = "pc_cancel"
      BY <1>2 DEF tf_cmd_put_cancel, Goto, pipes, device, handle
    <2>3. ~Awaits' /\ ~Continues' /\ Stage' /\ Caller' /\ InitStage'
      BY <2>1, <2>2 DEF Awaits, Reads, Continues, Getting, NextPage, Stage, Caller, InitStage
    <2>4. QED
      BY <2>1, <2>2, <2>3, NothingSent DEF Writes
  <1>3. CASE tf_cmd_get_cancel
    <2>1. op' = "get_cancel" /\ pending' = FALSE /\ pc = "idle"
      BY <1>3 DEF tf_cmd_get_cancel, Enter
    <2>2. UNCHANGED <<toDev, toHost, dMode, dFile, dPos, dRecv, faults, item, got, sent>>
      BY <1>3 DEF tf_cmd_get_cancel, pipes, device
    <2>3. CASE pending = TRUE
      <3>1. pc' = "gc_drain"
        BY <1>3, <2>3 DEF tf_cmd_get_cancel, Goto
      <3>2. Caller'
        BY <2>1, <3>1 DEF Caller
      <3>3. QED
        BY <2>1, <2>2, <2>3, <3>1, <3>2, PendingTakenUp
    <2>4. CASE pending = FALSE
      <3>1. pc' = "gc_fail"
        BY <1>3, <2>4 DEF tf_cmd_get_cancel, Goto
      <3>2. ~Awaits /\ ~Awaits' /\ ~Continues' /\ Stage' /\ Caller' /\ InitStage'
        BY <2>1, <2>4, <3>1
        DEF Awaits, Reads, Continues, Getting, NextPage, Stage, Caller, InitStage
      <3>3. QED
        BY <2>2, <3>1, <3>2, NothingSent DEF Writes
    <2>5. QED
      BY <2>3, <2>4 DEF TypeInv, CallOK
  <1>4. QED
    BY <1>1, <1>2, <1>3

\* A device that has just been opened: nothing is under way on a bus that was
\* reset.
LEMMA OpenStep ==
    ASSUME ResetOnOpen, topfield_open, dev' = TRUE
    PROVE  Session'
  <1>1. /\ toDev' = <<>> /\ toHost' = <<>>
        /\ pc' = "idle" /\ pending' = FALSE /\ txn' = "opened" /\ op' = "open"
    BY DEF topfield_open
  <1>2. Conversation'
    BY <1>1, NothingUnderWay
  <1>3. Stage' /\ InitStage' /\ Caller' /\ Acknowledged'
    BY <1>1 DEF Stage, InitStage, Caller, Acknowledged,
      Finishing, SimpleCmds
  <1>4. QED
    BY <1>2, <1>3 DEF Session

-----------------------------------------------------------------------------
(* What the functions send before they wait or return.                     *)

\* No answer is announced while a function runs.
LEMMA NothingPending ==
    ASSUME PendingInv, pc # "idle" PROVE pending = FALSE
  BY DEF PendingInv

\* A function has returned, and no transaction is open that goes on.
LEMMA AtRest ==
    ASSUME Conversation', pc' = "idle", pending' = FALSE,
           txn' \notin {"dir", "get", "put"}, Acknowledged'
    PROVE  Session'
  <1>1. Stage' /\ InitStage' /\ Caller'
    BY DEF Stage, InitStage, Caller
  <1>2. QED
    BY <1>1 DEF Session

\* The three packets of tf_init().
LEMMA InitSends ==
    ASSUME TypeInv, PendingInv, FaultsLeft, Session, dev = TRUE,
           tf_init_cmd \/ tf_init_fail \/ tf_init_success
    PROVE  Session'
  <1>1. CASE tf_init_cmd
    <2>1. PICK e \in ErrorCodes :
            /\ tf_send(Plain(InitCmds[attempt]), e)
            /\ IF e = TF_ERR_NONE
               THEN Goto("init_reply") /\ UNCHANGED attempt
               ELSE InitGiveUpOn(attempt)
      BY <1>1 DEF tf_init_cmd
    <2>2. /\ toDev' = Append(toDev, Plain(InitCmds[attempt])) /\ e = TF_ERR_NONE
          /\ UNCHANGED <<toHost, dMode, dFile, dPos, dRecv, faults>>
      BY <2>1, SendSucceeds
    <2>3. pc = "init" /\ pc' = "init_reply" /\ UNCHANGED <<attempt, pending, op>>
      BY <1>1, <2>1, <2>2 DEF tf_init_cmd, Goto
    <2>4. pending = FALSE
      BY <2>3, NothingPending
    <2>5. ~Awaits /\ Awaits' /\ ~Continues'
      BY <2>3, <2>4 DEF Awaits, Reads, Continues, Getting, NextPage
    <2>6. Asked(Plain(InitCmds[attempt]))'
      BY <2>3 DEF Asked, Plain, Packet
    <2>7. Conversation'
      <3>1. PICK p : p = Plain(InitCmds[attempt])
        OBVIOUS
      <3>2. Asked(p)'
        BY <2>3, <3>1 DEF Asked, Plain, Packet
      <3>3. QED
        BY <2>2, <2>5, <3>1, <3>2, Asking DEF Session
    <2>8. toDev' # <<>>
      BY <2>2 DEF TypeInv, PipesOK, ToppyTypeOK
    <2>9. InitStage'
      BY <2>2, <2>3, <2>8 DEF Session, InitStage, Stuck, Lost
    <2>10. Stage' /\ Caller' /\ Acknowledged'
      BY <2>3, <2>4 DEF Session, Stage, Caller, Acknowledged
    <2>11. QED
      BY <2>7, <2>9, <2>10 DEF Session
  <1>2. CASE tf_init_fail
    <2> DEFINE fail == Packet("FAIL", NoFile, 2)
    <2>1. PICK e \in ErrorCodes : tf_send(fail, e)
      BY <1>2 DEF tf_init_fail
    <2>2. /\ toDev' = Append(toDev, fail)
          /\ UNCHANGED <<toHost, dMode, dFile, dPos, dRecv, faults>>
      BY <2>1, SendSucceeds
    <2>3. pc = "init_fail" /\ pc' = "init_success" /\ UNCHANGED <<attempt, pending, op>>
      BY <1>2 DEF tf_init_fail, Goto
    <2>4. pending = FALSE
      BY <2>3, NothingPending
    <2>5. ~Awaits /\ ~Awaits' /\ ~Continues'
      BY <2>3, <2>4 DEF Awaits, Reads, Continues, Getting, NextPage
    <2>6. fail.cmd = "FAIL"
      BY DEF Packet
    <2>7. Conversation'
      BY <2>2, <2>5, <2>6, Telling DEF Session
    <2>8. toDev = <<>> /\ (Stuck => Lost = 0)
      BY <2>3 DEF Session, InitStage
    <2>9. Len(toDev') = 1 /\ toDev' # <<>>
      BY <2>2, <2>8
    <2>10. InitStage'
      BY <2>2, <2>3, <2>8, <2>9 DEF InitStage, Stuck, Lost
    <2>11. Stage' /\ Caller' /\ Acknowledged'
      BY <2>3, <2>4 DEF Session, Stage, Caller, Acknowledged
    <2>12. QED
      BY <2>7, <2>10, <2>11 DEF Session
  <1>3. CASE tf_init_success
    <2>1. PICK e \in ErrorCodes : tf_send(Plain("SUCCESS"), e)
      BY <1>3 DEF tf_init_success
    <2>2. /\ toDev' = Append(toDev, Plain("SUCCESS"))
          /\ UNCHANGED <<toHost, dMode, dFile, dPos, dRecv, faults>>
      BY <2>1, SendSucceeds
    <2>3. pc = "init_success" /\ pc' = "init" /\ UNCHANGED <<attempt, pending, op>>
      BY <1>3 DEF tf_init_success, Goto
    <2>4. pending = FALSE /\ attempt = 3
      BY <2>3, NothingPending DEF TypeInv, CallOK, AttemptInv
    <2>5. ~Awaits /\ ~Awaits' /\ ~Continues'
      BY <2>3, <2>4 DEF Awaits, Reads, Continues, Getting, NextPage
    <2>6. Plain("SUCCESS").cmd = "SUCCESS"
      BY DEF Plain, Packet
    <2>7. Stuck => Len(toDev) = 1 /\ Lost = 0
      <3>1. Stuck => toDev # <<>> /\ Len(toDev) <= 1 /\ Lost = 0
        BY <2>3 DEF Session, InitStage
      <3>2. toDev # <<>> => Len(toDev) >= 1 /\ Len(toDev) \in Nat
        BY EmptySeq DEF TypeInv, PipesOK, ToppyTypeOK
      <3>3. QED
        BY <3>1, <3>2
    <2>8. Conversation'
      BY <2>2, <2>5, <2>6, <2>7, Telling DEF Session
    <2>9. Stage' /\ InitStage' /\ Caller' /\ Acknowledged'
      BY <2>3, <2>4 DEF Session, Stage, InitStage, Caller, Acknowledged
    <2>10. QED
      BY <2>8, <2>9 DEF Session
  <1>4. QED
    BY <1>1, <1>2, <1>3

\* The SUCCESS that ends a listing or a get: the device is at its end, so that
\* it does not answer it.
LEMMA EndSends ==
    ASSUME TypeInv, PendingInv, FaultsLeft, Session, dev = TRUE,
           get_dirents_end \/ tf_cmd_get_next_end
    PROVE  Session'
  <1>1. PICK e \in ErrorCodes : tf_send(Plain("SUCCESS"), e)
    BY DEF get_dirents_end, tf_cmd_get_next_end
  <1>2. /\ toDev' = Append(toDev, Plain("SUCCESS"))
        /\ UNCHANGED <<toHost, dMode, dFile, dPos, dRecv, faults>>
    BY <1>1, SendSucceeds
  <1>3. pc \in {"dir_end", "gn_end"} /\ Return(op, TF_ERR_DONE) /\ UNCHANGED <<pending, op>>
    BY DEF get_dirents_end, tf_cmd_get_next_end
  <1>4. pc' = "idle" /\ ret' = TF_ERR_DONE /\ txn' \in {"closed", "none"}
    BY <1>3 DEF Return, AfterCall, TF_ERR_NONE, TF_ERR_DONE
  <1>5. pending = FALSE
    BY <1>3, NothingPending
  <1>6. ~Awaits /\ ~Awaits' /\ ~Continues'
    BY <1>3, <1>4, <1>5 DEF Awaits, Reads, Continues, Getting, NextPage
  <1>7. ~Stuck
    BY <1>3 DEF Session, Stage, Stuck
  <1>8. Plain("SUCCESS").cmd = "SUCCESS"
    BY DEF Plain, Packet
  <1>9. Conversation'
    BY <1>2, <1>6, <1>7, <1>8, Telling DEF Session
  <1>10. Acknowledged'
    BY <1>4 DEF Acknowledged, TF_ERR_NONE, TF_ERR_DONE
  <1>11. QED
    BY <1>3, <1>4, <1>5, <1>9, <1>10, AtRest

\* The SUCCESS that asks for the next block before it is asked for.
LEMMA DataSend ==
    ASSUME TypeInv, PendingInv, FaultsLeft, Session, dev = TRUE, tf_cmd_get_next_data
    PROVE  Session'
  <1>1. PICK e \in ErrorCodes : tf_send(Plain("SUCCESS"), e) /\ pending' = (e = TF_ERR_NONE)
    BY DEF tf_cmd_get_next_data
  <1>2. /\ toDev' = Append(toDev, Plain("SUCCESS"))
        /\ UNCHANGED <<toHost, dMode, dFile, dPos, dRecv, faults>>
        /\ pending' = TRUE
    BY <1>1, SendSucceeds
  <1>3. pc = "gn_data" /\ Return(op, TF_ERR_NONE) /\ UNCHANGED <<op, item, got, sent, dev>>
    BY DEF tf_cmd_get_next_data
  <1>4. op = "get_next" /\ InGet /\ toDev = <<>> /\ pending = FALSE
    BY <1>3, NothingPending DEF Session, Stage, Caller
  <1>5. pc' = "idle" /\ txn' = "get"
    BY <1>3, <1>4 DEF Return, AfterCall, AfterSuccess
  <1>6. ~Awaits /\ Awaits'
    BY <1>2, <1>3, <1>4 DEF Awaits, Reads
  <1>7. Asked(Plain("SUCCESS"))'
    BY <1>2, <1>3, <1>4 DEF Asked, Plain, Packet, Getting, InGet
  <1>8. Conversation'
    BY <1>2, <1>4, <1>6, <1>7, Asking DEF Session
  <1>9. Stage' /\ InitStage' /\ Caller' /\ Acknowledged'
    BY <1>2, <1>3, <1>4, <1>5 DEF Stage, InitStage, Caller, Acknowledged,
      Finishing, SimpleCmds
  <1>10. QED
    BY <1>8, <1>9 DEF Session

\* The packets with which a get or a put is cancelled.
LEMMA CancelSends ==
    ASSUME TypeInv, PendingInv, FaultsLeft, Session, dev = TRUE,
           get_cancel_fail \/ get_cancel_cancel \/ put_done_cancel \/ put_cancel_cancel
    PROVE  Session'
  <1>1. CASE get_cancel_fail
    <2> DEFINE fail == Packet("FAIL", NoFile, TF_ERR_CRC)
    <2>1. PICK e \in ErrorCodes : tf_send(fail, e)
      BY <1>1 DEF get_cancel_fail
    <2>2. /\ toDev' = Append(toDev, fail)
          /\ UNCHANGED <<toHost, dMode, dFile, dPos, dRecv, faults>>
      BY <2>1, SendSucceeds
    <2>3. pc = "gc_fail" /\ pc' = "gc_cancel" /\ UNCHANGED <<pending, op>>
      BY <1>1 DEF get_cancel_fail, Goto
    <2>4. pending = FALSE
      BY <2>3, NothingPending
    <2>5. ~Awaits /\ ~Awaits' /\ ~Continues'
      BY <2>3, <2>4 DEF Awaits, Reads, Continues, Getting, NextPage
    <2>6. fail.cmd = "FAIL"
      BY DEF Packet
    <2>7. Conversation'
      BY <2>2, <2>5, <2>6, Telling DEF Session
    <2>8. Stage' /\ InitStage' /\ Caller' /\ Acknowledged'
      BY <2>3, <2>4 DEF Session, Stage, InitStage, Caller, Acknowledged
    <2>9. QED
      BY <2>7, <2>8 DEF Session
  <1>2. CASE get_cancel_cancel \/ put_done_cancel \/ put_cancel_cancel
    <2>1. PICK e \in ErrorCodes : tf_send(Plain("CANCEL"), e) /\
            \/ get_cancel_cancel /\ Goto(IF e = TF_ERR_NONE THEN "gc_cancelled" ELSE "gc_retry")
            \/ put_done_cancel /\ IF e = TF_ERR_NONE THEN Goto("pd_cancelled") ELSE Return(op, ret)
            \/ put_cancel_cancel /\ (e = TF_ERR_NONE => Goto("pc_cancelled"))
      BY <1>2 DEF get_cancel_cancel, put_done_cancel, put_cancel_cancel
    <2>2. /\ toDev' = Append(toDev, Plain("CANCEL")) /\ e = TF_ERR_NONE
          /\ UNCHANGED <<toHost, dMode, dFile, dPos, dRecv, faults>>
      BY <2>1, SendSucceeds
    <2>3. /\ \/ pc = "gc_cancel" /\ pc' = "gc_cancelled"
             \/ pc = "pd_cancel" /\ pc' = "pd_cancelled"
             \/ pc = "pc_cancel" /\ pc' = "pc_cancelled"
          /\ UNCHANGED <<ret, pending, op>>
      BY <2>1, <2>2 DEF get_cancel_cancel, put_done_cancel, put_cancel_cancel, Goto
    <2>4. pending = FALSE
      BY <2>3, NothingPending
    <2>5. ~Awaits /\ ~Continues'
      BY <2>3, <2>4 DEF Awaits, Reads, Continues, Getting, NextPage
    <2>6. Asked(Plain("CANCEL"))'
      BY <2>3 DEF Asked, Commanding, Plain, Packet
    <2>7. Caller'
      BY <2>3, <2>4 DEF Session, Caller
    <2>8. QED
      BY <2>2, <2>3, <2>5, <2>6, <2>7, Awaiting DEF Reads
  <1>3. QED
    BY <1>1, <1>2

\* The FILE_START that follows the SUCCESS to a put.
LEMMA StartSend ==
    ASSUME TypeInv, PendingInv, FaultsLeft, Session, dev = TRUE, tf_cmd_put_start
    PROVE  Session'
  <1>1. PICK e \in ErrorCodes :
          tf_send(Plain("FILE_START"), e) /\ AwaitOrReturn("put_started", op, e)
    BY DEF tf_cmd_put_start
  <1>2. /\ toDev' = Append(toDev, Plain("FILE_START")) /\ e = TF_ERR_NONE
        /\ UNCHANGED <<toHost, dMode, dFile, dPos, dRecv, faults>>
    BY <1>1, SendSucceeds
  <1>3. pc = "put_start" /\ pc' = "put_started" /\ UNCHANGED <<pending, op, item, sent>>
    BY <1>1, <1>2 DEF tf_cmd_put_start, AwaitOrReturn, Goto
  <1>4. pending = FALSE /\ InPut /\ toDev = <<>>
    BY <1>3, NothingPending DEF Session, Stage
  <1>5. ~Awaits
    BY <1>3, <1>4 DEF Awaits, Reads
  <1>6. Asked(Plain("FILE_START"))'
    BY <1>2, <1>3, <1>4 DEF Asked, Plain, Packet, InPut
  <1>7. Caller'
    BY <1>3, <1>4 DEF Session, Caller
  <1>8. QED
    BY <1>2, <1>3, <1>4, <1>5, <1>6, <1>7, Awaiting DEF Reads

-----------------------------------------------------------------------------
(* What the functions make of the answer.                                  *)

\* A function that has read an answer sees nothing of the request any more.
LEMMA AfterRead ==
    ASSUME TypeInv, FaultsLeft, Session, dev = TRUE, NEW e \in ErrorCodes, tf_get_response(e)
    PROVE  /\ toDev = <<>> /\ toDev' = <<>> /\ Conversation'
           /\ UNCHANGED <<dMode, dFile, dPos, dRecv>> /\ Lost' = Lost
           /\ e = TF_ERR_NONE => Awaits /\ Answered(reply) /\ reply \in DevicePackets
           /\ \A c : Expect(e, c) = TF_ERR_NONE => Read(e, c)
           /\ \A c : Expect(e, c) # TF_ERR_DONE
           /\ \A c : ExpectOrFail(e, c) = TF_ERR_NONE => Read(e, c)
           /\ \A c : ExpectOrFail(e, c) # TF_ERR_DONE
  <1>1. /\ toDev = <<>> /\ toDev' = <<>> /\ toHost' = <<>>
        /\ UNCHANGED <<dMode, dFile, dPos, dRecv>> /\ Lost' = Lost
        /\ e = TF_ERR_NONE => Awaits /\ Answered(reply) /\ reply \in DevicePackets
        /\ e # TF_ERR_NONE => e \in {TF_ERR_IO, TF_ERR_CRC}
    BY ReadSucceeds DEF Session
  <1>2. Conversation'
    BY <1>1, NothingUnderWay
  <1>3. ASSUME NEW c, Expect(e, c) = TF_ERR_NONE PROVE Read(e, c)
    BY <1>3 DEF Expect, TF_ERR_NONE, TF_ERR_UNEXPECTED
  <1>4. ASSUME NEW c PROVE Expect(e, c) # TF_ERR_DONE
    BY <1>1
    DEF Expect, TF_ERR_NONE, TF_ERR_DONE, TF_ERR_UNEXPECTED, TF_ERR_IO, TF_ERR_CRC
  <1>5. ASSUME Read(e, "FAIL") PROVE -reply.n \notin {TF_ERR_NONE, TF_ERR_DONE}
    <2>1. reply.n \in 1..7
      BY <1>1, <1>5, ToppyAssumption DEF Read, DevicePackets
    <2>2. QED
      BY <2>1 DEF TF_ERR_NONE, TF_ERR_DONE
  <1>6. ASSUME NEW c, ExpectOrFail(e, c) = TF_ERR_NONE PROVE Read(e, c)
    BY <1>3, <1>5, <1>6 DEF ExpectOrFail
  <1>7. ASSUME NEW c PROVE ExpectOrFail(e, c) # TF_ERR_DONE
    BY <1>4, <1>5 DEF ExpectOrFail
  <1>8. QED
    BY <1>1, <1>2, <1>3, <1>4, <1>6, <1>7

\* The answer to a simple request.
LEMMA CmdReplies ==
    ASSUME TypeInv, PendingInv, FaultsLeft, Session, dev = TRUE,
           tf_cmd_reply \/ tf_cmd_size_reply
    PROVE  Session'
  <1>1. PICK e \in ErrorCodes :
          /\ tf_get_response(e)
          /\ \/ pc = "cmd" /\ Return(op, CmdResult(e))
             \/ pc = "size" /\ Return(op, Expect(e, "SIZE_RESULT"))
    BY DEF tf_cmd_reply, tf_cmd_size_reply
  <1>2. pc \in {"cmd", "size"} /\ UNCHANGED <<pending, op>>
    BY DEF tf_cmd_reply, tf_cmd_size_reply
  <1>3. /\ toDev' = <<>> /\ Conversation' /\ dMode' = dMode
        /\ e = TF_ERR_NONE => Answered(reply)
        /\ \A c : Expect(e, c) = TF_ERR_NONE => Read(e, c)
        /\ CmdResult(e) = TF_ERR_NONE => Read(e, "SUCCESS")
    BY <1>1, AfterRead DEF CmdResult
  <1>4. pending' = FALSE /\ op \in SimpleCmds \cup {"CANCEL", "RESET", "size"}
    BY <1>2, NothingPending DEF Session, Caller
  <1>5. pc' = "idle" /\ txn' \notin {"dir", "get", "put"}
    BY <1>1, <1>4 DEF Return, AfterCall, AfterSuccess, AfterError, SimpleCmds
  <1>6. ret' = TF_ERR_NONE => dMode = "idle"
    BY <1>1, <1>2, <1>3 DEF Return, Read, Answered, Commanding, Getting, NextPage
  <1>7. Acknowledged'
    BY <1>2, <1>3, <1>4, <1>6 DEF Acknowledged, SimpleCmds
  <1>8. QED
    BY <1>3, <1>4, <1>5, <1>7, AtRest

\* The answer that tf_init() waits for.
LEMMA InitReply ==
    ASSUME TypeInv, PendingInv, FaultsLeft, Session, dev = TRUE, tf_init_reply
    PROVE  Session'
  <1>1. PICK e \in ErrorCodes :
          /\ tf_get_response(e)
          /\ IF CmdResult(e) = TF_ERR_NONE
             THEN Return("init", TF_ERR_NONE) /\ UNCHANGED attempt
             ELSE InitGiveUpOn(attempt)
    BY DEF tf_init_reply
  <1>2. pc = "init_reply" /\ UNCHANGED <<pending, op>>
    BY DEF tf_init_reply
  <1>3. /\ toDev = <<>> /\ toDev' = <<>> /\ Conversation'
        /\ dMode' = dMode /\ Lost' = Lost
        /\ e = TF_ERR_NONE => Answered(reply)
        /\ CmdResult(e) = TF_ERR_NONE => Read(e, "SUCCESS")
    BY <1>1, AfterRead DEF CmdResult
  <1>4. pending = FALSE /\ op = "init" /\ attempt \in 1..4 /\ Lost \in Nat
    BY <1>2, NothingPending
    DEF Session, Caller, TypeInv, CallOK, AttemptInv, PipesOK, Lost, FaultKinds
  <1>5. CASE CmdResult(e) = TF_ERR_NONE
    <2>1. pc' = "idle" /\ txn' = "none"
      BY <1>1, <1>5 DEF Return, AfterCall, AfterSuccess
    <2>2. dMode = "idle"
      BY <1>2, <1>3, <1>4, <1>5 DEF Read, Answered, Getting
    <2>3. Acknowledged'
      BY <1>2, <1>3, <1>4, <2>2 DEF Acknowledged
    <2>4. QED
      BY <1>2, <1>3, <1>4, <2>1, <2>3, AtRest
  <1>6. CASE CmdResult(e) # TF_ERR_NONE /\ attempt = 4
    <2>1. pc' = "idle" /\ txn' = "opened" /\ ret' = -1
      BY <1>1, <1>6 DEF InitGiveUpOn, Return, AfterCall, AfterError, TF_ERR_NONE, TF_ERR_DONE
    <2>2. Acknowledged'
      BY <2>1 DEF Acknowledged, TF_ERR_NONE
    <2>3. QED
      BY <1>2, <1>3, <1>4, <2>1, <2>2, AtRest
  <1>7. CASE CmdResult(e) # TF_ERR_NONE /\ attempt # 4
    <2>1. attempt' = attempt + 1 /\ pc' = IF attempt = 2 THEN "init_fail" ELSE "init"
      BY <1>1, <1>4, <1>7 DEF InitGiveUpOn, Goto
    <2>2. attempt <= 2 /\ Stuck => Lost <= 2 - attempt
      BY <1>2, <1>3 DEF Session, InitStage
    <2>3. InitStage'
      <3>1. Stuck' <=> Stuck
        BY <1>3 DEF Stuck
      <3>2. QED
        BY <1>3, <1>4, <2>1, <2>2, <3>1 DEF InitStage
    <2>4. Stage' /\ Caller' /\ Acknowledged'
      BY <1>2, <1>4, <2>1 DEF Stage, Caller, Acknowledged
    <2>5. QED
      BY <1>3, <2>3, <2>4 DEF Session
  <1>8. QED
    BY <1>5, <1>6, <1>7

\* A page of a listing, or its end.
LEMMA DirReply ==
    ASSUME TypeInv, PendingInv, FaultsLeft, Session, dev = TRUE, get_dirents
    PROVE  Session'
  <1>1. PICK e \in ErrorCodes :
          /\ tf_get_response(e)
          /\ \/ Read(e, "DIRENT") /\ Deliver(reply) /\ Return(op, TF_ERR_NONE)
             \/ Read(e, "DIREND") /\ Goto("dir_end") /\ UNCHANGED got
             \/ ~Read(e, "DIRENT") /\ Return(op, Expect(e, "DIRENT"))
    BY DEF get_dirents
  <1>2. pc = "dirents" /\ UNCHANGED <<pending, op, item, sent>>
    BY DEF get_dirents
  <1>3. /\ toDev' = <<>> /\ Conversation' /\ UNCHANGED <<dMode, dFile, dPos>>
        /\ e = TF_ERR_NONE => Answered(reply)
        /\ Expect(e, "DIRENT") = TF_ERR_NONE => Read(e, "DIRENT")
    BY <1>1, AfterRead
  <1>4. /\ pending = FALSE /\ op \in {"dir_first", "dir_next"}
        /\ got \in Seq([file: Files \cup {NoFile}, n: Int])
    BY <1>2, NothingPending DEF Session, Caller, TypeInv, AppOK
  <1>5. CASE Read(e, "DIRENT") /\ Deliver(reply) /\ Return(op, TF_ERR_NONE)
    <2>1. pc' = "idle" /\ txn' = "dir"
      BY <1>4, <1>5 DEF Return, AfterCall, AfterSuccess
    <2>2. NextPart(reply, "dir")
      BY <1>2, <1>3, <1>4, <1>5 DEF Read, Answered, Commanding, Getting
    <2>3. Len(got') = Len(got) + 1
      BY <1>4, <1>5 DEF Deliver
    <2>4. InDir'
      BY <1>2, <1>3, <2>2, <2>3 DEF NextPart, InDir
    <2>5. Stage' /\ InitStage' /\ Caller' /\ Acknowledged'
      BY <1>2, <1>3, <1>4, <2>1, <2>4 DEF Stage, InitStage, Caller, Acknowledged,
        Finishing, SimpleCmds
    <2>6. QED
      BY <1>3, <2>5 DEF Session
  <1>6. CASE Read(e, "DIREND") /\ Goto("dir_end") /\ UNCHANGED got
    <2>1. dMode = "dirend" /\ Len(got) = Blocks
      BY <1>2, <1>3, <1>4, <1>6 DEF Read, Answered, Commanding, Getting
    <2>2. Stage' /\ InitStage' /\ Caller' /\ Acknowledged'
      BY <1>2, <1>3, <1>4, <1>6, <2>1 DEF Goto, Stage, InitStage, Caller, Acknowledged
    <2>3. QED
      BY <1>3, <2>2 DEF Session
  <1>7. CASE ~Read(e, "DIRENT") /\ Return(op, Expect(e, "DIRENT"))
    <2>1. pc' = "idle" /\ txn' \notin {"dir", "get", "put"}
      BY <1>3, <1>4, <1>7 DEF Return, AfterCall, AfterError
    <2>2. Acknowledged'
      BY <1>2, <1>4 DEF Acknowledged, Finishing, SimpleCmds
    <2>3. QED
      BY <1>2, <1>3, <1>4, <2>1, <2>2, AtRest
  <1>8. QED
    BY <1>1, <1>5, <1>6, <1>7

\* The FILE_START that begins a get.
LEMMA GetReply ==
    ASSUME TypeInv, PendingInv, FaultsLeft, Session, dev = TRUE, tf_cmd_get_reply
    PROVE  Session'
  <1>1. PICK e \in ErrorCodes :
          tf_get_response(e) /\ Return(op, ExpectOrFail(e, "FILE_START"))
    BY DEF tf_cmd_get_reply
  <1>2. pc = "get" /\ UNCHANGED <<pending, op, item, got, sent>>
    BY DEF tf_cmd_get_reply
  <1>3. /\ toDev' = <<>> /\ Conversation' /\ UNCHANGED <<dMode, dFile, dPos>>
        /\ e = TF_ERR_NONE => Answered(reply)
        /\ ExpectOrFail(e, "FILE_START") = TF_ERR_NONE => Read(e, "FILE_START")
    BY <1>1, AfterRead
  <1>4. pending = FALSE /\ op = "get"
    BY <1>2, NothingPending DEF Session, Caller
  <1>5. pc' = "idle" /\ txn' \notin {"dir", "put"}
    BY <1>1, <1>4 DEF Return, AfterCall, AfterSuccess, AfterError
  <1>6. txn' = "get" => InGet'
    <2>1. ASSUME txn' = "get" PROVE ExpectOrFail(e, "FILE_START") = TF_ERR_NONE
      BY <1>1, <1>4, <2>1 DEF Return, AfterCall, AfterError
    <2>2. ASSUME Read(e, "FILE_START") PROVE InGet
      BY <1>2, <1>3, <1>4, <2>2 DEF Read, Answered, Commanding, Getting
    <2>3. QED
      BY <1>2, <1>3, <2>1, <2>2 DEF InGet
  <1>7. Stage' /\ InitStage' /\ Caller' /\ Acknowledged'
    BY <1>2, <1>3, <1>4, <1>5, <1>6 DEF Stage, InitStage, Caller, Acknowledged,
      Finishing, SimpleCmds
  <1>8. QED
    BY <1>3, <1>7 DEF Session

\* A block of the file, or its end.
LEMMA GetNextReply ==
    ASSUME TypeInv, PendingInv, FaultsLeft, Session, dev = TRUE, tf_cmd_get_next_reply
    PROVE  Session'
  <1>1. PICK e \in ErrorCodes :
          /\ tf_get_response(e)
          /\ \/ Read(e, "FILE_END") /\ Goto("gn_end") /\ UNCHANGED got
             \/ Read(e, "FILE_DATA") /\ Deliver(reply) /\ Goto("gn_data")
             \/ /\ ~Read(e, "FILE_DATA")
                /\ Return(op, IF Read(e, "FAIL") THEN TF_ERR_IO ELSE Expect(e, "FILE_DATA"))
    BY DEF tf_cmd_get_next_reply
  <1>2. pc = "get_next" /\ UNCHANGED <<pending, op, item, sent>>
    BY DEF tf_cmd_get_next_reply
  <1>3. /\ toDev' = <<>> /\ Conversation' /\ UNCHANGED <<dMode, dFile, dPos>>
        /\ e = TF_ERR_NONE => Answered(reply)
        /\ Expect(e, "FILE_DATA") = TF_ERR_NONE => Read(e, "FILE_DATA")
    BY <1>1, AfterRead
  <1>4. /\ pending = FALSE /\ op = "get_next"
        /\ got \in Seq([file: Files \cup {NoFile}, n: Int])
    BY <1>2, NothingPending DEF Session, Caller, TypeInv, AppOK
  <1>5. CASE Read(e, "FILE_END") /\ Goto("gn_end") /\ UNCHANGED got
    <2>1. dMode = "getend" /\ Len(got) = Blocks
      BY <1>2, <1>3, <1>4, <1>5 DEF Read, Answered, Commanding
    <2>2. Stage' /\ InitStage' /\ Caller' /\ Acknowledged'
      BY <1>2, <1>3, <1>4, <1>5, <2>1 DEF Goto, Stage, InitStage, Caller, Acknowledged
    <2>3. QED
      BY <1>3, <2>2 DEF Session
  <1>6. CASE Read(e, "FILE_DATA") /\ Deliver(reply) /\ Goto("gn_data")
    <2>1. NextPart(reply, "get")
      BY <1>2, <1>3, <1>4, <1>6 DEF Read, Answered, Commanding
    <2>2. Len(got') = Len(got) + 1
      BY <1>4, <1>6 DEF Deliver
    <2>3. InGet'
      BY <1>2, <1>3, <2>1, <2>2 DEF NextPart, InGet
    <2>4. Stage' /\ InitStage' /\ Caller' /\ Acknowledged'
      BY <1>2, <1>3, <1>4, <1>6, <2>3 DEF Goto, Stage, InitStage, Caller, Acknowledged
    <2>5. QED
      BY <1>3, <2>4 DEF Session
  <1>7. CASE /\ ~Read(e, "FILE_DATA")
             /\ Return(op, IF Read(e, "FAIL") THEN TF_ERR_IO ELSE Expect(e, "FILE_DATA"))
    <2>1. pc' = "idle" /\ txn' \notin {"dir", "get", "put"}
      BY <1>3, <1>4, <1>7 DEF Return, AfterCall, AfterError, TF_ERR_IO, TF_ERR_NONE
    <2>2. Acknowledged'
      BY <1>2, <1>4 DEF Acknowledged, Finishing, SimpleCmds
    <2>3. QED
      BY <1>2, <1>3, <1>4, <2>1, <2>2, AtRest
  <1>8. QED
    BY <1>1, <1>5, <1>6, <1>7

\* The answers to the packets that abandon a get or a put.
LEMMA CancelReplies ==
    ASSUME TypeInv, PendingInv, FaultsLeft, Session, dev = TRUE,
           \/ get_cancel_drain \/ get_cancel_cancelled \/ get_cancel_retry
           \/ put_done_cancelled \/ put_cancel_cancelled
    PROVE  Session'
  <1>1. PICK e \in ErrorCodes :
          /\ tf_get_response(e)
          /\ \/ get_cancel_drain /\ Goto("gc_fail")
             \/ get_cancel_cancelled /\ (Goto("gc_retry") \/ Return(op, CmdResult(e)))
             \/ get_cancel_retry /\ (Goto("gc_fail") \/ Return(op, e))
             \/ put_done_cancelled
             \/ put_cancel_cancelled /\ (Goto("pc_cancel") \/ Return(op, CmdResult(e)))
    BY DEF get_cancel_drain, get_cancel_cancelled, get_cancel_retry, put_done_cancelled,
           put_cancel_cancelled, PutCancelled
  <1>2. /\ toDev' = <<>> /\ Conversation' /\ dMode' = dMode
        /\ e = TF_ERR_NONE => Awaits /\ Answered(reply)
        /\ CmdResult(e) = TF_ERR_NONE => Read(e, "SUCCESS")
    BY <1>1, AfterRead DEF CmdResult
  <1>3. UNCHANGED <<pending, op>>
    BY DEF get_cancel_drain, get_cancel_cancelled, get_cancel_retry, put_done_cancelled,
           put_cancel_cancelled
  <1>4. pc # "idle" /\ pending = FALSE
    BY NothingPending
    DEF get_cancel_drain, get_cancel_cancelled, get_cancel_retry, put_done_cancelled,
        put_cancel_cancelled
  <1>5. ASSUME pc' \in {"gc_fail", "gc_retry", "pc_cancel"}, Caller' PROVE Session'
    <2>1. Stage' /\ InitStage' /\ Acknowledged'
      BY <1>5 DEF Stage, InitStage, Acknowledged
    <2>2. QED
      BY <1>2, <1>5, <2>1 DEF Session
  <1>6. ASSUME pc \in {"gc_cancelled", "pc_cancelled"}, CmdResult(e) = TF_ERR_NONE
        PROVE  dMode = "idle"
    BY <1>2, <1>4, <1>6 DEF Read, Answered, Getting
  <1>7. ASSUME pc = "gc_retry" PROVE e # TF_ERR_NONE
    BY <1>2, <1>4, <1>7 DEF Awaits
  <1>8. ASSUME pc \in {"gc_drain", "gc_cancelled", "gc_retry"},
               \/ pc' \in {"gc_fail", "gc_retry"}
               \/ \E v : Return(op, v) /\ (v = TF_ERR_NONE => dMode = "idle")
        PROVE  Session'
    <2>1. op = "get_cancel"
      BY <1>8 DEF Session, Caller
    <2>2. CASE pc' \in {"gc_fail", "gc_retry"}
      BY <1>3, <1>4, <1>5, <2>1, <2>2 DEF Caller
    <2>3. ASSUME NEW v, Return(op, v), v = TF_ERR_NONE => dMode = "idle" PROVE Session'
      <3>1. pc' = "idle" /\ ret' = v /\ txn' \notin {"dir", "get", "put"}
        BY <2>1, <2>3 DEF Return, AfterCall, AfterSuccess, AfterError
      <3>2. Acknowledged'
        BY <1>2, <1>3, <2>1, <2>3, <3>1 DEF Acknowledged
      <3>3. QED
        BY <1>2, <1>3, <1>4, <3>1, <3>2, AtRest
    <2>4. QED
      BY <1>8, <2>2, <2>3
  <1>9. CASE get_cancel_drain \/ get_cancel_cancelled \/ get_cancel_retry
    <2>1. pc \in {"gc_drain", "gc_cancelled", "gc_retry"}
      BY <1>9 DEF get_cancel_drain, get_cancel_cancelled, get_cancel_retry
    <2>2. \/ pc' \in {"gc_fail", "gc_retry"}
          \/ \E v : Return(op, v) /\ (v = TF_ERR_NONE => dMode = "idle")
      <3>1. CASE get_cancel_cancelled
        <4>1. pc = "gc_cancelled"
          BY <3>1 DEF get_cancel_cancelled
        <4>2. Goto("gc_retry") \/ Return(op, CmdResult(e))
          BY <1>1, <4>1
          DEF get_cancel_drain, get_cancel_retry, put_done_cancelled, put_cancel_cancelled
        <4>3. QED
          BY <1>6, <4>1, <4>2 DEF Goto
      <3>2. CASE get_cancel_retry
        <4>1. pc = "gc_retry"
          BY <3>2 DEF get_cancel_retry
        <4>2. Goto("gc_fail") \/ Return(op, e)
          BY <1>1, <4>1
          DEF get_cancel_drain, get_cancel_cancelled, put_done_cancelled, put_cancel_cancelled
        <4>3. QED
          BY <1>7, <4>1, <4>2 DEF Goto
      <3>3. CASE get_cancel_drain
        BY <3>3 DEF get_cancel_drain, Goto
      <3>4. QED
        BY <1>9, <3>1, <3>2, <3>3
    <2>3. QED
      BY <1>8, <2>1, <2>2
  <1>10. CASE put_cancel_cancelled
    <2>1. pc = "pc_cancelled" /\ op = "put_cancel"
      BY <1>10 DEF Session, Caller, put_cancel_cancelled
    <2>2. Goto("pc_cancel") \/ Return(op, CmdResult(e))
      BY <1>1, <2>1
      DEF get_cancel_drain, get_cancel_cancelled, get_cancel_retry, put_done_cancelled
    <2>3. CASE Goto("pc_cancel")
      BY <1>3, <1>4, <1>5, <2>1, <2>3 DEF Goto, Caller
    <2>4. CASE Return(op, CmdResult(e))
      <3>1. pc' = "idle" /\ ret' = CmdResult(e) /\ txn' \notin {"dir", "get", "put"}
        BY <2>1, <2>4 DEF Return, AfterCall, AfterSuccess, AfterError
      <3>2. Acknowledged'
        BY <1>2, <1>3, <1>6, <2>1, <3>1 DEF Acknowledged
      <3>3. QED
        BY <1>2, <1>3, <1>4, <3>1, <3>2, AtRest
    <2>5. QED
      BY <2>2, <2>3, <2>4
  <1>11. CASE put_done_cancelled
    <2>1. op = "put_done" /\ ret \notin {TF_ERR_NONE, TF_ERR_DONE} /\ Return(op, ret)
      BY <1>11 DEF Session, Caller, put_done_cancelled
    <2>2. pc' = "idle" /\ ret' = ret /\ txn' \notin {"dir", "get", "put"}
      BY <2>1 DEF Return, AfterCall, AfterSuccess, AfterError
    <2>3. Acknowledged'
      BY <2>1, <2>2 DEF Acknowledged
    <2>4. QED
      BY <1>2, <1>3, <1>4, <2>2, <2>3, AtRest
  <1>12. QED
    BY <1>9, <1>10, <1>11

\* The answers that begin a put.
LEMMA PutReplies ==
    ASSUME TypeInv, PendingInv, FaultsLeft, Session, dev = TRUE,
           tf_cmd_put_reply \/ tf_cmd_put_started
    PROVE  Session'
  <1>1. PICK e \in ErrorCodes :
          /\ tf_get_response(e)
          /\ \/ /\ pc = "put"
                /\ IF ExpectOrFail(e, "SUCCESS") = TF_ERR_NONE
                   THEN Goto("put_start") ELSE Return(op, ExpectOrFail(e, "SUCCESS"))
             \/ pc = "put_started" /\ Return(op, Expect(e, "SUCCESS"))
    BY DEF tf_cmd_put_reply, tf_cmd_put_started
  <1>2. UNCHANGED <<pending, op, item, got, sent>>
    BY DEF tf_cmd_put_reply, tf_cmd_put_started
  <1>3. /\ toDev' = <<>> /\ Conversation' /\ UNCHANGED <<dMode, dFile, dRecv>>
        /\ e = TF_ERR_NONE => Answered(reply)
        /\ Expect(e, "SUCCESS") = TF_ERR_NONE => Read(e, "SUCCESS")
        /\ ExpectOrFail(e, "SUCCESS") = TF_ERR_NONE => Read(e, "SUCCESS")
    BY <1>1, AfterRead
  <1>4. pending = FALSE /\ op = "put"
    BY <1>1, NothingPending DEF Session, Caller
  <1>5. Read(e, "SUCCESS") => (pc = "put" => InPut) /\ (pc = "put_started" => InRecv)
    BY <1>1, <1>3, <1>4 DEF Read, Answered, Commanding, Getting
  <1>6. \/ pc' = "put_start" /\ InPut'
        \/ pc' = "idle" /\ txn' = "put" /\ InRecv'
        \/ pc' = "idle" /\ txn' \notin {"dir", "get", "put"}
    BY <1>1, <1>2, <1>3, <1>4, <1>5
    DEF Goto, Return, AfterCall, AfterSuccess, AfterError, InPut, InRecv
  <1>7. Stage' /\ InitStage' /\ Caller' /\ Acknowledged'
    BY <1>2, <1>3, <1>4, <1>6 DEF Stage, InitStage, Caller, Acknowledged,
      Finishing, SimpleCmds
  <1>8. QED
    BY <1>3, <1>7 DEF Session

\* The answer to a block.
LEMMA PutDataReply ==
    ASSUME TypeInv, PendingInv, FaultsLeft, Session, dev = TRUE, tf_cmd_put_data_reply
    PROVE  Session'
  <1>1. PICK e \in ErrorCodes :
          /\ tf_get_response(e)
          /\ Return(op, Expect(e, "SUCCESS"))
          /\ sent' = IF Expect(e, "SUCCESS") = TF_ERR_NONE THEN sent + 1 ELSE sent
    BY DEF tf_cmd_put_data_reply
  <1>2. pc = "put_data" /\ UNCHANGED <<pending, op, item, got>>
    BY DEF tf_cmd_put_data_reply
  <1>3. /\ toDev' = <<>> /\ Conversation' /\ UNCHANGED <<dMode, dFile, dRecv>>
        /\ e = TF_ERR_NONE => Answered(reply)
        /\ Expect(e, "SUCCESS") = TF_ERR_NONE => Read(e, "SUCCESS")
    BY <1>1, AfterRead
  <1>4. pending = FALSE /\ op = "put_data"
    BY <1>2, NothingPending DEF Session, Caller
  <1>5. pc' = "idle" /\ txn' \notin {"dir", "get"}
    BY <1>1, <1>4 DEF Return, AfterCall, AfterSuccess, AfterError
  <1>6. txn' = "put" => InRecv'
    <2>1. ASSUME txn' = "put" PROVE Expect(e, "SUCCESS") = TF_ERR_NONE
      BY <1>1, <1>4, <2>1 DEF Return, AfterCall, AfterError
    <2>2. ASSUME Read(e, "SUCCESS")
          PROVE  dMode = "recv" /\ dFile = item /\ dRecv = 1..(sent + 1)
      BY <1>2, <1>3, <1>4, <2>2 DEF Read, Answered, Commanding, Getting
    <2>3. QED
      BY <1>1, <1>2, <1>3, <2>1, <2>2 DEF InRecv
  <1>7. Stage' /\ InitStage' /\ Caller' /\ Acknowledged'
    BY <1>2, <1>3, <1>4, <1>5, <1>6 DEF Stage, InitStage, Caller, Acknowledged,
      Finishing, SimpleCmds
  <1>8. QED
    BY <1>3, <1>7 DEF Session

\* The answer to FILE_END, which says that the file is on the disk.
LEMMA PutDoneReply ==
    ASSUME TypeInv, PendingInv, FaultsLeft, Session, dev = TRUE, tf_cmd_put_done_reply
    PROVE  Session'
  <1>1. PICK e \in ErrorCodes :
          /\ tf_get_response(e)
          /\ IF Expect(e, "SUCCESS") = TF_ERR_NONE
             THEN Return(op, Expect(e, "SUCCESS"))
             ELSE pc' = "pd_cancel" /\ ret' = Expect(e, "SUCCESS") /\ UNCHANGED txn
    BY DEF tf_cmd_put_done_reply
  <1>2. pc = "put_done" /\ UNCHANGED <<pending, op, item, got, sent>>
    BY DEF tf_cmd_put_done_reply
  <1>3. /\ toDev' = <<>> /\ Conversation' /\ UNCHANGED <<dMode, dFile, dRecv>>
        /\ e = TF_ERR_NONE => Answered(reply)
        /\ Expect(e, "SUCCESS") = TF_ERR_NONE => Read(e, "SUCCESS")
        /\ Expect(e, "SUCCESS") # TF_ERR_DONE
    BY <1>1, AfterRead
  <1>4. pending = FALSE /\ op = "put_done"
    BY <1>2, NothingPending DEF Session, Caller
  <1>5. CASE Expect(e, "SUCCESS") = TF_ERR_NONE
    <2>1. pc' = "idle" /\ txn' \notin {"dir", "get", "put"}
      BY <1>1, <1>4, <1>5 DEF Return, AfterCall, AfterSuccess
    <2>2. dRecv = 1..sent /\ dFile = item /\ dMode = "idle"
      BY <1>2, <1>3, <1>4, <1>5 DEF Read, Answered, Commanding, Getting
    <2>3. Acknowledged'
      BY <1>2, <1>3, <1>4, <2>2 DEF Acknowledged
    <2>4. QED
      BY <1>2, <1>3, <1>4, <2>1, <2>3, AtRest
  <1>6. CASE Expect(e, "SUCCESS") # TF_ERR_NONE
    <2>1. Stage' /\ InitStage' /\ Caller' /\ Acknowledged'
      BY <1>1, <1>2, <1>3, <1>4, <1>6 DEF Stage, InitStage, Caller, Acknowledged
    <2>2. QED
      BY <1>3, <2>1 DEF Session
  <1>7. QED
    BY <1>5, <1>6

-----------------------------------------------------------------------------
(* The invariant is inductive.                                             *)

\* No step uses up a fault that a mild session does not have.
LEMMA FaultsStep ==
    ASSUME TypeInv, FaultsLeft, [Next]_vars PROVE FaultsLeft'
  <1>1. faults \in [FaultKinds -> Nat]
    BY DEF TypeInv, PipesOK
  <1>2. ASSUME NEW k \in {"lost", "corrupt", "crash"}, Fault(k) PROVE FaultsLeft'
    <2>1. faults' = [faults EXCEPT ![k] = @ - 1]
      BY <1>2 DEF Fault
    <2>2. faults'["late"] = 0 /\ faults'["write"] = 0 /\ faults'["lost"] <= faults["lost"]
      BY <1>1, <2>1 DEF FaultsLeft, FaultKinds
    <2>3. faults'["lost"] \in Int /\ faults["lost"] \in Int
      BY <1>1, <2>1 DEF FaultKinds
    <2>4. PICK b \in Budgets : faults["lost"] <= b["lost"]
      BY DEF FaultsLeft, Lost
    <2>5. b["lost"] \in Int
      BY TfIoAssumption DEF FaultKinds
    <2>6. faults'["lost"] <= b["lost"] /\ faults'["lost"] <= 2
      BY <2>2, <2>3, <2>4, <2>5 DEF FaultsLeft, Lost
    <2>7. QED
      BY <2>2, <2>6 DEF FaultsLeft, Lost
  <1>3. faults' = faults => FaultsLeft'
    BY DEF FaultsLeft, Lost
  <1>4. ASSUME NEW p, NEW e, tf_send(p, e) PROVE FaultsLeft'
    BY <1>3, <1>4 DEF tf_send, Fault, FaultsLeft
  <1>5. ASSUME NEW e, tf_get_response(e) PROVE FaultsLeft'
    <2>1. faults' = faults \/ Fault("corrupt")
      BY <1>5 DEF tf_get_response, Fault, FaultsLeft
    <2>2. QED
      BY <1>2, <1>3, <2>1
  <1>6. CASE Library
    BY <1>4, <1>5, <1>6
    DEF Library, tf_cmd_reply, tf_cmd_size_reply, tf_init_cmd, tf_init_reply, tf_init_fail,
        tf_init_success, get_dirents, get_dirents_end, tf_cmd_get_reply,
        tf_cmd_get_next_reply, tf_cmd_get_next_end, tf_cmd_get_next_data, get_cancel_drain,
        get_cancel_fail, get_cancel_cancel, get_cancel_cancelled, get_cancel_retry,
        tf_cmd_put_reply, tf_cmd_put_start, tf_cmd_put_started, tf_cmd_put_data_reply,
        tf_cmd_put_done_reply, put_done_cancel, put_done_cancelled, put_cancel_cancel,
        put_cancel_cancelled
  <1>7. CASE Application
    BY <1>3, <1>4, <1>7
    DEF Application, topfield_open, topfield_close, tf_init, tf_cmd, tf_cmd_size,
        tf_cmd_dir_first, tf_cmd_get, tf_cmd_put, tf_cmd_dir_next, tf_cmd_get_next,
        tf_cmd_get_cancel, tf_cmd_put_data, tf_cmd_put_done, tf_cmd_put_cancel
  <1>8. CASE Toppy5000 \/ Lose \/ Crash \/ UNCHANGED vars
    BY <1>2, <1>3, <1>8 DEF Toppy5000, Lose, Crash, vars
  <1>9. QED
    BY <1>6, <1>7, <1>8 DEF Next

\* What the application is given next is the next of what it asked for.
LEMMA GotStep ==
    ASSUME SessionInv, [Next]_vars PROVE GotInOrder'
  <1>1. got \in Seq([file: Files \cup {NoFile}, n: Int])
    BY DEF SessionInv, TypeInv, AppOK
  <1>2. CASE got' = got /\ item' = item
    BY <1>2 DEF SessionInv, GotInOrder
  <1>3. CASE got' = <<>>
    BY <1>3 DEF GotInOrder
  <1>4. ASSUME NEW m, Deliver(reply), NextPart(reply, m), item' = item PROVE GotInOrder'
    <2>1. got' = Append(got, [file |-> item, n |-> Len(got) + 1])
      BY <1>4 DEF Deliver, NextPart
    <2>2. QED
      BY <1>1, <1>4, <2>1 DEF SessionInv, GotInOrder
  <1>5. ASSUME NEW e, tf_get_response(e), e = TF_ERR_NONE, pc # "idle" PROVE Answered(reply)
    <2>1. dev = TRUE
      BY <1>5 DEF tf_get_response, TF_ERR_NONE, TF_ERR_NOCONN, SessionInv, TypeInv, CallOK
    <2>2. QED
      BY <1>5, <2>1, ReadSucceeds DEF SessionInv, Session
  <1>6. CASE get_dirents
    <2>1. PICK e \in ErrorCodes :
            tf_get_response(e) /\ (got' = got \/ (Read(e, "DIRENT") /\ Deliver(reply)))
      BY <1>6 DEF get_dirents
    <2>2. pc = "dirents" /\ item' = item /\ ~pending
      BY <1>6, NothingPending DEF get_dirents, SessionInv
    <2>3. Read(e, "DIRENT") => NextPart(reply, "dir")
      BY <1>5, <2>1, <2>2 DEF Read, Answered, Commanding, Getting
    <2>4. QED
      BY <1>2, <1>4, <2>1, <2>2, <2>3
  <1>7. CASE tf_cmd_get_next_reply
    <2>1. PICK e \in ErrorCodes :
            tf_get_response(e) /\ (got' = got \/ (Read(e, "FILE_DATA") /\ Deliver(reply)))
      BY <1>7 DEF tf_cmd_get_next_reply
    <2>2. pc = "get_next" /\ item' = item
      BY <1>7 DEF tf_cmd_get_next_reply
    <2>3. Read(e, "FILE_DATA") => NextPart(reply, "get")
      BY <1>5, <2>1, <2>2 DEF Read, Answered, Commanding
    <2>4. QED
      BY <1>2, <1>4, <2>1, <2>2, <2>3
  <1>8. CASE Library /\ ~get_dirents /\ ~tf_cmd_get_next_reply
    <2>1. got' = got /\ item' = item
      BY <1>8
      DEF Library, tf_cmd_reply, tf_cmd_size_reply, tf_init_cmd, tf_init_reply, tf_init_fail,
          tf_init_success, get_dirents_end, tf_cmd_get_reply,
          tf_cmd_get_next_end, tf_cmd_get_next_data, get_cancel_drain,
          get_cancel_fail, get_cancel_cancel, get_cancel_cancelled, get_cancel_retry,
          tf_cmd_put_reply, tf_cmd_put_start, tf_cmd_put_started, tf_cmd_put_data_reply,
          tf_cmd_put_done_reply, put_done_cancel, put_done_cancelled, put_cancel_cancel,
          put_cancel_cancelled
    <2>2. QED
      BY <1>2, <2>1
  <1>9. CASE Application
    <2>1. got' = <<>> \/ (got' = got /\ item' = item)
      BY <1>9
      DEF Application, topfield_open, topfield_close, tf_init, tf_cmd, tf_cmd_size,
          tf_cmd_dir_first, tf_cmd_get, tf_cmd_put, tf_cmd_dir_next, tf_cmd_get_next,
          tf_cmd_get_cancel, tf_cmd_put_data, tf_cmd_put_done, tf_cmd_put_cancel
    <2>2. QED
      BY <1>2, <1>3, <2>1
  <1>10. CASE Toppy5000 \/ Lose \/ Crash \/ UNCHANGED vars
    BY <1>2, <1>3, <1>10 DEF Toppy5000, Lose, Crash, vars, app
  <1>11. QED
    BY <1>6, <1>7, <1>8, <1>9, <1>10 DEF Next

\* A handle is opened by topfield_open(), and closed by topfield_close() or with
\* the process.
LEMMA HandleStep ==
    ASSUME [Next]_vars
    PROVE  dev' = dev \/ topfield_open \/ topfield_close \/ Crash
  <1>1. CASE Library
    BY <1>1
    DEF Library, tf_cmd_reply, tf_cmd_size_reply, tf_init_cmd, tf_init_reply, tf_init_fail,
        tf_init_success, get_dirents, get_dirents_end, tf_cmd_get_reply,
        tf_cmd_get_next_reply, tf_cmd_get_next_end, tf_cmd_get_next_data, get_cancel_drain,
        get_cancel_fail, get_cancel_cancel, get_cancel_cancelled, get_cancel_retry,
        tf_cmd_put_reply, tf_cmd_put_start, tf_cmd_put_started, tf_cmd_put_data_reply,
        tf_cmd_put_done_reply, put_done_cancel, put_done_cancelled, put_cancel_cancel,
        put_cancel_cancelled
  <1>2. CASE Application
    BY <1>2
    DEF Application, tf_init, tf_cmd, tf_cmd_size, handle,
        tf_cmd_dir_first, tf_cmd_get, tf_cmd_put, tf_cmd_dir_next, tf_cmd_get_next,
        tf_cmd_get_cancel, tf_cmd_put_data, tf_cmd_put_done, tf_cmd_put_cancel
  <1>3. CASE Toppy5000 \/ Lose \/ Crash \/ UNCHANGED vars
    BY <1>3 DEF Toppy5000, Lose, vars, handle
  <1>4. QED
    BY <1>1, <1>2, <1>3 DEF Next

\* Every step under Mild keeps the invariant of the session.
LEMMA SessionStep ==
    ASSUME SessionInv, Mild, [Next]_vars PROVE SessionInv'
  <1> USE DEF SessionInv
  <1>1. TypeInv'
    BY PipesStep, CallStep, PutStep, AppStep DEF TypeInv
  <1>2. PendingInv'
    BY PendingStep DEF Mild
  <1>3. FaultsLeft' /\ GotInOrder'
    BY FaultsStep, GotStep
  <1>4. ASSUME dev' PROVE Session'
    <2>1. dev' = TRUE
      BY <1>1, <1>4 DEF TypeInv, CallOK
    <2>2. CASE topfield_open
      BY <2>1, <2>2, OpenStep DEF Mild
    <2>3. CASE ~topfield_open
      <3>1. dev = TRUE /\ Session
        BY <2>1, <2>3, HandleStep DEF topfield_close, Crash
      <3>2. CASE Application
        <4>1. ~topfield_close
          BY <2>1 DEF topfield_close
        <4>2. QED
          BY <2>3, <3>1, <3>2, <4>1, SimpleCalls, TransferCalls, ContinuingCalls, GetNextCall,
             QuietCalls
          DEF Application, Mild
      <3>3. CASE Library
        BY <3>1, <3>3, InitSends, EndSends, DataSend, CancelSends, StartSend, CmdReplies,
           InitReply, DirReply, GetReply, GetNextReply, CancelReplies, PutReplies,
           PutDataReply, PutDoneReply
        DEF Library
      <3>4. CASE Toppy5000 \/ Lose
        BY <3>1, <3>4, DeviceStep, LoseStep
      <3>5. ~Crash
        BY <2>1 DEF Crash
      <3>6. CASE UNCHANGED vars
        <4>1. UNCHANGED <<toDev, toHost, dMode, dFile, dPos, dRecv, pending, pc, op, ret,
                          attempt, txn, item, got, sent, faults>>
          BY <3>6 DEF vars, pipes, device, handle, call, app
        <4>2. Conversation'
          BY <3>1, <4>1
          DEF Session, Conversation, Silent, Asked, Answered, Stuck, Awaits, Continues,
              Getting, Commanding, NextPage, NextPart, InDir, InGet, InPut, InRecv, Lost
        <4>3. Stage' /\ InitStage' /\ Caller' /\ Acknowledged'
          BY <3>1, <4>1
          DEF Session, Stage, InitStage, Caller, Acknowledged, Stuck, Lost, InDir, InGet,
              InPut, InRecv
        <4>4. QED
          BY <4>2, <4>3 DEF Session
      <3>7. QED
        BY <3>2, <3>3, <3>4, <3>5, <3>6 DEF Next
    <2>4. QED
      BY <2>2, <2>3
  <1>5. QED
    BY <1>1, <1>2, <1>3, <1>4

\* The invariant of the session holds at first.
LEMMA SessionInit ==
    ASSUME Mild, Init PROVE SessionInv
  <1>1. PendingInv /\ GotInOrder /\ ~dev
    BY DEF Init, PendingInv, GotInOrder
  <1>2. FaultsLeft
    <2>1. faults \in Budgets
      BY DEF Init
    <2>2. faults["lost"] \in Nat
      BY <2>1, TfIoAssumption DEF FaultKinds
    <2>3. QED
      BY <2>1, <2>2 DEF FaultsLeft, Mild, Lost
  <1>3. QED
    BY <1>1, <1>2, TypeInit DEF SessionInv

\* The invariant of the session holds throughout.
LEMMA AlwaysSession == Mild => (Spec => []SessionInv)
  <1> SUFFICES ASSUME Mild PROVE Spec => []SessionInv
    OBVIOUS
  <1>1. Init => SessionInv
    BY SessionInit
  <1>2. SessionInv /\ [Next]_vars => SessionInv'
    BY SessionStep
  <1>3. QED
    BY <1>1, <1>2, PTL DEF Spec

-----------------------------------------------------------------------------
(* What the invariant says to the application.                             *)

\* No answer to an earlier request is ever left for the next function to read.
THEOREM RequestAndAnswer == Mild => (Spec => []Lockstep)
  <1>1. ASSUME SessionInv, Idle PROVE Len(toHost) <= IF pending THEN 1 ELSE 0
    <2>1. Session /\ pc = "idle"
      BY <1>1 DEF SessionInv, Idle
    <2>2. Awaits => pending
      BY <2>1 DEF Awaits, Reads
    <2>3. toHost # <<>> => pending /\ Len(toHost) = 1
      BY <2>1, <2>2 DEF Session, Conversation
    <2>4. toHost = <<>> => Len(toHost) = 0
      OBVIOUS
    <2>5. CASE pending = TRUE
      BY <2>3, <2>4, <2>5
    <2>6. CASE pending = FALSE
      BY <2>3, <2>4, <2>6
    <2>7. QED
      BY <1>1, <2>5, <2>6 DEF SessionInv, TypeInv, CallOK
  <1>2. SessionInv => Lockstep
    BY <1>1 DEF Lockstep
  <1>3. QED
    BY <1>2, AlwaysSession, PTL

\* What a function has reported as done, the device has done.
THEOREM ResponseReceived == Mild => (Spec => []Synchronous)
  <1>1. ASSUME SessionInv, Idle, ret = TF_ERR_NONE,
               op \in Ops \ {"open", "close", "dir_first", "dir_next", "get_next"}
        PROVE  toDev = <<>>
    BY <1>1 DEF SessionInv, Session, Acknowledged, Idle
  <1>2. SessionInv => Synchronous
    BY <1>1 DEF Synchronous, Returned, Ops, SimpleCmds
  <1>3. QED
    BY <1>2, AlwaysSession, PTL

\* tf_init() leaves a device that waits for a command, and empty pipes.
THEOREM InitIsGood == Mild => (Spec => []KnownGoodState)
  <1>1. ASSUME SessionInv, Returned({"init"}, TF_ERR_NONE)
        PROVE  dMode = "idle" /\ toDev = <<>> /\ toHost = <<>>
    <2>1. Session /\ pc = "idle" /\ op = "init" /\ ret = TF_ERR_NONE
      BY <1>1 DEF Returned, Idle, SessionInv
    <2>2. dMode = "idle" /\ toDev = <<>>
      BY <2>1 DEF Session, Acknowledged, Finishing, Ops
    <2>3. ~Awaits
      BY <2>1 DEF Session, Caller, Awaits, Reads
    <2>4. QED
      BY <2>1, <2>2, <2>3 DEF Session, Conversation
  <1>2. SessionInv => KnownGoodState
    BY <1>1 DEF KnownGoodState
  <1>3. QED
    BY <1>2, AlwaysSession, PTL

\* A put that was reported complete has stored every block that was put, and no
\* other, in the file that was named.
THEOREM PutIsStored == Mild => (Spec => []PutStored)
  <1>1. SessionInv => PutStored
    BY DEF SessionInv, Session, Acknowledged, PutStored, Returned, Idle
  <1>2. QED
    BY <1>1, AlwaysSession, PTL

\* Where the application ends a get only as a get, the blocks that it is given
\* are those of the file that it named.
THEOREM GetIsOfTheFile == Mild => (Spec => []RightFile)
  <1>1. SessionInv => RightFile
    BY DEF SessionInv, GotInOrder, RightFile
  <1>2. QED
    BY <1>1, AlwaysSession, PTL

\* And tf_cmd_cancel(), where it is not used for that, does what its comment
\* says.
THEOREM CancelEnds == Mild => (Spec => []CancelEndsRequest)
  <1>1. SessionInv => CancelEndsRequest
    BY DEF SessionInv, Session, Caller, Acknowledged, Finishing, CancelEndsRequest, Returned, Idle
  <1>2. QED
    BY <1>1, AlwaysSession, PTL

-----------------------------------------------------------------------------
(* The device is free when the application says so.                        *)

\* The application has no transaction open.  Then the device has none, or is at
\* the end of one and the SUCCESS that lets it go is under way or was lost.
Free ==
    dev /\ pc = "idle" /\ txn = "none" =>
        \/ dMode = "idle"
        \/ /\ dMode \in {"dirend", "getend"}
           /\ toDev # <<>> \/ \E b \in Budgets : Lost < b["lost"]

\* A function has returned: with success, if the application cancels what fails.
LEMMA FreeReturn ==
    ASSUME SessionInv', Careful, dev = TRUE,
           NEW v, Return(op, v), v # TF_ERR_DONE,
           op' = op, op \in Ops \ {"open", "close"}
    PROVE  Free'
  <1>1. pc' = "idle" /\ ret' = v /\ txn' = AfterCall(op, v)
    BY DEF Return
  <1>2. ASSUME dev', txn' = "none" PROVE dMode' = "idle"
    <2>1. v = TF_ERR_NONE
      BY <1>1, <1>2 DEF AfterCall, AfterError
    <2>2. op \in Finishing
      BY <1>1, <1>2, <2>1 DEF AfterCall, AfterSuccess, Finishing, Ops
    <2>3. Acknowledged'
      BY <1>2 DEF SessionInv, Session
    <2>4. QED
      BY <1>1, <2>1, <2>2, <2>3 DEF Acknowledged
  <1>3. QED
    BY <1>2 DEF Free

\* After a read, an application without a transaction has left none in the device.
LEMMA FreeReads ==
    ASSUME SessionInv, SessionInv', Careful, dev = TRUE,
           \/ tf_cmd_reply \/ tf_cmd_size_reply \/ tf_init_reply \/ get_dirents
           \/ tf_cmd_get_reply \/ tf_cmd_get_next_reply \/ get_cancel_drain
           \/ get_cancel_cancelled \/ get_cancel_retry \/ tf_cmd_put_reply
           \/ tf_cmd_put_started \/ tf_cmd_put_data_reply \/ tf_cmd_put_done_reply
           \/ put_done_cancelled \/ put_cancel_cancelled
    PROVE  Free'
  <1>1. PICK e \in ErrorCodes :
          /\ tf_get_response(e)
          /\ \/ pc' # "idle"
             \/ \E c : Return(op, Expect(e, c)) \/ Return(op, ExpectOrFail(e, c))
             \/ Return(op, TF_ERR_NONE) \/ Return(op, TF_ERR_IO)
             \/ Return(op, e)
             \/ pc = "pd_cancelled" /\ Return(op, ret)
             \/ pc = "init_reply" /\ (Return("init", TF_ERR_NONE) \/ Return("init", -1))
    BY DEF tf_cmd_reply, tf_cmd_size_reply, tf_init_reply, get_dirents, tf_cmd_get_reply,
           tf_cmd_get_next_reply, get_cancel_drain, get_cancel_cancelled, get_cancel_retry,
           tf_cmd_put_reply, tf_cmd_put_started, tf_cmd_put_data_reply,
           tf_cmd_put_done_reply, put_done_cancelled, put_cancel_cancelled, Goto,
           CmdResult, PutCancelled, InitGiveUpOn
  <1>2. pc \in Reads /\ op' = op
    BY DEF tf_cmd_reply, tf_cmd_size_reply, tf_init_reply, get_dirents, tf_cmd_get_reply,
           tf_cmd_get_next_reply, get_cancel_drain, get_cancel_cancelled, get_cancel_retry,
           tf_cmd_put_reply, tf_cmd_put_started, tf_cmd_put_data_reply,
           tf_cmd_put_done_reply, put_done_cancelled, put_cancel_cancelled, Reads
  <1>3. /\ \A c : Expect(e, c) # TF_ERR_DONE /\ ExpectOrFail(e, c) # TF_ERR_DONE
        /\ e # TF_ERR_DONE
    <2>1. \A c : Expect(e, c) # TF_ERR_DONE /\ ExpectOrFail(e, c) # TF_ERR_DONE
      BY <1>1, AfterRead DEF SessionInv
    <2>2. e # TF_ERR_DONE
      BY <1>1
      DEF tf_get_response, TF_ERR_NONE, TF_ERR_DONE, TF_ERR_IO, TF_ERR_CRC, TF_ERR_NOCONN
    <2>3. QED
      BY <2>1, <2>2
  <1>4. /\ op \in Ops \ {"open", "close"}
        /\ pc = "pd_cancelled" => ret # TF_ERR_DONE
        /\ pc = "init_reply" => op = "init"
    BY <1>2 DEF SessionInv, Session, Caller, Reads, Ops, SimpleCmds
  <1>5. TF_ERR_NONE # TF_ERR_DONE /\ TF_ERR_IO # TF_ERR_DONE /\ -1 # TF_ERR_DONE
    BY DEF TF_ERR_NONE, TF_ERR_IO, TF_ERR_DONE
  <1>6. CASE pc' # "idle"
    BY <1>6 DEF Free
  <1>7. CASE \E v : Return(op, v) /\ v # TF_ERR_DONE
    BY <1>2, <1>4, <1>7, FreeReturn
  <1>8. QED
    BY <1>1, <1>3, <1>4, <1>5, <1>6, <1>7

\* A function that sends a request does not return.
LEMMA FreeSends ==
    ASSUME SessionInv, dev = TRUE,
           \/ tf_init_cmd \/ tf_init_fail \/ tf_init_success \/ tf_cmd_get_next_data
           \/ get_cancel_fail \/ get_cancel_cancel \/ tf_cmd_put_start
           \/ put_done_cancel \/ put_cancel_cancel
           \/ \E c \in SimpleCmds \cup {"CANCEL", "RESET"} : tf_cmd(c)
           \/ tf_cmd_size \/ tf_cmd_dir_next \/ tf_cmd_get_next
           \/ \E f \in Files : tf_cmd_dir_first(f) \/ tf_cmd_get(f) \/ tf_cmd_put(f)
           \/ tf_cmd_put_data \/ tf_cmd_put_done
    PROVE  Free'
  <1>1. \A p, e : tf_send(p, e) => e = TF_ERR_NONE
    BY SendSucceeds DEF SessionInv
  <1>2. CASE tf_cmd_get_next_data
    <2>1. op = "get_next" /\ txn' = AfterCall(op, TF_ERR_NONE)
      BY <1>2 DEF tf_cmd_get_next_data, Return, SessionInv, Session, Caller
    <2>2. txn' = "get"
      BY <2>1 DEF AfterCall, AfterSuccess
    <2>3. QED
      BY <2>2 DEF Free
  <1>3. CASE tf_init_cmd \/ tf_init_fail \/ tf_init_success
    BY <1>1, <1>3 DEF Free, tf_init_cmd, tf_init_fail, tf_init_success, Goto
  <1>4. CASE \/ get_cancel_fail \/ get_cancel_cancel \/ tf_cmd_put_start
             \/ put_done_cancel \/ put_cancel_cancel
    BY <1>1, <1>4
    DEF Free, get_cancel_fail, get_cancel_cancel, tf_cmd_put_start, put_done_cancel,
        put_cancel_cancel, AwaitOrReturn, Goto
  <1>5. CASE \E c \in SimpleCmds \cup {"CANCEL", "RESET"} : tf_cmd(c)
    BY <1>1, <1>5 DEF Free, tf_cmd, AwaitOrReturn, Goto
  <1>6. CASE \E f \in Files : tf_cmd_dir_first(f) \/ tf_cmd_get(f) \/ tf_cmd_put(f)
    BY <1>1, <1>6 DEF Free, tf_cmd_dir_first, tf_cmd_get, tf_cmd_put, AwaitOrReturn, Goto
  <1>7. CASE tf_cmd_size \/ tf_cmd_dir_next \/ tf_cmd_get_next
    BY <1>1, <1>7
    DEF Free, tf_cmd_size, tf_cmd_dir_next, tf_cmd_get_next, AwaitOrReturn, Goto
  <1>8. CASE tf_cmd_put_data \/ tf_cmd_put_done
    BY <1>1, <1>8 DEF Free, tf_cmd_put_data, tf_cmd_put_done, AwaitOrReturn, Goto
  <1>9. QED
    BY <1>2, <1>3, <1>4, <1>5, <1>6, <1>7, <1>8

\* The end of a listing or a get: the SUCCESS that lets the device go is sent.
LEMMA FreeEnds ==
    ASSUME SessionInv, dev = TRUE, get_dirents_end \/ tf_cmd_get_next_end
    PROVE  Free'
  <1>1. PICK e \in ErrorCodes : tf_send(Plain("SUCCESS"), e)
    BY DEF get_dirents_end, tf_cmd_get_next_end
  <1>2. toDev' = Append(toDev, Plain("SUCCESS")) /\ dMode' = dMode
    BY <1>1, SendSucceeds DEF SessionInv
  <1>3. toDev' # <<>>
    BY <1>2 DEF SessionInv, TypeInv, PipesOK, ToppyTypeOK
  <1>4. dMode \in {"dirend", "getend"}
    BY DEF get_dirents_end, tf_cmd_get_next_end, SessionInv, Session, Stage
  <1>5. QED
    BY <1>2, <1>3, <1>4 DEF Free

\* The device takes that SUCCESS, or it is lost.
LEMMA FreeDevice ==
    ASSUME SessionInv, Free, Toppy5000 PROVE Free'
  <1> SUFFICES ASSUME dev', pc' = "idle", txn' = "none" PROVE dMode' = "idle"
    BY DEF Free
  <1>1. dev /\ pc = "idle" /\ txn = "none" /\ ToppyNext
    BY DEF Toppy5000, handle, call, app
  <1>2. ~Awaits
    BY <1>1 DEF SessionInv, PendingInv, Awaits, Reads
  <1>3. toDev # <<>> /\ Len(toDev) >= 1
    <2>1. toDev # <<>>
      BY <1>1
      DEF ToppyNext, Handle, DevCancel, DevReset, DevSimple, DevDir, DevGet, DevContinue,
          DevPut, DevReceive, DevAbort, DevRefuse, DevDeaf
    <2>2. QED
      BY <2>1, EmptySeq DEF SessionInv, TypeInv, PipesOK, ToppyTypeOK
  <1>4. Silent(1)
    <2>1. 1 \in 1..Len(toDev)
      BY <1>3 DEF SessionInv, TypeInv, PipesOK, ToppyTypeOK
    <2>2. QED
      BY <1>1, <1>2, <2>1 DEF SessionInv, Session, Conversation
  <1>5. QED
    BY <1>1, <1>3, <1>4, SilentHead DEF SessionInv, Free

\* A lost packet changes nothing in the device, and is counted as lost.
LEMMA FreeLose ==
    ASSUME SessionInv, Free, Lose PROVE Free'
  <1>1. UNCHANGED <<dev, pc, txn, dMode>>
    BY DEF Lose, device, handle, call, app
  <1>2. Lost > 0 /\ Lost' = Lost - 1 /\ Lost \in Nat
    BY DEF Lose, Fault, Lost, SessionInv, TypeInv, PipesOK, FaultKinds
  <1>3. PICK b \in Budgets : Lost <= b["lost"]
    BY DEF SessionInv, FaultsLeft
  <1>4. b["lost"] \in Nat
    BY TfIoAssumption DEF FaultKinds
  <1>5. Lost' < b["lost"]
    BY <1>2, <1>3, <1>4
  <1>6. QED
    BY <1>1, <1>5 DEF Free

\* Every step keeps Free, for a careful application.
LEMMA FreeStep ==
    ASSUME SessionInv, SessionInv', Careful, Free, [Next]_vars PROVE Free'
  <1>1. CASE dev = TRUE
    <2>1. CASE Library
      BY <1>1, <2>1, FreeReads, FreeSends, FreeEnds DEF Library
    <2>2. CASE tf_init \/ tf_cmd_get_cancel \/ tf_cmd_put_cancel \/ topfield_open \/ topfield_close
      BY <2>2
      DEF Free, tf_init, tf_cmd_get_cancel, tf_cmd_put_cancel, Goto, topfield_open,
          topfield_close
    <2>3. CASE Application
      BY <1>1, <2>2, <2>3, FreeSends DEF Application
    <2>4. CASE Toppy5000 \/ Lose
      BY <2>4, FreeDevice, FreeLose
    <2>5. CASE Crash
      BY <2>5 DEF Crash, Free
    <2>6. CASE UNCHANGED vars
      BY <2>6 DEF vars, pipes, device, handle, call, app, Free, Lost
    <2>7. QED
      BY <2>1, <2>3, <2>4, <2>5, <2>6 DEF Next
  <1>2. CASE dev = FALSE
    <2>1. dev' = FALSE \/ topfield_open
      BY <1>2, HandleStep DEF topfield_close, Crash
    <2>2. QED
      BY <2>1 DEF Free, topfield_open
  <1>3. QED
    BY <1>1, <1>2 DEF SessionInv, TypeInv, CallOK

\* When the application has no transaction open, the device has none, or waits
\* for a SUCCESS that was lost: provided that it cancels what fails.
THEOREM DeviceIsFree == Mild /\ Careful => (Spec => []DeviceFree)
  <1> SUFFICES ASSUME Mild, Careful PROVE Spec => []DeviceFree
    OBVIOUS
  <1>1. Init => Free
    BY DEF Init, Free
  <1>2. SessionInv /\ SessionInv' /\ Free /\ [Next]_vars => Free'
    BY FreeStep
  <1>3. Free => DeviceFree
    BY DEF Free, DeviceFree, Idle, Lost
  <1>4. Spec => []SessionInv
    BY AlwaysSession
  <1>5. QED
    BY <1>1, <1>2, <1>3, <1>4, PTL DEF Spec

-----------------------------------------------------------------------------
(* Listings and gets implement Transfer.                                   *)

\* Without a device nothing can be listed or read.
ClosedInv == dev = FALSE => txn = "closed" /\ op \notin Receiving

\* Without a handle the application has no transaction.
LEMMA ClosedStep ==
    ASSUME ClosedInv, [Next]_vars PROVE ClosedInv'
  <1>1. ASSUME dev = FALSE, dev' = FALSE, txn' \in {txn, "closed"},
               op' = op \/ op' \notin Receiving
        PROVE  ClosedInv'
    BY <1>1 DEF ClosedInv
  <1>2. ASSUME dev = FALSE, NEW o, NEW v, Return(o, v) PROVE txn' = "closed"
    BY <1>2 DEF Return, AfterCall
  <1>3. ASSUME dev = FALSE, NEW l, NEW o, NEW e, AwaitOrReturn(l, o, e) PROVE txn' \in {txn, "closed"}
    BY <1>2, <1>3 DEF AwaitOrReturn, Goto
  <1>4. CASE dev = FALSE /\ dev' = FALSE
    <2>1. CASE Library
      <3>1. op' = op
        BY <2>1
        DEF Library, tf_cmd_reply, tf_cmd_size_reply, tf_init_cmd, tf_init_reply,
            tf_init_fail, tf_init_success, get_dirents, get_dirents_end, tf_cmd_get_reply,
            tf_cmd_get_next_reply, tf_cmd_get_next_end, tf_cmd_get_next_data,
            get_cancel_drain, get_cancel_fail, get_cancel_cancel, get_cancel_cancelled,
            get_cancel_retry, tf_cmd_put_reply, tf_cmd_put_start, tf_cmd_put_started,
            tf_cmd_put_data_reply, tf_cmd_put_done_reply, put_done_cancel,
            put_done_cancelled, put_cancel_cancel, put_cancel_cancelled
      <3>2. txn' \in {txn, "closed"}
        BY <1>2, <1>3, <1>4, <2>1
        DEF Library, tf_cmd_reply, tf_cmd_size_reply, tf_init_cmd, tf_init_reply,
            tf_init_fail, tf_init_success, get_dirents, get_dirents_end, tf_cmd_get_reply,
            tf_cmd_get_next_reply, tf_cmd_get_next_end, tf_cmd_get_next_data,
            get_cancel_drain, get_cancel_fail, get_cancel_cancel, get_cancel_cancelled,
            get_cancel_retry, tf_cmd_put_reply, tf_cmd_put_start, tf_cmd_put_started,
            tf_cmd_put_data_reply, tf_cmd_put_done_reply, put_done_cancel,
            put_done_cancelled, put_cancel_cancel, put_cancel_cancelled, InitGiveUpOn,
            PutCancelled, Goto
      <3>3. QED
        BY <1>1, <1>4, <3>1, <3>2
    <2>2. CASE Application
      <3>1. op' \notin Receiving
        BY <1>4, <2>2
        DEF ClosedInv, Application, topfield_open, topfield_close, tf_init, tf_cmd,
            tf_cmd_size, tf_cmd_dir_first, tf_cmd_get, tf_cmd_put, tf_cmd_dir_next,
            tf_cmd_get_next, tf_cmd_get_cancel, tf_cmd_put_data, tf_cmd_put_done,
            tf_cmd_put_cancel, Enter, Receiving, SimpleCmds
      <3>2. txn' \in {txn, "closed"}
        BY <1>3, <1>4, <2>2
        DEF ClosedInv, Application, topfield_open, topfield_close, tf_init, tf_cmd,
            tf_cmd_size, tf_cmd_dir_first, tf_cmd_get, tf_cmd_put, tf_cmd_dir_next,
            tf_cmd_get_next, tf_cmd_get_cancel, tf_cmd_put_data, tf_cmd_put_done,
            tf_cmd_put_cancel, Enter, Goto
      <3>3. QED
        BY <1>1, <1>4, <3>1, <3>2
    <2>3. CASE Toppy5000 \/ Lose \/ UNCHANGED vars
      BY <1>1, <1>4, <2>3 DEF Toppy5000, Lose, vars, call, app
    <2>4. ~Crash
      BY <1>4 DEF Crash
    <2>5. QED
      BY <2>1, <2>2, <2>3, <2>4 DEF Next
  <1>5. CASE topfield_open \/ topfield_close \/ Crash
    BY <1>5 DEF ClosedInv, topfield_open, topfield_close, Crash, Enter, Receiving
  <1>6. CASE dev' # FALSE
    BY <1>6 DEF ClosedInv
  <1>7. QED
    BY <1>4, <1>5, <1>6, HandleStep

\* Whatever ends a transfer without completing it is allowed.
LEMMA Ending ==
    ASSUME TransferStatus' = "none" PROVE [T!TransferNext]_(T!tvars)
  <1>1. CASE TransferStatus = "none"
    BY <1>1 DEF T!tvars
  <1>2. CASE TransferStatus # "none"
    BY <1>2 DEF T!TransferNext, T!Abandon
  <1>3. QED
    BY <1>1, <1>2

\* So is a step in which the application learns nothing.
LEMMA GoingOn ==
    ASSUME TransferStatus' = TransferStatus, item' = item, got' = got
    PROVE  [T!TransferNext]_(T!tvars)
  BY DEF T!tvars

\* A page of a listing is the next one; what is not a page ends the listing.
LEMMA ListingStep ==
    ASSUME SessionInv, SessionInv', dev = TRUE, get_dirents
    PROVE  [T!TransferNext]_(T!tvars)
  <1>1. PICK e \in ErrorCodes :
          /\ tf_get_response(e)
          /\ \/ Read(e, "DIRENT") /\ Deliver(reply) /\ Return(op, TF_ERR_NONE)
             \/ Goto("dir_end") /\ UNCHANGED got
             \/ ~Read(e, "DIRENT") /\ Return(op, Expect(e, "DIRENT")) /\ UNCHANGED got
    BY DEF get_dirents
  <1>2. pc = "dirents" /\ UNCHANGED <<dev, op, item>>
    BY DEF get_dirents
  <1>3. pending = FALSE /\ op \in {"dir_first", "dir_next"}
    BY <1>2, NothingPending DEF SessionInv, Session, Caller
  <1>4. TransferStatus = "active"
    BY <1>2, <1>3 DEF TransferStatus, Receiving
  <1>5. /\ e = TF_ERR_NONE => Answered(reply)
        /\ Expect(e, "DIRENT") = TF_ERR_NONE => Read(e, "DIRENT")
        /\ Expect(e, "DIRENT") # TF_ERR_DONE
    BY <1>1, AfterRead DEF SessionInv
  <1>6. CASE Read(e, "DIRENT") /\ Deliver(reply) /\ Return(op, TF_ERR_NONE)
    <2>1. NextPart(reply, "dir")
      BY <1>2, <1>3, <1>5, <1>6 DEF Read, Answered, Commanding, Getting
    <2>2. TransferStatus' = "active"
      BY <1>2, <1>3, <1>6
      DEF TransferStatus, Idle, Return, AfterCall, AfterSuccess
    <2>3. Len(got) < Blocks
      BY <2>1, ToppyAssumption DEF NextPart, SessionInv, TypeInv, AppOK
    <2>4. got' = Append(got, T!Part(item, Len(got) + 1))
      BY <1>6, <2>1 DEF Deliver, NextPart, T!Part
    <2>5. T!Deliver
      BY <1>2, <1>4, <2>2, <2>3, <2>4 DEF T!Deliver
    <2>6. QED
      BY <2>5 DEF T!TransferNext
  <1>7. CASE Goto("dir_end") /\ UNCHANGED got
    <2>1. TransferStatus' = "active"
      BY <1>2, <1>3, <1>7 DEF TransferStatus, Receiving, Goto
    <2>2. QED
      BY <1>2, <1>4, <1>7, <2>1, GoingOn
  <1>8. CASE ~Read(e, "DIRENT") /\ Return(op, Expect(e, "DIRENT")) /\ UNCHANGED got
    <2>1. pc' = "idle" /\ ret' # TF_ERR_DONE /\ txn' \notin {"dir", "get"}
      BY <1>3, <1>5, <1>8 DEF Return, AfterCall, AfterError
    <2>2. TransferStatus' = "none"
      BY <2>1 DEF TransferStatus, Returned
    <2>3. QED
      BY <2>2, Ending
  <1>9. QED
    BY <1>1, <1>6, <1>7, <1>8

\* So for the blocks of a file.
LEMMA BlockStep ==
    ASSUME SessionInv, SessionInv', dev = TRUE, tf_cmd_get_next_reply
    PROVE  [T!TransferNext]_(T!tvars)
  <1>1. PICK e \in ErrorCodes :
          /\ tf_get_response(e)
          /\ \/ Read(e, "FILE_DATA") /\ Deliver(reply) /\ Goto("gn_data")
             \/ Goto("gn_end") /\ UNCHANGED got
             \/ /\ ~Read(e, "FILE_DATA") /\ UNCHANGED got
                /\ Return(op, IF Read(e, "FAIL") THEN TF_ERR_IO ELSE Expect(e, "FILE_DATA"))
    BY DEF tf_cmd_get_next_reply
  <1>2. pc = "get_next" /\ UNCHANGED <<dev, op, item>>
    BY DEF tf_cmd_get_next_reply
  <1>3. op = "get_next"
    BY <1>2 DEF SessionInv, Session, Caller
  <1>4. TransferStatus = "active"
    BY <1>2, <1>3 DEF TransferStatus, Receiving
  <1>5. /\ e = TF_ERR_NONE => Answered(reply)
        /\ Expect(e, "FILE_DATA") = TF_ERR_NONE => Read(e, "FILE_DATA")
        /\ Expect(e, "FILE_DATA") # TF_ERR_DONE
    BY <1>1, AfterRead DEF SessionInv
  <1>6. CASE Read(e, "FILE_DATA") /\ Deliver(reply) /\ Goto("gn_data")
    <2>1. NextPart(reply, "get")
      BY <1>2, <1>3, <1>5, <1>6 DEF Read, Answered, Commanding
    <2>2. TransferStatus' = "active"
      BY <1>2, <1>3, <1>6 DEF TransferStatus, Receiving, Goto
    <2>3. Len(got) < Blocks
      BY <2>1, ToppyAssumption DEF NextPart, SessionInv, TypeInv, AppOK
    <2>4. got' = Append(got, T!Part(item, Len(got) + 1))
      BY <1>6, <2>1 DEF Deliver, NextPart, T!Part
    <2>5. T!Deliver
      BY <1>2, <1>4, <2>2, <2>3, <2>4 DEF T!Deliver
    <2>6. QED
      BY <2>5 DEF T!TransferNext
  <1>7. CASE Goto("gn_end") /\ UNCHANGED got
    <2>1. TransferStatus' = "active"
      BY <1>2, <1>3, <1>7 DEF TransferStatus, Receiving, Goto
    <2>2. QED
      BY <1>2, <1>4, <1>7, <2>1, GoingOn
  <1>8. CASE /\ ~Read(e, "FILE_DATA") /\ UNCHANGED got
             /\ Return(op, IF Read(e, "FAIL") THEN TF_ERR_IO ELSE Expect(e, "FILE_DATA"))
    <2>1. pc' = "idle" /\ ret' # TF_ERR_DONE /\ txn' \notin {"dir", "get"}
      BY <1>3, <1>5, <1>8
      DEF Return, AfterCall, AfterError, TF_ERR_IO, TF_ERR_NONE, TF_ERR_DONE
    <2>2. TransferStatus' = "none"
      BY <2>1 DEF TransferStatus, Returned
    <2>3. QED
      BY <2>2, Ending
  <1>9. QED
    BY <1>1, <1>6, <1>7, <1>8

\* TF_ERR_DONE comes when everything was given.
LEMMA CompleteStep ==
    ASSUME SessionInv, dev = TRUE, get_dirents_end \/ tf_cmd_get_next_end
    PROVE  [T!TransferNext]_(T!tvars)
  <1>1. /\ pc \in {"dir_end", "gn_end"} /\ Return(op, TF_ERR_DONE)
        /\ UNCHANGED <<dev, op, item, got>>
    BY DEF get_dirents_end, tf_cmd_get_next_end
  <1>2. op \in Receiving /\ Len(got) = Blocks
    BY <1>1 DEF SessionInv, Session, Caller, Stage, Receiving
  <1>3. TransferStatus = "active"
    BY <1>1, <1>2 DEF TransferStatus
  <1>4. pc' = "idle" /\ ret' = TF_ERR_DONE /\ txn' = "none" /\ dev'
    BY <1>1 DEF Return, AfterCall, TF_ERR_NONE, TF_ERR_DONE
  <1>5. TransferStatus' = "done"
    BY <1>1, <1>2, <1>4 DEF TransferStatus, Returned, Idle
  <1>6. T!Complete
    BY <1>1, <1>2, <1>3, <1>5 DEF T!Complete
  <1>7. QED
    BY <1>6 DEF T!TransferNext

\* A listing or a get is begun, and then continued, by the calls that are named
\* for that.
LEMMA BeginStep ==
    ASSUME SessionInv, dev = TRUE,
           \/ \E f \in Files : tf_cmd_dir_first(f) \/ tf_cmd_get(f)
           \/ tf_cmd_dir_next \/ tf_cmd_get_next \/ tf_cmd_get_next_data \/ tf_cmd_get_reply
    PROVE  [T!TransferNext]_(T!tvars)
  <1>1. \A p, e : tf_send(p, e) => e = TF_ERR_NONE
    BY SendSucceeds DEF SessionInv
  <1>2. ASSUME NEW f \in Files, tf_cmd_dir_first(f) \/ tf_cmd_get(f) PROVE T!Begin(f)
    <2>1. pc' # "idle" /\ op' \in Receiving /\ item' = f /\ got' = <<>>
      BY <1>1, <1>2
      DEF tf_cmd_dir_first, tf_cmd_get, Enter, AwaitOrReturn, Goto, Receiving
    <2>2. pc = "idle" /\ txn = "none"
      BY <1>2 DEF tf_cmd_dir_first, tf_cmd_get, Enter
    <2>3. TransferStatus # "active" /\ TransferStatus' = "active"
      BY <2>1, <2>2 DEF TransferStatus
    <2>4. QED
      BY <2>1, <2>3 DEF T!Begin
  <1>3. CASE tf_cmd_dir_next \/ tf_cmd_get_next
    <2>1. pc' # "idle" /\ op' \in Receiving /\ item' = item /\ got' = got
      BY <1>1, <1>3
      DEF tf_cmd_dir_next, tf_cmd_get_next, Enter, AwaitOrReturn, Goto, Receiving
    <2>2. pc = "idle" /\ txn \in {"dir", "get"}
      BY <1>3 DEF tf_cmd_dir_next, tf_cmd_get_next, Enter
    <2>3. TransferStatus = "active" /\ TransferStatus' = "active"
      BY <2>1, <2>2 DEF TransferStatus, Idle
    <2>4. QED
      BY <2>1, <2>3, GoingOn
  <1>4. CASE tf_cmd_get_next_data
    <2>1. /\ pc = "gn_data" /\ op = "get_next" /\ Return(op, TF_ERR_NONE)
          /\ UNCHANGED <<dev, op, item, got>>
      BY <1>4 DEF tf_cmd_get_next_data, SessionInv, Session, Caller
    <2>2. pc' = "idle" /\ txn' = "get"
      BY <2>1 DEF Return, AfterCall, AfterSuccess
    <2>3. TransferStatus = "active" /\ TransferStatus' = "active"
      BY <2>1, <2>2 DEF TransferStatus, Idle, Receiving
    <2>4. QED
      BY <2>1, <2>3, GoingOn
  <1>5. CASE tf_cmd_get_reply
    <2>1. PICK e \in ErrorCodes :
            tf_get_response(e) /\ Return(op, ExpectOrFail(e, "FILE_START"))
      BY <1>5 DEF tf_cmd_get_reply
    <2>2. pc = "get" /\ op = "get" /\ UNCHANGED <<dev, op, item, got>>
      BY <1>5 DEF tf_cmd_get_reply, SessionInv, Session, Caller
    <2>3. ExpectOrFail(e, "FILE_START") # TF_ERR_DONE
      BY <2>1, AfterRead DEF SessionInv
    <2>4. pc' = "idle" /\ ret' # TF_ERR_DONE
      BY <2>1, <2>3 DEF Return
    <2>5. CASE txn' \in {"dir", "get"}
      <3>1. TransferStatus = "active" /\ TransferStatus' = "active"
        BY <2>2, <2>4, <2>5 DEF TransferStatus, Idle, Receiving
      <3>2. QED
        BY <2>2, <3>1, GoingOn
    <2>6. CASE txn' \notin {"dir", "get"}
      <3>1. TransferStatus' = "none"
        BY <2>4, <2>6 DEF TransferStatus, Returned
      <3>2. QED
        BY <3>1, Ending
    <2>7. QED
      BY <2>5, <2>6
  <1>6. QED
    BY <1>2, <1>3, <1>4, <1>5 DEF T!TransferNext

\* The rest of the functions are not part of a listing or a get.
LEMMA OtherStep ==
    ASSUME SessionInv, dev = TRUE,
           \/ tf_cmd_reply \/ tf_cmd_size_reply \/ tf_init_cmd \/ tf_init_reply
           \/ tf_init_fail \/ tf_init_success \/ get_cancel_drain \/ get_cancel_fail
           \/ get_cancel_cancel \/ get_cancel_cancelled \/ get_cancel_retry
           \/ tf_cmd_put_reply \/ tf_cmd_put_start \/ tf_cmd_put_started
           \/ tf_cmd_put_data_reply \/ tf_cmd_put_done_reply \/ put_done_cancel
           \/ put_done_cancelled \/ put_cancel_cancel \/ put_cancel_cancelled
    PROVE  [T!TransferNext]_(T!tvars)
  <1>1. pc \in Reads \cup Writes /\ op' = op
    BY DEF tf_cmd_reply, tf_cmd_size_reply, tf_init_cmd, tf_init_reply, tf_init_fail,
           tf_init_success, get_cancel_drain, get_cancel_fail, get_cancel_cancel,
           get_cancel_cancelled, get_cancel_retry, tf_cmd_put_reply, tf_cmd_put_start,
           tf_cmd_put_started, tf_cmd_put_data_reply, tf_cmd_put_done_reply,
           put_done_cancel, put_done_cancelled, put_cancel_cancel, put_cancel_cancelled,
           Reads, Writes
  <1>2. op \notin Receiving
    BY DEF tf_cmd_reply, tf_cmd_size_reply, tf_init_cmd, tf_init_reply, tf_init_fail,
           tf_init_success, get_cancel_drain, get_cancel_fail, get_cancel_cancel,
           get_cancel_cancelled, get_cancel_retry, tf_cmd_put_reply, tf_cmd_put_start,
           tf_cmd_put_started, tf_cmd_put_data_reply, tf_cmd_put_done_reply,
           put_done_cancel, put_done_cancelled, put_cancel_cancel, put_cancel_cancelled,
           SessionInv, Session, Caller, Receiving, SimpleCmds
  <1>3. pc' # "idle" \/ \E v : Return(op, v)
    BY DEF tf_cmd_reply, tf_cmd_size_reply, tf_init_cmd, tf_init_reply, tf_init_fail,
           tf_init_success, get_cancel_drain, get_cancel_fail, get_cancel_cancel,
           get_cancel_cancelled, get_cancel_retry, tf_cmd_put_reply, tf_cmd_put_start,
           tf_cmd_put_started, tf_cmd_put_data_reply, tf_cmd_put_done_reply,
           put_done_cancel, put_done_cancelled, put_cancel_cancel, put_cancel_cancelled,
           SessionInv, Session, Caller, AwaitOrReturn, Goto, PutCancelled, InitGiveUpOn
  <1>4. ASSUME NEW v, Return(op, v) PROVE txn' \notin {"dir", "get"}
    BY <1>2, <1>4 DEF Return, AfterCall, AfterSuccess, AfterError, Receiving
  <1>5. TransferStatus' = "none"
    BY <1>1, <1>2, <1>3, <1>4 DEF TransferStatus, Returned, Idle
  <1>6. QED
    BY <1>5, Ending

\* Calls that are not of a listing or a get, or end it, as steps of Transfer.
LEMMA OtherCall ==
    ASSUME SessionInv, dev = TRUE,
           \/ topfield_open \/ topfield_close \/ tf_init \/ tf_cmd_size
           \/ \E c \in SimpleCmds \cup {"CANCEL", "RESET"} : tf_cmd(c)
           \/ \E f \in Files : tf_cmd_put(f)
           \/ tf_cmd_get_cancel \/ tf_cmd_put_data \/ tf_cmd_put_done \/ tf_cmd_put_cancel
    PROVE  [T!TransferNext]_(T!tvars)
  <1>1. \A p, e : tf_send(p, e) => e = TF_ERR_NONE
    BY SendSucceeds DEF SessionInv
  <1>2. op' \notin Receiving
    BY DEF topfield_open, topfield_close, tf_init, tf_cmd_size, tf_cmd, tf_cmd_put,
           tf_cmd_get_cancel, tf_cmd_put_data, tf_cmd_put_done, tf_cmd_put_cancel, Enter,
           Receiving, SimpleCmds
  <1>3. pc' # "idle" \/ txn' \notin {"dir", "get"}
    BY <1>1
    DEF topfield_open, topfield_close, tf_init, tf_cmd_size, tf_cmd, tf_cmd_put,
        tf_cmd_get_cancel, tf_cmd_put_data, tf_cmd_put_done, tf_cmd_put_cancel, Enter,
        AwaitOrReturn, Goto
  <1>4. TransferStatus' = "none"
    BY <1>2, <1>3 DEF TransferStatus, Returned, Idle
  <1>5. QED
    BY <1>4, Ending

\* Every step is a step of Transfer or a stutter.
LEMMA TransferStep ==
    ASSUME SessionInv, SessionInv', ClosedInv, ClosedInv', [Next]_vars
    PROVE  [T!TransferNext]_(T!tvars)
  <1>1. CASE dev = FALSE
    <2>1. CASE topfield_open
      <3>1. op' = "open" /\ pc' = "idle" /\ txn' \in {"opened", "closed"}
        BY <2>1 DEF topfield_open
      <3>2. TransferStatus' = "none"
        BY <3>1 DEF TransferStatus, Returned, Receiving
      <3>3. QED
        BY <3>2, Ending
    <2>2. CASE ~topfield_open
      <3>1. dev' = FALSE
        BY <1>1, <2>2, HandleStep DEF topfield_close, Crash
      <3>2. TransferStatus' = "none"
        BY <3>1 DEF TransferStatus, Returned, Idle, ClosedInv
      <3>3. QED
        BY <3>2, Ending
    <2>3. QED
      BY <2>1, <2>2
  <1>2. CASE dev = TRUE
    <2>1. CASE Library
      BY <1>2, <2>1, ListingStep, BlockStep, CompleteStep, BeginStep, OtherStep DEF Library
    <2>2. CASE Application
      BY <1>2, <2>2, BeginStep, OtherCall DEF Application
    <2>3. CASE Toppy5000 \/ Lose \/ UNCHANGED vars
      <3>1. UNCHANGED <<dev, pc, op, ret, txn, item, got>>
        BY <2>3 DEF Toppy5000, Lose, vars, handle, call, app
      <3>2. TransferStatus' = TransferStatus
        BY <3>1 DEF TransferStatus, Returned, Idle
      <3>3. QED
        BY <3>1, <3>2, GoingOn
    <2>4. CASE Crash
      <3>1. TransferStatus' = "none"
        BY <2>4 DEF Crash, TransferStatus, Returned, Idle
      <3>2. QED
        BY <3>1, Ending
    <2>5. QED
      BY <2>1, <2>2, <2>3, <2>4 DEF Next
  <1>3. QED
    BY <1>1, <1>2 DEF SessionInv, TypeInv, CallOK

\* Entries and blocks come once, in order, all of them before TF_ERR_DONE, and
\* from the directory or file that was asked for: every behaviour of a mild
\* session is one of Transfer.
THEOREM TransferImplemented == Mild => (Spec => ImplementsTransfer)
  <1> SUFFICES ASSUME Mild PROVE Spec => ImplementsTransfer
    OBVIOUS
  <1>1. Init => ClosedInv
    BY DEF Init, ClosedInv, Receiving
  <1>2. ClosedInv /\ [Next]_vars => ClosedInv'
    BY ClosedStep
  <1>3. Init => T!TransferInit
    BY DEF Init, T!TransferInit, TransferStatus, Idle, Returned, Receiving
  <1>4. /\ SessionInv /\ SessionInv' /\ ClosedInv /\ ClosedInv' /\ [Next]_vars
        => [T!TransferNext]_(T!tvars)
    BY TransferStep
  <1>5. Spec => []SessionInv
    BY AlwaysSession
  <1>6. QED
    BY <1>1, <1>2, <1>3, <1>4, <1>5, PTL DEF Spec, ImplementsTransfer, T!TransferSpec
=============================================================================
