-------------------------------- MODULE TfIo --------------------------------
(***************************************************************************)
(* tf_io.c: the command layer of libtopfield, driven by an application and *)
(* talking to a Toppy over two USB pipes.                                  *)
(*                                                                         *)
(* A library function is synchronous, so one action stands for the code    *)
(* from one USB read to the next: pc says where the function in progress   *)
(* is blocked (or which write comes next when a function writes twice in a *)
(* row).  pc = "idle" means that no function is running.                   *)
(*                                                                         *)
(* The application calls only what tf_io.h lets it call: txn is the        *)
(* transaction it believes to have open, AfterCall the obligations that    *)
(* tf_io.h attaches to each return value.                                  *)
(***************************************************************************)
EXTENDS Toppy

CONSTANTS
    ResetOnOpen,  \* TRUE: open_usb_dev() resets the bus (usbdevfs), FALSE: libusb
    Careful,      \* TRUE: the application cancels after every failed call
    CancelsMidGet,\* TRUE: it may end a get with tf_cmd_cancel() (tf_io.h:130-133)
    Budgets       \* how many faults of each kind may happen, in the cases considered

FaultKinds == {"late", "lost", "corrupt", "write", "crash"}

ASSUME TfIoAssumption ==
    /\ ResetOnOpen \in BOOLEAN /\ Careful \in BOOLEAN /\ CancelsMidGet \in BOOLEAN
    /\ Budgets \subseteq [FaultKinds -> Nat]

VARIABLES
    dev,        \* tf->dev is set
    error,      \* tf->error
    pending,    \* tf->pending: the SUCCESS for the next block was sent already
    timeout,    \* tf->timeout, in units of TF_DEFAULT_TIMEOUT
    pc, op,     \* where the current call is, and which function it is
    ret,        \* its result, or that of the last call
    attempt,    \* loop counter of tf_cmd_get_cancel, stage of tf_init, put_cancel
    txn,        \* the application's open transaction
    item,       \* the file or directory it asked for
    got,        \* the packets of data it was given
    sent,       \* the blocks it has put
    faults      \* faults that may still happen

handle == <<dev, error, pending, timeout>>
call == <<pc, op, ret, attempt>>
app == <<txn, item, got, sent>>
vars == <<pipes, device, handle, call, app, faults>>

TF_ERR_NONE == 0
TF_ERR_DONE == 1
TF_ERR_CRC == -1
TF_ERR_UNEXPECTED == -100
TF_ERR_IO == -101
TF_ERR_NOCONN == -102
IoErrors == {TF_ERR_IO, TF_ERR_CRC, TF_ERR_NOCONN}
ErrorCodes == {TF_ERR_NONE, TF_ERR_DONE, TF_ERR_UNEXPECTED} \cup IoErrors
                \cup {-c : c \in FailCodes}

MaxCancelTries == 5

Views == {"closed", "opened", "none", "reset", "failed",
          "dir", "get", "getfail", "put", "putfail"}
Ops == SimpleCmds \cup {"open", "close", "init", "CANCEL", "RESET", "size", "dir_first", "dir_next",
        "get", "get_next", "get_cancel", "put", "put_data", "put_done", "put_cancel"}
Reads == {"cmd", "size", "dirents", "get", "get_next", "put", "put_started", "put_data",
          "put_done", "pd_cancelled", "pc_cancelled", "gc_drain", "gc_cancelled",
          "gc_retry", "init_reply"}
Writes == {"dir_end", "gn_end", "gn_data", "put_start", "pd_cancel", "pc_cancel",
           "gc_fail", "gc_cancel", "init", "init_fail", "init_success"}

TypeOK ==
    /\ ToppyTypeOK
    /\ dev \in BOOLEAN
    /\ error \in ErrorCodes
    /\ pending \in BOOLEAN
    /\ timeout \in {1, 2}
    /\ pc \in {"idle"} \cup Reads \cup Writes
    /\ op \in Ops
    /\ ret \in ErrorCodes
    /\ attempt \in 1..MaxCancelTries
    /\ txn \in Views
    /\ item \in Files \cup {NoFile}
    /\ got \in Seq([file: Files \cup {NoFile}, n: Int])
    /\ sent \in 0..Blocks
    /\ faults \in [FaultKinds -> Nat]

Init ==
    /\ ToppyInit
    /\ dev = FALSE /\ error = TF_ERR_NONE /\ pending = FALSE /\ timeout = 1
    /\ pc = "idle" /\ op = "close" /\ ret = TF_ERR_NONE /\ attempt = 1
    /\ txn = "closed" /\ item = NoFile /\ got = <<>> /\ sent = 0
    /\ faults \in Budgets

-----------------------------------------------------------------------------
(* The two primitives: tf_send and tf_get_response, with result e.         *)

Fault(k) == faults[k] > 0 /\ faults' = [faults EXCEPT ![k] = @ - 1]

tf_send(p, e) ==
    /\ UNCHANGED <<toHost, device>>
    /\ \/ /\ dev /\ e = TF_ERR_NONE
          /\ toDev' = Append(toDev, p)
          /\ UNCHANGED faults
       \/ /\ dev /\ e = TF_ERR_IO              \* ret != len, which is not to say
          /\ Fault("write")                    \* that nothing was written
          /\ toDev' \in {toDev, Append(toDev, p)}
       \/ /\ ~dev /\ e = TF_ERR_NOCONN
          /\ UNCHANGED <<toDev, faults>>

\* A read that finds nothing times out.  If a packet is still on its way to
\* or from the device that is a fault: the answer will be late.
tf_get_response(e) ==
    /\ UNCHANGED <<toDev, device>>
    /\ \/ /\ dev /\ e = TF_ERR_NONE
          /\ toHost # <<>> /\ toHost' = Tail(toHost)
          /\ UNCHANGED faults
       \/ /\ dev /\ e \in {TF_ERR_IO, TF_ERR_CRC}  \* short packet, bad checksum
          /\ toHost # <<>> /\ toHost' = Tail(toHost)
          /\ Fault("corrupt")
       \/ /\ dev /\ e = TF_ERR_IO                  \* nothing within tf->timeout
          /\ toHost = <<>> /\ UNCHANGED toHost
          /\ IF toDev = <<>> THEN UNCHANGED faults ELSE Fault("late")
       \/ /\ ~dev /\ e = TF_ERR_NOCONN
          /\ UNCHANGED <<toHost, faults>>

reply == Head(toHost)

Read(e, c) == e = TF_ERR_NONE /\ reply.cmd = c

\* What a function that waits for command c makes of the outcome of the read.
Expect(e, c) ==
    IF e # TF_ERR_NONE \/ Read(e, c) THEN e ELSE TF_ERR_UNEXPECTED

\* tf_cmd, tf_cmd_put and tf_cmd_get look at FAIL as well.
ExpectOrFail(e, c) == IF Read(e, "FAIL") THEN -reply.n ELSE Expect(e, c)
CmdResult(e) == ExpectOrFail(e, "SUCCESS")

-----------------------------------------------------------------------------
(* Calls and returns.                                                      *)

\* The application's transaction after function o has returned v, as tf_io.h
\* documents it.  The careful application regards every failure as one that
\* it has to cancel.
AfterSuccess(o) ==
    IF o \in {"get", "get_next"} THEN "get"
    ELSE IF o \in {"put", "put_data"} THEN "put"
    ELSE IF o \in {"dir_first", "dir_next"} THEN "dir"
    ELSE IF o = "RESET" THEN "reset" ELSE "none"

AfterError(o) ==
    IF o \in {"get_next", "get_cancel"} THEN "getfail"
    ELSE IF o \in {"put_data", "put_cancel"} THEN "putfail"
    ELSE IF o = "init" THEN "opened"
    ELSE IF o = "CANCEL" \/ Careful THEN "failed" ELSE "none"

AfterCall(o, v) ==
    IF ~dev THEN "closed"
    ELSE IF v = TF_ERR_NONE THEN AfterSuccess(o)
    ELSE IF v = TF_ERR_DONE THEN "none" ELSE AfterError(o)

Enter(o, views) == pc = "idle" /\ txn \in views /\ op' = o

Return(o, v) ==
    /\ pc' = "idle" /\ ret' = v
    /\ txn' = AfterCall(o, v)

Goto(l) == pc' = l /\ UNCHANGED <<ret, txn>>

\* ret = tf_send(...); if (ret == 0) ...; return ret;
AwaitOrReturn(l, o, e) == IF e = TF_ERR_NONE THEN Goto(l) ELSE Return(o, e)

-----------------------------------------------------------------------------
(* tf_cmd_cancel, _ready, _reset, _turbo, _delete, _mkdir, _rename and     *)
(* tf_cmd_dir_cancel: tf_cmd.                                              *)

CmdViews(c) ==
    IF c = "CANCEL"
    THEN {"closed", "none", "failed", "dir"} \cup (IF CancelsMidGet THEN {"get"} ELSE {})
    ELSE {"closed", "none"}

\* Mutant of tf_cmd: it does not wait for the answer.
tf_cmd_does_not_wait(c) ==
    /\ Enter(c, CmdViews(c))
    /\ \E e \in ErrorCodes : tf_send(Plain(c), e) /\ error' = e /\ Return(c, e)
    /\ UNCHANGED <<dev, pending, timeout, attempt, item, got, sent>>

tf_cmd(c) ==
    /\ Enter(c, CmdViews(c))
    /\ \E e \in ErrorCodes :
        /\ tf_send(Plain(c), e)
        /\ error' = e
        /\ AwaitOrReturn("cmd", c, e)
    /\ UNCHANGED <<dev, pending, timeout, attempt, item, got, sent>>

tf_cmd_reply ==
    /\ pc = "cmd"
    /\ \E e \in ErrorCodes :
        /\ tf_get_response(e)
        /\ error' = CmdResult(e)
        /\ Return(op, CmdResult(e))
    /\ UNCHANGED <<dev, pending, timeout, op, attempt, item, got, sent>>

tf_cmd_size ==
    /\ Enter("size", {"closed", "none"})
    /\ \E e \in ErrorCodes :
        /\ tf_send(Plain("SIZE"), e)
        /\ error' = e
        /\ AwaitOrReturn("size", "size", e)
    /\ UNCHANGED <<dev, pending, timeout, attempt, item, got, sent>>

tf_cmd_size_reply ==
    /\ pc = "size"
    /\ \E e \in ErrorCodes :
        /\ tf_get_response(e)
        /\ error' = e
        /\ Return(op, Expect(e, "SIZE_RESULT"))
    /\ UNCHANGED <<dev, pending, timeout, op, attempt, item, got, sent>>

-----------------------------------------------------------------------------
(* tf_init: cancel, cancel, fail + success, ready, cancel.                 *)

InitCmds == <<"CANCEL", "CANCEL", "READY", "CANCEL">>

\* The stage after a command of tf_init that did not succeed.
InitGiveUpOn(k) ==
    \/ k = 4 /\ Return("init", -1) /\ UNCHANGED attempt
    \/ k < 4 /\ Goto(IF k = 2 THEN "init_fail" ELSE "init") /\ attempt' = k + 1

tf_init ==
    /\ Enter("init", {"closed", "opened"})
    /\ Goto("init")
    /\ attempt' = 1
    /\ UNCHANGED <<pipes, device, handle, item, got, sent, faults>>

tf_init_cmd ==
    /\ pc = "init"
    /\ \E e \in ErrorCodes :
        /\ tf_send(Plain(InitCmds[attempt]), e)
        /\ error' = e
        /\ IF e = TF_ERR_NONE
           THEN Goto("init_reply") /\ UNCHANGED attempt
           ELSE InitGiveUpOn(attempt)
    /\ UNCHANGED <<dev, pending, timeout, op, item, got, sent>>

tf_init_reply ==
    /\ pc = "init_reply"
    /\ \E e \in ErrorCodes :
        /\ tf_get_response(e)
        /\ error' = CmdResult(e)
        /\ IF CmdResult(e) = TF_ERR_NONE
           THEN Return("init", TF_ERR_NONE) /\ UNCHANGED attempt
           ELSE InitGiveUpOn(attempt)
    /\ UNCHANGED <<dev, pending, timeout, op, item, got, sent>>

tf_init_fail ==
    /\ pc = "init_fail"
    /\ \E e \in ErrorCodes : tf_send(Packet("FAIL", NoFile, 2), e) /\ error' = e
    /\ Goto("init_success")
    /\ UNCHANGED <<dev, pending, timeout, op, attempt, item, got, sent>>

tf_init_success ==
    /\ pc = "init_success"
    /\ \E e \in ErrorCodes : tf_send(Plain("SUCCESS"), e) /\ error' = e
    /\ Goto("init")
    /\ UNCHANGED <<dev, pending, timeout, op, attempt, item, got, sent>>

-----------------------------------------------------------------------------
(* Directory listings.                                                     *)

tf_cmd_dir_first(f) ==
    /\ Enter("dir_first", {"none"})
    /\ \E e \in ErrorCodes :
        /\ tf_send(Packet("DIR", f, 0), e)
        /\ error' = e
        /\ AwaitOrReturn("dirents", "dir_first", e)
    /\ item' = f /\ got' = <<>>
    /\ UNCHANGED <<dev, pending, timeout, attempt, sent>>

tf_cmd_dir_next ==
    /\ Enter("dir_next", {"dir"})
    /\ \E e \in ErrorCodes :
        /\ tf_send(Plain("SUCCESS"), e)
        /\ error' = e
        /\ AwaitOrReturn("dirents", "dir_next", e)
    /\ UNCHANGED <<dev, pending, timeout, attempt, item, got, sent>>

Deliver(p) == got' = Append(got, [file |-> p.file, n |-> p.n])

get_dirents ==
    /\ pc = "dirents"
    /\ \E e \in ErrorCodes :
        /\ tf_get_response(e)
        /\ error' = e
        /\ \/ /\ Read(e, "DIRENT")
              /\ Deliver(reply)
              /\ Return(op, TF_ERR_NONE)
           \/ /\ Read(e, "DIREND")
              /\ Goto("dir_end")
              /\ UNCHANGED got
           \/ /\ ~Read(e, "DIRENT") /\ ~Read(e, "DIREND")
              /\ Return(op, Expect(e, "DIRENT"))
              /\ UNCHANGED got
    /\ UNCHANGED <<dev, pending, timeout, op, attempt, item, sent>>

\* Mutant of get_dirents_end: the end of the listing is not acknowledged.
get_dirents_end_unacknowledged ==
    /\ pc = "dir_end"
    /\ Return(op, TF_ERR_DONE)
    /\ UNCHANGED <<pipes, device, handle, op, attempt, item, got, sent, faults>>

get_dirents_end ==
    /\ pc = "dir_end"
    /\ \E e \in ErrorCodes : tf_send(Plain("SUCCESS"), e) /\ error' = e
    /\ Return(op, TF_ERR_DONE)
    /\ UNCHANGED <<dev, pending, timeout, op, attempt, item, got, sent>>

-----------------------------------------------------------------------------
(* Reading a file.                                                         *)

tf_cmd_get(f) ==
    /\ Enter("get", {"none"})
    /\ \E e \in ErrorCodes :
        /\ tf_send(Packet("GET", f, 0), e)
        /\ error' = e
        /\ AwaitOrReturn("get", "get", e)
    /\ item' = f /\ got' = <<>>
    /\ UNCHANGED <<dev, pending, timeout, attempt, sent>>

tf_cmd_get_reply ==
    /\ pc = "get"
    /\ \E e \in ErrorCodes :
        /\ tf_get_response(e)
        /\ error' = e
        /\ Return(op, ExpectOrFail(e, "FILE_START"))
    /\ UNCHANGED <<dev, pending, timeout, op, attempt, item, got, sent>>

\* Mutant of tf_cmd_get_next: tf->pending is not looked at.
tf_cmd_get_next_always_sends ==
    /\ Enter("get_next", {"get"})
    /\ pending' = FALSE
    /\ \E e \in ErrorCodes :
        /\ tf_send(Plain("SUCCESS"), e)
        /\ error' = e
        /\ AwaitOrReturn("get_next", "get_next", e)
    /\ UNCHANGED <<dev, timeout, attempt, item, got, sent>>

\* When the SUCCESS went out with the previous block, only a read is left.
tf_cmd_get_next ==
    /\ Enter("get_next", {"get"})
    /\ pending' = FALSE
    /\ \/ /\ pending
          /\ Goto("get_next")
          /\ UNCHANGED <<pipes, device, error, faults>>
       \/ /\ ~pending
          /\ \E e \in ErrorCodes :
                /\ tf_send(Plain("SUCCESS"), e)
                /\ error' = e
                /\ AwaitOrReturn("get_next", "get_next", e)
    /\ UNCHANGED <<dev, timeout, attempt, item, got, sent>>

\* Mutant of tf_cmd_get_next_reply: FAIL is taken for the end of the file.
tf_cmd_get_next_fail_is_end ==
    /\ pc = "get_next"
    /\ \E e \in ErrorCodes :
        /\ tf_get_response(e)
        /\ error' = e
        /\ \/ /\ Read(e, "FILE_END") \/ Read(e, "FAIL")
              /\ Goto("gn_end") /\ UNCHANGED got
           \/ Read(e, "FILE_DATA") /\ Deliver(reply) /\ Goto("gn_data")
           \/ /\ \A c \in {"FILE_END", "FILE_DATA", "FAIL"} : ~Read(e, c)
              /\ Return(op, Expect(e, "FILE_DATA")) /\ UNCHANGED got
    /\ UNCHANGED <<dev, pending, timeout, op, attempt, item, sent>>

\* Mutant of tf_cmd_get_next_reply: a read error is not reported.
tf_cmd_get_next_hides_errors ==
    /\ pc = "get_next"
    /\ \E e \in ErrorCodes :
        /\ tf_get_response(e)
        /\ error' = e
        /\ \/ Read(e, "FILE_END") /\ Goto("gn_end") /\ UNCHANGED got
           \/ Read(e, "FILE_DATA") /\ Deliver(reply) /\ Goto("gn_data")
           \/ /\ ~Read(e, "FILE_END") /\ ~Read(e, "FILE_DATA")
              /\ Return(op, TF_ERR_NONE) /\ UNCHANGED got
    /\ UNCHANGED <<dev, pending, timeout, op, attempt, item, sent>>

tf_cmd_get_next_reply ==
    /\ pc = "get_next"
    /\ \E e \in ErrorCodes :
        /\ tf_get_response(e)
        /\ \/ /\ Read(e, "FILE_END")
              /\ Goto("gn_end")
              /\ error' = e /\ UNCHANGED got
           \/ /\ Read(e, "FILE_DATA")
              /\ Deliver(reply)
              /\ Goto("gn_data")
              /\ error' = e
           \/ /\ ~Read(e, "FILE_END") /\ ~Read(e, "FILE_DATA")
              /\ LET v == IF Read(e, "FAIL") THEN TF_ERR_IO ELSE Expect(e, "FILE_DATA")
                 IN  Return(op, v) /\ error' = v
              /\ UNCHANGED got
    /\ UNCHANGED <<dev, pending, timeout, op, attempt, item, sent>>

tf_cmd_get_next_end ==
    /\ pc = "gn_end"
    /\ \E e \in ErrorCodes : tf_send(Plain("SUCCESS"), e)
    /\ error' = TF_ERR_DONE
    /\ Return(op, TF_ERR_DONE)
    /\ UNCHANGED <<dev, pending, timeout, op, attempt, item, got, sent>>

tf_cmd_get_next_data ==
    /\ pc = "gn_data"
    /\ \E e \in ErrorCodes :
        /\ tf_send(Plain("SUCCESS"), e)
        /\ pending' = (e = TF_ERR_NONE)
    /\ error' = TF_ERR_NONE
    /\ Return(op, TF_ERR_NONE)
    /\ UNCHANGED <<dev, timeout, op, attempt, item, got, sent>>

\* Mutant of tf_cmd_get_cancel: tf->pending is not cleared.
tf_cmd_get_cancel_keeps_pending ==
    /\ Enter("get_cancel", {"closed", "get", "getfail"})
    /\ attempt' = 1
    /\ Goto(IF pending THEN "gc_drain" ELSE "gc_fail")
    /\ UNCHANGED <<pipes, device, handle, item, got, sent, faults>>

tf_cmd_get_cancel ==
    /\ Enter("get_cancel", {"closed", "get", "getfail"})
    /\ pending' = FALSE
    /\ attempt' = 1
    /\ Goto(IF pending THEN "gc_drain" ELSE "gc_fail")
    /\ UNCHANGED <<pipes, device, dev, error, timeout, item, got, sent, faults>>

\* "Get and discard any pending response"
get_cancel_drain ==
    /\ pc = "gc_drain"
    /\ \E e \in ErrorCodes : tf_get_response(e) /\ error' = e
    /\ Goto("gc_fail")
    /\ UNCHANGED <<dev, pending, timeout, op, attempt, item, got, sent>>

get_cancel_fail ==
    /\ pc = "gc_fail"
    /\ \E e \in ErrorCodes : tf_send(Packet("FAIL", NoFile, TF_ERR_CRC), e) /\ error' = e
    /\ Goto("gc_cancel")
    /\ UNCHANGED <<dev, pending, timeout, op, attempt, item, got, sent>>

get_cancel_cancel ==
    /\ pc = "gc_cancel"
    /\ \E e \in ErrorCodes :
        /\ tf_send(Plain("CANCEL"), e)
        /\ error' = e
        /\ Goto(IF e = TF_ERR_NONE THEN "gc_cancelled" ELSE "gc_retry")
    /\ UNCHANGED <<dev, pending, timeout, op, attempt, item, got, sent>>

\* Mutant of get_cancel_cancelled: the result of the cancel is not looked at.
get_cancel_never_done ==
    /\ pc = "gc_cancelled"
    /\ \E e \in ErrorCodes : tf_get_response(e) /\ error' = CmdResult(e)
    /\ Goto("gc_retry")
    /\ UNCHANGED <<dev, pending, timeout, op, attempt, item, got, sent>>

get_cancel_cancelled ==
    /\ pc = "gc_cancelled"
    /\ \E e \in ErrorCodes :
        /\ tf_get_response(e)
        /\ error' = CmdResult(e)
        /\ IF CmdResult(e) = TF_ERR_NONE THEN Return(op, TF_ERR_NONE) ELSE Goto("gc_retry")
    /\ UNCHANGED <<dev, pending, timeout, op, attempt, item, got, sent>>

\* Mutant of get_cancel_retry: the attempts are not counted.
get_cancel_retries_forever ==
    /\ pc = "gc_retry"
    /\ \E e \in ErrorCodes :
        /\ tf_get_response(e)
        /\ error' = e
        /\ IF e = TF_ERR_NONE THEN Return(op, e) ELSE Goto("gc_fail")
    /\ UNCHANGED <<dev, pending, timeout, op, attempt, item, got, sent>>

\* "wait a moment and try to get the response again": any packet will do.
get_cancel_retry ==
    /\ pc = "gc_retry"
    /\ \E e \in ErrorCodes :
        /\ tf_get_response(e)
        /\ error' = e
        /\ IF e = TF_ERR_NONE \/ attempt = MaxCancelTries
           THEN Return(op, e) /\ UNCHANGED attempt
           ELSE Goto("gc_fail") /\ attempt' = attempt + 1
    /\ UNCHANGED <<dev, pending, timeout, op, item, got, sent>>

-----------------------------------------------------------------------------
(* Writing a file.                                                         *)

tf_cmd_put(f) ==
    /\ Enter("put", {"none"})
    /\ \E e \in ErrorCodes :
        /\ tf_send(Packet("PUT", f, 0), e)
        /\ error' = e
        /\ AwaitOrReturn("put", "put", e)
    /\ item' = f /\ got' = <<>> /\ sent' = 0
    /\ UNCHANGED <<dev, pending, timeout, attempt>>

\* The answer to FILE_SEND and, when it is SUCCESS, the FILE_START at once.
tf_cmd_put_reply ==
    /\ pc = "put"
    /\ \E e \in ErrorCodes :
        /\ tf_get_response(e)
        /\ error' = e
        /\ LET v == ExpectOrFail(e, "SUCCESS") IN
           IF v = TF_ERR_NONE THEN Goto("put_start") ELSE Return(op, v)
    /\ UNCHANGED <<dev, pending, timeout, op, attempt, item, got, sent>>
tf_cmd_put_start ==
    /\ pc = "put_start"
    /\ \E e \in ErrorCodes :
        /\ tf_send(Plain("FILE_START"), e)
        /\ error' = e
        /\ AwaitOrReturn("put_started", op, e)
    /\ UNCHANGED <<dev, pending, timeout, op, attempt, item, got, sent>>

tf_cmd_put_started ==
    /\ pc = "put_started"
    /\ \E e \in ErrorCodes :
        /\ tf_get_response(e)
        /\ error' = e
        /\ Return(op, Expect(e, "SUCCESS"))
    /\ UNCHANGED <<dev, pending, timeout, op, attempt, item, got, sent>>

\* The read that follows the write waits twice as long.
tf_cmd_put_data ==
    /\ Enter("put_data", {"put"})
    /\ sent < Blocks
    /\ \E e \in ErrorCodes :
        /\ tf_send(Packet("FILE_DATA", NoFile, sent + 1), e)
        /\ error' = e
        /\ AwaitOrReturn("put_data", "put_data", e)
        /\ timeout' = IF e = TF_ERR_NONE THEN timeout * 2 ELSE timeout
    /\ UNCHANGED <<dev, pending, attempt, item, got, sent>>

\* Mutant of tf_cmd_put_data_reply: tf->timeout is not put back.
put_data_keeps_timeout ==
    /\ pc = "put_data"
    /\ \E e \in ErrorCodes :
        /\ tf_get_response(e)
        /\ error' = e
        /\ Return(op, Expect(e, "SUCCESS"))
        /\ sent' = IF Expect(e, "SUCCESS") = TF_ERR_NONE THEN sent + 1 ELSE sent
    /\ UNCHANGED <<dev, pending, timeout, op, attempt, item, got>>

\* "int timeout": tf->timeout as it was when tf_cmd_put_data() doubled it.
SavedTimeout == timeout \div 2

\* Mutant of tf_cmd_put_data_reply: the answer is not looked at.
put_data_hides_errors ==
    /\ pc = "put_data"
    /\ timeout' = SavedTimeout
    /\ \E e \in ErrorCodes : tf_get_response(e) /\ error' = e
    /\ Return(op, TF_ERR_NONE)
    /\ sent' = sent + 1
    /\ UNCHANGED <<dev, pending, op, attempt, item, got>>

tf_cmd_put_data_reply ==
    /\ pc = "put_data"
    /\ timeout' = SavedTimeout
    /\ \E e \in ErrorCodes :
        /\ tf_get_response(e)
        /\ error' = e
        /\ Return(op, Expect(e, "SUCCESS"))
        /\ sent' = IF Expect(e, "SUCCESS") = TF_ERR_NONE THEN sent + 1 ELSE sent
    /\ UNCHANGED <<dev, pending, op, attempt, item, got>>

tf_cmd_put_done ==
    /\ Enter("put_done", {"put"})
    /\ \E e \in ErrorCodes :
        /\ tf_send(Plain("FILE_END"), e)
        /\ error' = e
        /\ AwaitOrReturn("put_done", "put_done", e)
    /\ UNCHANGED <<dev, pending, timeout, attempt, item, got, sent>>

tf_cmd_put_done_reply ==
    /\ pc = "put_done"
    /\ \E e \in ErrorCodes :
        /\ tf_get_response(e)
        /\ error' = e
        /\ LET v == Expect(e, "SUCCESS") IN
           IF v = TF_ERR_NONE
           THEN Return(op, v)
           ELSE pc' = "pd_cancel" /\ ret' = v /\ UNCHANGED txn
    /\ UNCHANGED <<dev, pending, timeout, op, attempt, item, got, sent>>

\* "This didn't succeed, so send a cancel", whose own result is dropped.
put_done_cancel ==
    /\ pc = "pd_cancel"
    /\ \E e \in ErrorCodes :
        /\ tf_send(Plain("CANCEL"), e)
        /\ error' = e
        /\ IF e = TF_ERR_NONE THEN Goto("pd_cancelled") ELSE Return(op, ret)
    /\ UNCHANGED <<dev, pending, timeout, op, attempt, item, got, sent>>

put_done_cancelled ==
    /\ pc = "pd_cancelled"
    /\ \E e \in ErrorCodes : tf_get_response(e) /\ error' = CmdResult(e)
    /\ Return(op, ret)
    /\ UNCHANGED <<dev, pending, timeout, op, attempt, item, got, sent>>

\* "It helps to send cancel twice": the second one's result counts.
tf_cmd_put_cancel ==
    /\ Enter("put_cancel", {"closed", "put", "putfail"})
    /\ Goto("pc_cancel")
    /\ attempt' = 1
    /\ UNCHANGED <<pipes, device, handle, item, got, sent, faults>>

PutCancelled(v) ==
    IF attempt = 1
    THEN Goto("pc_cancel") /\ attempt' = 2
    ELSE Return(op, v) /\ UNCHANGED attempt

put_cancel_cancel ==
    /\ pc = "pc_cancel"
    /\ \E e \in ErrorCodes :
        /\ tf_send(Plain("CANCEL"), e)
        /\ error' = e
        /\ IF e = TF_ERR_NONE
           THEN Goto("pc_cancelled") /\ UNCHANGED attempt
           ELSE PutCancelled(e)
    /\ UNCHANGED <<dev, pending, timeout, op, item, got, sent>>

put_cancel_cancelled ==
    /\ pc = "pc_cancelled"
    /\ \E e \in ErrorCodes :
        /\ tf_get_response(e)
        /\ error' = CmdResult(e)
        /\ PutCancelled(CmdResult(e))
    /\ UNCHANGED <<dev, pending, timeout, op, item, got, sent>>

-----------------------------------------------------------------------------
(* Opening and closing the handle.                                         *)

\* Mutant of topfield_open: the bus is not reset.
topfield_open_without_reset ==
    /\ pc = "idle" /\ txn = "closed" /\ op' = "open"
    /\ error' = TF_ERR_NONE /\ pending' = FALSE /\ timeout' = 1
    /\ ret' = 0 /\ dev' = TRUE /\ txn' = "opened"
    /\ UNCHANGED <<pipes, device, pc, attempt, item, got, sent, faults>>

\* memset() of the handle, then the lock and the device; result 1 says that
\* the lock is taken, -1 that there is no device.  With usbdevfs the reset of
\* the bus empties both pipes; with libusb whatever was in them stays.
topfield_open ==
    /\ pc = "idle" /\ txn = "closed" /\ op' = "open"
    /\ error' = TF_ERR_NONE /\ pending' = FALSE /\ timeout' = 1
    /\ \E v \in {0, 1, -1} :
        /\ ret' = v
        /\ dev' = (v = 0)
        /\ txn' = IF v = 0 THEN "opened" ELSE "closed"
        /\ IF v = 0 /\ ResetOnOpen
           THEN toDev' = <<>> /\ toHost' = <<>>
           ELSE UNCHANGED pipes
    /\ UNCHANGED <<device, pc, attempt, item, got, sent, faults>>

topfield_close ==
    /\ Enter("close", {"opened", "none", "reset", "failed", "getfail", "putfail"})
    /\ dev' = FALSE
    /\ txn' = "closed"
    /\ UNCHANGED <<pipes, device, error, pending, timeout, pc, ret, attempt,
                   item, got, sent, faults>>

-----------------------------------------------------------------------------
(* What may go wrong around the library, and the whole system.             *)

\* The process dies inside or between calls.  Its handle dies with it.
Crash ==
    /\ dev /\ Fault("crash")
    /\ dev' = FALSE /\ error' = TF_ERR_NONE /\ pending' = FALSE /\ timeout' = 1
    /\ pc' = "idle" /\ op' = "close" /\ ret' = TF_ERR_NONE /\ attempt' = 1
    /\ txn' = "closed" /\ item' = NoFile /\ got' = <<>> /\ sent' = 0
    /\ UNCHANGED <<pipes, device>>

Lose ==
    /\ Fault("lost")
    /\ \/ toDev # <<>> /\ toDev' = Tail(toDev) /\ UNCHANGED toHost
       \/ toHost # <<>> /\ toHost' = Tail(toHost) /\ UNCHANGED toDev
    /\ UNCHANGED <<device, handle, call, app>>

Toppy5000 == ToppyNext /\ UNCHANGED <<handle, call, app, faults>>

\* The steps of the function in progress.
Library ==
    \/ tf_cmd_reply \/ tf_cmd_size_reply
    \/ tf_init_cmd \/ tf_init_reply \/ tf_init_fail \/ tf_init_success
    \/ get_dirents \/ get_dirents_end
    \/ tf_cmd_get_reply
    \/ tf_cmd_get_next_reply \/ tf_cmd_get_next_end \/ tf_cmd_get_next_data
    \/ get_cancel_drain \/ get_cancel_fail \/ get_cancel_cancel
    \/ get_cancel_cancelled \/ get_cancel_retry
    \/ tf_cmd_put_reply \/ tf_cmd_put_start \/ tf_cmd_put_started
    \/ tf_cmd_put_data_reply
    \/ tf_cmd_put_done_reply \/ put_done_cancel \/ put_done_cancelled
    \/ put_cancel_cancel \/ put_cancel_cancelled

\* The calls the application may make.
Application ==
    \/ topfield_open \/ topfield_close \/ tf_init
    \/ \E c \in SimpleCmds \cup {"CANCEL", "RESET"} : tf_cmd(c)
    \/ tf_cmd_size
    \/ \E f \in Files : tf_cmd_dir_first(f) \/ tf_cmd_get(f) \/ tf_cmd_put(f)
    \/ tf_cmd_dir_next
    \/ tf_cmd_get_next \/ tf_cmd_get_cancel
    \/ tf_cmd_put_data \/ tf_cmd_put_done \/ tf_cmd_put_cancel

Next == Application \/ Library \/ Toppy5000 \/ Lose \/ Crash

Spec == Init /\ [][Next]_vars

-----------------------------------------------------------------------------
(* Fairness.  A function in progress always goes on, because every read and *)
(* write has a timeout; the device handles what it is sent.                 *)
(* KeepsGoing and CleansUp are promises of the application.                 *)

KeepsGoing == WF_vars(tf_cmd_get_next) /\ WF_vars(tf_cmd_dir_next)

CleansUp ==
    /\ WF_vars(txn = "failed" /\ tf_cmd("CANCEL"))
    /\ WF_vars(txn = "getfail" /\ tf_cmd_get_cancel)
    /\ WF_vars(txn = "putfail" /\ tf_cmd_put_cancel)

FairSpec == Spec /\ WF_vars(Library) /\ WF_vars(Toppy5000)

DiligentSpec == FairSpec /\ KeepsGoing /\ CleansUp

-----------------------------------------------------------------------------
(* Properties.                                                             *)

Idle == dev /\ pc = "idle"
Returned(ops, v) == Idle /\ op \in ops /\ ret = v

\* tf->pending, the promise that an answer is already on its way, never
\* outlives the get it belongs to: no function but tf_cmd_get_next and
\* tf_cmd_get_cancel is ever entered while it is set.
PendingOwned == dev /\ pending => pc = "idle" /\ txn = "get"

\* Request and answer stay in step: between two calls, once the device has
\* handled what it was sent, the only packet that may wait to be read is the
\* one that tf->pending announces.
Lockstep == Idle /\ toDev = <<>> => Len(toHost) <= IF pending THEN 1 ELSE 0

\* "The request is sent and the response received" (tf_io.h:110-112): when a
\* command has returned success, the device has acted on it.
Synchronous ==
    \A o \in SimpleCmds \cup {"CANCEL", "RESET", "size", "get", "put", "put_data",
                             "put_done", "put_cancel", "get_cancel"} :
        Returned({o}, TF_ERR_NONE) => toDev = <<>>

\* When the application has no transaction open, neither has the device; all
\* that may be missing is the SUCCESS that nothing answers, if it was lost.
DeviceFree ==
    Idle /\ txn = "none" /\ toDev = <<>> =>
        \/ dMode = "idle"
        \/ dMode \in {"dirend", "getend"} /\ \E b \in Budgets : faults["lost"] < b["lost"]

\* tf_init() == 0 "puts the device into a known, good state" (tf_io.h:118-120).
KnownGoodState ==
    Returned({"init"}, TF_ERR_NONE) => dMode = "idle" /\ toDev = <<>> /\ toHost = <<>>

\* A put that was reported complete is complete: every block that was put, and
\* no other, is in the file that was named.
PutStored == Returned({"put_done"}, TF_ERR_NONE) => dRecv = 1..sent /\ dFile = item

\* What tf_cmd_get_next() gives is the next of the in-progress get
\* (tf_io.h:215-223), not of another one.
RightFile == Idle /\ txn = "get" => \A i \in DOMAIN got : got[i].file = item

\* tf_cmd_cancel() == 0 "cancels any outstanding request (e.g. put or get)"
\* (tf_io.h:130-132).
CancelEndsRequest ==
    Returned({"CANCEL"}, TF_ERR_NONE) => ~pending /\ (toDev = <<>> => dMode = "idle")

\* Every call returns.
CallReturns == pc # "idle" ~> pc = "idle"

\* A listing or get that is continued comes to an end, and an operation that
\* failed is cleaned up, by the cancel functions tf_io.h names or by closing.
TransferEnds == txn \in {"get", "dir"} ~> txn \notin {"get", "dir"}
Recovers == txn \in {"failed", "getfail", "putfail"} ~> txn \in {"none", "closed"}

\* The abstract transfer that listings and gets implement.
Receiving == {"dir_first", "dir_next", "get", "get_next"}
TransferStatus ==
    IF (pc # "idle" /\ op \in Receiving) \/ (Idle /\ txn \in {"dir", "get"}) THEN "active"
    ELSE IF Returned(Receiving, TF_ERR_DONE) THEN "done" ELSE "none"

T == INSTANCE Transfer WITH
        status <- TransferStatus,
        subject <- IF TransferStatus = "none" THEN NoFile ELSE item,
        given <- IF TransferStatus = "none" THEN <<>> ELSE got

\* Entries and blocks come once, in order, all of them before TF_ERR_DONE, and
\* from the directory or file that was asked for.
ImplementsTransfer == T!TransferSpec
=============================================================================
