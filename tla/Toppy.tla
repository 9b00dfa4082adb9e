------------------------------- MODULE Toppy -------------------------------
(***************************************************************************)
(* The Topfield 5000PVR at the other end of the USB cable, and the two     *)
(* bulk pipes that join it to the host.  The firmware is not part of the   *)
(* repository: this module says of it only what tf_io.c relies on, namely  *)
(* which packet answers which, and in which order.  Answers may be late:   *)
(* they wait in toHost for whatever read comes next.                       *)
(*                                                                         *)
(* A packet is [cmd, file, n]: n is a block or page number, or the reason  *)
(* carried by a FAIL.  HDD_FILE_SEND is "GET" or "PUT" according to its    *)
(* direction byte.                                                         *)
(***************************************************************************)
EXTENDS Integers, Sequences

CONSTANTS
    Files,      \* path names that can be read, written or listed
    NoFile,     \* the file field of packets that carry no path
    Blocks,     \* data packets of every file, entry packets of every directory
    FailCodes   \* reasons the device gives in a FAIL

ASSUME ToppyAssumption ==
    /\ NoFile \notin Files
    /\ Blocks \in Nat
    /\ FailCodes \subseteq 1..7

VARIABLES
    toDev,      \* packets written to endpoint 0x01, not yet handled
    toHost,     \* packets waiting to be read from endpoint 0x82
    dMode,      \* transaction the device believes to be in progress
    dFile,      \* file or directory of that transaction
    dPos,       \* blocks (or pages) sent to the host so far
    dRecv       \* blocks stored by the current or last put

pipes == <<toDev, toHost>>
device == <<dMode, dFile, dPos, dRecv>>

Packet(c, f, i) == [cmd |-> c, file |-> f, n |-> i]
Plain(c) == Packet(c, NoFile, 0)

\* Commands that take one SUCCESS or FAIL and open no transaction.
SimpleCmds == {"READY", "TURBO", "DELETE", "MKDIR", "RENAME"}
DeviceModes == {"idle", "dir", "dirend", "get", "getend", "put", "recv"}

\* Packets that the host expects an answer to, other than CANCEL and RESET,
\* which are honoured in every mode.
Requests == SimpleCmds \cup {"SIZE", "DIR", "GET", "PUT", "FILE_START", "FILE_DATA", "FILE_END"}

HostPackets ==
    [cmd: Requests \cup {"CANCEL", "RESET", "SUCCESS", "FAIL"}, file: Files \cup {NoFile}, n: Int]
DevicePackets ==
    [cmd: {"SUCCESS", "SIZE_RESULT", "DIRENT", "DIREND",
           "FILE_START", "FILE_DATA", "FILE_END"},
     file: Files \cup {NoFile}, n: Int]
    \cup [cmd: {"FAIL"}, file: {NoFile}, n: FailCodes]

ToppyTypeOK ==
    /\ toDev \in Seq(HostPackets)
    /\ toHost \in Seq(DevicePackets)
    /\ dMode \in DeviceModes
    /\ dFile \in Files \cup {NoFile}
    /\ dPos \in Nat
    /\ dRecv \subseteq Int

ToppyInit ==
    /\ toDev = <<>> /\ toHost = <<>>
    /\ dMode = "idle" /\ dFile = NoFile /\ dPos = 0 /\ dRecv = {}

-----------------------------------------------------------------------------
Handle(c) == toDev # <<>> /\ Head(toDev).cmd = c /\ toDev' = Tail(toDev)
Answer(p) == toHost' = Append(toHost, p)

\* The mode in which a request is part of the conversation.
InTurn(c) ==
    dMode = IF c = "FILE_START" THEN "put"
            ELSE IF c \in {"FILE_DATA", "FILE_END"} THEN "recv" ELSE "idle"

\* The i-th answer of a listing or of a file transfer.
ListPage(f, i) == IF i <= Blocks THEN Packet("DIRENT", f, i) ELSE Plain("DIREND")
FileBlock(f, i) == IF i <= Blocks THEN Packet("FILE_DATA", f, i) ELSE Plain("FILE_END")

DevCancel ==
    /\ Handle("CANCEL")
    /\ Answer(Plain("SUCCESS"))
    /\ dMode' = "idle"
    /\ UNCHANGED <<dFile, dPos, dRecv>>

\* A reboot forgets the transaction and whatever was still to be handled.
DevReset ==
    /\ toDev # <<>> /\ Head(toDev).cmd = "RESET"
    /\ toDev' = <<>>
    /\ Answer(Plain("SUCCESS"))
    /\ dMode' = "idle"
    /\ UNCHANGED <<dFile, dPos, dRecv>>

DevSimple ==
    \E c \in SimpleCmds \cup {"SIZE"} :
        /\ Handle(c)
        /\ InTurn(c)
        /\ Answer(Plain(IF c = "SIZE" THEN "SIZE_RESULT" ELSE "SUCCESS"))
        /\ UNCHANGED device

DevDir ==
    LET f == Head(toDev).file IN
    /\ Handle("DIR")
    /\ InTurn("DIR")
    /\ Answer(ListPage(f, 1))
    /\ dMode' = IF Blocks > 0 THEN "dir" ELSE "dirend"
    /\ dFile' = f /\ dPos' = 1
    /\ UNCHANGED dRecv

DevGet ==
    LET f == Head(toDev).file IN
    /\ Handle("GET")
    /\ InTurn("GET")
    /\ Answer(Packet("FILE_START", f, 0))
    /\ dMode' = "get" /\ dFile' = f /\ dPos' = 0
    /\ UNCHANGED dRecv

\* SUCCESS asks for the next page or block; the one that follows the last
\* page or block ends the transaction and is not answered.
DevContinue ==
    /\ Handle("SUCCESS")
    /\ \/ /\ dMode = "dir"
          /\ Answer(ListPage(dFile, dPos + 1))
          /\ dMode' = IF dPos < Blocks THEN "dir" ELSE "dirend"
          /\ dPos' = dPos + 1
       \/ /\ dMode = "get"
          /\ Answer(FileBlock(dFile, dPos + 1))
          /\ dMode' = IF dPos < Blocks THEN "get" ELSE "getend"
          /\ dPos' = dPos + 1
       \/ /\ dMode = "get"
          /\ \E r \in FailCodes : Answer(Packet("FAIL", NoFile, r))
          /\ UNCHANGED <<dMode, dPos>>
       \/ /\ dMode \notin {"dir", "get"}
          /\ dMode' = IF dMode \in {"dirend", "getend"} THEN "idle" ELSE dMode
          /\ UNCHANGED <<toHost, dPos>>
    /\ UNCHANGED <<dFile, dRecv>>

DevPut ==
    /\ Handle("PUT")
    /\ InTurn("PUT")
    /\ Answer(Plain("SUCCESS"))
    /\ dMode' = "put" /\ dFile' = Head(toDev).file /\ dRecv' = {}
    /\ UNCHANGED dPos

DevReceive ==
    \E c \in {"FILE_START", "FILE_DATA", "FILE_END"} :
        /\ Handle(c)
        /\ InTurn(c)
        /\ Answer(Plain("SUCCESS"))
        /\ dMode' = IF c = "FILE_END" THEN "idle" ELSE "recv"
        /\ dRecv' = IF c = "FILE_DATA" THEN dRecv \cup {Head(toDev).n} ELSE dRecv
        /\ UNCHANGED <<dFile, dPos>>

\* A FAIL from the host abandons the transaction and is not answered.
DevAbort ==
    /\ Handle("FAIL")
    /\ dMode' = "idle"
    /\ UNCHANGED <<toHost, dFile, dPos, dRecv>>

\* Any request may be refused, and one that is out of turn may simply find
\* the device deaf ("you may no longer be able to talk to it").
DevRefuse ==
    \E c \in Requests :
        /\ Handle(c)
        /\ \E r \in FailCodes : Answer(Packet("FAIL", NoFile, r))
        /\ UNCHANGED device

DevDeaf ==
    \E c \in Requests :
        /\ Handle(c)
        /\ ~InTurn(c)
        /\ UNCHANGED <<toHost, device>>

ToppyNext ==
    \/ DevCancel \/ DevReset \/ DevSimple
    \/ DevDir \/ DevGet \/ DevContinue
    \/ DevPut \/ DevReceive
    \/ DevAbort \/ DevRefuse \/ DevDeaf
=============================================================================
