----------------------------- MODULE DaemonLock -----------------------------
(***************************************************************************)
(* daemon.c: the pid file by which a daemon makes sure that it runs once.  *)
(*                                                                         *)
(* Unlike the flock() of tf_open.c the lock is a record lock of fcntl():   *)
(* it belongs to a process, not to a file descriptor, and it is lost as    *)
(* soon as the process closes any descriptor of the file.                  *)
(*                                                                         *)
(* An action is a system call of daemon_acquire_lock() or                  *)
(* daemon_lock_pid() and what the code does with its result.               *)
(***************************************************************************)
EXTENDS Integers

CONSTANTS
    Procs,      \* process ids
    NoProc,     \* no process; an empty pid file
    MaxBlock,   \* the largest block_seconds
    MaxFds,     \* how many locks a process takes at a time
    Failing     \* TRUE: the system calls may fail

ASSUME DaemonLockAssumption ==
    /\ NoProc \notin Procs
    /\ MaxBlock \in Nat
    /\ MaxFds \in Nat
    /\ Failing \in BOOLEAN

VARIABLES
    owner,      \* the process that has the record lock
    pidfile,    \* the pid in the pid file
    pc,         \* the next system call of the call in progress
    func,       \* that call, "acquire" or "lock_pid"
    block,      \* its block_seconds
    tries,      \* how often it was refused
    fds,        \* descriptors that calls have returned and nobody has closed
    lapsed,     \* history: processes that have descriptors, but have closed
                \* another one since they took the lock
    told        \* the pid that daemon_lock_pid() returned last

vars == <<owner, pidfile, pc, func, block, tries, fds, lapsed, told>>

Calling == {"setlk", "sleep", "truncate", "write", "readpid"}

TypeOK ==
    /\ owner \in Procs \cup {NoProc}
    /\ pidfile \in Procs \cup {NoProc}
    /\ pc \in [Procs -> {"idle"} \cup Calling]
    /\ func \in [Procs -> {"acquire", "lock_pid"}]
    /\ block \in [Procs -> 0..MaxBlock]
    /\ tries \in [Procs -> 0..(MaxBlock + 1)]
    /\ fds \in [Procs -> 0..MaxFds]
    /\ lapsed \in [Procs -> BOOLEAN]
    /\ told \in [Procs -> Procs \cup {NoProc}]

Init ==
    /\ owner = NoProc /\ pidfile = NoProc
    /\ pc = [p \in Procs |-> "idle"]
    /\ func = [p \in Procs |-> "acquire"]
    /\ block = [p \in Procs |-> 0]
    /\ tries = [p \in Procs |-> 0]
    /\ fds = [p \in Procs |-> 0]
    /\ lapsed = [p \in Procs |-> FALSE]
    /\ told = [p \in Procs |-> NoProc]

-----------------------------------------------------------------------------
Goto(p, l) == pc' = [pc EXCEPT ![p] = l]

\* The process takes the lock; it closes a descriptor and has n left.
Take(p) == owner' = p /\ lapsed' = [lapsed EXCEPT ![p] = FALSE]
Close(p, n) ==
    /\ owner' = IF owner = p THEN NoProc ELSE owner
    /\ lapsed' = [lapsed EXCEPT ![p] = n > 0]
Keep == UNCHANGED <<owner, lapsed>>

\* open() of the pid file.
Call(p, f, b) ==
    /\ pc[p] = "idle" /\ fds[p] < MaxFds
    /\ f = "lock_pid" => b = 0
    /\ Goto(p, "setlk") \/ (Failing /\ Goto(p, "idle"))
    /\ func' = [func EXCEPT ![p] = f]
    /\ block' = [block EXCEPT ![p] = b]
    /\ tries' = [tries EXCEPT ![p] = 0]
    /\ told' = [told EXCEPT ![p] = NoProc]
    /\ UNCHANGED <<pidfile, fds>> /\ Keep

\* The answer "locked by another" after the last try ends the call, or makes
\* daemon_lock_pid() look for the pid.
GiveUp(p) == Close(p, fds[p]) /\ Goto(p, IF func[p] = "lock_pid" THEN "readpid" ELSE "idle")

Free(p) == owner \in {NoProc, p}

\* Mutant of SetLock: the file is emptied when it is opened (O_TRUNC).
SetLockOfEmptied(p) ==
    /\ pc[p] = "setlk"
    /\ pidfile' = NoProc
    /\ IF Free(p) THEN Take(p) /\ Goto(p, "truncate") /\ UNCHANGED tries
       ELSE /\ tries' = [tries EXCEPT ![p] = @ + 1]
            /\ IF tries[p] >= block[p] THEN GiveUp(p) ELSE Goto(p, "sleep") /\ Keep
    /\ UNCHANGED <<func, block, fds, told>>

\* Mutant of SetLock: after the last try the call goes on regardless.
SetLockIgnored(p) ==
    /\ pc[p] = "setlk"
    /\ IF Free(p) \/ tries[p] >= block[p]
       THEN Goto(p, "truncate") /\ (IF Free(p) THEN Take(p) ELSE Keep) /\ UNCHANGED tries
       ELSE tries' = [tries EXCEPT ![p] = @ + 1] /\ Goto(p, "sleep") /\ Keep
    /\ UNCHANGED <<pidfile, func, block, fds, told>>

\* Mutant of SetLock: > for >=.
SetLockOnceMore(p) ==
    /\ pc[p] = "setlk"
    /\ IF Free(p) THEN Take(p) /\ Goto(p, "truncate") /\ UNCHANGED tries
       ELSE /\ tries' = [tries EXCEPT ![p] = @ + 1]
            /\ IF tries[p] > block[p] THEN GiveUp(p) ELSE Goto(p, "sleep") /\ Keep
    /\ UNCHANGED <<pidfile, func, block, fds, told>>

\* Mutant of SetLock: the tries are not counted.
SetLockForever(p) ==
    /\ pc[p] = "setlk"
    /\ IF Free(p) THEN Take(p) /\ Goto(p, "truncate")
       ELSE IF tries[p] >= block[p] /\ block[p] = 0 THEN GiveUp(p)
       ELSE Goto(p, "sleep") /\ Keep
    /\ UNCHANGED <<pidfile, tries, func, block, fds, told>>

\* fcntl(F_SETLK); a process is never refused on account of its own lock.
\* Errors other than "locked by another" end the call at once.
SetLock(p) ==
    /\ pc[p] = "setlk"
    /\ \/ /\ Free(p)
          /\ Take(p)
          /\ Goto(p, "truncate")
          /\ UNCHANGED tries
       \/ /\ ~Free(p) /\ tries[p] >= block[p]
          /\ tries' = [tries EXCEPT ![p] = @ + 1]
          /\ GiveUp(p)
       \/ /\ ~Free(p) /\ tries[p] < block[p]
          /\ tries' = [tries EXCEPT ![p] = @ + 1]
          /\ Goto(p, "sleep")
          /\ Keep
       \/ /\ Failing
          /\ Close(p, fds[p]) /\ Goto(p, "idle")
          /\ UNCHANGED tries
    /\ UNCHANGED <<pidfile, func, block, fds, told>>

Sleep(p) ==
    /\ pc[p] = "sleep"
    /\ Goto(p, "setlk")
    /\ UNCHANGED <<pidfile, func, block, tries, fds, told>> /\ Keep

\* A failure closes the descriptor and returns -2 (-1 from daemon_lock_pid).
Truncate(p) ==
    /\ pc[p] = "truncate"
    /\ \/ /\ pidfile' = NoProc
          /\ Goto(p, "write")
          /\ Keep
       \/ /\ Failing
          /\ Close(p, fds[p]) /\ Goto(p, "idle")
          /\ UNCHANGED pidfile
    /\ UNCHANGED <<func, block, tries, fds, told>>

\* Mutant of WritePid: after a failed write the descriptor stays open.
WritePidKeepsFd(p) ==
    /\ pc[p] = "write"
    /\ Goto(p, "idle")
    /\ \/ pidfile' = p /\ fds' = [fds EXCEPT ![p] = @ + 1]
       \/ Failing /\ UNCHANGED <<pidfile, fds>>
    /\ UNCHANGED <<func, block, tries, told>> /\ Keep

\* Of a write that falls short there may be some digits in the file, which are
\* any pid or none.
WritePid(p) ==
    /\ pc[p] = "write"
    /\ Goto(p, "idle")
    /\ \/ /\ pidfile' = p
          /\ fds' = [fds EXCEPT ![p] = @ + 1]
          /\ Keep
       \/ /\ Failing
          /\ pidfile' \in Procs \cup {NoProc}
          /\ Close(p, fds[p])
          /\ UNCHANGED fds
    /\ UNCHANGED <<func, block, tries, told>>

\* The pid of the holder; NoProc stands for the 1 that is returned when "we
\* can't determine which pid".  A file that cannot be opened is not closed.
ReadPid(p) ==
    /\ pc[p] = "readpid"
    /\ \/ told' = [told EXCEPT ![p] = pidfile] /\ Close(p, fds[p])
       \/ Failing /\ told' = [told EXCEPT ![p] = NoProc] /\ Keep
    /\ Goto(p, "idle")
    /\ UNCHANGED <<pidfile, func, block, tries, fds>>

daemon_release_lock(p) ==
    /\ pc[p] = "idle" /\ fds[p] > 0
    /\ fds' = [fds EXCEPT ![p] = @ - 1]
    /\ Close(p, fds[p] - 1)
    /\ UNCHANGED <<pidfile, pc, func, block, tries, told>>

\* "The lock is released (but the file is not removed) when the process exits."
Exit(p) ==
    /\ fds' = [fds EXCEPT ![p] = 0]
    /\ Close(p, 0)
    /\ Goto(p, "idle")
    /\ UNCHANGED <<pidfile, func, block, tries, told>>

Working(p) == SetLock(p) \/ Sleep(p) \/ Truncate(p) \/ WritePid(p) \/ ReadPid(p)

Next ==
    \E p \in Procs :
        \/ \E f \in {"acquire", "lock_pid"}, b \in 0..MaxBlock : Call(p, f, b)
        \/ Working(p)
        \/ daemon_release_lock(p)
        \/ Exit(p)

Spec == Init /\ [][Next]_vars

\* No system call of the two functions blocks; sleep(1) ends.
FairSpec == Spec /\ \A p \in Procs : WF_vars(Working(p))

-----------------------------------------------------------------------------
\* A daemon runs only once: no two processes have been told that they have the
\* lock, unless one of them took it twice and then gave up one of its
\* descriptors ("which must be closed to release the lock", daemon.h:30-31), or
\* failed in the second call: it has lost the lock with that (daemon.c:56).
\* There is no other way for a second daemon to run.
OnlyOne ==
    \A p, q \in Procs :
        fds[p] > 0 /\ fds[q] > 0 /\ ~lapsed[p] /\ ~lapsed[q] => p = q

\* A call that failed leaves nothing locked.
NothingLeft == \A p \in Procs : owner = p /\ pc[p] = "idle" => fds[p] > 0

\* The pid file of a running daemon names it, whoever else tries to lock it or
\* has lost the lock.
PidfileNames ==
    \A p \in Procs : fds[p] > 0 /\ ~lapsed[p] /\ pc[p] = "idle" => pidfile = p

\* A call waits for "up to 'block_seconds' seconds" (daemon.h:28-29).
WaitsNoLonger == \A p \in Procs : tries[p] <= block[p] + 1

\* A call returns, even if the lock never becomes free.
LockReturns == \A p \in Procs : pc[p] \in Calling ~> pc[p] \notin Calling
=============================================================================
