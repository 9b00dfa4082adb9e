-------------------------- MODULE DaemonLockProofs --------------------------
(***************************************************************************)
(* Proofs about DaemonLock for any set of processes, each of which may     *)
(* lock the file as often as it likes.  A process loses the record lock    *)
(* with any descriptor of the file; the history variable lapsed says that  *)
(* it did so, and the invariant that it loses the lock in no other way.    *)
(***************************************************************************)
EXTENDS DaemonLock, TLAPS

\* A process has the lock for a reason: the call that took it is writing the
\* file, or the process has a descriptor that keeps it.
HeldForAReason ==
    \A p \in Procs : owner = p => pc[p] \in {"truncate", "write"} \/ fds[p] > 0

\* The lock is held from fcntl() to the first close of a descriptor: while the
\* file is being written, and as long as a process keeps all it was given.
LockHeld ==
    \A p \in Procs :
        /\ pc[p] \in {"truncate", "write"} => owner = p
        /\ fds[p] > 0 /\ ~lapsed[p] =>
            /\ owner = p
            /\ pc[p] \in {"idle", "setlk", "truncate", "write"}
            /\ pc[p] \in {"idle", "setlk"} => pidfile = p

\* No call is refused more often than its block_seconds allow.
Refusals ==
    \A p \in Procs :
        /\ tries[p] <= block[p] + 1
        /\ pc[p] \in {"setlk", "sleep"} => tries[p] <= block[p]

\* A process that is in a call may have one descriptor more.
RoomLeft == \A p \in Procs : pc[p] # "idle" => fds[p] < MaxFds

\* What does not need the lock to be held, and the whole invariant.
CallInv == TypeOK /\ HeldForAReason /\ Refusals /\ RoomLeft
IInv == CallInv /\ LockHeld

\* The initial states satisfy the invariant.
LEMMA InitIInv == Init => IInv
  BY DaemonLockAssumption
  DEF Init, IInv, CallInv, TypeOK, LockHeld, HeldForAReason, Refusals, RoomLeft

\* Every step preserves its first part.
LEMMA StepCallInv == CallInv /\ [Next]_vars => CallInv'
<1> SUFFICES ASSUME CallInv, [Next]_vars PROVE CallInv'
  OBVIOUS
<1> USE DaemonLockAssumption
    DEF CallInv, TypeOK, HeldForAReason, Refusals, RoomLeft, Calling, Goto, Close, Take, Keep
<1>1. ASSUME NEW p \in Procs, NEW f \in {"acquire", "lock_pid"}, NEW b \in 0..MaxBlock, Call(p, f, b)
      PROVE  CallInv'
  BY <1>1 DEF Call
<1>2. ASSUME NEW p \in Procs, SetLock(p) PROVE CallInv'
  <2>1. CASE Free(p) /\ Take(p) /\ Goto(p, "truncate") /\ UNCHANGED tries
    BY <1>2, <2>1 DEF SetLock, Free
  <2>2. CASE /\ ~Free(p) /\ tries[p] >= block[p]
             /\ tries' = [tries EXCEPT ![p] = @ + 1]
             /\ GiveUp(p)
    BY <1>2, <2>2 DEF SetLock, Free, GiveUp
  <2>3. CASE /\ ~Free(p) /\ tries[p] < block[p]
             /\ tries' = [tries EXCEPT ![p] = @ + 1]
             /\ Goto(p, "sleep")
             /\ Keep
    BY <1>2, <2>3 DEF SetLock, Free
  <2>4. CASE Failing /\ Close(p, fds[p]) /\ Goto(p, "idle") /\ UNCHANGED tries
    BY <1>2, <2>4 DEF SetLock
  <2> QED
    BY <1>2, <2>1, <2>2, <2>3, <2>4 DEF SetLock
<1>3. ASSUME NEW p \in Procs, Sleep(p) PROVE CallInv'
  BY <1>3 DEF Sleep
<1>4. ASSUME NEW p \in Procs, Truncate(p) PROVE CallInv'
  <2>1. CASE pidfile' = NoProc /\ Goto(p, "write") /\ Keep
    BY <1>4, <2>1 DEF Truncate
  <2>2. CASE Failing /\ Close(p, fds[p]) /\ Goto(p, "idle") /\ UNCHANGED pidfile
    BY <1>4, <2>2 DEF Truncate
  <2> QED
    BY <1>4, <2>1, <2>2 DEF Truncate
<1>5. ASSUME NEW p \in Procs, WritePid(p) PROVE CallInv'
  <2>1. CASE pidfile' = p /\ fds' = [fds EXCEPT ![p] = @ + 1] /\ Keep
    <3>1. fds[p] + 1 \in 0..MaxFds
      BY <1>5 DEF WritePid
    <3> QED
      BY <1>5, <2>1, <3>1 DEF WritePid
  <2>2. CASE Failing /\ pidfile' \in Procs \cup {NoProc} /\ Close(p, fds[p]) /\ UNCHANGED fds
    BY <1>5, <2>2 DEF WritePid
  <2> QED
    BY <1>5, <2>1, <2>2 DEF WritePid
<1>6. ASSUME NEW p \in Procs, ReadPid(p) PROVE CallInv'
  <2>1. CASE told' = [told EXCEPT ![p] = pidfile] /\ Close(p, fds[p])
    BY <1>6, <2>1 DEF ReadPid
  <2>2. CASE told' = [told EXCEPT ![p] = NoProc] /\ Keep
    BY <1>6, <2>2 DEF ReadPid
  <2> QED
    BY <1>6, <2>1, <2>2 DEF ReadPid
<1>7. ASSUME NEW p \in Procs, daemon_release_lock(p) PROVE CallInv'
  BY <1>7 DEF daemon_release_lock
<1>8. ASSUME NEW p \in Procs, Exit(p) PROVE CallInv'
  BY <1>8 DEF Exit
<1>9. CASE UNCHANGED vars
  BY <1>9 DEF vars
<1> HIDE DEF CallInv
<1> QED
  BY <1>1, <1>2, <1>3, <1>4, <1>5, <1>6, <1>7, <1>8, <1>9 DEF Next, Working

\* Every step preserves the second.
LEMMA StepLockHeld == IInv /\ [Next]_vars => LockHeld'
<1> SUFFICES ASSUME IInv, [Next]_vars PROVE LockHeld'
  OBVIOUS
<1> USE DaemonLockAssumption
    DEF IInv, CallInv, TypeOK, LockHeld, RoomLeft, Calling, Goto, Close, Take, Keep
<1>1. ASSUME NEW p \in Procs, NEW f \in {"acquire", "lock_pid"}, NEW b \in 0..MaxBlock, Call(p, f, b)
      PROVE  LockHeld'
  BY <1>1 DEF Call
<1>2. ASSUME NEW p \in Procs, SetLock(p) PROVE LockHeld'
  <2>1. CASE Free(p) /\ Take(p) /\ Goto(p, "truncate") /\ UNCHANGED tries
    BY <1>2, <2>1 DEF SetLock, Free
  <2>2. CASE /\ ~Free(p) /\ tries[p] >= block[p]
             /\ tries' = [tries EXCEPT ![p] = @ + 1]
             /\ GiveUp(p)
    BY <1>2, <2>2 DEF SetLock, Free, GiveUp
  <2>3. CASE /\ ~Free(p) /\ tries[p] < block[p]
             /\ tries' = [tries EXCEPT ![p] = @ + 1]
             /\ Goto(p, "sleep")
             /\ Keep
    BY <1>2, <2>3 DEF SetLock, Free
  <2>4. CASE Failing /\ Close(p, fds[p]) /\ Goto(p, "idle") /\ UNCHANGED tries
    BY <1>2, <2>4 DEF SetLock
  <2> QED
    BY <1>2, <2>1, <2>2, <2>3, <2>4 DEF SetLock
<1>3. ASSUME NEW p \in Procs, Sleep(p) PROVE LockHeld'
  BY <1>3 DEF Sleep
<1>4. ASSUME NEW p \in Procs, Truncate(p) PROVE LockHeld'
  BY <1>4 DEF Truncate
<1>5. ASSUME NEW p \in Procs, WritePid(p) PROVE LockHeld'
  <2>1. CASE pidfile' = p /\ fds' = [fds EXCEPT ![p] = @ + 1] /\ Keep
    <3>1. fds[p] + 1 \in 0..MaxFds
      BY <1>5 DEF WritePid
    <3> QED
      BY <1>5, <2>1, <3>1 DEF WritePid
  <2>2. CASE Failing /\ pidfile' \in Procs \cup {NoProc} /\ Close(p, fds[p]) /\ UNCHANGED fds
    BY <1>5, <2>2 DEF WritePid
  <2> QED
    BY <1>5, <2>1, <2>2 DEF WritePid
<1>6. ASSUME NEW p \in Procs, ReadPid(p) PROVE LockHeld'
  BY <1>6 DEF ReadPid
<1>7. ASSUME NEW p \in Procs, daemon_release_lock(p) PROVE LockHeld'
  BY <1>7 DEF daemon_release_lock
<1>8. ASSUME NEW p \in Procs, Exit(p) PROVE LockHeld'
  BY <1>8 DEF Exit
<1>9. CASE UNCHANGED vars
  BY <1>9 DEF vars
<1> HIDE DEF LockHeld
<1> QED
  BY <1>1, <1>2, <1>3, <1>4, <1>5, <1>6, <1>7, <1>8, <1>9 DEF Next, Working

\* The invariant holds throughout.
LEMMA AlwaysCallInv == Spec => []CallInv
<1>1. Init => CallInv
  BY InitIInv DEF IInv
<1> QED
  BY <1>1, StepCallInv, PTL DEF Spec

\* The invariant of the locks holds throughout.
LEMMA AlwaysIInv == Spec => []IInv
<1>1. IInv /\ [Next]_vars => IInv'
  BY StepCallInv, StepLockHeld DEF IInv
<1> QED
  BY <1>1, InitIInv, PTL DEF Spec

\* Types, however often a process locks the file.
THEOREM TypeCorrect == Spec => []TypeOK
<1>1. CallInv => TypeOK
  BY DEF CallInv
<1> QED
  BY <1>1, AlwaysCallInv, PTL

\* A call that failed leaves nothing locked, however many system calls of it
\* failed and however often the process locks the file: a process that is in
\* no call and has the lock has a descriptor with which to release it.
THEOREM FailureReleases == Spec => []NothingLeft
<1>1. CallInv => NothingLeft
  BY DEF CallInv, HeldForAReason, NothingLeft
<1> QED
  BY <1>1, AlwaysCallInv, PTL

\* daemon_acquire_lock() does not wait longer than it was told to.
THEOREM WaitIsBounded == Spec => []WaitsNoLonger
<1>1. CallInv => WaitsNoLonger
  BY DEF CallInv, Refusals, WaitsNoLonger
<1> QED
  BY <1>1, AlwaysCallInv, PTL

\* A daemon that locks its pid file runs once, unless one of two that run has
\* closed a descriptor of the file while it kept another.
THEOREM RunsOnce == Spec => []OnlyOne
<1>1. IInv => OnlyOne
  BY DEF IInv, LockHeld, OnlyOne
<1> QED
  BY <1>1, AlwaysIInv, PTL

\* While it runs and has its lock the pid file names it.
THEOREM DaemonIsNamed == Spec => []PidfileNames
<1>1. IInv => PidfileNames
  BY DEF IInv, LockHeld, PidfileNames
<1> QED
  BY <1>1, AlwaysIInv, PTL
=============================================================================
