------------------------------- MODULE TfOpen -------------------------------
(***************************************************************************)
(* tf_open.c: processes that open and close the device of one index, with  *)
(* the lock file /tmp/puppy between them.                                  *)
(*                                                                         *)
(* One action is one system call of topfield_open() or topfield_close()    *)
(* together with the code that acts on its result; pc[p] names the next    *)
(* one.  The kernel's part is owner, who holds the flock(), which a close  *)
(* or the end of the process gives up.  A process is known by its pid, and *)
(* pids are used again: Start(p) may be a program of any kind.             *)
(***************************************************************************)
EXTENDS Integers

CONSTANTS
    Procs,          \* process ids
    NoProc,         \* no process; an empty lock file
    Unprivileged,   \* processes that may find the lock file closed to them
    DiskFull        \* processes whose write of the pid may fail, which nobody checks

ASSUME TfOpenAssumption ==
    /\ NoProc \notin Procs
    /\ Unprivileged \subseteq Procs
    /\ DiskFull \subseteq Procs

VARIABLES
    alive,      \* is there such a process
    owner,      \* who holds the flock() on the lock file
    pidfile,    \* the pid that the lock file names
    usb,        \* the processes with an open USB handle
    pc,         \* the next step of topfield_open or topfield_close
    lock,       \* the parameter 'lock'
    target,     \* the pid read from the lock file
    result,     \* what the last topfield_open returned
    hups        \* history: SIGHUPs sent by the call in progress

local == <<pc, lock, target, result, hups>>
vars == <<alive, owner, pidfile, usb, local>>

Opening == {"lock", "write", "read", "kill", "sleep", "device", "unlock"}
PCs == {"idle", "open", "closing"} \cup Opening
Locks == {"STD", "NONE", "HUP"}

TypeOK ==
    /\ alive \in [Procs -> BOOLEAN]
    /\ owner \in Procs \cup {NoProc}
    /\ pidfile \in Procs \cup {NoProc}
    /\ usb \subseteq Procs
    /\ pc \in [Procs -> PCs]
    /\ lock \in [Procs -> Locks]
    /\ target \in [Procs -> Procs \cup {NoProc}]
    /\ result \in [Procs -> {0, 1, -1}]
    /\ hups \in [Procs -> Nat]

Init ==
    /\ alive = [p \in Procs |-> TRUE]
    /\ owner = NoProc /\ pidfile = NoProc /\ usb = {}
    /\ pc = [p \in Procs |-> "idle"]
    /\ lock = [p \in Procs |-> "STD"]
    /\ target = [p \in Procs |-> NoProc]
    /\ result = [p \in Procs |-> 0]
    /\ hups = [p \in Procs |-> 0]

-----------------------------------------------------------------------------
At(p, l) == alive[p] /\ pc[p] = l
Goto(p, l) == pc' = [pc EXCEPT ![p] = l] /\ UNCHANGED result
Return(p, v) == pc' = [pc EXCEPT ![p] = "idle"] /\ result' = [result EXCEPT ![p] = v]
Forget(p) == target' = [target EXCEPT ![p] = NoProc]
Release(p) == owner' = IF owner = p THEN NoProc ELSE owner

Open(p, l) ==
    /\ At(p, "idle")
    /\ pc' = [pc EXCEPT ![p] = IF l = "NONE" THEN "device" ELSE "lock"]
    /\ result' = [result EXCEPT ![p] = 0]
    /\ lock' = [lock EXCEPT ![p] = l]
    /\ hups' = [hups EXCEPT ![p] = 0]
    /\ UNCHANGED <<alive, owner, pidfile, usb, target>>

\* Mutant of Lock: the pid goes into the file before the lock is held.
LockAfterWrite(p) ==
    /\ At(p, "lock")
    /\ pidfile' = p
    /\ IF owner = NoProc
       THEN owner' = p /\ Goto(p, "device")
       ELSE UNCHANGED owner /\ Return(p, 1)
    /\ UNCHANGED <<alive, usb, lock, target, hups>>

\* Mutant of Lock: flock() is called without LOCK_NB.
LockBlocks(p) ==
    /\ At(p, "lock")
    /\ \/ /\ owner = NoProc
          /\ owner' = p
          /\ Goto(p, "write")
       \/ /\ p \in Unprivileged
          /\ IF lock[p] = "HUP" THEN Goto(p, "read") ELSE Return(p, 1)
          /\ UNCHANGED owner
    /\ UNCHANGED <<alive, pidfile, usb, lock, target, hups>>

\* open() and flock(LOCK_NB): "Already locked, or we don't have enough privs".
Lock(p) ==
    /\ At(p, "lock")
    /\ \/ /\ owner = NoProc
          /\ owner' = p
          /\ Goto(p, "write")
       \/ /\ owner # NoProc \/ p \in Unprivileged
          /\ IF lock[p] = "HUP" THEN Goto(p, "read") ELSE Return(p, 1)
          /\ UNCHANGED owner
    /\ UNCHANGED <<alive, pidfile, usb, lock, target, hups>>

WritePid(p) ==
    /\ At(p, "write")
    /\ pidfile' = p \/ (p \in DiskFull /\ UNCHANGED pidfile)
    /\ Goto(p, "device")
    /\ UNCHANGED <<alive, owner, usb, lock, target, hups>>

\* Mutant of ReadPid: lock is not set to TF_LOCK_STD.
ReadPidAgain(p) ==
    /\ At(p, "read")
    /\ \/ /\ pidfile # NoProc
          /\ target' = [target EXCEPT ![p] = pidfile]
          /\ Goto(p, "kill")
       \/ /\ pidfile = NoProc \/ p \in Unprivileged
          /\ Forget(p)
          /\ Return(p, 1)
    /\ UNCHANGED <<alive, owner, pidfile, usb, lock, hups>>

\* "Already locked, so find pid", and "Don't try more than once".
ReadPid(p) ==
    /\ At(p, "read")
    /\ lock' = [lock EXCEPT ![p] = "STD"]
    /\ \/ /\ pidfile # NoProc
          /\ target' = [target EXCEPT ![p] = pidfile]
          /\ Goto(p, "kill")
       \/ /\ pidfile = NoProc \/ p \in Unprivileged
          /\ Forget(p)
          /\ Return(p, 1)
    /\ UNCHANGED <<alive, owner, pidfile, usb, hups>>

\* kill() succeeds when there is a process of that pid, whatever it is, unless
\* that is another user's.
Kill(p) ==
    /\ At(p, "kill")
    /\ \/ /\ alive[target[p]]
          /\ Goto(p, "sleep")
          /\ hups' = [hups EXCEPT ![p] = @ + 1]
       \/ Return(p, 1) /\ UNCHANGED hups
    /\ Forget(p)
    /\ UNCHANGED <<alive, owner, pidfile, usb, lock>>

Sleep(p) ==
    /\ At(p, "sleep")
    /\ Goto(p, "lock")
    /\ UNCHANGED <<alive, owner, pidfile, usb, lock, target, hups>>

\* Mutant of OpenUsb: the lock is kept when there is no device.
OpenUsbKeepsLock(p) ==
    /\ At(p, "device")
    /\ \/ /\ pc' = [pc EXCEPT ![p] = "open"]
          /\ result' = [result EXCEPT ![p] = 0]
          /\ usb' = usb \cup {p}
       \/ Return(p, -1) /\ UNCHANGED usb
    /\ UNCHANGED <<alive, owner, pidfile, lock, target, hups>>

\* open_usb_dev() finds the device or does not.
OpenUsb(p) ==
    /\ At(p, "device")
    /\ \/ /\ pc' = [pc EXCEPT ![p] = "open"]
          /\ result' = [result EXCEPT ![p] = 0]
          /\ usb' = usb \cup {p}
       \/ Goto(p, "unlock") /\ UNCHANGED usb
    /\ UNCHANGED <<alive, owner, pidfile, lock, target, hups>>

Unlock(p) ==
    /\ At(p, "unlock")
    /\ Release(p)
    /\ Return(p, -1)
    /\ UNCHANGED <<alive, pidfile, usb, lock, target, hups>>

\* Mutant of CloseUsb: the lock is closed before the device.
CloseLockFirst(p) ==
    /\ At(p, "open")
    /\ Release(p)
    /\ Goto(p, "closing")
    /\ UNCHANGED <<alive, pidfile, usb, lock, target, hups>>

\* topfield_close(): first the device, then the lock.
CloseUsb(p) ==
    /\ At(p, "open")
    /\ usb' = usb \ {p}
    /\ Goto(p, "closing")
    /\ UNCHANGED <<alive, owner, pidfile, lock, target, hups>>

CloseLock(p) ==
    /\ At(p, "closing")
    /\ Release(p)
    /\ Goto(p, "idle")
    /\ UNCHANGED <<alive, pidfile, usb, lock, target, hups>>

\* A process ends, of a SIGHUP or for any other reason; the kernel closes
\* what it had open.
Die(p) ==
    /\ alive[p]
    /\ alive' = [alive EXCEPT ![p] = FALSE]
    /\ usb' = usb \ {p}
    /\ Release(p)
    /\ Return(p, 0)
    /\ Forget(p)
    /\ lock' = [lock EXCEPT ![p] = "STD"]
    /\ hups' = [hups EXCEPT ![p] = 0]
    /\ UNCHANGED pidfile

Start(p) ==
    /\ ~alive[p]
    /\ alive' = [alive EXCEPT ![p] = TRUE]
    /\ UNCHANGED <<owner, pidfile, usb, local>>

OpenStep(p) ==
    \/ Lock(p) \/ WritePid(p) \/ ReadPid(p) \/ Kill(p) \/ Sleep(p)
    \/ OpenUsb(p) \/ Unlock(p)

Step(p) ==
    \/ \E l \in Locks : Open(p, l)
    \/ OpenStep(p)
    \/ CloseUsb(p) \/ CloseLock(p)
    \/ Die(p) \/ Start(p)

Next == \E p \in Procs : Step(p)

Spec == Init /\ [][Next]_vars

\* A process that is in topfield_open() goes on: no call in it blocks for
\* ever, not even flock(), which is called with LOCK_NB.
FairSpec == Spec /\ \A p \in Procs : WF_vars(OpenStep(p))

-----------------------------------------------------------------------------
Locked(p) == lock[p] # "NONE"
Holding == {"write", "device", "unlock", "open", "closing"}

\* The lock is there so that no two processes drive the device at a time,
\* which ends in "USB bus stalls" (tf_open.c:64-66): not even one resetting it
\* in open_usb_dev() while another is still using or closing it.
Exclusive ==
    \A p, q \in Procs :
        /\ Locked(p) /\ (pc[p] = "device" \/ p \in usb)
        /\ Locked(q) /\ (pc[q] = "device" \/ q \in usb)
        => p = q

\* A process that has no handle has no lock either, however it lost the
\* handle: an open that failed at any point, a close, or its own end.
LockFreed == \A p \in Procs : owner = p => alive[p] /\ pc[p] \in Holding

\* Who holds the lock and has got past writing its pid can be found through
\* the lock file by whoever wants to kick it off.
HolderIsNamed ==
    \A p \in Procs \ DiskFull :
        owner = p /\ pc[p] \in Holding \ {"write"} => pidfile = p

\* "Don't try more than once" (tf_open.c:92).
OneHup == \A p \in Procs : hups[p] <= 1

\* The process sent a SIGHUP is the one for which "Topfield is in use, trying
\* to kick off pid" (tf_open.c:110): while somebody holds the lock, it is the
\* holder.
HupHitsHolder ==
    [][\A p \in Procs : hups'[p] > hups[p] => owner \in {NoProc, target[p]}]_vars

\* topfield_open() returns, whatever the other processes do.
OpenReturns == \A p \in Procs : pc[p] \in Opening ~> pc[p] \notin Opening
=============================================================================
