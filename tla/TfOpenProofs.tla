---------------------------- MODULE TfOpenProofs ----------------------------
(***************************************************************************)
(* Proofs about TfOpen, for any set of processes: the invariant IInv is    *)
(* inductive, and every safety property of the component follows from it.  *)
(***************************************************************************)
EXTENDS TfOpen, TLAPS

\* A locked process holds the lock from its flock() to the close of lock_fd,
\* and nobody else ever holds it.
HoldersOwn == \A p \in Procs : Locked(p) /\ pc[p] \in Holding => owner = p
OwnerHolds == \A p \in Procs : owner = p => alive[p] /\ pc[p] \in Holding /\ Locked(p)

\* TF_LOCK_NONE goes straight to the device.
LockersOnly == \A p \in Procs : pc[p] \in {"lock", "write", "read", "kill", "sleep"} => Locked(p)

\* A USB handle is used only between the two ends of an open handle.
UsbIsOpen == \A p \in usb : pc[p] = "open"

\* The parameter still says TF_LOCK_HUP only as long as no SIGHUP was sent.
HupPending == \A p \in Procs :
    /\ lock[p] = "HUP" \/ pc[p] = "kill" => hups[p] = 0
    /\ pc[p] = "read" => lock[p] = "HUP"
    /\ pc[p] = "kill" => lock[p] # "HUP"
    /\ hups[p] <= 1

IInv ==
    /\ TypeOK /\ HoldersOwn /\ OwnerHolds /\ LockersOnly
    /\ UsbIsOpen /\ HupPending /\ HolderIsNamed

\* The initial states satisfy the invariant.
LEMMA InitIInv == Init => IInv
  BY TfOpenAssumption DEF Init, IInv, TypeOK, HoldersOwn, OwnerHolds, LockersOnly, UsbIsOpen, HupPending,
       HolderIsNamed, PCs, Opening, Locks, Holding, Locked

\* Every step of a process preserves the invariant.
LEMMA StepIInv == IInv /\ [Next]_vars => IInv'
<1> SUFFICES ASSUME IInv, [Next]_vars PROVE IInv'
  OBVIOUS
<1> USE TfOpenAssumption
<1> USE DEF IInv, TypeOK, HoldersOwn, OwnerHolds, LockersOnly, UsbIsOpen, HupPending, HolderIsNamed,
            PCs, Opening, Locks, Holding, Locked, At, Goto, Return, Release, Forget
<1>1. ASSUME NEW p \in Procs, NEW l \in Locks, Open(p, l) PROVE IInv'
  BY <1>1 DEF Open
<1>2. ASSUME NEW p \in Procs, Lock(p) PROVE IInv'
  <2>1. TypeOK'
    BY <1>2 DEF Lock
  <2>2. HoldersOwn'
    BY <1>2 DEF Lock
  <2>3. OwnerHolds'
    BY <1>2 DEF Lock
  <2>4. UsbIsOpen'
    BY <1>2 DEF Lock
  <2>5. HupPending'
    BY <1>2 DEF Lock
  <2>6. HolderIsNamed'
    BY <1>2 DEF Lock
  <2>7. LockersOnly'
    BY <1>2 DEF Lock
  <2> QED
    BY <2>1, <2>2, <2>3, <2>4, <2>5, <2>6, <2>7
<1>3. ASSUME NEW p \in Procs, WritePid(p) PROVE IInv'
  <2>1. TypeOK'
    BY <1>3 DEF WritePid
  <2>2. HoldersOwn'
    BY <1>3 DEF WritePid
  <2>3. OwnerHolds'
    BY <1>3 DEF WritePid
  <2>4. UsbIsOpen'
    BY <1>3 DEF WritePid
  <2>5. HupPending'
    BY <1>3 DEF WritePid
  <2>6. HolderIsNamed'
    BY <1>3 DEF WritePid
  <2>7. LockersOnly'
    BY <1>3 DEF WritePid
  <2> QED
    BY <2>1, <2>2, <2>3, <2>4, <2>5, <2>6, <2>7
<1>4. ASSUME NEW p \in Procs, ReadPid(p) PROVE IInv'
  BY <1>4 DEF ReadPid
<1>5. ASSUME NEW p \in Procs, Kill(p) PROVE IInv'
  <2>1. TypeOK'
    BY <1>5 DEF Kill
  <2>2. HoldersOwn'
    BY <1>5 DEF Kill
  <2>3. OwnerHolds'
    BY <1>5 DEF Kill
  <2>4. UsbIsOpen'
    BY <1>5 DEF Kill
  <2>5. HupPending'
    BY <1>5 DEF Kill
  <2>6. HolderIsNamed'
    BY <1>5 DEF Kill
  <2>7. LockersOnly'
    BY <1>5 DEF Kill
  <2> QED
    BY <2>1, <2>2, <2>3, <2>4, <2>5, <2>6, <2>7
<1>6. ASSUME NEW p \in Procs, Sleep(p) PROVE IInv'
  BY <1>6 DEF Sleep
<1>7. ASSUME NEW p \in Procs, OpenUsb(p) PROVE IInv'
  BY <1>7 DEF OpenUsb
<1>8. ASSUME NEW p \in Procs, Unlock(p) PROVE IInv'
  BY <1>8 DEF Unlock
<1>9. ASSUME NEW p \in Procs, CloseUsb(p) PROVE IInv'
  BY <1>9 DEF CloseUsb
<1>10. ASSUME NEW p \in Procs, CloseLock(p) PROVE IInv'
  BY <1>10 DEF CloseLock
<1>11. ASSUME NEW p \in Procs, Die(p) PROVE IInv'
  BY <1>11 DEF Die
<1>12. ASSUME NEW p \in Procs, Start(p) PROVE IInv'
  BY <1>12 DEF Start, local
<1>13. CASE UNCHANGED vars
  BY <1>13 DEF vars, local
<1> QED
  BY <1>1, <1>2, <1>3, <1>4, <1>5, <1>6, <1>7, <1>8, <1>9, <1>10, <1>11, <1>12, <1>13
     DEF Next, Step, OpenStep

\* The invariant holds throughout.
LEMMA AlwaysIInv == Spec => []IInv
  BY InitIInv, StepIInv, PTL DEF Spec

\* topfield_open() and topfield_close() never let two processes that use the
\* lock drive the device at a time, whatever else dies, is killed or restarts.
THEOREM ExclusiveAccess == Spec => []Exclusive
<1>1. IInv => Exclusive
  BY DEF IInv, HoldersOwn, UsbIsOpen, Exclusive, Holding, TypeOK
<1> QED
  BY <1>1, AlwaysIInv, PTL

\* On every path out of topfield_open() and topfield_close() the lock is
\* given up.
THEOREM LockIsFreed == Spec => []LockFreed
<1>1. IInv => LockFreed
  BY DEF IInv, OwnerHolds, LockFreed
<1> QED
  BY <1>1, AlwaysIInv, PTL

\* If the pid can be written, the lock file names the holder as soon as the
\* holder has written it: pids left behind by others do not matter then.
THEOREM HolderNamed == Spec => []HolderIsNamed
<1>1. IInv => HolderIsNamed
  BY DEF IInv
<1> QED
  BY <1>1, AlwaysIInv, PTL

\* A call of topfield_open() sends at most one SIGHUP.
THEOREM AtMostOneHup == Spec => []OneHup
<1>1. IInv => OneHup
  BY DEF IInv, HupPending, OneHup
<1> QED
  BY <1>1, AlwaysIInv, PTL
=============================================================================
