------------------------------ MODULE UsbOpen ------------------------------
(***************************************************************************)
(* open_usb_dev() and close_usb_dev(), as usb_io_util.c has them for       *)
(* usbdevfs and usbutil.c for libusb: the index-th Topfield is looked for  *)
(* on all busses, opened, and made ready in steps each of which may fail.  *)
(*                                                                         *)
(* A bus is the sequence of its devices, TRUE for a Topfield; a device is  *)
(* named by the numbers of its bus and of its place there.                 *)
(***************************************************************************)
EXTENDS Integers, Sequences, FiniteSets, SequencesExt

CONSTANTS
    Topologies, \* sequences of busses that may be connected
    Indices,    \* values of index
    Kernels     \* "2.4", "2.6.0" (up to 2.6.10) or "2.6.11" (and later)

ASSUME UsbOpenAssumption ==
    /\ Topologies \subseteq Seq(Seq(BOOLEAN))
    /\ Indices \subseteq Nat
    /\ Kernels \subseteq {"2.4", "2.6.0", "2.6.11"}

VARIABLES
    build,      \* "usbdevfs" or "libusb"
    kernel,
    step,       \* "closed", "found", "fd", "reset", "claimed" or "opened"
    topology,   \* what is connected
    index,      \* what the last call asked for, -1 before the first
    target,     \* bus and device that were found
    fds         \* history: descriptors that are open, and which device each is of

openVars == <<build, kernel, step, topology, index, target, fds>>

Nowhere == <<0, 0>>

OpenInit ==
    /\ build \in {"usbdevfs", "libusb"} /\ kernel \in Kernels
    /\ topology \in Topologies
    /\ step = "closed" /\ index = -1 /\ target = Nowhere /\ fds = {}

-----------------------------------------------------------------------------
(* The search.                                                             *)

\* at is where the search is, count how many Topfields it has seen, and found
\* that the last of them is the one.
Nothing == [at |-> Nowhere, count |-> 0, found |-> FALSE]

\* if (count++ == index)
Count(s, i) == [s EXCEPT !.count = @ + 1, !.found = (s.count = i)]

\* /proc/bus/usb/devices has a T line (where) and a P line (what) per device.
ScanT(s, at) == IF s.found THEN s ELSE [s EXCEPT !.at = at]
ScanP(s, is, i) == IF s.found \/ ~is THEN s ELSE Count(s, i)

FileBus(s, t, b, i) == FoldLeftDomain(LAMBDA r, d : ScanP(ScanT(r, <<b, d>>), t[b][d], i), s, t[b])

ScanFile(t, i) == FoldLeftDomain(LAMBDA s, b : FileBus(s, t, b, i), Nothing, t)

\* libusb has lists; the loop over the devices of a bus ends at the one that is
\* found, and so does the loop over the busses.
ScanDevice(s, at, is, i) ==
    IF s.found THEN s
    ELSE LET next == [s EXCEPT !.at = at]
         IN  IF is THEN Count(next, i) ELSE next

ScanBus(s, t, b, i) ==
    IF s.found THEN s
    ELSE FoldLeftDomain(LAMBDA r, d : ScanDevice(r, <<b, d>>, t[b][d], i), s, t[b])

ScanLists(t, i) == FoldLeftDomain(LAMBDA s, b : ScanBus(s, t, b, i), Nothing, t)

Search(t, i) == IF build = "usbdevfs" THEN ScanFile(t, i) ELSE ScanLists(t, i)

-----------------------------------------------------------------------------
(* The steps of a call.  Every one of them may fail.                       *)

Find ==
    /\ step = "closed"
    /\ \E i \in Indices :
        LET s == Search(topology, i)
        IN  /\ index' = i
            /\ target' = IF s.found THEN s.at ELSE Nowhere
            /\ step' = IF s.found THEN "found" ELSE "closed"
    /\ UNCHANGED <<build, kernel, topology, fds>>

\* The descriptor is closed and the call returns 0.
GiveUp == step' = "closed" /\ fds' = fds \ {target}

OpenDevice ==
    /\ step = "found"
    /\ \/ step' = "fd" /\ fds' = fds \cup {target}
       \/ step' = "closed" /\ UNCHANGED fds
    /\ UNCHANGED <<build, kernel, topology, index, target>>

\* Linux 2.4 carries on when it cannot reset.
ResetDevice ==
    /\ step = "fd" /\ build = "usbdevfs"
    /\ \/ step' = "reset" /\ UNCHANGED fds
       \/ kernel # "2.4" /\ GiveUp
    /\ UNCHANGED <<build, kernel, topology, index, target>>

\* Mutant of Claim: the descriptor stays open when the claim fails.
ClaimForgets ==
    /\ step = IF build = "usbdevfs" THEN "reset" ELSE "fd"
    /\ step' \in {IF build = "usbdevfs" THEN "claimed" ELSE "opened", "closed"}
    /\ UNCHANGED <<build, kernel, topology, index, target, fds>>

Claim ==
    /\ step = IF build = "usbdevfs" THEN "reset" ELSE "fd"
    /\ \/ step' = (IF build = "usbdevfs" THEN "claimed" ELSE "opened") /\ UNCHANGED fds
       \/ GiveUp
    /\ UNCHANGED <<build, kernel, topology, index, target>>

SetInterface ==
    /\ step = "claimed"
    /\ \/ step' = "opened" /\ UNCHANGED fds
       \/ GiveUp
    /\ UNCHANGED <<build, kernel, topology, index, target>>

\* With libusb on 2.6.0 to 2.6.10 the handle is reset, but not closed.
Leaks == build = "libusb" /\ kernel = "2.6.0"

close_usb_dev ==
    /\ step = "opened"
    /\ step' = "closed"
    /\ fds' = IF Leaks THEN fds ELSE fds \ {target}
    /\ UNCHANGED <<build, kernel, topology, index, target>>

OpenNext == Find \/ OpenDevice \/ ResetDevice \/ Claim \/ SetInterface \/ close_usb_dev

OpenSpec == OpenInit /\ [][OpenNext]_openVars

-----------------------------------------------------------------------------
Topfields(t) == {p \in UNION {{b} \X (DOMAIN t[b]) : b \in DOMAIN t} : t[p[1]][p[2]]}
Before(p, q) == p[1] < q[1] \/ (p[1] = q[1] /\ p[2] < q[2])

\* The device that index names, counting from 0 over all busses, or nowhere if
\* there are not so many.
IsNth(p) ==
    LET found == Topfields(topology)
    IN  IF p = Nowhere THEN Cardinality(found) <= index
        ELSE p \in found /\ Cardinality({q \in found : Before(q, p)}) = index

\* A call gives a handle of the device that index names, or, wherever it fails,
\* leaves no descriptor open, and a handle that was closed leaves none either,
\* but for Leaks (usb_io_util.c:56-121, usbutil.c:46-117).
HandleOrNothing ==
    /\ index >= 0 => IsNth(target)
    /\ step = "opened" => target # Nowhere /\ target \in fds
    /\ ~Leaks => fds \subseteq (IF step \in {"closed", "found"} THEN {} ELSE {target})
=============================================================================
