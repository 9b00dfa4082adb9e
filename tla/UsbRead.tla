------------------------------ MODULE UsbRead ------------------------------
(***************************************************************************)
(* How a reply gets from the USB pipe to the command layer:                *)
(* usb_bulk_read(), which reads it in pieces that the kernel can give, and *)
(* the length checks of the two tf_get_response() functions.               *)
(*                                                                         *)
(* Only sizes matter here.  A packet has len, the number in its header,    *)
(* and wire, the bytes that the device really sends; left is what of it is *)
(* still in the pipe.  The number counts the whole packet in the protocol  *)
(* of tf_io.c but only the data in that of tf_fwio.c, and both functions   *)
(* compare it with all the bytes they have read (FullLength).              *)
(*                                                                         *)
(* One ioctl ends when it has all that it asked for or when the packet     *)
(* ends, and never crosses from one packet to the next; the loop around it *)
(* may.                                                                    *)
(***************************************************************************)
EXTENDS Integers, Sequences

CONSTANTS
    MaxRead,    \* MAX_READ: 16384, or 4096 before Linux 2.6
    Size,       \* sizeof(*reply): 65536 in tf_io.c, 32777 in tf_fwio.c
    Wires,      \* lengths of packets on the wire
    Lens,       \* lengths in headers
    MaxQueued   \* packets in the pipe: one in lockstep, more with late answers

ASSUME UsbReadAssumption ==
    /\ MaxRead \in Nat \ {0} /\ MaxRead % 2 = 0
    /\ Size \in Nat \ {0}
    /\ Wires \subseteq 1..Size
    /\ Lens \subseteq Nat
    /\ MaxQueued \in Nat

PACKET_HEAD_SIZE == 8

VARIABLES
    reader,     \* whose tf_get_response() it is, "tf_io" or "tf_fwio"
    at,         \* "idle", "ioctl" (before the next one) or "check"
    queue,      \* packets of which something is in the pipe
    retrieved,  \* bytes that usb_bulk_read() has so far
    result,     \* what tf_get_response() returned: 0, or -1 for any error
    first,      \* history: the packet at which the read began, as it was then
    began,      \* history: packets of which this read took something
    gaveUp      \* history: an ioctl of this read has found nothing, or failed

readVars == <<reader, at, queue, retrieved, result, first, began, gaveUp>>

Packets == [wire: Wires, len: Lens, left: 1..Size]
NoPacket == [wire |-> 0, len |-> 0, left |-> 0]

ReadTypeOK ==
    /\ reader \in {"tf_io", "tf_fwio"}
    /\ at \in {"idle", "ioctl", "check"}
    /\ queue \in Seq(Packets)
    /\ retrieved \in 0..Size
    /\ result \in {0, -1}
    /\ first \in Packets \cup {NoPacket}
    /\ began \in Nat
    /\ gaveUp \in {"no", "nothing", "failed"}

ReadInit ==
    /\ reader \in {"tf_io", "tf_fwio"}
    /\ at = "idle" /\ queue = <<>> /\ retrieved = 0 /\ result = 0
    /\ first = NoPacket /\ began = 0 /\ gaveUp = "no"

-----------------------------------------------------------------------------
\* The bytes of a packet whose header says len: an odd one of tf_io.c comes
\* with "one extra byte" of padding, one of tf_fwio.c has its header and the
\* checksum besides its data.
FullLength(len) == IF reader = "tf_io" THEN len + (len % 2) ELSE PACKET_HEAD_SIZE + len + 1

\* The device sends a packet; a header may claim anything.
Arrive(wire, len) ==
    /\ Len(queue) < MaxQueued
    /\ queue' = Append(queue, [wire |-> wire, len |-> len, left |-> wire])
    /\ UNCHANGED <<reader, at, retrieved, result, first, began, gaveUp>>

usb_bulk_read ==
    /\ at = "idle"
    /\ at' = "ioctl"
    /\ retrieved' = 0 /\ first' = NoPacket /\ began' = 0 /\ gaveUp' = "no"
    /\ UNCHANGED <<reader, queue, result>>

Requested == IF Size - retrieved > MaxRead THEN MaxRead ELSE Size - retrieved

\* Mutant of GoesOn: a piece that falls short is not taken for the end.
GoesOnRegardless(ret) == ret > 0 /\ retrieved + ret < Size

\* Does the loop go on after an ioctl that returned ret?
GoesOn(ret) == ret > 0 /\ retrieved + ret < Size /\ ret = Requested

\* An ioctl that finds a packet takes what it can of it.
ioctl_takes ==
    /\ at = "ioctl" /\ queue # <<>>
    /\ LET head == Head(queue)
           ret == IF head.left > Requested THEN Requested ELSE head.left
       IN  /\ queue' = IF ret = head.left
                       THEN Tail(queue)
                       ELSE [queue EXCEPT ![1].left = @ - ret]
           /\ retrieved' = retrieved + ret
           /\ first' = IF retrieved = 0 THEN head ELSE first
           /\ began' = IF retrieved = 0 \/ head.left = head.wire THEN began + 1 ELSE began
           /\ at' = IF GoesOn(ret) THEN "ioctl" ELSE "check"
    /\ UNCHANGED <<reader, result, gaveUp>>

\* One that finds none until tf->timeout is over, or fails, is the last.
ioctl_fails ==
    /\ at = "ioctl"
    /\ at' = "check"
    /\ gaveUp' = IF queue = <<>> THEN "nothing" ELSE "failed"
    /\ UNCHANGED <<reader, queue, retrieved, result, first, began>>

\* Mutant of tf_get_response: what was read is not compared with its length.
tf_get_response_trusts ==
    /\ at = "check"
    /\ at' = "idle"
    /\ result' = IF retrieved < PACKET_HEAD_SIZE THEN -1 ELSE 0
    /\ UNCHANGED <<reader, queue, retrieved, first, began, gaveUp>>

\* "ret < PACKET_HEAD_SIZE" and "ret < len", len being the number in the first
\* header, whatever it counts.
tf_get_response ==
    /\ at = "check"
    /\ at' = "idle"
    /\ result' = IF retrieved < PACKET_HEAD_SIZE \/ retrieved < first.len THEN -1 ELSE 0
    /\ UNCHANGED <<reader, queue, retrieved, first, began, gaveUp>>

ReadNext ==
    \/ \E wire \in Wires, len \in Lens : Arrive(wire, len)
    \/ usb_bulk_read
    \/ ioctl_takes \/ ioctl_fails
    \/ tf_get_response

ReadSpec == ReadInit /\ [][ReadNext]_readVars

-----------------------------------------------------------------------------
Whole(packet) == packet.left = packet.wire /\ packet # NoPacket

\* The packet fills its last piece, but not the buffer: no ioctl can tell that
\* it is over.
Ambiguous(packet) == packet.wire % MaxRead = 0 /\ packet.wire < Size

\* A read that begins where a packet begins takes that packet, does not wait
\* for more, and leaves what follows in the pipe (a late answer, say) to the
\* next read.  Only a packet that ends where a piece ends escapes this
\* (usb_io.c:141).
OnePacketPerRead ==
    at = "check" /\ Whole(first) /\ ~Ambiguous(first) /\ gaveUp # "failed" =>
        /\ began = 1 /\ gaveUp = "no" /\ retrieved = first.wire
        /\ queue # <<>> => Whole(Head(queue))

\* The device sent what the header says, no more and no less.
Honest(packet) == packet.wire = FullLength(packet.len)

\* An ioctl that fails may cut a reply between two pieces.  The comparison with
\* the number in the header, although that may be less than the packet's
\* length, lets no such reply pass in tf_io.c, where the number falls short by
\* one byte at most (line 310) and pieces are even (tf_io.c:301-310); nor in
\* tf_fwio.c if the reply is not longer than a piece, like all that it is made
\* for (a longer one may pass without its last nine bytes, tf_fwio.c:227).  And
\* no reply has bytes of the next packet.
ReadsWholeReplies ==
    at = "idle" /\ result = 0 /\ Whole(first) /\ Honest(first) /\ ~Ambiguous(first) =>
        /\ reader = "tf_io" \/ first.wire <= MaxRead => retrieved >= first.wire
        /\ retrieved <= first.wire
=============================================================================
