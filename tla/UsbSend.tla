------------------------------ MODULE UsbSend ------------------------------
(***************************************************************************)
(* How a finished packet gets to the USB pipe: tf_send() of tf_io.c, which *)
(* hands it to usb_bulk_write() at once, tf_send() of tf_fwio.c, which     *)
(* does so in pieces that the bootloader can take, and usb_bulk_write()    *)
(* itself, which writes it in pieces that the kernel can take.             *)
(*                                                                         *)
(* Only sizes matter here.  A packet is bytes 0 .. total-1, and its bytes  *)
(* reach the pipe in ascending order if each ioctl starts at byte taken.   *)
(***************************************************************************)
EXTENDS Integers

CONSTANTS
    MaxWrite,   \* MAX_WRITE: 16384, or 4096 before Linux 2.6
    IoSizes,    \* lengths of the packets of tf_io.c
    FwSizes,    \* lengths of those of tf_fwio.c, header and checksum included
    Shorts      \* bytes that an ioctl may take when it does not take all

ASSUME UsbSendAssumption ==
    /\ MaxWrite \in Nat \ {0}
    /\ IoSizes \subseteq Nat \ {0}
    /\ FwSizes \subseteq Nat \ {0}
    /\ Shorts \subseteq Nat

MAX_SEND_SIZE == 16384

VARIABLES
    pc,         \* "idle", "chunk" (fw: next piece), "ioctl" or "wrote"
    layer,      \* whose tf_send it is, "io" or "fw"
    total,      \* history: length of the packet, padding included
    left,       \* fw: len, what is left to write
    data,       \* fw: how far data has moved
    tosend,     \* length of the piece given to usb_bulk_write
    sent,       \* how much of it was written
    taken,      \* history: bytes of the packet that the pipe has taken
    error       \* tf->error: 0, or -1 for any error

vars == <<pc, layer, total, left, data, tosend, sent, taken, error>>

TypeOK ==
    /\ pc \in {"idle", "chunk", "ioctl", "wrote"}
    /\ layer \in {"io", "fw"}
    /\ total \in Nat /\ left \in Nat /\ data \in Nat
    /\ tosend \in Nat /\ sent \in 0..tosend
    /\ taken \in Nat
    /\ error \in {0, -1}

Init ==
    /\ pc = "idle" /\ layer = "io"
    /\ total = 0 /\ left = 0 /\ data = 0 /\ tosend = 0 /\ sent = 0 /\ taken = 0
    /\ error = 0

-----------------------------------------------------------------------------
Smaller(a, b) == IF a < b THEN a ELSE b

\* "Need to pad multiple-of-64 packets", "Need to pad odd packets".
IoPad(len) == IF len % 64 = 0 THEN 2 ELSE len % 2

\* Mutant of FwPad: the length is tested before it is made even.
FwPadTestsFirst(len) ==
    IF len % 512 = 0 /\ len # MAX_SEND_SIZE THEN (len % 2) + 2 ELSE len % 2

\* Odd packets get a byte; "for some reason the toppy doesn't like" multiples
\* of 0x200, so those get two more, unless they are as long as can be sent.
FwPad(len) ==
    LET even == len + (len % 2)
    IN  IF even % 512 = 0 /\ even # MAX_SEND_SIZE THEN (len % 2) + 2 ELSE len % 2

-----------------------------------------------------------------------------
io_tf_send(len) ==
    /\ pc = "idle"
    /\ pc' = "ioctl" /\ layer' = "io"
    /\ total' = len + IoPad(len)
    /\ tosend' = len + IoPad(len)
    /\ sent' = 0 /\ taken' = 0
    /\ left' = 0 /\ data' = 0
    /\ UNCHANGED error

fw_tf_send(len) ==
    /\ pc = "idle"
    /\ pc' = "chunk" /\ layer' = "fw"
    /\ total' = len + FwPad(len)
    /\ left' = len + FwPad(len) /\ data' = 0
    /\ tosend' = 0 /\ sent' = 0 /\ taken' = 0
    /\ error' = 0

\* "The bootloader will only accept 0x4000 bytes at a time".
fw_chunk ==
    /\ pc = "chunk"
    /\ pc' = "ioctl"
    /\ tosend' = Smaller(left, MAX_SEND_SIZE)
    /\ sent' = 0
    /\ UNCHANGED <<layer, total, left, data, taken, error>>

Piece == Smaller(tosend - sent, MaxWrite)

\* One round of the loop: an ioctl that starts at byte data + sent, fails, or
\* writes as much as it can.
usb_bulk_write ==
    /\ pc = "ioctl"
    /\ \E ret \in {-1, Piece} \cup {s \in Shorts : s < Piece} :
        /\ sent' = IF ret < 0 THEN sent ELSE sent + ret
        /\ taken' = IF ret < 0 THEN taken ELSE taken + ret
        /\ pc' = IF ret > 0 /\ sent' < tosend THEN "ioctl" ELSE "wrote"
    /\ UNCHANGED <<layer, total, left, data, tosend, error>>

io_wrote ==
    /\ pc = "wrote" /\ layer = "io"
    /\ pc' = "idle"
    /\ error' = IF sent = tosend THEN 0 ELSE -1
    /\ UNCHANGED <<layer, total, left, data, tosend, sent, taken>>

\* Mutant of fw_wrote: a piece that was cut short is not noticed.
fw_wrote_ignores_short ==
    /\ pc = "wrote" /\ layer = "fw"
    /\ left' = left - tosend /\ data' = data + tosend
    /\ pc' = IF left' = 0 THEN "idle" ELSE "chunk"
    /\ UNCHANGED <<layer, total, tosend, sent, taken, error>>

\* Mutant of fw_wrote: data stays where it is.
fw_wrote_repeats_data ==
    /\ pc = "wrote" /\ layer = "fw"
    /\ IF sent # tosend
       THEN pc' = "idle" /\ error' = -1 /\ UNCHANGED left
       ELSE left' = left - tosend /\ pc' = (IF left' = 0 THEN "idle" ELSE "chunk") /\ UNCHANGED error
    /\ UNCHANGED <<layer, total, data, tosend, sent, taken>>

fw_wrote ==
    /\ pc = "wrote" /\ layer = "fw"
    /\ \/ /\ sent # tosend
          /\ pc' = "idle" /\ error' = -1
          /\ UNCHANGED <<left, data>>
       \/ /\ sent = tosend
          /\ left' = left - tosend /\ data' = data + tosend
          /\ pc' = IF left' = 0 THEN "idle" ELSE "chunk"
          /\ UNCHANGED error
    /\ UNCHANGED <<layer, total, tosend, sent, taken>>

Sending == fw_chunk \/ usb_bulk_write \/ io_wrote \/ fw_wrote

Next ==
    \/ \E len \in IoSizes : io_tf_send(len)
    \/ \E len \in FwSizes : fw_tf_send(len)
    \/ Sending

Spec == Init /\ [][Next]_vars

-----------------------------------------------------------------------------
\* Two nested loops over the packet, each with its own offset, do not repeat
\* or leave out a byte: every ioctl starts at the first byte not taken yet.
InSequence == pc = "ioctl" => data + sent = taken

\* tf_send() returns 0 exactly when the pipe has taken the whole packet.
ErrorIsTruth == pc = "idle" => (error = 0 <=> taken = total)

\* No write has an odd length or, but for full pieces of 0x4000 bytes, one
\* that the bootloader does not like (tf_fwio.c:148-160).
FwSizesLiked ==
    pc = "ioctl" /\ layer = "fw" =>
        tosend % 2 = 0 /\ (tosend % 512 = 0 => tosend = MAX_SEND_SIZE)

\* "Need to pad multiple-of-64 packets to prevent a topfield protocol bug"
\* (tf_io.c:257-259).
IoSizesLiked == pc = "ioctl" /\ layer = "io" => tosend % 64 # 0
=============================================================================
