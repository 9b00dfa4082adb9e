----------------------------- MODULE UsbProofs -----------------------------
(***************************************************************************)
(* Theorems about the three sides of the USB layer, for every value of     *)
(* their constants.                                                        *)
(*                                                                         *)
(* Writing: packets of every length, every limit of the kernel and every   *)
(* way in which an ioctl may fall short.                                   *)
(*                                                                         *)
(* Reading: every MAX_READ, every reply buffer and packets of every length *)
(* that fits it.  The inductive invariant says what the loop of            *)
(* usb_bulk_read() knows before each ioctl: what it has is a number of     *)
(* full pieces, and the rest of the packet it began with is at the front   *)
(* of the pipe.                                                            *)
(*                                                                         *)
(* Opening: whatever is connected and wherever a call fails.  The loops of *)
(* the two searches are folds, and what they find is proved from place to  *)
(* place along the busses (FoldProofs).                                    *)
(***************************************************************************)
EXTENDS UsbSend, UsbRead, UsbOpen, FoldProofs, FiniteSetTheorems, TLAPS

-----------------------------------------------------------------------------
(* UsbSend.                                                                *)

\* A length that the bootloader likes, or that of a full piece.
Liked(n) == n % 2 = 0 /\ (n % 512 = 0 => n = MAX_SEND_SIZE)

\* What is left of a packet of tf_fwio.c and what was done of it.
FwProgress ==
    layer = "fw" /\ pc # "idle" =>
        /\ left > 0 /\ Liked(left)
        /\ data + left = total
        /\ error = 0
        /\ pc = "chunk" => taken = data
        /\ pc # "chunk" => tosend = Smaller(left, MAX_SEND_SIZE) /\ taken = data + sent

IoProgress ==
    layer = "io" /\ pc # "idle" =>
        /\ pc # "chunk"
        /\ data = 0 /\ tosend = total /\ taken = sent

SendInv == TypeOK /\ FwProgress /\ IoProgress /\ ErrorIsTruth

\* What tf_send() of tf_fwio.c makes of a packet has a length it likes.
LEMMA FwPadLiked == ASSUME NEW len \in Nat PROVE FwPad(len) \in Nat /\ Liked(len + FwPad(len))
  BY DEF FwPad, Liked, MAX_SEND_SIZE

\* tf_send() of tf_io.c makes every packet even.
LEMMA IoPadNat == ASSUME NEW len \in Nat PROVE IoPad(len) \in Nat
  BY DEF IoPad

\* After a full piece, what is left is still of a length it likes.
LEMMA RestLiked ==
    ASSUME NEW n \in Nat, Liked(n), n > MAX_SEND_SIZE
    PROVE  n - MAX_SEND_SIZE \in Nat /\ Liked(n - MAX_SEND_SIZE)
  BY DEF Liked, MAX_SEND_SIZE

\* Every step of the two loops preserves the invariant.
LEMMA SendStep == SendInv /\ [Next]_vars => SendInv'
<1> SUFFICES ASSUME SendInv, [Next]_vars PROVE SendInv'
  OBVIOUS
<1> USE UsbSendAssumption DEF SendInv, TypeOK, FwProgress, IoProgress, ErrorIsTruth
<1>1. ASSUME NEW len \in IoSizes, io_tf_send(len) PROVE SendInv'
  <2>1. len \in Nat /\ IoPad(len) \in Nat
    BY IoPadNat
  <2> QED
    BY <1>1, <2>1 DEF io_tf_send
<1>2. ASSUME NEW len \in FwSizes, fw_tf_send(len) PROVE SendInv'
  <2>1. len \in Nat \ {0} /\ FwPad(len) \in Nat /\ Liked(len + FwPad(len))
    BY FwPadLiked
  <2> QED
    BY <1>2, <2>1 DEF fw_tf_send, Liked
<1>3. ASSUME fw_chunk PROVE SendInv'
  BY <1>3 DEF fw_chunk, Smaller, MAX_SEND_SIZE
<1>4. ASSUME usb_bulk_write PROVE SendInv'
  <2>1. PICK ret \in {-1, Piece} \cup {s \in Shorts : s < Piece} :
            /\ sent' = IF ret < 0 THEN sent ELSE sent + ret
            /\ taken' = IF ret < 0 THEN taken ELSE taken + ret
            /\ pc' = IF ret > 0 /\ sent' < tosend THEN "ioctl" ELSE "wrote"
    BY <1>4 DEF usb_bulk_write
  <2>2. Piece \in Nat /\ Piece <= tosend - sent
    BY DEF Piece, Smaller
  <2>3. ret \in Int /\ ret <= Piece
    BY <2>2
  <2> QED
    BY <1>4, <2>1, <2>2, <2>3 DEF usb_bulk_write, Liked
<1>5. ASSUME io_wrote PROVE SendInv'
  BY <1>5 DEF io_wrote
<1>6. ASSUME fw_wrote PROVE SendInv'
  <2>1. CASE sent # tosend
    BY <1>6, <2>1 DEF fw_wrote, Smaller, MAX_SEND_SIZE
  <2>2. CASE sent = tosend /\ left > MAX_SEND_SIZE
    BY <1>6, <2>2, RestLiked DEF fw_wrote, Smaller, MAX_SEND_SIZE
  <2>3. CASE sent = tosend /\ left <= MAX_SEND_SIZE
    BY <1>6, <2>3 DEF fw_wrote, Smaller, MAX_SEND_SIZE
  <2> QED
    BY <2>1, <2>2, <2>3 DEF MAX_SEND_SIZE
<1>7. CASE UNCHANGED vars
  BY <1>7 DEF vars
<1> HIDE DEF SendInv
<1> QED
  BY <1>1, <1>2, <1>3, <1>4, <1>5, <1>6, <1>7 DEF Next, Sending

\* The invariant holds throughout.
LEMMA AlwaysSend == Spec => []SendInv
<1>1. Init => SendInv
  BY DEF Init, SendInv, TypeOK, FwProgress, IoProgress, ErrorIsTruth
<1> QED
  BY <1>1, SendStep, PTL DEF Spec

\* The bytes of a packet reach the pipe in order, none twice, none left out.
THEOREM BytesInSequence == Spec => []InSequence
<1>1. SendInv => InSequence
  BY DEF SendInv, TypeOK, FwProgress, IoProgress, InSequence
<1> QED
  BY <1>1, AlwaysSend, PTL

\* What tf_send() returns is true of the whole packet.
THEOREM SendTellsTruth == Spec => []ErrorIsTruth
<1>1. SendInv => ErrorIsTruth
  BY DEF SendInv
<1> QED
  BY <1>1, AlwaysSend, PTL

\* No piece of a firmware packet of any length has a size that the bootloader
\* does not like, the last one included.
THEOREM FirmwareSizes == Spec => []FwSizesLiked
<1>1. SendInv => FwSizesLiked
  BY DEF SendInv, TypeOK, FwProgress, FwSizesLiked, Liked, Smaller, MAX_SEND_SIZE
<1> QED
  BY <1>1, AlwaysSend, PTL

-----------------------------------------------------------------------------
(* UsbRead.                                                                *)

\* Packets behind the first one are untouched.
QueueOK ==
    /\ \A i \in DOMAIN queue : queue[i].left <= queue[i].wire
    /\ \A i \in DOMAIN queue : i > 1 => queue[i].left = queue[i].wire

Clear == Whole(first) /\ ~Ambiguous(first)

IoctlOK ==
    at = "ioctl" =>
        /\ gaveUp = "no" /\ retrieved < Size /\ retrieved % MaxRead = 0
        /\ retrieved = 0 => first = NoPacket /\ began = 0
        /\ retrieved > 0 /\ Clear =>
            /\ retrieved < first.wire /\ began = 1
            /\ queue # <<>>
            /\ queue[1].wire = first.wire /\ queue[1].left = first.wire - retrieved

\* What was read is the packet, or some full pieces of it.
CheckOK ==
    at = "check" /\ Clear =>
        retrieved <= first.wire /\ (retrieved = first.wire \/ retrieved % MaxRead = 0)

ReadInv == ReadTypeOK /\ QueueOK /\ IoctlOK /\ CheckOK /\ OnePacketPerRead /\ ReadsWholeReplies

\* A piece more than a number of full pieces is a number of full pieces.
LEMMA FullPieces ==
    ASSUME NEW m \in Nat \ {0}, NEW a \in Nat, a % m = 0
    PROVE  (a + m) % m = 0
<1> DEFINE q == a \div m
           p == (a + m) \div m
           r == (a + m) % m
           d == q + 1 - p
<1>1. q \in Int /\ a = m * q
  BY Z3
<1>2. p \in Int /\ r \in Int /\ 0 <= r /\ r < m
  BY Z3
<1>3. a + m = m * p + r
  BY Z3
<1>4. r = m * d
  BY <1>1, <1>2, <1>3, Z3
<1>5. d \in Int
  BY <1>1, <1>2
<1> HIDE DEF q, p, r, d
<1>6. d <= 0 \/ d >= 1
  BY <1>5
<1>7. d >= 1 => m * d >= m
  BY <1>5, Z3
<1>8. d <= -1 => m * d <= -m
  BY <1>5, Z3
<1>9. r = 0
  BY <1>2, <1>4, <1>5, <1>6, <1>7, <1>8
<1> QED
  BY <1>9 DEF r

\* Pieces are even.
LEMMA PiecesEven ==
    ASSUME NEW m \in Nat \ {0}, m % 2 = 0, NEW a \in Nat, a % m = 0
    PROVE  a % 2 = 0
<1> DEFINE h == m \div 2
           q == a \div m
           p == h * q
<1>1. q \in Int /\ a = m * q
  BY Z3
<1>2. h \in Int /\ m = 2 * h
  BY Z3
<1>3. p \in Int /\ a = 2 * p
  BY <1>1, <1>2, Z3
<1> HIDE DEF h, q, p
<1> QED
  BY <1>3, Z3

\* A part of a packet that ends between two pieces is not a piece or less.
LEMMA PartIsPieces ==
    ASSUME NEW m \in Nat \ {0}, NEW a \in Nat \ {0}, a % m = 0
    PROVE  a >= m
<1>1. a < m => a % m = a
  BY Z3
<1> QED
  BY <1>1

\* The fields of a packet.
LEMMA PacketTypes ==
    ASSUME NEW packet \in Packets
    PROVE  /\ packet.wire \in Nat \ {0} /\ packet.wire <= Size
           /\ packet.len \in Nat /\ packet.left \in Nat \ {0}
<1>1. packet.wire \in Wires /\ packet.len \in Lens /\ packet.left \in 1..Size
  BY DEF Packets
<1>2. packet.wire \in 1..Size /\ packet.len \in Nat
  BY <1>1, UsbReadAssumption
<1>3. Size \in Nat
  BY UsbReadAssumption
<1> QED
  BY <1>1, <1>2, <1>3

\* No packet is a packet that begins somewhere.
LEMMA NothingIsNotWhole == ~Whole(NoPacket)
  BY DEF Whole

\* The device adds packets at the end of the pipe, each of them whole.
LEMMA ArriveStep ==
    ASSUME ReadInv, NEW wire \in Wires, NEW len \in Lens, Arrive(wire, len)
    PROVE  ReadInv'
<1> DEFINE new == [wire |-> wire, len |-> len, left |-> wire]
<1> USE UsbReadAssumption DEF ReadInv, ReadTypeOK, QueueOK, Packets
<1>1. new \in Packets
  OBVIOUS
<1>2. /\ queue' \in Seq(Packets) /\ queue' = Append(queue, new)
      /\ Len(queue') = Len(queue) + 1
      /\ \A i \in 1..Len(queue) : queue'[i] = queue[i]
      /\ queue'[Len(queue) + 1] = new
  BY <1>1 DEF Arrive
<1>3. QueueOK'
  BY <1>2
<1>4. queue # <<>> => queue' # <<>> /\ queue'[1] = queue[1] /\ Head(queue') = Head(queue)
  BY <1>2
<1>5. queue = <<>> => Whole(Head(queue'))
  BY <1>2 DEF Whole, NoPacket
<1>6. IoctlOK'
  BY <1>4 DEF Arrive, IoctlOK, Clear, Whole, Ambiguous
<1>7. OnePacketPerRead'
  BY <1>4, <1>5 DEF Arrive, OnePacketPerRead, Whole, Ambiguous
<1>8. CheckOK' /\ ReadsWholeReplies' /\ ReadTypeOK'
  BY <1>2 DEF Arrive, CheckOK, ReadsWholeReplies, Honest, FullLength, Clear, Whole, Ambiguous
<1> QED
  BY <1>3, <1>6, <1>7, <1>8

\* What an ioctl leaves of the pipe when it takes n bytes of the first packet.
LEMMA PipeAfter ==
    ASSUME ReadTypeOK, QueueOK, queue # <<>>,
           NEW n \in 1..Head(queue).left,
           queue' = IF n = Head(queue).left THEN Tail(queue)
                    ELSE [queue EXCEPT ![1].left = @ - n]
    PROVE  /\ queue' \in Seq(Packets) /\ QueueOK'
           /\ n = Head(queue).left /\ queue' # <<>> => Whole(Head(queue'))
           /\ n # Head(queue).left =>
                /\ queue' # <<>> /\ queue'[1].wire = Head(queue).wire
                /\ queue'[1].left = Head(queue).left - n
<1>1. /\ queue \in Seq(Packets) /\ Len(queue) \in Nat \ {0} /\ Head(queue) = queue[1]
      /\ \A i \in 1..Len(queue) : queue[i] \in Packets
  BY DEF ReadTypeOK
<1>2. \A packet \in Packets : packet.left \in Nat /\ packet.wire \in Nat \ {0}
  BY PacketTypes
<1>3. CASE n = Head(queue).left
  <2>1. /\ queue' \in Seq(Packets) /\ Len(queue') = Len(queue) - 1
        /\ \A i \in 1..Len(queue') : queue'[i] = queue[i + 1]
    BY <1>1, <1>3
  <2>2. \A i \in 1..Len(queue') : queue'[i].left = queue'[i].wire /\ queue'[i] \in Packets
    BY <1>1, <2>1 DEF QueueOK
  <2>3. QueueOK'
    BY <1>2, <2>1, <2>2 DEF QueueOK
  <2>4. ASSUME queue' # <<>> PROVE Whole(Head(queue'))
    <3>1. Head(queue') = queue'[1] /\ 1 \in 1..Len(queue')
      BY <2>1, <2>4
    <3>2. Head(queue') \in Packets /\ Head(queue').left = Head(queue').wire
      BY <2>2, <3>1
    <3>3. Head(queue').wire \in Nat \ {0}
      BY <1>2, <3>2, Zenon
    <3> QED
      <4>1. NoPacket.wire = 0
        BY DEF NoPacket
      <4> QED
        BY <3>2, <3>3, <4>1 DEF Whole
  <2> QED
    BY <1>3, <2>1, <2>3, <2>4
<1>4. CASE n # Head(queue).left
  <2> DEFINE rest == [queue[1] EXCEPT !.left = @ - n]
  <2>1. rest \in Packets /\ rest.wire = queue[1].wire /\ rest.left = queue[1].left - n
    <3>0. Size \in Nat
      BY UsbReadAssumption
    <3>1. queue[1] \in Packets /\ queue[1].left \in 1..Size /\ n < queue[1].left
      <4>1. queue[1] \in Packets
        BY <1>1
      <4>2. queue[1].left \in 1..Size
        BY <4>1 DEF Packets
      <4>3. n \in 1..queue[1].left /\ n # queue[1].left
        BY <1>1, <1>4
      <4> QED
        BY <3>0, <4>1, <4>2, <4>3
    <3>2. queue[1].left - n \in 1..Size
      BY <3>0, <3>1
    <3> QED
      BY <3>1, <3>2 DEF Packets
  <2> HIDE DEF rest
  <2>2. queue' = [queue EXCEPT ![1] = rest]
    BY <1>1, <1>4 DEF rest
  <2>3. /\ queue' \in Seq(Packets) /\ Len(queue') = Len(queue)
        /\ queue'[1] = rest
        /\ \A i \in 1..Len(queue) : i > 1 => queue'[i] = queue[i]
    <3>1. rest \in Packets /\ queue \in Seq(Packets) /\ 1 \in 1..Len(queue)
      BY <1>1, <2>1
    <3> QED
      BY <2>2, <3>1
  <2>4. QueueOK'
    BY <1>1, <1>2, <2>1, <2>3 DEF QueueOK
  <2> QED
    BY <1>1, <1>4, <2>1, <2>3, <2>4
<1> QED
  BY <1>3, <1>4

\* An ioctl that finds a packet takes it, a piece of it, or its rest.
LEMMA TakesStep == ASSUME ReadInv, ioctl_takes PROVE ReadInv'
<1> DEFINE head == Head(queue)
           ret == IF head.left > Requested THEN Requested ELSE head.left
<1>0. queue # <<>> /\ head = Head(queue) /\ head \in Packets /\ head.left <= head.wire
  <2>1. queue \in Seq(Packets) /\ queue # <<>> /\ head = queue[1] /\ 1 \in DOMAIN queue
    BY DEF ReadInv, ReadTypeOK, ioctl_takes
  <2> QED
    BY <2>1 DEF ReadInv, ReadTypeOK, QueueOK
<1> HIDE DEF head
<1>1. /\ head.left \in Nat \ {0} /\ head.wire \in Nat \ {0} /\ head.len \in Nat
      /\ head.left <= head.wire /\ head.wire <= Size
  BY <1>0, PacketTypes
<1>2. /\ retrieved \in Nat /\ retrieved < Size /\ gaveUp = "no"
      /\ MaxRead \in Nat \ {0} /\ Size \in Nat \ {0}
      /\ Requested \in Nat \ {0} /\ Requested <= Size - retrieved
      /\ Requested = MaxRead \/ Requested = Size - retrieved
  BY UsbReadAssumption DEF ReadInv, ReadTypeOK, IoctlOK, ioctl_takes, Requested
<1>3. ret \in 1..head.left /\ (ret = Requested \/ ret = head.left) /\ ret <= Requested
  BY <1>1, <1>2
<1> HIDE DEF ret
<1>4. /\ retrieved' = retrieved + ret
      /\ first' = IF retrieved = 0 THEN head ELSE first
      /\ began' = IF retrieved = 0 \/ head.left = head.wire THEN began + 1 ELSE began
      /\ at' = IF GoesOn(ret) THEN "ioctl" ELSE "check"
      /\ result' = result /\ gaveUp' = gaveUp /\ at = "ioctl" /\ reader' = reader
  BY DEF ioctl_takes, ret, head
<1>5. /\ queue' \in Seq(Packets) /\ QueueOK'
      /\ ret = head.left /\ queue' # <<>> => Whole(Head(queue'))
      /\ ret # head.left =>
            queue' # <<>> /\ queue'[1].wire = head.wire /\ queue'[1].left = head.left - ret
  <2>1. queue' = IF ret = head.left THEN Tail(queue) ELSE [queue EXCEPT ![1].left = @ - ret]
    BY DEF ioctl_takes, ret, head
  <2> QED
    BY <1>0, <1>3, <2>1, PipeAfter DEF ReadInv
<1>6. ReadTypeOK'
  <2>1. /\ retrieved' \in 0..Size /\ at' \in {"idle", "ioctl", "check"}
        /\ began \in Nat => began' \in Nat
    BY <1>1, <1>2, <1>3, <1>4
  <2>2. first \in Packets \cup {NoPacket} => first' \in Packets \cup {NoPacket}
    BY <1>0, <1>4
  <2> QED
    BY <1>4, <1>5, <2>1, <2>2 DEF ReadInv, ReadTypeOK
\* Where the read is in the packet it began with.
<1>7. ASSUME Clear'
      PROVE  /\ began' = 1 /\ head.wire = first'.wire
             /\ retrieved' + (head.left - ret) = first'.wire
             /\ first'.wire \in Nat /\ first'.wire <= Size
  <2>1. Whole(first')
    BY <1>7 DEF Clear
  <2>2. CASE retrieved = 0
    <3>1. first' = head /\ began = 0
      BY <1>4, <2>2 DEF ReadInv, IoctlOK
    <3> QED
      BY <1>0, <1>1, <1>2, <1>3, <1>4, <2>1, <2>2, <3>1 DEF Whole
  <2>3. CASE retrieved # 0
    <3>1. first' = first /\ Clear
      BY <1>4, <1>7, <2>3 DEF Clear, Ambiguous, Whole
    <3>2. /\ retrieved < first.wire /\ began = 1
          /\ head.wire = first.wire /\ head.left = first.wire - retrieved
      BY <1>0, <1>2, <1>4, <2>3, <3>1 DEF ReadInv, IoctlOK, head
    <3>3. retrieved' + (head.left - ret) = first.wire
      BY <1>1, <1>2, <1>3, <1>4, <3>2
    <3>4. began' = began
      <4>1. head.left # head.wire
        BY <1>1, <1>2, <2>3, <3>2
      <4> QED
        BY <1>4, <2>3, <4>1
    <3>5. head.wire \in Nat /\ head.wire <= Size
      BY <1>1
    <3> QED
      BY <3>1, <3>2, <3>3, <3>4, <3>5
  <2> QED
    BY <2>2, <2>3
<1>8. CASE GoesOn(ret)
  <2>1. ret = MaxRead /\ ret = Requested /\ retrieved + ret < Size /\ at' = "ioctl"
    BY <1>2, <1>4, <1>8 DEF GoesOn
  <2>2. retrieved' % MaxRead = 0
    <3>1. retrieved % MaxRead = 0
      BY <1>4 DEF ReadInv, IoctlOK
    <3> QED
      BY <1>2, <1>4, <2>1, <3>1, FullPieces
  <2>3. ASSUME Clear' PROVE ret # head.left
    <3>1. SUFFICES ASSUME ret = head.left PROVE FALSE
      OBVIOUS
    <3>2. retrieved' = first'.wire
      BY <1>1, <1>2, <1>4, <1>7, <2>3, <3>1
    <3>3. ~(first'.wire % MaxRead = 0 /\ first'.wire < Size)
      BY <2>3 DEF Clear, Ambiguous
    <3> QED
      BY <1>4, <2>1, <2>2, <3>2, <3>3
  <2>4. IoctlOK'
    <3>1. retrieved' > 0 /\ gaveUp' = "no" /\ retrieved' < Size
      BY <1>2, <1>3, <1>4, <2>1
    <3>2. ASSUME Clear'
          PROVE  /\ retrieved' < first'.wire /\ began' = 1 /\ queue' # <<>>
                 /\ queue'[1].wire = first'.wire /\ queue'[1].left = first'.wire - retrieved'
      <4>1. ret # head.left /\ began' = 1 /\ head.wire = first'.wire
            /\ retrieved' + (head.left - ret) = first'.wire
        BY <1>7, <2>3, <3>2
      <4>2. queue' # <<>> /\ queue'[1].wire = head.wire /\ queue'[1].left = head.left - ret
        BY <1>5, <4>1
      <4>3. /\ retrieved' < first'.wire /\ head.left - ret = first'.wire - retrieved'
        BY <1>1, <1>2, <1>3, <1>4, <4>1
      <4> QED
        BY <4>1, <4>2, <4>3
    <3> QED
      BY <2>2, <3>1, <3>2 DEF IoctlOK
  <2> QED
    BY <1>5, <1>6, <2>1, <2>4 DEF ReadInv, CheckOK, OnePacketPerRead, ReadsWholeReplies
<1>9. CASE ~GoesOn(ret)
  <2>1. ASSUME Clear' PROVE ret = head.left /\ retrieved' = first'.wire
    <3>1. ret # Requested \/ retrieved + ret >= Size
      BY <1>2, <1>3, <1>9 DEF GoesOn
    <3> QED
      BY <1>1, <1>2, <1>3, <1>4, <1>7, <2>1, <3>1
  <2>2. CheckOK'
    BY <1>7, <2>1 DEF CheckOK
  <2>3. OnePacketPerRead'
    BY <1>2, <1>4, <1>5, <1>7, <2>1 DEF OnePacketPerRead, Clear
  <2> QED
    BY <1>4, <1>5, <1>6, <1>9, <2>2, <2>3 DEF ReadInv, IoctlOK, ReadsWholeReplies
<1> QED
  BY <1>8, <1>9

\* An ioctl that fails, or waits in vain, ends the read.
LEMMA FailsStep == ASSUME ReadInv, ioctl_fails PROVE ReadInv'
<1>1. ReadTypeOK' /\ QueueOK'
  BY DEF ReadInv, ReadTypeOK, QueueOK, ioctl_fails
<1>2. retrieved \in Nat /\ (retrieved = 0 => ~Clear)
  BY UsbReadAssumption, NothingIsNotWhole DEF ReadInv, ReadTypeOK, IoctlOK, Clear, ioctl_fails
<1>3. Clear => retrieved < first.wire /\ queue # <<>>
  BY <1>2 DEF ReadInv, IoctlOK, ioctl_fails
<1>4. Clear' <=> Clear
  BY DEF Clear, Whole, Ambiguous, ioctl_fails
<1>5. ASSUME Clear'
      PROVE  retrieved' <= first'.wire /\ retrieved' % MaxRead = 0 /\ gaveUp' = "failed"
  <2>1. retrieved < first.wire /\ queue # <<>>
    BY <1>3, <1>4, <1>5
  <2>2. first \in Packets \cup {NoPacket} /\ first # NoPacket
    BY <1>4, <1>5 DEF ReadInv, ReadTypeOK, Clear, Whole
  <2>3. first.wire \in Nat
    BY <2>2, PacketTypes
  <2>4. retrieved % MaxRead = 0
    BY DEF ReadInv, IoctlOK, ioctl_fails
  <2> QED
    BY <1>2, <2>1, <2>3, <2>4 DEF ioctl_fails
<1> QED
  BY <1>1, <1>5 DEF ReadInv, IoctlOK, CheckOK, OnePacketPerRead, ReadsWholeReplies, Clear, ioctl_fails

\* What tf_get_response() accepts is what the invariant of "check" says.
LEMMA ResponseStep == ASSUME ReadInv, tf_get_response PROVE ReadInv'
<1>1. ReadTypeOK' /\ QueueOK' /\ (Clear' <=> Clear)
  BY DEF ReadInv, ReadTypeOK, QueueOK, Clear, Whole, Ambiguous, tf_get_response
<1>2. ASSUME Clear', Honest(first)', result' = 0
      PROVE  /\ reader' = "tf_io" \/ first'.wire <= MaxRead => retrieved' >= first'.wire
             /\ retrieved' <= first'.wire
  <2>1. first \in Packets
    BY <1>1, <1>2 DEF ReadInv, ReadTypeOK, Clear, Whole
  <2>2. first.len \in Nat /\ first.wire \in Nat /\ retrieved \in Nat /\ MaxRead \in Nat \ {0}
    BY <2>1, PacketTypes, UsbReadAssumption DEF ReadInv, ReadTypeOK
  <2>3. retrieved >= first.len /\ retrieved >= PACKET_HEAD_SIZE
    BY <1>2, <2>2 DEF tf_get_response, PACKET_HEAD_SIZE
  <2>4. retrieved <= first.wire /\ (retrieved = first.wire \/ retrieved % MaxRead = 0)
    BY <1>1, <1>2 DEF ReadInv, CheckOK, tf_get_response
  <2>5. ASSUME retrieved < first.wire, reader = "tf_io" PROVE FALSE
    <3>1. first.wire = first.len + (first.len % 2)
      BY <1>2, <2>5 DEF Honest, FullLength, tf_get_response
    <3>2. retrieved = first.len /\ first.len % 2 = 1
      BY <2>2, <2>3, <2>5, <3>1
    <3>3. retrieved % 2 = 0
      <4>1. MaxRead % 2 = 0
        BY UsbReadAssumption
      <4>2. retrieved % MaxRead = 0
        BY <2>2, <2>4, <2>5
      <4> QED
        BY <2>2, <4>1, <4>2, PiecesEven
    <3> QED
      BY <3>2, <3>3
  <2>6. ASSUME retrieved < first.wire, first.wire <= MaxRead PROVE FALSE
    <3>1. retrieved >= MaxRead
      BY <2>2, <2>3, <2>4, <2>6, PartIsPieces DEF PACKET_HEAD_SIZE
    <3> QED
      BY <2>2, <2>6, <3>1
  <2>7. reader' = reader /\ first' = first /\ retrieved' = retrieved
    BY DEF tf_get_response
  <2> QED
    BY <2>2, <2>4, <2>5, <2>6, <2>7
<1> QED
  BY <1>1, <1>2 DEF ReadInv, IoctlOK, CheckOK, OnePacketPerRead, ReadsWholeReplies, Clear, tf_get_response

\* usb_bulk_read() begins with nothing taken.
LEMMA BeginStep == ASSUME ReadInv, usb_bulk_read PROVE ReadInv'
<1>1. 0 % MaxRead = 0 /\ 0 \in 0..Size /\ 0 < Size
  BY UsbReadAssumption
<1> QED
  BY <1>1, NothingIsNotWhole DEF ReadInv, ReadTypeOK, QueueOK, IoctlOK, CheckOK, OnePacketPerRead,
        ReadsWholeReplies, Clear, usb_bulk_read

\* The invariant holds throughout.
THEOREM ReadInvariant == ReadSpec => []ReadInv
<1>1. ReadInit => ReadInv
  BY UsbReadAssumption DEF ReadInit, ReadInv, ReadTypeOK, QueueOK, IoctlOK, CheckOK, OnePacketPerRead,
        ReadsWholeReplies, Clear, Whole, NoPacket
<1>2. ASSUME ReadInv, [ReadNext]_readVars PROVE ReadInv'
  <2>1. CASE UNCHANGED readVars
    BY <1>2, <2>1 DEF readVars, ReadInv, ReadTypeOK, QueueOK, IoctlOK, CheckOK, OnePacketPerRead,
        ReadsWholeReplies, Honest, FullLength, Clear, Whole, Ambiguous
  <2> QED
    BY <1>2, <2>1, ArriveStep, BeginStep, TakesStep, FailsStep, ResponseStep DEF ReadNext
<1> QED
  BY <1>1, <1>2, PTL DEF ReadSpec

\* usb_bulk_read() takes one packet and waits for no other, whatever else is in
\* the pipe (usb_io.c:117-141).
THEOREM OnePacket == ReadSpec => []OnePacketPerRead
<1>1. ReadInv => OnePacketPerRead
  BY DEF ReadInv
<1> QED
  BY <1>1, ReadInvariant, PTL

\* A reply that tf_get_response() accepts has all the bytes of one packet, as its
\* protocol counts them, and none of the next: always in tf_io.c, and in
\* tf_fwio.c if the packet fits a piece.  That the header's number is less than
\* the packet's length does no harm, because a read that fails ends between two
\* pieces, and these are even.
THEOREM WholeReplies == ReadSpec => []ReadsWholeReplies
<1>1. ReadInv => ReadsWholeReplies
  BY DEF ReadInv
<1> QED
  BY <1>1, ReadInvariant, PTL

-----------------------------------------------------------------------------
(* UsbOpen.                                                                *)

\* The loop over the lines of the file, on a bus.
FileBusIs(g, V, n, t, b, i) ==
    \A k \in 1..n, s \in V : g[<<k, s>>] = ScanP(ScanT(s, <<b, k>>), t[b][k], i)

\* The fold over a bus goes as the loop does: one device after the other.
LEMMA FileBusGoes ==
    ASSUME NEW V, NEW t, NEW b, NEW i, NEW n \in Nat, DOMAIN t[b] = 1..n, NEW base \in V,
           NEW g \in [(1..n) \X V -> V],
           FileBusIs(g, V, n, t, b, i)
    PROVE  Ends(FileBus(base, t, b, i), V, n, g, base)
  <1> DEFINE To(s, k) == ScanP(ScanT(s, <<b, k>>), t[b][k], i)
             Place == [k \in 1..n |-> k]
             Rec(f) == f = [s \in SUBSET (1..n) |->
                               IF s = {} THEN base ELSE To(f[s \ {Max(s)}], Place[Max(s)])]
             f == CHOOSE f : Rec(f)
  <1>0. \A k \in 1..n, s \in V : g[<<k, s>>] = To(s, k)
    BY DEF FileBusIs
  <1>1. PICK h \in [SUBSET (1..n) -> V] : Folds(h, n, g, base)
    BY FoldExists
  <1>2. Rec(h)
    <2>1. ASSUME NEW s \in SUBSET (1..n), s # {}
          PROVE  g[<<Max(s), h[s \ {Max(s)}]>>] = To(h[s \ {Max(s)}], Place[Max(s)])
      <3>1. Max(s) \in 1..n /\ s \ {Max(s)} \in SUBSET (1..n) /\ Place[Max(s)] = Max(s)
        BY <2>1, LastOf
      <3> QED
        BY <1>0, <1>1, <3>1
    <2> QED
      BY <1>1, <2>1 DEF Folds
  <1>3. Rec(f)
    <2> HIDE DEF Rec
    <2> QED
      BY <1>2
  <1>4. FileBus(base, t, b, i) = f[1..n]
    BY DEF FileBus, FoldLeftDomain, FoldLeft, MapThenFoldSet
  <1> HIDE DEF f
  <1>5. f[{}] = base
    BY <1>3
  <1>6. ASSUME NEW k \in 1..n, f[1..(k - 1)] \in V PROVE f[1..k] = g[<<k, f[1..(k - 1)]>>]
    <2>1. /\ 1..k \in SUBSET (1..n) /\ 1..k # {} /\ Max(1..k) = k
          /\ (1..k) \ {k} = 1..(k - 1) /\ Place[k] = k
      BY FirstPlaces
    <2>2. \A s \in SUBSET (1..n) : s # {} => f[s] = To(f[s \ {Max(s)}], Place[Max(s)])
      BY <1>3
    <2>3. f[1..k] = To(f[(1..k) \ {k}], k)
      BY <2>1, <2>2
    <2> QED
      BY <1>0, <1>6, <2>1, <2>3
  <1>7. Follow(f, V, n, g, base)
    BY <1>5, <1>6 DEF Follow
  <1>8. Ends(f[1..n], V, n, g, base)
    BY <1>7, FoldGoes
  <1> QED
    BY <1>4, <1>8

\* The same, from bus to bus.
FileIs(g, V, n, t, i) == \A k \in 1..n, s \in V : g[<<k, s>>] = FileBus(s, t, k, i)

\* The fold over the busses of the file goes from one to the next.
LEMMA FileGoes ==
    ASSUME NEW V, NEW t, NEW i, NEW n \in Nat, DOMAIN t = 1..n, NEW base \in V, base = Nothing,
           NEW g \in [(1..n) \X V -> V],
           FileIs(g, V, n, t, i)
    PROVE  Ends(ScanFile(t, i), V, n, g, base)
  <1> DEFINE To(s, k) == FileBus(s, t, k, i)
             Place == [k \in 1..n |-> k]
             Rec(f) == f = [s \in SUBSET (1..n) |->
                               IF s = {} THEN base ELSE To(f[s \ {Max(s)}], Place[Max(s)])]
             f == CHOOSE f : Rec(f)
  <1>0. \A k \in 1..n, s \in V : g[<<k, s>>] = To(s, k)
    BY DEF FileIs
  <1>1. PICK h \in [SUBSET (1..n) -> V] : Folds(h, n, g, base)
    BY FoldExists
  <1>2. Rec(h)
    <2>1. ASSUME NEW s \in SUBSET (1..n), s # {}
          PROVE  g[<<Max(s), h[s \ {Max(s)}]>>] = To(h[s \ {Max(s)}], Place[Max(s)])
      <3>1. Max(s) \in 1..n /\ s \ {Max(s)} \in SUBSET (1..n) /\ Place[Max(s)] = Max(s)
        BY <2>1, LastOf
      <3> QED
        BY <1>0, <1>1, <3>1
    <2> QED
      BY <1>1, <2>1 DEF Folds
  <1>3. Rec(f)
    <2> HIDE DEF Rec
    <2> QED
      BY <1>2
  <1>4. ScanFile(t, i) = f[1..n]
    BY DEF ScanFile, FoldLeftDomain, FoldLeft, MapThenFoldSet
  <1> HIDE DEF f
  <1>5. f[{}] = base
    BY <1>3
  <1>6. ASSUME NEW k \in 1..n, f[1..(k - 1)] \in V PROVE f[1..k] = g[<<k, f[1..(k - 1)]>>]
    <2>1. /\ 1..k \in SUBSET (1..n) /\ 1..k # {} /\ Max(1..k) = k
          /\ (1..k) \ {k} = 1..(k - 1) /\ Place[k] = k
      BY FirstPlaces
    <2>2. \A s \in SUBSET (1..n) : s # {} => f[s] = To(f[s \ {Max(s)}], Place[Max(s)])
      BY <1>3
    <2>3. f[1..k] = To(f[(1..k) \ {k}], k)
      BY <2>1, <2>2
    <2> QED
      BY <1>0, <1>6, <2>1, <2>3
  <1>7. Follow(f, V, n, g, base)
    BY <1>5, <1>6 DEF Follow
  <1>8. Ends(f[1..n], V, n, g, base)
    BY <1>7, FoldGoes
  <1> QED
    BY <1>4, <1>8

\* The loop over the list of a bus, if the search gets there.
BusIs(g, V, n, t, b, i) ==
    \A k \in 1..n, s \in V : g[<<k, s>>] = ScanDevice(s, <<b, k>>, t[b][k], i)

\* The fold over a list of devices goes from one to the next.
LEMMA BusGoes ==
    ASSUME NEW V, NEW t, NEW b, NEW i, NEW n \in Nat, DOMAIN t[b] = 1..n,
           NEW base \in V, ~base.found,
           NEW g \in [(1..n) \X V -> V],
           BusIs(g, V, n, t, b, i)
    PROVE  Ends(ScanBus(base, t, b, i), V, n, g, base)
  <1> DEFINE To(s, k) == ScanDevice(s, <<b, k>>, t[b][k], i)
             Place == [k \in 1..n |-> k]
             Rec(f) == f = [s \in SUBSET (1..n) |->
                               IF s = {} THEN base ELSE To(f[s \ {Max(s)}], Place[Max(s)])]
             f == CHOOSE f : Rec(f)
  <1>0. \A k \in 1..n, s \in V : g[<<k, s>>] = To(s, k)
    BY DEF BusIs
  <1>1. PICK h \in [SUBSET (1..n) -> V] : Folds(h, n, g, base)
    BY FoldExists
  <1>2. Rec(h)
    <2>1. ASSUME NEW s \in SUBSET (1..n), s # {}
          PROVE  g[<<Max(s), h[s \ {Max(s)}]>>] = To(h[s \ {Max(s)}], Place[Max(s)])
      <3>1. Max(s) \in 1..n /\ s \ {Max(s)} \in SUBSET (1..n) /\ Place[Max(s)] = Max(s)
        BY <2>1, LastOf
      <3> QED
        BY <1>0, <1>1, <3>1
    <2> QED
      BY <1>1, <2>1 DEF Folds
  <1>3. Rec(f)
    <2> HIDE DEF Rec
    <2> QED
      BY <1>2
  <1>4. ScanBus(base, t, b, i) = f[1..n]
    BY DEF ScanBus, FoldLeftDomain, FoldLeft, MapThenFoldSet
  <1> HIDE DEF f
  <1>5. f[{}] = base
    BY <1>3
  <1>6. ASSUME NEW k \in 1..n, f[1..(k - 1)] \in V PROVE f[1..k] = g[<<k, f[1..(k - 1)]>>]
    <2>1. /\ 1..k \in SUBSET (1..n) /\ 1..k # {} /\ Max(1..k) = k
          /\ (1..k) \ {k} = 1..(k - 1) /\ Place[k] = k
      BY FirstPlaces
    <2>2. \A s \in SUBSET (1..n) : s # {} => f[s] = To(f[s \ {Max(s)}], Place[Max(s)])
      BY <1>3
    <2>3. f[1..k] = To(f[(1..k) \ {k}], k)
      BY <2>1, <2>2
    <2> QED
      BY <1>0, <1>6, <2>1, <2>3
  <1>7. Follow(f, V, n, g, base)
    BY <1>5, <1>6 DEF Follow
  <1>8. Ends(f[1..n], V, n, g, base)
    BY <1>7, FoldGoes
  <1> QED
    BY <1>4, <1>8

\* The loop over the list of the busses.
ListsAre(g, V, n, t, i) == \A k \in 1..n, s \in V : g[<<k, s>>] = ScanBus(s, t, k, i)

\* The fold over the list of the busses goes from one to the next.
LEMMA ListsGo ==
    ASSUME NEW V, NEW t, NEW i, NEW n \in Nat, DOMAIN t = 1..n, NEW base \in V, base = Nothing,
           NEW g \in [(1..n) \X V -> V],
           ListsAre(g, V, n, t, i)
    PROVE  Ends(ScanLists(t, i), V, n, g, base)
  <1> DEFINE To(s, k) == ScanBus(s, t, k, i)
             Place == [k \in 1..n |-> k]
             Rec(f) == f = [s \in SUBSET (1..n) |->
                               IF s = {} THEN base ELSE To(f[s \ {Max(s)}], Place[Max(s)])]
             f == CHOOSE f : Rec(f)
  <1>0. \A k \in 1..n, s \in V : g[<<k, s>>] = To(s, k)
    BY DEF ListsAre
  <1>1. PICK h \in [SUBSET (1..n) -> V] : Folds(h, n, g, base)
    BY FoldExists
  <1>2. Rec(h)
    <2>1. ASSUME NEW s \in SUBSET (1..n), s # {}
          PROVE  g[<<Max(s), h[s \ {Max(s)}]>>] = To(h[s \ {Max(s)}], Place[Max(s)])
      <3>1. Max(s) \in 1..n /\ s \ {Max(s)} \in SUBSET (1..n) /\ Place[Max(s)] = Max(s)
        BY <2>1, LastOf
      <3> QED
        BY <1>0, <1>1, <3>1
    <2> QED
      BY <1>1, <2>1 DEF Folds
  <1>3. Rec(f)
    <2> HIDE DEF Rec
    <2> QED
      BY <1>2
  <1>4. ScanLists(t, i) = f[1..n]
    BY DEF ScanLists, FoldLeftDomain, FoldLeft, MapThenFoldSet
  <1> HIDE DEF f
  <1>5. f[{}] = base
    BY <1>3
  <1>6. ASSUME NEW k \in 1..n, f[1..(k - 1)] \in V PROVE f[1..k] = g[<<k, f[1..(k - 1)]>>]
    <2>1. /\ 1..k \in SUBSET (1..n) /\ 1..k # {} /\ Max(1..k) = k
          /\ (1..k) \ {k} = 1..(k - 1) /\ Place[k] = k
      BY FirstPlaces
    <2>2. \A s \in SUBSET (1..n) : s # {} => f[s] = To(f[s \ {Max(s)}], Place[Max(s)])
      BY <1>3
    <2>3. f[1..k] = To(f[(1..k) \ {k}], k)
      BY <2>1, <2>2
    <2> QED
      BY <1>0, <1>6, <2>1, <2>3
  <1>7. Follow(f, V, n, g, base)
    BY <1>5, <1>6 DEF Follow
  <1>8. Ends(f[1..n], V, n, g, base)
    BY <1>7, FoldGoes
  <1> QED
    BY <1>4, <1>8

Searches == [at: Nat \X Nat, count: Nat, found: BOOLEAN]

\* What a device at a place does to either search.
Looked(s, place, is, i) ==
    IF s.found THEN s
    ELSE IF ~is THEN [at |-> place, count |-> s.count, found |-> FALSE]
    ELSE IF s.count = i THEN [at |-> place, count |-> s.count + 1, found |-> TRUE]
    ELSE [at |-> place, count |-> s.count + 1, found |-> FALSE]

\* Each search, whatever its loops look like, does that.
LEMMA BothLook ==
    ASSUME NEW s \in Searches, NEW place \in Nat \X Nat, NEW is \in BOOLEAN, NEW i \in Nat
    PROVE  /\ Looked(s, place, is, i) \in Searches
           /\ ScanP(ScanT(s, place), is, i) = Looked(s, place, is, i)
           /\ ScanDevice(s, place, is, i) = Looked(s, place, is, i)
  <1> DEFINE next == [s EXCEPT !.at = place]
             looked == Looked(s, place, is, i)
  <1>1. /\ s = [at |-> s.at, count |-> s.count, found |-> s.found]
        /\ s.count \in Nat /\ s.found \in BOOLEAN
    BY DEF Searches
  <1>2. looked \in Searches
    BY <1>1 DEF Looked, Searches
  <1>3. next = [at |-> place, count |-> s.count, found |-> s.found]
    BY <1>1
  <1>4. next.count = s.count /\ next.found = s.found
    BY <1>3
  <1>5. CASE s.found
    BY <1>2, <1>5 DEF Looked, ScanP, ScanT, ScanDevice
  <1>6. CASE ~s.found /\ ~is
    <2>1. s.found = FALSE
      BY <1>1, <1>6, Zenon
    <2>2. looked = next
      BY <1>3, <1>6, <2>1 DEF Looked
    <2> HIDE DEF next
    <2> QED
      BY <1>2, <1>4, <1>6, <2>2 DEF ScanP, ScanT, ScanDevice, next
  <1>7. CASE ~s.found /\ is
    <2>1. (s.count = i) = (IF s.count = i THEN TRUE ELSE FALSE)
      BY Zenon
    <2>2. Count(next, i) = [next EXCEPT !.count = s.count + 1, !.found = IF s.count = i THEN TRUE ELSE FALSE]
      BY <1>4, <2>1, Zenon DEF Count
    <2>3. looked = Count(next, i)
      BY <1>3, <1>7, <2>2 DEF Looked
    <2> HIDE DEF next
    <2> QED
      BY <1>2, <1>4, <1>7, <2>3 DEF ScanP, ScanT, ScanDevice, next
  <1> QED
    BY <1>5, <1>6, <1>7

\* The Topfields up to a bus, and up to a device of one.
UpToBus(t, b) == {q \in Topfields(t) : q[1] <= b}
UpToDevice(t, b, d) == {q \in Topfields(t) : q[1] < b \/ (q[1] = b /\ q[2] <= d)}

\* What the places of a topology, and of its Topfields, are.
LEMMA PlacesOf ==
    ASSUME NEW t \in Seq(Seq(BOOLEAN))
    PROVE  /\ Len(t) \in Nat /\ DOMAIN t = 1..Len(t)
           /\ \A b \in 1..Len(t) : /\ Len(t[b]) \in Nat /\ DOMAIN t[b] = 1..Len(t[b])
                                   /\ \A d \in 1..Len(t[b]) : t[b][d] \in BOOLEAN
           /\ \A q \in Topfields(t) : /\ q = <<q[1], q[2]>> /\ t[q[1]][q[2]]
                                      /\ q[1] \in 1..Len(t) /\ q[2] \in 1..Len(t[q[1]])
           /\ \A b \in 1..Len(t) : \A d \in 1..Len(t[b]) : <<b, d>> \in Topfields(t) <=> t[b][d]
  <1>1. Len(t) \in Nat /\ DOMAIN t = 1..Len(t) /\ \A b \in 1..Len(t) : t[b] \in Seq(BOOLEAN)
    OBVIOUS
  <1>2. \A b \in 1..Len(t) : /\ Len(t[b]) \in Nat /\ DOMAIN t[b] = 1..Len(t[b])
                             /\ \A d \in 1..Len(t[b]) : t[b][d] \in BOOLEAN
    BY <1>1
  <1>3. \A q : q \in Topfields(t) <=>
                /\ \E b \in 1..Len(t) : \E d \in 1..Len(t[b]) : q = <<b, d>>
                /\ t[q[1]][q[2]]
    BY <1>1, <1>2 DEF Topfields
  <1> QED
    BY <1>1, <1>2, <1>3

\* From device to device, and from bus to bus, there is at most one Topfield more.
LEMMA UpToSteps ==
    ASSUME NEW t \in Seq(Seq(BOOLEAN)), NEW b \in 1..Len(t)
    PROVE  /\ UpToDevice(t, b, 0) = UpToBus(t, b - 1)
           /\ UpToDevice(t, b, Len(t[b])) = UpToBus(t, b)
           /\ \A d \in 1..Len(t[b]) :
                /\ {q \in Topfields(t) : Before(q, <<b, d>>)} = UpToDevice(t, b, d - 1)
                /\ t[b][d] => /\ UpToDevice(t, b, d) = UpToDevice(t, b, d - 1) \cup {<<b, d>>}
                              /\ <<b, d>> \notin UpToDevice(t, b, d - 1)
                /\ ~t[b][d] => UpToDevice(t, b, d) = UpToDevice(t, b, d - 1)
  <1>1. /\ Len(t) \in Nat /\ Len(t[b]) \in Nat
        /\ \A q \in Topfields(t) : /\ q = <<q[1], q[2]>> /\ t[q[1]][q[2]]
                                   /\ q[1] \in 1..Len(t) /\ q[2] \in 1..Len(t[q[1]])
        /\ \A d \in 1..Len(t[b]) : <<b, d>> \in Topfields(t) <=> t[b][d]
    BY PlacesOf
  <1>2. \A q \in Topfields(t) : /\ q[1] \in Nat /\ q[2] \in Nat /\ q[2] > 0
                                /\ q[1] = b => q[2] <= Len(t[b])
    <2>1. ASSUME NEW q \in Topfields(t)
          PROVE  q[1] \in 1..Len(t) /\ q[2] \in 1..Len(t[q[1]]) /\ Len(t[q[1]]) \in Nat
      BY <1>1, PlacesOf
    <2> QED
      BY <2>1
  <1>3. UpToDevice(t, b, 0) = UpToBus(t, b - 1)
    BY <1>2 DEF UpToDevice, UpToBus
  <1>4. UpToDevice(t, b, Len(t[b])) = UpToBus(t, b)
    BY <1>2 DEF UpToDevice, UpToBus
  <1>5. ASSUME NEW d \in 1..Len(t[b])
        PROVE  /\ {q \in Topfields(t) : Before(q, <<b, d>>)} = UpToDevice(t, b, d - 1)
               /\ t[b][d] => /\ UpToDevice(t, b, d) = UpToDevice(t, b, d - 1) \cup {<<b, d>>}
                             /\ <<b, d>> \notin UpToDevice(t, b, d - 1)
               /\ ~t[b][d] => UpToDevice(t, b, d) = UpToDevice(t, b, d - 1)
    <2>1. \A q \in Topfields(t) : Before(q, <<b, d>>) <=> q[1] < b \/ (q[1] = b /\ q[2] <= d - 1)
      BY <1>2 DEF Before
    <2>2. \A q \in Topfields(t) : q[1] = b /\ q[2] = d <=> q = <<b, d>>
      BY <1>1
    <2>3. \A q \in Topfields(t) :
            q \in UpToDevice(t, b, d) <=> q \in UpToDevice(t, b, d - 1) \/ q = <<b, d>>
      BY <1>2, <2>2 DEF UpToDevice
    <2>4. <<b, d>> \notin UpToDevice(t, b, d - 1)
      BY DEF UpToDevice
    <2>5. \A e : UpToDevice(t, b, e) \subseteq Topfields(t)
      BY DEF UpToDevice
    <2>6. {q \in Topfields(t) : Before(q, <<b, d>>)} = UpToDevice(t, b, d - 1)
      BY <2>1 DEF UpToDevice
    <2>7. ASSUME t[b][d]
          PROVE  UpToDevice(t, b, d) = UpToDevice(t, b, d - 1) \cup {<<b, d>>}
      <3>1. <<b, d>> \in Topfields(t)
        BY <1>1, <2>7
      <3>2. \A q : q \in UpToDevice(t, b, d) <=> q \in UpToDevice(t, b, d - 1) \cup {<<b, d>>}
        BY <2>3, <2>5, <3>1
      <3> QED
        BY <3>2, Zenon
    <2>8. ASSUME ~t[b][d] PROVE UpToDevice(t, b, d) = UpToDevice(t, b, d - 1)
      <3>1. <<b, d>> \notin Topfields(t)
        BY <1>1, <2>8
      <3>2. \A q : q \in UpToDevice(t, b, d) <=> q \in UpToDevice(t, b, d - 1)
        BY <2>3, <2>5, <3>1
      <3> QED
        BY <3>2, Zenon
    <2> QED
      BY <2>4, <2>6, <2>7, <2>8
  <1> QED
    BY <1>3, <1>4, <1>5

\* The search has found the i-th Topfield, or has seen those of P, not more than i.
IsRight(s, t, i, P) ==
    IF s.found
    THEN s.at \in Topfields(t) /\ Cardinality({q \in Topfields(t) : Before(q, s.at)}) = i
    ELSE IsFiniteSet(P) /\ s.count = Cardinality(P) /\ s.count <= i

\* A device that is looked at keeps the search right.
LEMMA LookIsRight ==
    ASSUME NEW t \in Seq(Seq(BOOLEAN)), NEW i \in Nat, NEW s \in Searches,
           NEW b \in 1..Len(t), NEW d \in 1..Len(t[b]),
           IsRight(s, t, i, UpToDevice(t, b, d - 1))
    PROVE  IsRight(Looked(s, <<b, d>>, t[b][d], i), t, i, UpToDevice(t, b, d))
  <1> DEFINE P == UpToDevice(t, b, d - 1)
             new == Looked(s, <<b, d>>, t[b][d], i)
  <1>1. /\ {q \in Topfields(t) : Before(q, <<b, d>>)} = P
        /\ t[b][d] => UpToDevice(t, b, d) = P \cup {<<b, d>>} /\ <<b, d>> \notin P
        /\ ~t[b][d] => UpToDevice(t, b, d) = P
    BY UpToSteps
  <1>2. t[b][d] \in BOOLEAN /\ (<<b, d>> \in Topfields(t) <=> t[b][d])
    BY PlacesOf
  <1>3. CASE s.found
    <2>1. new = s
      BY <1>3 DEF Looked
    <2> QED
      BY <1>3, <2>1 DEF IsRight
  <1>4. CASE ~s.found /\ ~t[b][d]
    <2>1. new = [at |-> <<b, d>>, count |-> s.count, found |-> FALSE]
      BY <1>4 DEF Looked
    <2>2. ~new.found /\ new.count = s.count
      BY <2>1
    <2> QED
      BY <1>1, <1>4, <2>2 DEF IsRight
  <1>5. CASE ~s.found /\ t[b][d]
    <2>1. IsFiniteSet(P) /\ s.count = Cardinality(P) /\ s.count <= i /\ s.count \in Nat
      BY <1>5 DEF IsRight, Searches
    <2>2. CASE s.count = i
      <3>1. new = [at |-> <<b, d>>, count |-> s.count + 1, found |-> TRUE]
        BY <1>5, <2>2 DEF Looked
      <3>2. new.found /\ new.at = <<b, d>>
        <4> HIDE DEF new
        <4> QED
          BY <3>1, Zenon
      <3>3. Cardinality({q \in Topfields(t) : Before(q, <<b, d>>)}) = i
        BY <1>1, <2>1, <2>2
      <3>4. <<b, d>> \in Topfields(t)
        BY <1>2, <1>5
      <3> QED
        BY <3>2, <3>3, <3>4, Zenon DEF IsRight
    <2>3. CASE s.count # i
      <3>1. IsFiniteSet(P \cup {<<b, d>>}) /\ Cardinality(P \cup {<<b, d>>}) = s.count + 1
        <4>1. <<b, d>> \notin P /\ IsFiniteSet(P) /\ Cardinality(P) = s.count
          BY <1>1, <1>5, <2>1
        <4> HIDE DEF P
        <4>2. /\ IsFiniteSet(P \cup {<<b, d>>})
              /\ Cardinality(P \cup {<<b, d>>}) =
                    IF <<b, d>> \in P THEN Cardinality(P) ELSE Cardinality(P) + 1
          BY <4>1, FS_AddElement, Zenon
        <4> QED
          BY <4>1, <4>2
      <3>2. new = [at |-> <<b, d>>, count |-> s.count + 1, found |-> FALSE]
        BY <1>5, <2>3 DEF Looked
      <3>3. ~new.found /\ new.count = s.count + 1 /\ s.count + 1 <= i
        BY <2>1, <2>3, <3>2
      <3> QED
        BY <1>1, <1>5, <3>1, <3>3 DEF IsRight
    <2> QED
      BY <2>2, <2>3
  <1> QED
    BY <1>2, <1>3, <1>4, <1>5


\* The loop over the devices of a bus.
LEMMA BusIsRight ==
    ASSUME NEW t \in Seq(Seq(BOOLEAN)), NEW i \in Nat, NEW s \in Searches, NEW b \in 1..Len(t)
    PROVE  /\ FileBus(s, t, b, i) \in Searches
           /\ ScanBus(s, t, b, i) \in Searches
           /\ IsRight(s, t, i, UpToBus(t, b - 1)) =>
                 /\ IsRight(FileBus(s, t, b, i), t, i, UpToBus(t, b))
                 /\ IsRight(ScanBus(s, t, b, i), t, i, UpToBus(t, b))
  <1> DEFINE n == Len(t[b])
             g == [x \in (1..n) \X Searches |-> Looked(x[2], <<b, x[1]>>, t[b][x[1]], i)]
             Result(r) == /\ r \in Searches
                          /\ IsRight(s, t, i, UpToBus(t, b - 1)) => IsRight(r, t, i, UpToBus(t, b))
  <1>1. n \in Nat /\ DOMAIN t[b] = 1..n /\ \A d \in 1..n : t[b][d] \in BOOLEAN /\ <<b, d>> \in Nat \X Nat
    BY PlacesOf
  <1>2. \A d \in 1..n, r \in Searches :
            /\ Looked(r, <<b, d>>, t[b][d], i) \in Searches
            /\ ScanP(ScanT(r, <<b, d>>), t[b][d], i) = Looked(r, <<b, d>>, t[b][d], i)
            /\ ScanDevice(r, <<b, d>>, t[b][d], i) = Looked(r, <<b, d>>, t[b][d], i)
    BY <1>1, BothLook
  <1>3. \A d \in 1..n, r \in Searches : g[<<d, r>>] = Looked(r, <<b, d>>, t[b][d], i)
    OBVIOUS
  <1>4. g \in [(1..n) \X Searches -> Searches]
    BY <1>2
  <1> HIDE DEF g
  <1>5. ASSUME NEW R \in [0..n -> Searches], Goes(R, n, g, s) PROVE Result(R[n])
    <2>1. R[n] \in Searches
      <3> HIDE DEF n
      <3> QED
        BY <1>1
    <2> SUFFICES ASSUME IsRight(s, t, i, UpToBus(t, b - 1)) PROVE IsRight(R[n], t, i, UpToBus(t, b))
      BY <2>1
    <2> DEFINE Good == {d \in 0..n : IsRight(R[d], t, i, UpToDevice(t, b, d))}
    <2>2. 0 \in Good
      BY <1>1, <1>5, UpToSteps DEF Goes
    <2>3. ASSUME NEW d \in 1..n, d - 1 \in Good PROVE d \in Good
      <3>1. R[d - 1] \in Searches /\ IsRight(R[d - 1], t, i, UpToDevice(t, b, d - 1))
        BY <1>1, <2>3
      <3>2. R[d] = Looked(R[d - 1], <<b, d>>, t[b][d], i)
        BY <1>3, <1>5, <3>1 DEF Goes
      <3>3. IsRight(R[d], t, i, UpToDevice(t, b, d))
        BY <3>1, <3>2, LookIsRight
      <3> QED
        BY <1>1, <3>3
    <2>4. 0..n \subseteq Good
      <3> HIDE DEF Good, n
      <3> QED
        BY <1>1, <2>2, <2>3, UpTo
    <2>5. n \in Good
      <3> HIDE DEF Good, n
      <3> QED
        BY <1>1, <2>4
    <2>6. UpToDevice(t, b, n) = UpToBus(t, b)
      BY UpToSteps
    <2> HIDE DEF n
    <2> QED
      BY <2>5, <2>6
  <1>6. Result(FileBus(s, t, b, i))
    <2> HIDE DEF n, Result
    <2>1. FileBusIs(g, Searches, n, t, b, i)
      BY <1>2, <1>3 DEF FileBusIs
    <2>2. Ends(FileBus(s, t, b, i), Searches, n, g, s)
      BY <1>1, <1>4, <2>1, FileBusGoes
    <2> QED
      BY <1>5, <2>2 DEF Ends
  <1>7. Result(ScanBus(s, t, b, i))
    <2>1. CASE s.found
      <3>1. ScanBus(s, t, b, i) = s
        BY <2>1 DEF ScanBus
      <3> QED
        BY <2>1, <3>1 DEF IsRight
    <2>2. CASE ~s.found
      <3> HIDE DEF n, Result
      <3>1. BusIs(g, Searches, n, t, b, i)
        BY <1>2, <1>3 DEF BusIs
      <3>2. Ends(ScanBus(s, t, b, i), Searches, n, g, s)
        BY <1>1, <1>4, <2>2, <3>1, BusGoes
      <3> QED
        BY <1>5, <3>2 DEF Ends
    <2> QED
      BY <2>1, <2>2
  <1> QED
    BY <1>6, <1>7

\* The loop over the busses, and what is there at its end.
THEOREM SearchIsRight ==
    ASSUME NEW t \in Seq(Seq(BOOLEAN)), NEW i \in Nat
    PROVE  \A s \in {ScanFile(t, i), ScanLists(t, i)} : IsRight(s, t, i, Topfields(t))
  <1> DEFINE n == Len(t)
             gFile == [x \in (1..n) \X Searches |-> FileBus(x[2], t, x[1], i)]
             gLists == [x \in (1..n) \X Searches |-> ScanBus(x[2], t, x[1], i)]
             Keeps(g) == /\ g \in [(1..n) \X Searches -> Searches]
                         /\ \A b \in 1..n, s \in Searches :
                                IsRight(s, t, i, UpToBus(t, b - 1))
                                    => IsRight(g[<<b, s>>], t, i, UpToBus(t, b))
  <1>1. n \in Nat /\ DOMAIN t = 1..n
    OBVIOUS
  <1>2. /\ \A b \in 1..n, s \in Searches : /\ FileBus(s, t, b, i) \in Searches
                                           /\ gFile[<<b, s>>] = FileBus(s, t, b, i)
        /\ Keeps(gFile)
    BY BusIsRight
  <1>3. /\ \A b \in 1..n, s \in Searches : /\ ScanBus(s, t, b, i) \in Searches
                                           /\ gLists[<<b, s>>] = ScanBus(s, t, b, i)
        /\ Keeps(gLists)
    BY BusIsRight
  <1>4. Nothing \in Searches /\ IsRight(Nothing, t, i, UpToBus(t, 0))
    <2>1. UpToBus(t, 0) = {}
      BY PlacesOf DEF UpToBus
    <2>2. Nothing \in Searches /\ ~Nothing.found /\ Nothing.count = 0
      BY DEF Nothing, Nowhere, Searches
    <2>3. IsFiniteSet(UpToBus(t, 0)) /\ Cardinality(UpToBus(t, 0)) = 0
      BY <2>1, FS_EmptySet
    <2>4. 0 <= i
      OBVIOUS
    <2> QED
      BY <2>2, <2>3, <2>4, Zenon DEF IsRight
  <1>5. UpToBus(t, n) = Topfields(t)
    BY PlacesOf DEF UpToBus
  <1>6. ASSUME NEW g, Keeps(g), NEW R \in [0..n -> Searches], Goes(R, n, g, Nothing)
        PROVE  IsRight(R[n], t, i, Topfields(t))
    <2> DEFINE Good == {b \in 0..n : IsRight(R[b], t, i, UpToBus(t, b))}
    <2>1. 0 \in Good
      BY <1>1, <1>4, <1>6 DEF Goes
    <2>2. ASSUME NEW b \in 1..n, b - 1 \in Good PROVE b \in Good
      <3>1. R[b - 1] \in Searches /\ IsRight(R[b - 1], t, i, UpToBus(t, b - 1)) /\ b \in 0..n
        <4>1. b - 1 \in 0..n /\ b \in 0..n
          BY <1>1
        <4> HIDE DEF n
        <4> QED
          BY <2>2, <4>1
      <3>2. R[b] = g[<<b, R[b - 1]>>]
        BY <1>6 DEF Goes
      <3>3. IsRight(g[<<b, R[b - 1]>>], t, i, UpToBus(t, b))
        <4> HIDE DEF n
        <4> QED
          BY <1>6, <3>1
      <3> QED
        BY <3>1, <3>2, <3>3
    <2>3. 0..n \subseteq Good
      <3> HIDE DEF Good, n
      <3> QED
        BY <1>1, <2>1, <2>2, UpTo
    <2> QED
      <3>1. n \in Good
        <4> HIDE DEF Good, n
        <4> QED
          BY <1>1, <2>3
      <3> QED
        BY <1>5, <3>1
  <1> HIDE DEF n, gFile, gLists
  <1>7. IsRight(ScanFile(t, i), t, i, Topfields(t))
    <2>1. FileIs(gFile, Searches, n, t, i)
      BY <1>2 DEF FileIs
    <2>2. gFile \in [(1..n) \X Searches -> Searches]
      BY <1>2
    <2>3. Ends(ScanFile(t, i), Searches, n, gFile, Nothing)
      BY <1>1, <1>4, <2>1, <2>2, FileGoes
    <2> QED
      BY <1>2, <1>6, <2>3 DEF Ends
  <1>8. IsRight(ScanLists(t, i), t, i, Topfields(t))
    <2>1. ListsAre(gLists, Searches, n, t, i)
      BY <1>3 DEF ListsAre
    <2>2. gLists \in [(1..n) \X Searches -> Searches]
      BY <1>3
    <2>3. Ends(ScanLists(t, i), Searches, n, gLists, Nothing)
      BY <1>1, <1>4, <2>1, <2>2, ListsGo
    <2> QED
      BY <1>3, <1>6, <2>3 DEF Ends
  <1> QED
    BY <1>7, <1>8

\* Whatever the search returns: a device has been found when it is opened, and
\* from then on the descriptor of that device, and no other, is open.
DescriptorInv ==
    /\ step \in {"closed", "found", "fd", "reset", "claimed", "opened"}
    /\ step \in {"fd", "reset", "claimed", "opened"} => target \in fds
    /\ ~Leaks => fds \subseteq (IF step \in {"closed", "found"} THEN {} ELSE {target})

\* What is found is what was asked for, and stays so until the next call.
FoundInv ==
    /\ topology \in Topologies /\ index \in Indices \cup {-1}
    /\ index >= 0 => IsNth(target)
    /\ step # "closed" => target # Nowhere

\* Every way out of a call, early or late, passes by the close that it needs.
LEMMA DescriptorStep ==
    ASSUME DescriptorInv, [OpenNext]_openVars PROVE DescriptorInv'
<1> USE DEF DescriptorInv, Leaks
<1>1. CASE Find
  BY <1>1 DEF Find
<1>2. CASE OpenDevice
  BY <1>2 DEF OpenDevice
<1>3. CASE ResetDevice
  BY <1>3 DEF ResetDevice, GiveUp
<1>4. CASE Claim
  BY <1>4 DEF Claim, GiveUp
<1>5. CASE SetInterface
  BY <1>5 DEF SetInterface, GiveUp
<1>6. CASE close_usb_dev
  BY <1>6 DEF close_usb_dev
<1>7. CASE UNCHANGED openVars
  BY <1>7 DEF openVars
<1> QED
  BY <1>1, <1>2, <1>3, <1>4, <1>5, <1>6, <1>7 DEF OpenNext

\* Nowhere is not a place at which a device may be.
LEMMA NowhereIsNoPlace ==
    ASSUME NEW t \in Topologies PROVE Nowhere \notin Topfields(t)
<1>1. t \in Seq(Seq(BOOLEAN))
  BY UsbOpenAssumption
<1>2. 0 \notin DOMAIN t
  BY <1>1
<1> QED
  BY <1>2 DEF Topfields, Nowhere

\* The search finds the device that was asked for, if there is one.
LEMMA FindStep ==
    ASSUME FoundInv, Find PROVE FoundInv'
<1> DEFINE s(i) == Search(topology, i)
<1>1. PICK i \in Indices :
        /\ index' = i
        /\ target' = IF s(i).found THEN s(i).at ELSE Nowhere
        /\ step' = IF s(i).found THEN "found" ELSE "closed"
  BY DEF Find
<1>2. topology' = topology /\ topology \in Topologies
  BY DEF Find, FoundInv
<1>3. s(i) \in {ScanFile(topology, i), ScanLists(topology, i)}
  BY DEF Search
<1>4. IsRight(s(i), topology, i, Topfields(topology))
  <2>1. topology \in Seq(Seq(BOOLEAN)) /\ i \in Nat
    BY <1>2, UsbOpenAssumption
  <2> QED
    BY <1>3, <2>1, SearchIsRight
<1>5. CASE s(i).found
  <2>1. /\ target' = s(i).at /\ target' \in Topfields(topology)
        /\ Cardinality({q \in Topfields(topology) : Before(q, target')}) = i
    BY <1>1, <1>2, <1>4, <1>5 DEF IsRight
  <2>2. target' # Nowhere
    BY <1>2, <2>1, NowhereIsNoPlace
  <2> QED
    BY <1>1, <1>2, <2>1, <2>2 DEF FoundInv, IsNth
<1>6. CASE ~s(i).found
  <2>1. target' = Nowhere /\ step' = "closed" /\ Cardinality(Topfields(topology)) <= i
    BY <1>1, <1>2, <1>4, <1>6 DEF IsRight
  <2> QED
    BY <1>1, <1>2, <2>1 DEF FoundInv, IsNth
<1> QED
  BY <1>5, <1>6

\* No later step changes what was found.
LEMMA FoundStep ==
    ASSUME FoundInv, [OpenNext]_openVars PROVE FoundInv'
<1>1. CASE Find
  BY <1>1, FindStep
<1>2. CASE ~Find
  <2>1. UNCHANGED <<topology, index, target>> /\ (step' # "closed" => step # "closed")
    BY <1>2
    DEF OpenNext, OpenDevice, ResetDevice, Claim, SetInterface, close_usb_dev, GiveUp, openVars
  <2> QED
    BY <2>1 DEF FoundInv, IsNth
<1> QED
  BY <1>1, <1>2

\* A call gives a handle of the device that index names, or leaves nothing open,
\* at whichever step it fails, on busses of any number and length.
THEOREM OpensOrNothing == OpenSpec => []HandleOrNothing
<1>1. OpenInit => DescriptorInv /\ FoundInv
  BY DEF OpenInit, DescriptorInv, FoundInv
<1>2. DescriptorInv /\ FoundInv /\ [OpenNext]_openVars => (DescriptorInv /\ FoundInv)'
  BY DescriptorStep, FoundStep
<1>3. DescriptorInv /\ FoundInv => HandleOrNothing
  BY DEF DescriptorInv, FoundInv, HandleOrNothing
<1> QED
  BY <1>1, <1>2, <1>3, PTL DEF OpenSpec
=============================================================================
