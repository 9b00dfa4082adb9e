---------------------------- MODULE PacketCodec ----------------------------
(***************************************************************************)
(* Packets as bytes: tf_bytes.c, crc16.c and the parts of tf_io.c that put *)
(* a request together, check a reply and take it apart.                    *)
(*                                                                         *)
(* A packet in memory is the sequence of its bytes, big endian, of which   *)
(* req->length is the length; what is on the wire is byte-swapped.  Bits   *)
(* of the checksum are members of a set, and XOR is symmetric difference.  *)
(***************************************************************************)
EXTENDS Integers, Sequences, FiniteSets, FiniteSetsExt, SequencesExt, Mjd

PACKET_HEAD_SIZE == 8
SUCCESS == 2
FAIL == 1
SIZE_RESULT == 4097 \* 0x1001
DIRENT == 4099      \* 0x1003
FILE_SEND == 4104   \* 0x1008
FILE_START == 4105  \* 0x1009
FILE_DATA == 4106   \* 0x100A
TYPE_DIR == 1
TYPE_FILE == 2

-----------------------------------------------------------------------------
(* tf_bytes.c                                                              *)

\* put_u16, put_u32, put_u64: n bytes, the highest first.
put(n, val) ==
    Reverse(FoldLeft(LAMBDA s, i : [left |-> s.left \div 256, out |-> Append(s.out, s.left % 256)],
                     [left |-> val, out |-> <<>>], [i \in 1..n |-> i]).out)

\* get_u16, get_u32, get_u64.
get(bytes) == FoldLeft(LAMBDA r, b : r * 256 + b, 0, bytes)

\* n bytes at offset at, which counts from 0.
Bytes(p, at, n) == SubSeq(p, at + 1, at + n)

get_u16_raw(p) == p[2] * 256 + p[1]

\* Pairs of bytes change places; count is even.
byte_swap(p, count) ==
    [i \in DOMAIN p |-> IF i > count THEN p[i] ELSE IF i % 2 = 1 THEN p[i + 1] ELSE p[i - 1]]

-----------------------------------------------------------------------------
(* crc16.c                                                                 *)

Bit(i) == 2^i
BitsOf == [b \in 0..255 |-> {i \in 0..7 : (b \div Bit(i)) % 2 = 1}]
ByteOf == [s \in SUBSET (0..7) |-> CHOOSE b \in 0..255 : BitsOf[b] = s]
Xor(s, t) == (s \ t) \cup (t \ s)

\* The entries of crc_16_table for the powers of two: 0xc0c1, 0xc181, 0xc301,
\* 0xc601, 0xcc01, 0xd801, 0xf001 and 0xa001.
PowerEntry ==
    <<{0, 6, 7, 14, 15}, {0, 7, 8, 14, 15}, {0, 8, 9, 14, 15}, {0, 9, 10, 14, 15},
      {0, 10, 11, 14, 15}, {0, 11, 12, 14, 15}, {0, 12, 13, 14, 15}, {0, 13, 15}>>

\* Any other entry is the XOR of those of its bits.
crc_16_table ==
    [s \in SUBSET (0..7) |->
        {j \in 0..15 : Cardinality({i \in s : j \in PowerEntry[i + 1]}) % 2 = 1}]

\* Mutant of CrcStep: the high byte is dropped.
CrcStepDropsHigh(crc, d) == crc_16_table[Xor(crc \cap (0..7), BitsOf[d])]

CrcStep(crc, d) ==
    Xor(crc_16_table[Xor(crc \cap (0..7), BitsOf[d])], {i - 8 : i \in crc \ (0..7)})

\* The checksum of the first n bytes, for each n.
CrcBits(data) ==
    LET crc[n \in 0..Len(data)] ==
            IF n = 0 THEN {} ELSE [c \in SUBSET (0..15) |-> CrcStep(c, data[n])][crc[n - 1]]
    IN  crc[Len(data)]

\* The 16 bits as a number.
crc16_ansi(data) ==
    LET crc == CrcBits(data)
    IN  256 * ByteOf[{i - 8 : i \in crc \ (0..7)}] + ByteOf[crc \cap (0..7)]

-----------------------------------------------------------------------------
(* Requests.                                                               *)

tf_req_init(cmd) == <<0, 0, 0, 0>> \o put(4, cmd)

\* Mutant of tf_req_putfilename: the length does not count the padding.
tf_req_putfilename_short(req, str, addlength) ==
    LET pad == IF (Len(str) + 1 + Len(req)) % 2 = 1 THEN <<0>> ELSE <<>>
        name == [i \in DOMAIN str |-> IF str[i] = 47 THEN 92 ELSE str[i]]
    IN  req \o (IF addlength THEN put(2, Len(str) + 1) ELSE <<>>) \o name \o <<0>> \o pad

\* A name is a sequence of bytes; a slash (47) becomes a backslash (92).
tf_req_putfilename(req, str, addlength) ==
    LET pad == IF (Len(str) + 1 + Len(req)) % 2 = 1 THEN <<0>> ELSE <<>>
        name == [i \in DOMAIN str |-> IF str[i] = 47 THEN 92 ELSE str[i]] \o <<0>> \o pad
    IN  req \o (IF addlength THEN put(2, Len(name)) ELSE <<>>) \o name

\* Length and checksum are filled in, an odd packet gets a zero, and all is
\* swapped.
tf_req_done(req) ==
    LET len == Len(req)
        pad == IF len % 2 = 1 THEN <<0>> ELSE <<>>
        crc == put(2, crc16_ansi(Bytes(req, 4, len - 4)))
    IN  byte_swap(put(2, len) \o crc \o Bytes(req, 4, len - 4) \o pad, len + (len % 2))

\* tf_send: what of the buffer goes to the pipe; the two bytes that pad a
\* multiple of 64 are whatever is there.
Wire(done) ==
    LET len == get_u16_raw(done)
    IN  IF len % 64 = 0 THEN done \o <<255, 255>> ELSE Bytes(done, 0, len + (len % 2))

\* The functions of tf_io.c that put a request together.
tf_cmd_delete(path) == tf_req_done(tf_req_putfilename(tf_req_init(4101), path, FALSE))
tf_cmd_dir_first(path) == tf_req_done(tf_req_putfilename(tf_req_init(4098), path, FALSE))
tf_cmd_turbo(on) == tf_req_done(tf_req_init(258) \o put(4, on))
tf_cmd_mkdir(path) == tf_req_done(tf_req_putfilename(tf_req_init(4103), path, TRUE))
tf_cmd_rename(src, dest) ==
    tf_req_done(tf_req_putfilename(tf_req_putfilename(tf_req_init(4102), src, TRUE), dest, TRUE))
FileSend(direction, path, offset) ==
    tf_req_done(tf_req_putfilename(Append(tf_req_init(FILE_SEND), direction), path, TRUE) \o put(8, offset))
tf_cmd_put_data(offset, data) == tf_req_done(tf_req_init(FILE_DATA) \o put(8, offset) \o data)
tf_send_fail(reason) == tf_req_done(tf_req_init(FAIL) \o put(4, reason))

\* snprintf() into typefile.name: what follows its zero is whatever was there.
NameField(name, rest) ==
    LET cut == IF Len(name) < 95 THEN name ELSE Bytes(name, 0, 94)
    IN  [i \in 1..95 |-> IF i <= Len(cut) THEN cut[i] ELSE IF i = Len(cut) + 1 THEN 0 ELSE rest]

\* The entry that tf_cmd_put() sends of a new file: the date and the time of day
\* of its stamp, and its size in the order of the host, a little-endian one.
FileStart(m) ==
    tf_req_done(tf_req_init(FILE_START) \o put(2, FromDate(m.date)) \o m.clock \o <<TYPE_FILE>>
                \o Reverse(put(8, m.size)) \o NameField(m.path, m.rest) \o <<0>> \o put(4, 0))

success_packet == <<8, 0, 129, 193, 0, 0, 2, 0>>

-----------------------------------------------------------------------------
(* Replies.                                                                *)

\* wire is what usb_bulk_read() returns; of an odd packet one byte more is
\* swapped, which, when it was not read, is whatever the buffer holds.  Lengths
\* of less than 4 are not considered: len - 4 wraps at line 324.
tf_get_response(wire, beyond) ==
    LET len == get_u16_raw(wire)
        swapped == byte_swap(Append(wire, beyond), len + (len % 2))
        crc == get(Bytes(swapped, 2, 2))
    IN  IF Len(wire) < PACKET_HEAD_SIZE \/ Len(wire) < len
        THEN [error |-> -101, packet |-> <<>>]
        ELSE [error |-> IF crc = crc16_ansi(Bytes(swapped, 4, len - 4)) THEN 0 ELSE -1,
              packet |-> Bytes(swapped, 0, len)]

Command(packet) == get(Bytes(packet, 4, 4))

\* What tf_cmd_get_next() makes of FILE_DATA, and tf_cmd() of FAIL.
BufferOf(packet) ==
    [offset |-> get(Bytes(packet, 8, 8)), data |-> Bytes(packet, 16, Len(packet) - 16)]
Reason(packet) == -get(Bytes(packet, 8, 4))

SizeResult(packet) == [totalk |-> get(Bytes(packet, 8, 4)), freek |-> get(Bytes(packet, 12, 4))]

UpToZero(bytes) == SelectInSeq(bytes, LAMBDA b : b = 0) - 1

\* sizeof(tf_typefile_t).
TypefileSize == 114

\* An entry, whose name is assumed to end with a zero.  Of its attribute the
\* upper half is taken (line 511).
StampOf(typefile) ==
    LET clock == Bytes(typefile, 2, 3)
    IN  [date |-> tfdt_to_time(get(Bytes(typefile, 0, 2)),
                               IF clock = <<255, 255, 255>> THEN "all ones" ELSE "some time"),
         clock |-> clock]
TypeOf(typefile) == IF typefile[6] = TYPE_DIR THEN "d" ELSE "f"
NameOf(typefile) == Bytes(typefile, 14, UpToZero(Bytes(typefile, 14, 95)))

unpack_dirent(typefile) ==
    [stamp |-> StampOf(typefile), type |-> TypeOf(typefile), size |-> get(Bytes(typefile, 6, 8)),
     name |-> NameOf(typefile), attrib |-> get(Bytes(typefile, 110, 2))]

\* As many entries as the length has room for.
get_dirents(packet) ==
    [i \in 1..((Len(packet) - PACKET_HEAD_SIZE) \div TypefileSize) |->
        unpack_dirent(Bytes(packet, PACKET_HEAD_SIZE + (i - 1) * TypefileSize, TypefileSize))]

-----------------------------------------------------------------------------
(* The device, which seals its packets as the library does.                *)

\* A page of a directory, and the size of the disk.
Typefile(e) ==
    put(2, e.mjd) \o e.clock \o <<IF e.type = "d" THEN TYPE_DIR ELSE TYPE_FILE>>
    \o put(8, e.size) \o NameField(e.name, 1) \o <<0>> \o put(4, e.attrib)
Page(entries) ==
    tf_req_done(FoldLeft(LAMBDA req, e : req \o Typefile(e), tf_req_init(DIRENT), entries))
DiskSize(total, free) == tf_req_done(tf_req_init(SIZE_RESULT) \o put(4, total) \o put(4, free))

\* The device finds a name, after its length, up to the zero.
NameAt(packet, at) ==
    LET length == get(Bytes(packet, at, 2))
        name == Bytes(packet, at + 2, length)
    IN  [name |-> Bytes(name, 0, UpToZero(name)), next |-> at + 2 + length]

-----------------------------------------------------------------------------
(* The properties.                                                         *)

\* A message is a record of its kind and of the arguments of the function.
Encode(m) ==
    CASE m.kind = "delete" -> tf_cmd_delete(m.path)
      [] m.kind = "dir" -> tf_cmd_dir_first(m.path)
      [] m.kind = "mkdir" -> tf_cmd_mkdir(m.path)
      [] m.kind = "turbo" -> tf_cmd_turbo(m.on)
      [] m.kind = "start" -> FileStart(m)
      [] m.kind = "page" -> Page(m.entries)
      [] m.kind = "size" -> DiskSize(m.total, m.free)
      [] m.kind = "rename" -> tf_cmd_rename(m.path, m.dest)
      [] m.kind = "send" -> FileSend(m.direction, m.path, m.offset)
      [] m.kind = "data" -> tf_cmd_put_data(m.offset, m.data)
      [] m.kind = "fail" -> tf_send_fail(m.reason)
      [] m.kind = "success" -> success_packet

Backslashed(path) == [i \in DOMAIN path |-> IF path[i] = 47 THEN 92 ELSE path[i]]

\* What an application should see of an entry of the device.
EntryRead(e) ==
    [stamp |-> [date |-> ToDate(e.mjd), clock |-> e.clock], type |-> e.type, size |-> e.size,
     name |-> e.name, attrib |-> e.attrib \div 65536]

\* The entry of a new file is read as it was meant, but for its size.
StartReadsBack(t, m) ==
    /\ StampOf(t) = [date |-> m.date, clock |-> m.clock]
    /\ TypeOf(t) = "f"
    /\ NameOf(t) = IF Len(m.path) < 95 THEN m.path ELSE Bytes(m.path, 0, 94)

\* What is put into a request is what tf_get_response() has at the other end of
\* the wire, whatever the parity of its lengths; what follows a name begins at
\* an even offset (tf_io.c:219-233); pages of directories are read entry by
\* entry, dates and all (tf_io.c:505-529, mjd.c); and the fixed SUCCESS packet (tf_io.c:904)
\* is the one that would be computed.
ReadsBack(m) ==
    LET r == tf_get_response(Wire(Encode(m)), 0)
        p == r.packet
    IN  /\ r.error = 0
        /\ m.kind = "data" => Command(p) = FILE_DATA /\ BufferOf(p) = [offset |-> m.offset, data |-> m.data]
        /\ m.kind = "fail" => Command(p) = FAIL /\ Reason(p) = -m.reason
        /\ m.kind = "success" => Command(p) = SUCCESS /\ Encode(m) = tf_req_done(tf_req_init(SUCCESS))
        /\ m.kind = "turbo" => get(Bytes(p, 8, 4)) = m.on
        /\ m.kind = "size" => SizeResult(p) = [totalk |-> m.total, freek |-> m.free]
        /\ m.kind = "page" => get_dirents(p) = [i \in DOMAIN m.entries |-> EntryRead(m.entries[i])]
        /\ m.kind = "start" => StartReadsBack(Bytes(p, 8, TypefileSize), m)
        /\ m.kind \in {"delete", "dir", "mkdir", "rename", "send"} => Len(p) % 2 = 0
        /\ m.kind \in {"delete", "dir"} => Bytes(p, 8, UpToZero(Bytes(p, 8, Len(p) - 8))) = Backslashed(m.path)
        /\ m.kind = "mkdir" => NameAt(p, 8) = [name |-> Backslashed(m.path), next |-> Len(p)]
        /\ m.kind = "send" =>
            LET n == NameAt(p, 9)
            IN  n.name = Backslashed(m.path) /\ p[9] = m.direction
                /\ n.next % 2 = 0 /\ get(Bytes(p, n.next, 8)) = m.offset
        /\ m.kind = "rename" =>
            LET n == NameAt(p, 8)
            IN  n.name = Backslashed(m.path)
                /\ NameAt(p, n.next) = [name |-> Backslashed(m.dest), next |-> Len(p)]

\* A packet of which a byte behind the length has changed is not accepted.
Noticed(m, at, mask) ==
    LET wire == Wire(Encode(m))
        bits == Xor(BitsOf[wire[at]], mask)
        changed == [wire EXCEPT ![at] = ByteOf[bits]]
    IN  at \in 3..Len(Encode(m)) =>
            LET r == tf_get_response(changed, 0)
            IN  r.error # 0 \/ r.packet = tf_get_response(wire, 0).packet

\* Nor is one of which the end was not read, whatever was in the buffer.
CutNoticed(m, short, beyond) ==
    LET wire == Wire(Encode(m))
        r == tf_get_response(Bytes(wire, 0, Len(wire) - short), beyond)
    IN  r.error # 0 \/ r.packet = tf_get_response(wire, 0).packet
=============================================================================
