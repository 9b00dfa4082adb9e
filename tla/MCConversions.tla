--------------------------- MODULE MCConversions ---------------------------
(***************************************************************************)
(* The pure functions of the library over bounded inputs: a behaviour      *)
(* computes one conversion after another, in a fixed order where inputs    *)
(* have one.                                                               *)
(***************************************************************************)
EXTENDS MakeName, DirOrder, Mjd, PacketCodec

VARIABLE input

-----------------------------------------------------------------------------
(* Paths of up to five tokens, without empty components.                   *)

Names == {"a", "b"}
Alternates(path) == \A i \in 1..(Len(path) - 1) : (path[i] = "/") # (path[i + 1] = "/")
Paths == {path \in BoundedSeq(Names \cup {"/", ".."}, 5) : Alternates(path)}

NameInputs == [kind: {"names"}, dir: Paths, filename: Paths \cup {NULL}]

-----------------------------------------------------------------------------
(* Directories of three entries.  With IntMax = 3 stamps have three bits.  *)

Entries ==
    {e \in [type: {"d", "f"}, stamp: {0, 2, 3, 6}, size: {1, 2}, name: {1, 2}] :
        e.size = 1 \/ e.name = 1}

OrderInputs == [kind: {"order"}, entries: [1..3 -> Entries], sort_type: SortTypes]

-----------------------------------------------------------------------------
(* Every day that 16 bits can say.                                         *)

DateInputs == [kind: {"date"}, mjd: FirstDay..65534]

-----------------------------------------------------------------------------
(* Messages whose parts have both parities, and lengths around 64.         *)

PathBytes == {<<47>>, <<47, 65>>, <<47, 65, 47, 200>>, <<47, 92, 1, 255, 47>>}
Offsets == {0, 255, 65536}
Clocks == {<<0, 0, 0>>, <<23, 59, 58>>, <<255, 255, 255>>}
Data(n) == [i \in 1..n |-> (i * 37 + n) % 256]

ShortMessages ==
    [kind: {"delete", "dir", "mkdir"}, path: PathBytes]
    \cup [kind: {"turbo"}, on: {0, 1}] \cup [kind: {"size"}, total: Offsets, free: Offsets]
    \cup [kind: {"rename"}, path: PathBytes, dest: PathBytes]
    \cup [kind: {"send"}, direction: {0, 1}, path: PathBytes, offset: Offsets]
    \cup [kind: {"data"}, offset: Offsets, data: {Data(n) : n \in 0..3}]
    \cup [kind: {"fail"}, reason: 1..7]
    \cup {[kind |-> "success"]}

\* Names of no byte, of one, and of as many as there is room for.
Letters(n) == [i \in 1..n |-> 65 + (i % 26)]
PageEntries ==
    {e \in [mjd: {15079, 53735, 65535}, clock: Clocks, type: {"d", "f"}, size: {0, 65537},
            name: {<<>>, <<65>>, Letters(94)}, attrib: {65536 * 3 + 2}] :
        e.mjd # 65535 \/ e.clock # <<255, 255, 255>>}

LongMessages ==
    [kind: {"data"}, offset: {0}, data: {Data(n) : n \in 46..49}]
    \cup [kind: {"start"}, date: {ToDate(53735), ToDate(53795)}, clock: Clocks, size: {0, 65537},
          path: {<<47>>, Letters(94), Letters(95)}, rest: {0, 255}]
    \cup [kind: {"page"}, entries: {<<>>} \cup {<<e>> : e \in PageEntries}
                                   \cup {<<e, [e EXCEPT !.name = <<66>>], e>> : e \in PageEntries}]

Messages == ShortMessages \cup LongMessages

Masks == {{0}, {7}, {3, 4}, 0..7}

PacketInputs == [kind: {"packet"}, message: Messages]
NoiseInputs == [kind: {"noise"}, message: ShortMessages, at: 3..30, mask: Masks]
CutInputs == [kind: {"cut"}, message: ShortMessages, short: 1..4, beyond: {0, 38, 255}]

-----------------------------------------------------------------------------
Inputs == NameInputs \cup OrderInputs \cup DateInputs \cup PacketInputs \cup NoiseInputs \cup CutInputs

Init == input \in Inputs
Next == UNCHANGED input
ConversionsSpec == Init /\ [][Next]_input

\* ChdirIsResolved, Sorts, DayByDay, ReadsBack, Noticed and
\* CutNoticed, for every input.
ChdirResolves == input.kind = "names" => ChdirIsResolved(input.dir, input.filename)
SortOrder == input.kind = "order" => Sorts(input.entries, input.sort_type)
DatesAreDays == input.kind = "date" => DayByDay(input.mjd)
WhatIsSentIsRead == input.kind = "packet" => ReadsBack(input.message)
CorruptionNoticed ==
    /\ input.kind = "noise" => Noticed(input.message, input.at, input.mask)
    /\ input.kind = "cut" => CutNoticed(input.message, input.short, input.beyond)
=============================================================================
