------------------------------ MODULE DirOrder ------------------------------
(***************************************************************************)
(* tf_sort_dirents() of tf_util.c and its six comparison functions.        *)
(*                                                                         *)
(* An entry is [type, stamp, size, name].  A name is its place in the      *)
(* order of strcasecmp(): two names that differ in case only have the same *)
(* one.  The difference of two stamps is cut to an int.                    *)
(***************************************************************************)
EXTENDS Integers, Sequences

CONSTANT IntMax     \* INT_MAX: 2147483647

ASSUME IntMaxAssumption == IntMax \in Nat

Type(e) == IF e.type = "d" THEN 100 ELSE 102

\* A difference of two values of time_t, or of unsigned ones, as an int.
ToInt(x) ==
    IF x > IntMax THEN x - 2 * (IntMax + 1)
    ELSE IF x < -IntMax - 1 THEN x + 2 * (IntMax + 1) ELSE x

Sign(x) == IF x < 0 THEN -1 ELSE IF x = 0 THEN 0 ELSE 1

ByType(e1, e2) == Type(e1) - Type(e2)
ByTime(e1, e2) == IF ByType(e1, e2) # 0 THEN ByType(e1, e2) ELSE ToInt(e2.stamp - e1.stamp)
BySize(e1, e2) == IF ByType(e1, e2) # 0 THEN ByType(e1, e2) ELSE Sign(e2.size - e1.size)
ByName(e1, e2) == IF ByType(e1, e2) # 0 THEN ByType(e1, e2) ELSE Sign(e1.name - e2.name)

\* Mutant of ByReverseTime: the whole comparison is reversed.
ByReversedTime(e1, e2) == -ByTime(e1, e2)

ByReverseTime(e1, e2) == IF ByType(e1, e2) # 0 THEN ByType(e1, e2) ELSE ToInt(e1.stamp - e2.stamp)
ByReverseSize(e1, e2) == IF ByType(e1, e2) # 0 THEN ByType(e1, e2) ELSE Sign(e1.size - e2.size)
ByReverseName(e1, e2) == IF ByType(e1, e2) # 0 THEN ByType(e1, e2) ELSE -Sign(e1.name - e2.name)

SortTypes == {"name", "size", "time", "-name", "-size", "-time"}

Compare(sort_type, e1, e2) ==
    CASE sort_type = "name" -> ByName(e1, e2)
      [] sort_type = "size" -> BySize(e1, e2)
      [] sort_type = "time" -> ByTime(e1, e2)
      [] sort_type = "-name" -> ByReverseName(e1, e2)
      [] sort_type = "-size" -> ByReverseSize(e1, e2)
      [] sort_type = "-time" -> ByReverseTime(e1, e2)

Rearrangements(entries) ==
    LET places == DOMAIN entries
    IN  {[i \in places |-> entries[p[i]]] :
            p \in {q \in [places -> places] : \A i, j \in places : q[i] = q[j] => i = j}}

\* qsort() leaves no entry before one that it compares as less.
tf_sort_dirents(entries, sort_type) ==
    {out \in Rearrangements(entries) :
        \A i \in 1..(Len(out) - 1) : Compare(sort_type, out[i], out[i + 1]) <= 0}

-----------------------------------------------------------------------------
\* The order that tf_util.h asks for (lines 52-65): directories first in both
\* directions, then by name, or the largest or latest first, or the reverse.
Follows(sort_type, e1, e2) ==
    \/ e1.type = "d" /\ e2.type # "d"
    \/ /\ e1.type = e2.type
       /\ sort_type = "name" => e1.name <= e2.name
       /\ sort_type = "-name" => e1.name >= e2.name
       /\ sort_type = "size" => e1.size >= e2.size
       /\ sort_type = "-size" => e1.size <= e2.size
       /\ sort_type = "time" => e1.stamp >= e2.stamp
       /\ sort_type = "-time" => e1.stamp <= e2.stamp

Near(entries) ==
    \A i, j \in DOMAIN entries :
        entries[i].stamp - entries[j].stamp <= IntMax /\ entries[j].stamp - entries[i].stamp <= IntMax

\* Entries are sorted, in every order that there is, unless stamps are further
\* apart than an int can say: then the comparison is not an order
\* (tf_util.c:208).
Sorts(entries, sort_type) ==
    Near(entries) =>
        /\ tf_sort_dirents(entries, sort_type) # {}
        /\ \A out \in tf_sort_dirents(entries, sort_type) :
            \A i, j \in DOMAIN out : i < j => Follows(sort_type, out[i], out[j])
=============================================================================
