----------------------------- MODULE FoldProofs -----------------------------
(***************************************************************************)
(* Induction over data: what a fold over a sequence computes, for          *)
(* sequences of any length.                                                *)
(*                                                                         *)
(* FoldLeft of the community modules is a recursive function over the      *)
(* subsets of the places of the sequence.  That there is such a function,  *)
(* and that it goes from one place to the next, is proved here of a step   *)
(* that is given as a function; who uses it names the step of a fold, and  *)
(* shows by LeastOf what holds from place to place.                        *)
(***************************************************************************)
EXTENDS Integers, Sequences, SequencesExt, WellFoundedInduction, TLAPS

\* A set of numbers that is not empty has a least one: how these theorems
\* argue by induction.
LEMMA LeastOf ==
    ASSUME NEW T \in SUBSET Nat, T # {}
    PROVE  \E m \in T : \A n \in T : m <= n
  <1> DEFINE R == OpToRel(<, Nat)
  <1>1. IsWellFoundedOn(R, Nat)
    BY NatLessThanWellFounded
  <1>2. \A x, y \in Nat : <<x, y>> \in R <=> x < y
    BY DEF OpToRel
  <1> HIDE DEF R
  <1>3. PICK m \in T : \A y \in T : ~ (<<y, m>> \in R)
    BY <1>1, WFMin
  <1>4. \A n \in T : n \in Nat /\ m \in Nat /\ ~(n < m)
    BY <1>2, <1>3
  <1> QED
    BY <1>4

\* What is true of 0, and of each number after one that it is true of, is true
\* of all numbers up to n: Good is the set of those that it is true of.
LEMMA UpTo ==
    ASSUME NEW n \in Nat, NEW Good, 0 \in Good,
           \A k \in 1..n : k - 1 \in Good => k \in Good
    PROVE  0..n \subseteq Good
  <1> DEFINE T == {k \in 0..n : k \notin Good}
  <1>1. SUFFICES ASSUME T # {} PROVE FALSE
    OBVIOUS
  <1>2. PICK m \in T : \A k \in T : m <= k
    <2>1. T \in SUBSET Nat
      OBVIOUS
    <2> HIDE DEF T
    <2> QED
      BY <1>1, <2>1, LeastOf
  <1>3. m \in 1..n /\ m - 1 \in 0..n
    BY <1>2
  <1>4. m - 1 \in Good
    BY <1>2, <1>3
  <1> QED
    BY <1>2, <1>3, <1>4

\* The greatest of the first n numbers.
LEMMA LastPlace ==
    ASSUME NEW n \in Nat, n > 0 PROVE Max(1..n) = n
  <1>1. n \in 1..n /\ \A y \in 1..n : n >= y
    OBVIOUS
  <1>2. \A x \in 1..n : (\A y \in 1..n : x >= y) => x = n
    OBVIOUS
  <1> QED
    BY <1>1, <1>2 DEF Max

\* Places that are not none have a last one.
LEMMA LastOf ==
    ASSUME NEW n \in Nat, NEW s \in SUBSET (1..n), s # {} PROVE Max(s) \in s /\ \A y \in s : y <= Max(s)
  <1> DEFINE Bounds == {u \in 0..n : \A y \in s : y <= u}
  <1>1. PICK u \in Bounds : \A v \in Bounds : u <= v
    <2>1. Bounds \in SUBSET Nat /\ n \in Bounds
      OBVIOUS
    <2> HIDE DEF Bounds
    <2> QED
      BY <2>1, LeastOf
  <1>2. u \in s
    <2> SUFFICES ASSUME u \notin s PROVE FALSE
      OBVIOUS
    <2>1. \A y \in s : y \in 1..n /\ y <= u /\ y # u
      BY <1>1
    <2>2. u \in 1..n
      <3>1. u \in 0..n /\ \E y \in s : y \in 1..n /\ y <= u
        BY <1>1, <2>1
      <3> QED
        BY <3>1
    <2>3. u - 1 \in Bounds
      <3>1. u - 1 \in 0..n /\ \A y \in s : y <= u - 1
        BY <2>1, <2>2
      <3> QED
        BY <3>1
    <2> QED
      BY <1>1, <2>2, <2>3
  <1>3. \A y \in s : u >= y
    BY <1>1
  <1> QED
    BY <1>2, <1>3 DEF Max

\* f folds g over the places of s, from base, as MapThenFoldSet does with Max.
Folds(f, n, g, base) ==
    f = [s \in SUBSET (1..n) |-> IF s = {} THEN base ELSE g[<<Max(s), f[s \ {Max(s)}]>>]]

\* There is such a function.
LEMMA FoldExists ==
    ASSUME NEW V, NEW n \in Nat, NEW g \in [(1..n) \X V -> V], NEW base \in V
    PROVE  \E f \in [SUBSET (1..n) -> V] : Folds(f, n, g, base)
  <1> DEFINE Good == {m \in 0..n : \E f \in [SUBSET (1..m) -> V] : Folds(f, m, g, base)}
  <1>1. 0 \in Good
    <2>1. 1..0 = {} /\ SUBSET {} = {{}}
      OBVIOUS
    <2> DEFINE f == [s \in SUBSET (1..0) |-> base]
    <2>2. f \in [SUBSET (1..0) -> V] /\ Folds(f, 0, g, base)
      BY <2>1 DEF Folds
    <2> QED
      BY <2>2
  <1>2. ASSUME NEW m \in 1..n, m - 1 \in Good PROVE m \in Good
    <2>1. PICK h \in [SUBSET (1..(m - 1)) -> V] : Folds(h, m - 1, g, base)
      BY <1>2
    <2> DEFINE f == [s \in SUBSET (1..m) |-> IF m \in s THEN g[<<m, h[s \ {m}]>>] ELSE h[s]]
    <2>2. \A s \in SUBSET (1..m) : /\ m \notin s => s \in SUBSET (1..(m - 1))
                                   /\ s \ {m} \in SUBSET (1..(m - 1))
      OBVIOUS
    <2>3. f \in [SUBSET (1..m) -> V]
      BY <2>1, <2>2
    <2>4. ASSUME NEW s \in SUBSET (1..m), s # {}
          PROVE  f[s] = g[<<Max(s), f[s \ {Max(s)}]>>]
      <3>1. CASE m \in s
        <4>1. Max(s) = m
          <5>1. \A y \in s : m >= y
            OBVIOUS
          <5>2. \A x \in s : (\A y \in s : x >= y) => x = m
            BY <3>1
          <5> QED
            BY <3>1, <5>1, <5>2 DEF Max
        <4>2. f[s \ {m}] = h[s \ {m}]
          BY <2>2
        <4> QED
          BY <3>1, <4>1, <4>2
      <3>2. CASE m \notin s
        <4>1. s \in SUBSET (1..(m - 1)) /\ h[s] = g[<<Max(s), h[s \ {Max(s)}]>>]
          BY <2>1, <2>2, <2>4, <3>2 DEF Folds
        <4>2. f[s] = h[s] /\ f[s \ {Max(s)}] = h[s \ {Max(s)}]
          BY <3>2, <4>1
        <4> QED
          BY <4>1, <4>2
      <3> QED
        BY <3>1, <3>2
    <2>5. f[{}] = base
      <3>1. {} \in SUBSET (1..m) /\ {} \in SUBSET (1..(m - 1)) /\ m \notin {}
        OBVIOUS
      <3> QED
        BY <2>1, <3>1 DEF Folds
    <2> HIDE DEF f
    <2>6. f = [s \in SUBSET (1..m) |-> f[s]]
      BY <2>3
    <2>7. Folds(f, m, g, base)
      BY <2>4, <2>5, <2>6 DEF Folds
    <2> QED
      BY <2>3, <2>7
  <1>3. n \in Good
    <2> HIDE DEF Good
    <2> QED
      BY <1>1, <1>2, UpTo
  <1> QED
    BY <1>3

\* From one place to the next: what has been folded of the first k places.
LEMMA FirstPlaces ==
    ASSUME NEW n \in Nat, NEW k \in 1..n
    PROVE  /\ 1..k \in SUBSET (1..n) /\ 1..k # {} /\ Max(1..k) = k
           /\ (1..k) \ {k} = 1..(k - 1)
  BY LastPlace

-----------------------------------------------------------------------------
(* From one place to the next.                                             *)

\* R has what g makes of base place by place.
Goes(R, n, g, base) == R[0] = base /\ \A k \in 1..n : R[k] = g[<<k, R[k - 1]>>]

\* Of a fold that has values in V, this is what f, over the places, says.
Follow(f, V, n, g, base) ==
    /\ f[{}] = base
    /\ \A k \in 1..n : f[1..(k - 1)] \in V => f[1..k] = g[<<k, f[1..(k - 1)]>>]

\* What R has at the end is r.
Ends(r, V, n, g, base) == \E R \in [0..n -> V] : Goes(R, n, g, base) /\ r = R[n]

\* What a fold has at its first k places is what g makes of what it has at the
\* k - 1 before.
LEMMA FoldGoes ==
    ASSUME NEW V, NEW n \in Nat, NEW g \in [(1..n) \X V -> V], NEW base \in V,
           NEW f, Follow(f, V, n, g, base)
    PROVE  Ends(f[1..n], V, n, g, base)
  <1> DEFINE R == [k \in 0..n |-> f[1..k]]
             Good == {k \in 0..n : R[k] \in V}
  <1>1. R[0] = base /\ R[n] = f[1..n]
    <2>1. 1..0 = {}
      OBVIOUS
    <2> QED
      BY <2>1 DEF Follow
  <1>2. ASSUME NEW k \in 1..n, R[k - 1] \in V PROVE R[k] = g[<<k, R[k - 1]>>]
    <2>1. k \in 0..n /\ k - 1 \in 0..n
      OBVIOUS
    <2> QED
      BY <1>2, <2>1 DEF Follow
  <1>3. R = [k \in 0..n |-> R[k]]
    OBVIOUS
  <1> HIDE DEF R
  <1>4. 0 \in Good
    BY <1>1
  <1>5. ASSUME NEW k \in 1..n, k - 1 \in Good PROVE k \in Good
    <2>1. R[k - 1] \in V /\ k \in 0..n
      BY <1>5
    <2>2. R[k] = g[<<k, R[k - 1]>>]
      BY <1>2, <2>1
    <2> QED
      BY <2>1, <2>2
  <1>6. 0..n \subseteq Good
    <2> HIDE DEF Good
    <2> QED
      BY <1>4, <1>5, UpTo
  <1>7. R \in [0..n -> V]
    BY <1>3, <1>6
  <1>8. Goes(R, n, g, base)
    <2>1. \A k \in 1..n : k - 1 \in 0..n
      OBVIOUS
    <2> QED
      BY <1>1, <1>2, <1>7, <2>1 DEF Goes
  <1> QED
    BY <1>1, <1>7, <1>8 DEF Ends
=============================================================================
