----------------------------- MODULE DataLemmas -----------------------------
(***************************************************************************)
(* Facts about numbers, sequences and recursive functions that the proofs  *)
(* about several components cite.                                          *)
(***************************************************************************)
EXTENDS Integers, Sequences, FiniteSets,
        SequenceTheorems, FiniteSetTheorems, WellFoundedInduction, TLAPS

(* A sequence over a set is one over any larger set.                       *)
LEMMA SeqWiden ==
    ASSUME NEW S, NEW T, S \subseteq T, NEW s \in Seq(S)
    PROVE  s \in Seq(T)
  <1>1. s \in [1..Len(s) -> S]
    OBVIOUS
  <1>2. s \in [1..Len(s) -> T]
    BY <1>1
  <1> QED
    BY <1>2, SeqDef

(* Replacing one element keeps the length and the other elements.          *)
LEMMA SeqUpdate ==
    ASSUME NEW S, NEW s \in Seq(S), NEW i \in DOMAIN s, NEW e \in S
    PROVE  /\ [s EXCEPT ![i] = e] \in Seq(S)
           /\ Len([s EXCEPT ![i] = e]) = Len(s)
           /\ DOMAIN [s EXCEPT ![i] = e] = DOMAIN s
  <1> DEFINE t == [s EXCEPT ![i] = e]
  <1>1. t \in [1..Len(s) -> S]
    OBVIOUS
  <1>2. Len(s) \in Nat
    OBVIOUS
  <1>3. t \in Seq(S)
    BY <1>1, <1>2, SeqDef
  <1>4. DOMAIN t = 1..Len(s)
    BY <1>1
  <1>5. Len(t) = Len(s)
    BY <1>2, <1>3, <1>4, LenProperties
  <1> QED
    BY <1>3, <1>4, <1>5

(* Appending adds one position at the end.                                 *)
LEMMA SeqAppend ==
    ASSUME NEW S, NEW s \in Seq(S), NEW e \in S
    PROVE  /\ Append(s, e) \in Seq(S)
           /\ Len(Append(s, e)) = Len(s) + 1
           /\ DOMAIN Append(s, e) = 1..(Len(s) + 1)
           /\ Append(s, e)[Len(s) + 1] = e
           /\ \A i \in DOMAIN s : Append(s, e)[i] = s[i]
  BY AppendProperties, LenProperties

(* Positions of a sequence run from one to its length.                     *)
LEMMA SeqDomain ==
    ASSUME NEW S, NEW s \in Seq(S)
    PROVE  /\ Len(s) \in Nat /\ DOMAIN s = 1..Len(s)
           /\ \A i \in DOMAIN s : s[i] \in S
  BY LenProperties, ElementOfSeq

-----------------------------------------------------------------------------
(* Every set of natural numbers has a least member: the finite sets 0..x   *)
(* are well-founded under inclusion.                                       *)
LEMMA NatHasLeast ==
    ASSUME NEW S \in SUBSET Nat, S # {}
    PROVE  \E x \in S : \A y \in S : x <= y
  <1> DEFINE T == {0..x : x \in S}
  <1>1. \A x \in S : 0..x \in FiniteSubsetsOf(Nat)
    <2>1. \A x \in S : 0..x \in SUBSET Nat
      OBVIOUS
    <2>2. \A x \in S : IsFiniteSet(0..x)
      BY FS_Interval
    <2> QED
      BY <2>1, <2>2 DEF FiniteSubsetsOf
  <1>2. \E t \in T : \A u \in T : ~ (<<u, t>> \in StrictSubsetOrdering(Nat))
    <2>1. T \subseteq FiniteSubsetsOf(Nat) /\ T # {}
      BY <1>1
    <2> QED
      BY <2>1, FS_StrictSubsetOrderingWellFounded, WFMin
  <1>3. PICK x \in S : \A y \in S : ~ (<<0..y, 0..x>> \in StrictSubsetOrdering(Nat))
    BY <1>2
  <1>4. \A y \in S : ~(0..y \subseteq 0..x /\ 0..y # 0..x)
    <2>1. \A y \in S : 0..y \in SUBSET Nat
      OBVIOUS
    <2> HIDE DEF T
    <2> QED
      BY <1>3, <2>1, Zenon DEF StrictSubsetOrdering
  <1>5. ASSUME NEW y \in S PROVE x =< y
    <2>1. y \in Nat /\ x \in Nat
      OBVIOUS
    <2>2. CASE y < x
      <3>1. 0..y \subseteq 0..x /\ x \in 0..x /\ x \notin 0..y
        BY <2>1, <2>2
      <3> QED
        BY <1>4, <3>1
    <2> QED
      BY <2>1, <2>2
  <1> QED
    BY <1>5

(* Induction, stated with a set instead of a predicate.                    *)
LEMMA NatSetInduction ==
    ASSUME NEW S \in SUBSET Nat, 0 \in S, \A n \in S : n + 1 \in S
    PROVE  S = Nat
  <1> SUFFICES ASSUME Nat \ S # {}
               PROVE  FALSE
    OBVIOUS
  <1>1. PICK x \in Nat \ S : \A y \in Nat \ S : x <= y
    <2> DEFINE Rest == Nat \ S
    <2>1. Rest \in SUBSET Nat /\ Rest # {}
      OBVIOUS
    <2> HIDE DEF Rest
    <2>2. \E x \in Rest : \A y \in Rest : x <= y
      BY <2>1, NatHasLeast
    <2> QED
      BY <2>2 DEF Rest
  <1>2. x # 0 /\ x - 1 \in Nat /\ x \in Nat
    BY <1>1
  <1>3. x - 1 \in S
    BY <1>1, <1>2
  <1>4. (x - 1) + 1 \in S /\ (x - 1) + 1 = x
    BY <1>2, <1>3
  <1> QED
    BY <1>1, <1>4

(* A function on 0..n may be defined by its first value and by each value  *)
(* from the one before.                                                    *)
Unfolds(f, n, S, base, step) ==
    /\ f \in [0..n -> S]
    /\ f[0] = base
    /\ \A k \in 1..n : f[k] = step[<<k, f[k - 1]>>]

(* There is such a function, however long: by induction over its length.   *)
LEMMA RecursionExists ==
    ASSUME NEW n \in Nat, NEW S, NEW base \in S, NEW step \in [(1..n) \X S -> S]
    PROVE  \E f : Unfolds(f, n, S, base, step)
  <1> DEFINE Upward(m, f) == f[0] = base /\ \A k \in 1..m : f[k] = step[<<k, f[k - 1]>>]
             Reached == {m \in Nat : m <= n => \E f \in [0..m -> S] : Upward(m, f)}
  <1>1. 0 \in Reached
    <2> DEFINE first == [k \in 0..0 |-> base]
    <2>1. first \in [0..0 -> S] /\ Upward(0, first)
      OBVIOUS
    <2> QED
      BY <2>1
  <1>2. ASSUME NEW m \in Reached
        PROVE  m + 1 \in Reached
    <2> SUFFICES ASSUME m + 1 <= n
                 PROVE  \E f \in [0..(m + 1) -> S] : Upward(m + 1, f)
      OBVIOUS
    <2>1. m \in Nat /\ m <= n
      OBVIOUS
    <2>2. PICK f \in [0..m -> S] : Upward(m, f)
      BY <2>1
    <2> DEFINE last == step[<<m + 1, f[m]>>]
               g == [k \in 0..(m + 1) |-> IF k = m + 1 THEN last ELSE f[k]]
    <2>3. last \in S
      BY <2>1, <2>2
    <2>4. g \in [0..(m + 1) -> S]
      BY <2>1, <2>2, <2>3
    <2>5. /\ g[0] = f[0] /\ g[m + 1] = last /\ g[m] = f[m]
          /\ \A k \in 1..m : g[k] = f[k] /\ g[k - 1] = f[k - 1]
      BY <2>1
    <2> HIDE DEF g
    <2>6. ASSUME NEW k \in 1..(m + 1)
          PROVE  g[k] = step[<<k, g[k - 1]>>]
      <3>1. CASE k = m + 1
        <4>1. k - 1 = m
          BY <2>1, <3>1
        <4> QED
          BY <2>5, <3>1, <4>1
      <3>2. CASE k # m + 1
        <4>1. k \in 1..m
          BY <2>1, <3>2
        <4> QED
          BY <2>2, <2>5, <4>1
      <3> QED
        BY <3>1, <3>2
    <2>7. Upward(m + 1, g)
      BY <2>2, <2>5, <2>6
    <2> QED
      BY <2>4, <2>7
  <1>3. Reached \in SUBSET Nat
    OBVIOUS
  <1> HIDE DEF Reached
  <1>4. n \in Reached
    BY <1>1, <1>2, <1>3, NatSetInduction
  <1> QED
    BY <1>4 DEF Reached, Unfolds

(* Integer division loses at most the remainder.                           *)
LEMMA QuotientIsBelow ==
    ASSUME NEW a \in Nat, NEW d \in Nat \ {0}
    PROVE  a \div d \in Nat /\ d * (a \div d) <= a
  OBVIOUS
=============================================================================
