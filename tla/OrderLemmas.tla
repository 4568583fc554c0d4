----------------------------- MODULE OrderLemmas -----------------------------
(***************************************************************************)
(* Lemmas about numbers in order, which the proofs about iterators share:  *)
(* the least element of a set, the elements of a sequence that grows, and  *)
(* the rank of an element, by which the SDK's sorted lists are indexed.    *)
(***************************************************************************)
EXTENDS Ranks, Sequences, FiniteSetTheorems, WellFoundedInduction, TLAPS

\* A set of natural numbers that is not empty has a least element.
LEMMA Least ==
    ASSUME NEW S \in SUBSET Nat, S # {}
    PROVE  \E a \in S : \A b \in S : a <= b
<1> DEFINE R == {p \in Nat \X Nat : p[1] < p[2]}
<1>1. IsWellFoundedOn(R, Nat)
  BY NatLessThanWellFounded, Zenon DEF OpToRel
<1>2. \A x, y \in Nat : <<y, x>> \in R <=> y < x
  OBVIOUS
<1> HIDE DEF R
<1>3. PICK x \in S : \A y \in S : ~ (<<y, x>> \in R)
  BY <1>1, WFMin, Zenon
<1>4. ASSUME NEW y \in S PROVE x <= y
  <2>1. x \in Nat /\ y \in Nat
    OBVIOUS
  <2>2. ~(<<y, x>> \in R)
    BY <1>3
  <2>3. ~(y < x)
    BY <1>2, <2>1, <2>2
  <2> QED BY <2>1, <2>3
<1> QED BY <1>4

LEMMA AppendElements ==
    ASSUME NEW S, NEW s \in Seq(S), NEW e \in S
    PROVE  /\ Append(s, e) \in Seq(S)
           /\ DOMAIN s = 1 .. Len(s) /\ Len(s) \in Nat
           /\ DOMAIN Append(s, e) = 1 .. Len(s) + 1 /\ Len(Append(s, e)) = Len(s) + 1
           /\ \A i \in 1 .. Len(s) : Append(s, e)[i] = s[i]
           /\ Append(s, e)[Len(s) + 1] = e
OBVIOUS

\* A sequence that ascends still does with a greater number at its end.
LEMMA AppendAscends ==
    ASSUME NEW S \in SUBSET Nat, NEW s \in Seq(S), NEW e \in S,
           \A i, j \in DOMAIN s : i < j => s[i] < s[j],
           \A i \in DOMAIN s : s[i] < e
    PROVE  /\ \A i, j \in DOMAIN Append(s, e) :
                 i < j => Append(s, e)[i] < Append(s, e)[j]
           /\ {Append(s, e)[i] : i \in DOMAIN Append(s, e)} = {s[i] : i \in DOMAIN s} \cup {e}
<1> DEFINE t == Append(s, e)
           n == Len(s) + 1
<1>1. /\ DOMAIN s = 1 .. Len(s) /\ Len(s) \in Nat
      /\ DOMAIN t = 1 .. n /\ n \in DOMAIN t
      /\ \A i \in DOMAIN s : i \in DOMAIN t /\ t[i] = s[i]
      /\ t[n] = e
      /\ \A i \in DOMAIN t : i \in DOMAIN s \/ i = n
  BY AppendElements
<1> HIDE DEF t, n
<1>2. ASSUME NEW i \in DOMAIN t, NEW j \in DOMAIN t, i < j PROVE t[i] < t[j]
  <2>1. n \in Nat /\ i \in DOMAIN s
    BY <1>1, <1>2
  <2> QED BY <1>1, <1>2, <2>1
<1>3. {t[i] : i \in DOMAIN t} = {s[i] : i \in DOMAIN s} \cup {e}
  <2>1. ASSUME NEW i \in DOMAIN t PROVE t[i] \in {s[k] : k \in DOMAIN s} \cup {e}
    BY <1>1
  <2>2. \A i \in DOMAIN s : s[i] \in {t[k] : k \in DOMAIN t}
    BY <1>1
  <2>3. e \in {t[k] : k \in DOMAIN t}
    BY <1>1
  <2> QED BY <2>1, <2>2, <2>3
<1> QED BY <1>2, <1>3 DEF t

-----------------------------------------------------------------------------
(* Ranks.                                                                  *)

\* The rank of anything in a finite set is a number.
LEMMA RankType ==
    ASSUME NEW S, IsFiniteSet(S), NEW a
    PROVE  Rank(S, a) \in Nat /\ IsFiniteSet({b \in S : b < a})
<1>1. {b \in S : b < a} \in SUBSET S
  OBVIOUS
<1> QED BY <1>1, FS_Subset, FS_CardinalityType DEF Rank

\* A higher element has a higher rank.
LEMMA RankAscends ==
    ASSUME NEW S \in SUBSET Nat, IsFiniteSet(S), NEW a \in S, NEW b \in Nat, a < b
    PROVE  Rank(S, a) + 1 <= Rank(S, b)
<1> DEFINE A == {c \in S : c < a}
           B == {c \in S : c < b}
<1>1. IsFiniteSet(A) /\ IsFiniteSet(B) /\ Cardinality(A) \in Nat
  BY RankType, FS_CardinalityType
<1>2. a \notin A /\ A \cup {a} \in SUBSET B
  <2>1. S \subseteq Nat
    OBVIOUS
  <2>2. \A c \in S : c < a => c < b
    BY <2>1
  <2>3. ~(a < a)
    BY <2>1
  <2> QED BY <2>2, <2>3
<1>3. Cardinality(A \cup {a}) = Cardinality(A) + 1
  BY <1>1, <1>2, FS_AddElement
<1>4. Cardinality(A \cup {a}) <= Cardinality(B)
  BY <1>1, <1>2, FS_Subset
<1> QED BY <1>3, <1>4 DEF Rank

\* Ranks fall, if anything, when elements go.
LEMMA RankShrinks ==
    ASSUME NEW S, IsFiniteSet(S), NEW T \in SUBSET S, NEW a
    PROVE  Rank(T, a) <= Rank(S, a)
<1>1. {b \in T : b < a} \in SUBSET {b \in S : b < a}
  OBVIOUS
<1> QED BY <1>1, RankType, FS_Subset DEF Rank

\* The rank of an element is below the number of elements.
LEMMA RankBelowCount ==
    ASSUME NEW S \in SUBSET Nat, IsFiniteSet(S), NEW a \in S
    PROVE  Rank(S, a) < Cardinality(S)
<1> DEFINE A == {c \in S : c < a}
<1>1. A \in SUBSET S /\ a \notin A
  OBVIOUS
<1>2. /\ Cardinality(A) <= Cardinality(S)
      /\ Cardinality(S) = Cardinality(A) => S = A
  BY <1>1, FS_Subset
<1>3. Cardinality(A) \in Nat /\ Cardinality(S) \in Nat
  BY RankType, FS_CardinalityType DEF Rank
<1> QED BY <1>1, <1>2, <1>3 DEF Rank

\* Different elements have different ranks.
LEMMA RankInjective ==
    ASSUME NEW S \in SUBSET Nat, IsFiniteSet(S), NEW a \in S, NEW b \in S,
           Rank(S, a) = Rank(S, b)
    PROVE  a = b
<1>1. Rank(S, a) \in Nat /\ a \in Nat /\ b \in Nat
  BY RankType
<1>2. CASE a < b
  BY <1>1, <1>2, RankAscends
<1>3. CASE b < a
  BY <1>1, <1>3, RankAscends
<1> QED BY <1>1, <1>2, <1>3

\* The order of ranks is the order of elements.
LEMMA RankOrders ==
    ASSUME NEW S \in SUBSET Nat, IsFiniteSet(S), NEW a \in S, NEW b \in S
    PROVE  Rank(S, a) < Rank(S, b) <=> a < b
<1>1. Rank(S, a) \in Nat /\ Rank(S, b) \in Nat /\ a \in Nat /\ b \in Nat
  BY RankType
<1>2. CASE a < b
  BY <1>1, <1>2, RankAscends
<1>3. CASE b < a
  BY <1>1, <1>3, RankAscends
<1>4. CASE a = b
  BY <1>1, <1>4
<1> QED BY <1>1, <1>2, <1>3, <1>4

\* Every index below the number of elements is the rank of one of them.
LEMMA RankOnto ==
    ASSUME NEW S \in SUBSET Nat, IsFiniteSet(S), NEW i \in 0 .. Cardinality(S) - 1
    PROVE  \E a \in S : Rank(S, a) = i
<1> DEFINE n == Cardinality(S)
           T == 0 .. n - 1
           f == [a \in S |-> Rank(S, a)]
<1>1. n \in Nat
  BY FS_CardinalityType
<1>2. f \in [S -> T]
  <2> SUFFICES ASSUME NEW a \in S PROVE Rank(S, a) \in T
    OBVIOUS
  <2>1. Rank(S, a) \in Nat /\ Rank(S, a) < n
    BY RankType, RankBelowCount
  <2> QED BY <1>1, <2>1
<1>3. f \in Injection(S, T)
  BY <1>2, RankInjective DEF Injection, IsInjective
<1>4. IsFiniteSet(T) /\ Cardinality(T) = n
  BY <1>1, FS_Interval
<1>5. f \in Surjection(S, T)
  BY <1>3, <1>4, FS_Injection
<1> QED BY <1>5 DEF Surjection
=============================================================================
