---------------------------- MODULE LoopsProofs -----------------------------
(***************************************************************************)
(* Proofs about Loops, for any number of strings, names, references, entry *)
(* points and operands: a loop over strings or over names loses nothing    *)
(* when its list grows and repeats nothing when it shrinks, an item of the *)
(* string list is one entry's, walks along cross-references are exact, the *)
(* loop over entry points stays within its limit, and the loop over        *)
(* operands agrees with their count.  Lists walked by index rest on ranks  *)
(* (OrderLemmas).                                                          *)
(***************************************************************************)
EXTENDS Loops, OrderLemmas, SequenceTheorems, TLAPS

\* What the iterator has returned.
Returned == {yielded[i] : i \in DOMAIN yielded}

\* The modules of strings and of names count and rank as this one does.
LEMMA SameRanks ==
    /\ \A S : Names!Cardinality(S) = Cardinality(S) /\ Strings!Cardinality(S) = Cardinality(S)
    /\ \A S, a : Names!Rank(S, a) = Rank(S, a) /\ Strings!Rank(S, a) = Rank(S, a)
<1>1. \A S : Names!Cardinality(S) = Cardinality(S)
  BY Zenon DEF Names!Cardinality, Cardinality
<1>2. \A S : Strings!Cardinality(S) = Cardinality(S)
  BY Zenon DEF Strings!Cardinality, Cardinality
<1> QED BY <1>1, <1>2, Zenon DEF Names!Rank, Strings!Rank, Rank

-----------------------------------------------------------------------------
(* The loop over strings.                                                  *)

StringEntry == [ea : StringAddresses, length : Lengths]

StringItem == [ea : StringAddresses, text : [at : StringAddresses, length : Nat]]

StringsType ==
    /\ list \in SUBSET StringEntry
    /\ \A a, b \in list : a.ea = b.ea => a = b
    /\ steady \in SUBSET Strings!Listed
    /\ current \in Nat
    /\ yielded \in Seq(StringItem)

\* What a string that was listed all along owes to the iterator, unless one
\* left the list: once the index is past it, it was returned.
PassedStrings ==
    ~shrunk =>
        /\ \A a \in steady : Rank(Strings!Listed, a) < current => a \in Strings!Returned
        /\ exhausted => steady \subseteq Strings!Returned

\* Unless one joined it, what is not yet passed is above all that was returned.
StringsAhead ==
    ~grown =>
        /\ \A i, j \in DOMAIN yielded : i < j => yielded[i].ea < yielded[j].ea
        /\ \A a \in Strings!Listed : current <= Rank(Strings!Listed, a) =>
              \A i \in DOMAIN yielded : yielded[i].ea < a

StringsInv == StringsType /\ PassedStrings /\ StringsAhead

\* The list has as many entries as addresses.
LEMMA StringsFinite ==
    ASSUME StringsType
    PROVE  /\ Strings!Listed \in SUBSET StringAddresses /\ Strings!Listed \in SUBSET Nat
           /\ IsFiniteSet(Strings!Listed)
           /\ Strings!StringCount = Cardinality(Strings!Listed)
           /\ Strings!StringCount \in Nat
           /\ \A a : Rank(Strings!Listed, a) \in Nat
<1> DEFINE ea == [si \in list |-> si.ea]
<1>1. Strings!Listed \in SUBSET StringAddresses
  BY DEF StringsType, StringEntry, Strings!Listed, Strings!Places
<1>2. StringAddresses \in SUBSET Nat /\ IsFiniteSet(StringAddresses)
  BY LoopsAssumption
<1>3. IsFiniteSet(Strings!Listed)
  BY <1>1, <1>2, FS_Subset
<1>4. ea \in Injection(list, Strings!Listed) /\ ea \in Surjection(list, Strings!Listed)
  BY DEF StringsType, Injection, IsInjective, Surjection,
         Strings!Listed, Strings!Places
<1>5. IsFiniteSet(list) /\ Cardinality(list) = Cardinality(Strings!Listed)
  BY <1>3, <1>4, FS_Injection
<1>6. Strings!StringCount = Cardinality(Strings!Listed)
  BY <1>5, SameRanks DEF Strings!StringCount
<1> QED BY <1>1, <1>2, <1>3, <1>6, FS_CardinalityType, RankType

\* The lookups by index agree, and below len() each of them finds its string.
LEMMA StringLookups ==
    ASSUME StringsType
    PROVE  /\ \A i, si : si \in Strings!StringInfo(i) <=>
                           si \in list /\ Rank(Strings!Listed, si.ea) = i
           /\ \A i : \A a, b \in Strings!StringInfo(i) : a = b
           /\ \A i \in 0 .. Strings!StringCount - 1 :
                \E si \in list : Strings!StringInfo(i) = {si}
<1>1. \A i, si : si \in Strings!StringInfo(i) <=>
                   si \in list /\ Rank(Strings!Listed, si.ea) = i
  BY SameRanks DEF Strings!StringInfo
<1>2. \A si \in list : si.ea \in Strings!Listed
  BY DEF Strings!Listed, Strings!Places
<1>3. ASSUME NEW i, NEW a \in Strings!StringInfo(i), NEW b \in Strings!StringInfo(i)
      PROVE  a = b
  <2>1. /\ a \in list /\ b \in list
        /\ Rank(Strings!Listed, a.ea) = Rank(Strings!Listed, b.ea)
    BY <1>1
  <2>2. a.ea = b.ea
    BY <1>2, <2>1, StringsFinite, RankInjective
  <2> QED BY <2>1, <2>2 DEF StringsType
<1>4. ASSUME NEW i \in 0 .. Strings!StringCount - 1
      PROVE  \E si \in list : Strings!StringInfo(i) = {si}
  <2>1. PICK a \in Strings!Listed : Rank(Strings!Listed, a) = i
    BY StringsFinite, RankOnto
  <2>2. PICK si \in list : si.ea = a
    BY DEF Strings!Listed, Strings!Places
  <2>3. si \in Strings!StringInfo(i)
    BY <1>1, <2>1, <2>2
  <2> QED BY <1>3, <2>3
<1> QED BY <1>1, <1>3, <1>4

\* What the head of the loop appends.
LEMMA NewString ==
    ASSUME StringsType, Strings!NextItem, current < Strings!StringCount
    PROVE  \E si \in Strings!StringInfo(current) :
             LET item == [ea |-> si.ea, text |-> [at |-> si.ea,
                            length |-> IF bytes[si.ea] = Gone THEN 0 ELSE si.length]]
             IN  /\ item \in StringItem
                 /\ yielded' = Append(yielded, item)
                 /\ current' = current + 1
                 /\ UNCHANGED exhausted
<1>1. current \in Nat /\ Strings!StringCount \in Nat
  BY StringsFinite DEF StringsType
<1>2. PICK si \in Strings!StringInfo(current), text \in Strings!GetByIndex(current) :
        yielded' = Append(yielded, [ea |-> si.ea, text |-> text])
  <2>1. ~(current >= Strings!StringCount)
    BY <1>1
  <2> QED BY <2>1, Zenon DEF Strings!NextItem
<1>3. text = [at |-> si.ea, length |-> Strings!GetBytes(si.ea, si.length)]
  <2>1. PICK other \in Strings!StringInfo(current) :
          text = [at |-> other.ea, length |-> Strings!GetBytes(other.ea, other.length)]
    BY DEF Strings!GetByIndex
  <2>2. other = si
    BY StringLookups
  <2> QED BY <2>1, <2>2
<1>4. Strings!GetBytes(si.ea, si.length) = IF bytes[si.ea] = Gone THEN 0 ELSE si.length
  BY DEF Strings!GetBytes, Strings!IdalibGetBytes, Strings!WithCapacity
<1>5. si.ea \in StringAddresses /\ si.length \in Nat
  BY StringLookups, LoopsAssumption DEF StringsType, StringEntry
<1>6. [ea |-> si.ea, text |-> text] \in StringItem
  BY <1>3, <1>4, <1>5 DEF StringItem
<1>7. current' = current + 1 /\ UNCHANGED exhausted
  BY <1>1 DEF Strings!NextItem
<1> QED BY <1>2, <1>3, <1>4, <1>6, <1>7

LEMMA NextStringInv ==
    ASSUME StringsInv, Strings!NextItem
    PROVE  StringsInv'
<1>1. /\ UNCHANGED <<list, steady, grown, shrunk>> /\ UNCHANGED Strings!Listed
      /\ current \in Nat /\ Strings!StringCount \in Nat
  BY StringsFinite DEF Strings!NextItem, StringsInv, StringsType, Strings!Listed
<1>2. /\ Strings!Listed \in SUBSET Nat /\ IsFiniteSet(Strings!Listed)
      /\ \A a \in Strings!Listed : a \in Nat /\ Rank(Strings!Listed, a) \in Nat
      /\ Strings!StringCount = Cardinality(Strings!Listed)
  BY StringsFinite DEF StringsInv
<1>3. steady \in SUBSET Strings!Listed
  BY DEF StringsInv, StringsType
<1>4. \A a, b \in Strings!Listed :
        Rank(Strings!Listed, a) = Rank(Strings!Listed, b) => a = b
  BY <1>2, RankInjective
<1>5. CASE current < Strings!StringCount
  <2>1. PICK si \in Strings!StringInfo(current), item \in StringItem :
          /\ item.ea = si.ea
          /\ yielded' = Append(yielded, item)
          /\ current' = current + 1
          /\ UNCHANGED exhausted
    BY <1>5, NewString DEF StringsInv
  <2>2. item.ea \in Strings!Listed /\ Rank(Strings!Listed, item.ea) = current
    BY <2>1, StringLookups DEF StringsInv, Strings!Listed, Strings!Places
  <2> DEFINE n == Len(yielded) + 1
  <2>3. /\ yielded' \in Seq(StringItem)
        /\ DOMAIN yielded = 1 .. Len(yielded) /\ Len(yielded) \in Nat
        /\ DOMAIN yielded' = 1 .. n
        /\ \A i \in DOMAIN yielded : yielded'[i] = yielded[i]
        /\ yielded'[n] = item
        /\ \A i \in DOMAIN yielded' : i \in DOMAIN yielded \/ i = n
    BY <2>1, AppendElements DEF StringsInv, StringsType
  <2>4. StringsType'
    BY <1>1, <2>1, <2>3 DEF StringsInv, StringsType
  <2>5. Strings!Returned' = Strings!Returned \cup {item.ea}
    BY <2>3 DEF Strings!Returned
  <2>6. PassedStrings'
    <3>1. ASSUME ~shrunk, NEW a \in steady, Rank(Strings!Listed, a) < current + 1
          PROVE  a \in Strings!Returned'
      <4>1. a \in Strings!Listed
        BY <1>3
      <4>2. CASE Rank(Strings!Listed, a) < current
        BY <2>5, <3>1, <4>2 DEF StringsInv, PassedStrings
      <4>3. CASE Rank(Strings!Listed, a) = current
        <5>1. Rank(Strings!Listed, a) = Rank(Strings!Listed, item.ea)
          BY <2>2, <4>3
        <5>2. a = item.ea
          BY <1>4, <2>2, <4>1, <5>1, Zenon
        <5> QED BY <2>5, <5>2
      <4> QED BY <1>1, <1>2, <3>1, <4>1, <4>2, <4>3
    <3>2. ASSUME ~shrunk, exhausted PROVE steady \subseteq Strings!Returned'
      BY <2>5, <3>2 DEF StringsInv, PassedStrings
    <3> QED BY <1>1, <2>1, <3>1, <3>2 DEF PassedStrings
  <2>7. StringsAhead'
    <3> SUFFICES ASSUME ~grown PROVE StringsAhead'
      BY <1>1 DEF StringsAhead
    <3>1. \A i \in DOMAIN yielded : yielded[i].ea < item.ea
      BY <1>1, <2>2 DEF StringsInv, StringsAhead
    <3>2. ASSUME NEW i \in DOMAIN yielded', NEW j \in DOMAIN yielded', i < j
          PROVE  yielded'[i].ea < yielded'[j].ea
      <4>1. i \in DOMAIN yielded
        BY <2>3, <3>2
      <4>2. CASE j \in DOMAIN yielded
        BY <2>3, <3>2, <4>1, <4>2 DEF StringsInv, StringsAhead
      <4>3. CASE j = n
        BY <2>3, <3>1, <4>1, <4>3
      <4> QED BY <2>3, <4>2, <4>3
    <3>3. ASSUME NEW a \in Strings!Listed, current + 1 <= Rank(Strings!Listed, a),
                 NEW i \in DOMAIN yielded'
          PROVE  yielded'[i].ea < a
      <4>1. Rank(Strings!Listed, item.ea) < Rank(Strings!Listed, a)
        BY <1>1, <1>2, <2>2, <3>3
      <4>2. item.ea < a
        BY <1>2, <2>2, <4>1, RankOrders
      <4>3. current <= Rank(Strings!Listed, a)
        BY <1>1, <1>2, <3>3
      <4>4. CASE i \in DOMAIN yielded
        BY <2>3, <4>3, <4>4 DEF StringsInv, StringsAhead
      <4>5. CASE i = n
        BY <2>3, <4>2, <4>5
      <4> QED BY <2>3, <4>4, <4>5
    <3> QED BY <1>1, <2>1, <3>2, <3>3 DEF StringsAhead
  <2> QED BY <2>4, <2>6, <2>7 DEF StringsInv
<1>6. CASE ~(current < Strings!StringCount)
  <2>1. UNCHANGED <<yielded, current>> /\ UNCHANGED Strings!Returned
    BY <1>1, <1>6 DEF Strings!NextItem, Strings!Returned
  <2>2. \A a \in Strings!Listed : Rank(Strings!Listed, a) < Strings!StringCount
    BY <1>2, RankBelowCount
  <2>3. \A a \in steady : Rank(Strings!Listed, a) < current
    BY <1>1, <1>2, <1>3, <1>6, <2>2
  <2>4. PassedStrings'
    BY <1>1, <2>1, <2>3 DEF StringsInv, PassedStrings
  <2>5. StringsAhead' /\ StringsType'
    BY <1>1, <2>1 DEF StringsInv, StringsType, StringsAhead
  <2> QED BY <2>4, <2>5 DEF StringsInv
<1> QED BY <1>5, <1>6

LEMMA CollectedType ==
    ASSUME NEW contents
    PROVE  /\ Strings!Collected(contents) \in SUBSET StringEntry
           /\ \A a, b \in Strings!Collected(contents) : a.ea = b.ea => a = b
BY DEF Strings!Collected, StringEntry

\* The list is replaced.  If none leaves it ranks rise, if anything, and if none
\* joins it they fall.
LEMMA ReplaceInv ==
    ASSUME StringsInv, NEW new \in SUBSET StringEntry,
           \A a, b \in new : a.ea = b.ea => a = b,
           Strings!Replace(new), UNCHANGED <<current, yielded, exhausted>>
    PROVE  StringsInv'
<1> DEFINE old == Strings!Listed
           later == Strings!Places(new)
<1>1. /\ list' = new /\ Strings!Listed' = later
      /\ steady' = steady \cap later
      /\ grown' = (grown \/ ~(later \subseteq old))
      /\ shrunk' = (shrunk \/ ~(old \subseteq later))
      /\ UNCHANGED Strings!Returned
  BY DEF Strings!Replace, Strings!Listed, Strings!Places, Strings!Returned
<1>2. StringsType'
  BY <1>1 DEF StringsInv, StringsType
<1>3. /\ IsFiniteSet(old) /\ IsFiniteSet(later)
      /\ \A a : Rank(old, a) \in Nat /\ Rank(later, a) \in Nat
  <2>1. IsFiniteSet(old) /\ \A a : Rank(old, a) \in Nat
    BY StringsFinite DEF StringsInv
  <2>2. later \in SUBSET StringAddresses /\ IsFiniteSet(StringAddresses)
    BY LoopsAssumption DEF StringEntry, Strings!Places
  <2>3. IsFiniteSet(later)
    BY <2>2, FS_Subset
  <2> QED BY <2>1, <2>3, RankType
<1>4. current \in Nat /\ current' = current
  BY DEF StringsInv, StringsType
<1> HIDE DEF old, later
<1>5. PassedStrings'
  <2> SUFFICES ASSUME ~shrunk' PROVE PassedStrings'
    BY DEF PassedStrings
  <2>1. ~shrunk /\ old \in SUBSET later
    BY <1>1
  <2>2. \A a : Rank(old, a) <= Rank(later, a)
    BY <1>3, <2>1, RankShrinks
  <2>3. \A a : Rank(later, a) < current => Rank(old, a) < current
    BY <1>3, <1>4, <2>2
  <2>4. /\ \A a \in steady : Rank(old, a) < current => a \in Strings!Returned
        /\ exhausted => steady \subseteq Strings!Returned
    BY <2>1 DEF StringsInv, PassedStrings, old
  <2>5. \A a \in steady' : Rank(later, a) < current => a \in Strings!Returned
    BY <1>1, <2>3, <2>4
  <2> QED BY <1>1, <2>4, <2>5 DEF PassedStrings
<1>6. StringsAhead'
  <2> SUFFICES ASSUME ~grown' PROVE StringsAhead'
    BY DEF StringsAhead
  <2>1. ~grown /\ later \in SUBSET old
    BY <1>1
  <2>2. \A a : Rank(later, a) <= Rank(old, a)
    BY <1>3, <2>1, RankShrinks
  <2>3. \A a : current <= Rank(later, a) => current <= Rank(old, a)
    BY <1>3, <1>4, <2>2
  <2>4. /\ \A i, j \in DOMAIN yielded : i < j => yielded[i].ea < yielded[j].ea
        /\ \A a \in old : current <= Rank(old, a) => \A i \in DOMAIN yielded : yielded[i].ea < a
    BY <2>1 DEF StringsInv, StringsAhead, old
  <2>5. \A a \in later : current <= Rank(later, a) =>
            \A i \in DOMAIN yielded : yielded[i].ea < a
    BY <2>1, <2>3, <2>4
  <2> QED BY <1>1, <2>4, <2>5 DEF StringsAhead
<1> QED BY <1>2, <1>5, <1>6 DEF StringsInv

LEMMA StringStepInv ==
    ASSUME StringsInv,
           Strings!NextItem \/ Strings!Rebuild \/ Strings!Clear \/ Strings!Redefine
    PROVE  StringsInv'
<1>1. CASE Strings!Rebuild
  BY <1>1, CollectedType, ReplaceInv DEF Strings!Rebuild
<1>2. CASE Strings!Clear
  BY <1>2, ReplaceInv DEF Strings!Clear
<1>3. CASE Strings!Redefine
  BY <1>3 DEF Strings!Redefine, StringsInv, StringsType, PassedStrings, StringsAhead,
              Strings!Listed, Strings!Returned
<1> QED BY <1>1, <1>2, <1>3, NextStringInv

-----------------------------------------------------------------------------
(* The loop over names.                                                    *)

NamesType ==
    /\ listed \in SUBSET NameAddresses
    /\ steady \in SUBSET (listed \ nameless)
    /\ current \in Nat
    /\ yielded \in Seq(NameAddresses)

\* What an address that was named all along owes to the iterator, unless one
\* was removed: once the index is past it, it was returned.
PassedIsReturned ==
    ~shrunk =>
        /\ \A a \in steady : Rank(listed, a) < current => a \in Returned
        /\ exhausted => steady \subseteq Returned

\* Unless one was added, what is not yet passed is above all that was returned.
AheadIsAbove ==
    ~grown =>
        /\ \A i, j \in DOMAIN yielded : i < j => yielded[i] < yielded[j]
        /\ \A a \in listed : current <= Rank(listed, a) =>
              \A i \in DOMAIN yielded : yielded[i] < a

NamesInv == NamesType /\ PassedIsReturned /\ AheadIsAbove

LEMMA ListedFinite ==
    ASSUME NEW S \in SUBSET NameAddresses
    PROVE  /\ S \in SUBSET Nat /\ IsFiniteSet(S) /\ Cardinality(S) \in Nat
           /\ \A a : Rank(S, a) \in Nat
<1>1. NameAddresses \in SUBSET Nat /\ IsFiniteSet(NameAddresses)
  BY LoopsAssumption
<1>2. IsFiniteSet(S)
  BY <1>1, FS_Subset
<1> QED BY <1>1, <1>2, RankType, FS_CardinalityType

\* The lookups by index, and where the loop of next stops.
LEMMA CandidateRanks ==
    ASSUME NamesType
    PROVE  /\ \A i : Names!GetByIndex(i) = {a \in listed \ nameless : Rank(listed, a) = i}
           /\ \A a \in listed \ nameless :
                current <= Rank(listed, a) => Rank(listed, a) \in Names!Candidates
           /\ Names!Candidates \in SUBSET Nat
           /\ \A i \in Names!Candidates : current <= i
<1>1. \A i : Names!GetByIndex(i) = {a \in listed \ nameless : Rank(listed, a) = i}
  BY SameRanks, Zenon DEF Names!GetByIndex, Names!GetAddressByIndex
<1>2. ASSUME NEW a \in listed \ nameless, current <= Rank(listed, a)
      PROVE  Rank(listed, a) \in Names!Candidates
  <2>1. /\ Rank(listed, a) \in Nat /\ Cardinality(listed) \in Nat
        /\ Rank(listed, a) < Cardinality(listed)
    BY ListedFinite, RankBelowCount DEF NamesType
  <2>2. Rank(listed, a) \in current .. Cardinality(listed) - 1
    BY <1>2, <2>1 DEF NamesType
  <2>3. a \in Names!GetByIndex(Rank(listed, a))
    BY <1>1
  <2>4. Names!NameCount = Cardinality(listed)
    BY SameRanks, Zenon DEF Names!NameCount
  <2> QED BY <2>2, <2>3, <2>4 DEF Names!Candidates
<1>3. Names!Candidates \in SUBSET (current .. Cardinality(listed) - 1)
  BY SameRanks DEF Names!Candidates, Names!NameCount
<1>4. Cardinality(listed) \in Nat /\ current \in Nat
  BY ListedFinite DEF NamesType
<1> QED BY <1>1, <1>2, <1>3, <1>4

\* The iterator returns the name at the first index that has one ...
LEMMA ReturnNameInv ==
    ASSUME NamesInv, NEW i \in Names!Candidates, \A j \in Names!Candidates : i <= j,
           NEW ea \in Names!GetByIndex(i), yielded' = Append(yielded, ea),
           current' = i + 1, UNCHANGED <<exhausted, listed, nameless, steady, grown, shrunk>>
    PROVE  NamesInv'
<1>1. /\ ea \in listed \ nameless /\ Rank(listed, ea) = i
      /\ i \in Nat /\ current <= i /\ current \in Nat
  BY CandidateRanks DEF NamesInv, NamesType
<1>2. /\ listed \in SUBSET Nat /\ IsFiniteSet(listed)
      /\ \A a \in listed : a \in Nat /\ Rank(listed, a) \in Nat
  BY ListedFinite DEF NamesInv, NamesType
<1>3. /\ yielded \in Seq(listed \cup NameAddresses) /\ yielded \in Seq(NameAddresses)
      /\ ea \in NameAddresses /\ NameAddresses \in SUBSET Nat
  BY <1>1, ListedFinite DEF NamesInv, NamesType
<1>4. /\ yielded' \in Seq(NameAddresses)
      /\ DOMAIN yielded = 1 .. Len(yielded) /\ Len(yielded) \in Nat
      /\ DOMAIN yielded' = 1 .. Len(yielded) + 1
      /\ \A k \in DOMAIN yielded : yielded'[k] = yielded[k]
      /\ yielded'[Len(yielded) + 1] = ea
      /\ \A k \in DOMAIN yielded' : k \in DOMAIN yielded \/ k = Len(yielded) + 1
  BY <1>3, AppendElements
<1>5. Returned' = Returned \cup {ea}
  BY <1>4 DEF Returned
<1>6. NamesType'
  BY <1>1, <1>4 DEF NamesInv, NamesType
<1>7. PassedIsReturned'
  <2>1. ASSUME ~shrunk, NEW a \in steady, Rank(listed, a) < i + 1
        PROVE  a \in Returned'
    <3>1. a \in listed \ nameless /\ Rank(listed, a) \in Nat
      BY <1>2 DEF NamesInv, NamesType
    <3>2. CASE Rank(listed, a) < current
      BY <1>5, <2>1, <3>2 DEF NamesInv, PassedIsReturned
    <3>3. CASE current <= Rank(listed, a)
      <4>1. i <= Rank(listed, a)
        BY <3>1, <3>3, CandidateRanks DEF NamesInv
      <4>2. Rank(listed, a) = Rank(listed, ea)
        BY <1>1, <2>1, <3>1, <4>1
      <4>3. a = ea
        BY <1>1, <1>2, <3>1, <4>2, RankInjective
      <4> QED BY <1>5, <4>3
    <3> QED BY <1>1, <3>1, <3>2, <3>3
  <2>2. ASSUME ~shrunk, exhausted PROVE steady \subseteq Returned'
    BY <1>5, <2>2 DEF NamesInv, PassedIsReturned
  <2> QED BY <2>1, <2>2 DEF PassedIsReturned
<1>8. AheadIsAbove'
  <2> SUFFICES ASSUME ~grown PROVE AheadIsAbove'
    BY DEF AheadIsAbove
  <2>1. \A k \in DOMAIN yielded : yielded[k] < ea
    BY <1>1 DEF NamesInv, AheadIsAbove
  <2>2. \A j, k \in DOMAIN yielded' : j < k => yielded'[j] < yielded'[k]
    BY <1>3, <2>1, AppendAscends DEF NamesInv, AheadIsAbove
  <2>3. ASSUME NEW a \in listed, i + 1 <= Rank(listed, a), NEW k \in DOMAIN yielded'
        PROVE  yielded'[k] < a
    <3>1. ea < a
      <4>1. Rank(listed, ea) < Rank(listed, a)
        BY <1>1, <1>2, <2>3
      <4> QED BY <1>1, <1>2, <4>1, RankOrders
    <3>2. current <= Rank(listed, a)
      BY <1>1, <1>2, <2>3
    <3>3. CASE k \in DOMAIN yielded
      BY <1>4, <3>2, <3>3 DEF NamesInv, AheadIsAbove
    <3>4. CASE k = Len(yielded) + 1
      BY <1>4, <3>1, <3>4
    <3> QED BY <1>4, <3>3, <3>4
  <2> QED BY <2>2, <2>3 DEF AheadIsAbove
<1> QED BY <1>6, <1>7, <1>8 DEF NamesInv

\* ... or finds that there is none.
LEMMA NoNameInv ==
    ASSUME NamesInv, Names!Candidates = {},
           current' = IF current < Names!NameCount THEN Names!NameCount ELSE current,
           exhausted' = TRUE,
           UNCHANGED <<yielded, listed, nameless, steady, grown, shrunk>>
    PROVE  NamesInv'
<1>1. /\ Cardinality(listed) \in Nat /\ current \in Nat
      /\ \A a \in listed : Rank(listed, a) \in Nat /\ Rank(listed, a) < Cardinality(listed)
  BY ListedFinite, RankBelowCount DEF NamesInv, NamesType
<1>2. current' \in Nat /\ current <= current' /\ Cardinality(listed) <= current'
  BY <1>1, SameRanks DEF Names!NameCount
<1>3. ASSUME ~shrunk, NEW a \in steady PROVE a \in Returned
  <2>1. a \in listed \ nameless
    BY DEF NamesInv, NamesType
  <2>2. ~(current <= Rank(listed, a))
    BY <2>1, CandidateRanks DEF NamesInv
  <2>3. Rank(listed, a) < current
    BY <1>1, <2>1, <2>2
  <2> QED BY <1>3, <2>3 DEF NamesInv, PassedIsReturned
<1>4. UNCHANGED Returned
  BY DEF Returned
<1>5. PassedIsReturned'
  BY <1>3, <1>4 DEF PassedIsReturned
<1>6. AheadIsAbove'
  BY <1>1, <1>2 DEF NamesInv, AheadIsAbove
<1> QED BY <1>2, <1>5, <1>6 DEF NamesInv, NamesType

LEMMA NextNameInv ==
    ASSUME NamesInv, Names!NextName
    PROVE  NamesInv'
<1>1. CASE Names!Candidates # {}
  <2> DEFINE i == Names!First(Names!Candidates)
  <2>1. Names!Candidates \in SUBSET Nat
    BY CandidateRanks DEF NamesInv
  <2>2. i \in Names!Candidates /\ \A j \in Names!Candidates : i <= j
    BY <1>1, <2>1, Least DEF Names!First
  <2>3. PICK ea \in Names!GetByIndex(i) : yielded' = Append(yielded, ea)
    BY <1>1 DEF Names!NextName
  <2>4. /\ current' = i + 1
        /\ UNCHANGED <<exhausted, listed, nameless, steady, grown, shrunk>>
    BY <1>1 DEF Names!NextName
  <2> HIDE DEF i
  <2> QED BY <2>2, <2>3, <2>4, ReturnNameInv
<1>2. CASE Names!Candidates = {}
  BY <1>2, NoNameInv DEF Names!NextName
<1> QED BY <1>1, <1>2

\* An addition raises ranks, if anything: nothing unseen falls behind the index.
LEMMA AddNameInv ==
    ASSUME NamesInv, Names!AddName
    PROVE  NamesInv'
<1>1. PICK ea \in NameAddresses \ listed :
        /\ listed' = listed \cup {ea}
        /\ nameless' \in {nameless, nameless \cup {ea}}
  BY DEF Names!AddName
<1>2. /\ grown' = TRUE /\ UNCHANGED <<current, yielded, exhausted, steady, shrunk>>
      /\ UNCHANGED Returned
  BY DEF Names!AddName, Returned
<1>3. NamesType'
  BY <1>1, <1>2 DEF NamesInv, NamesType
<1>4. ASSUME NEW a \in steady PROVE Rank(listed, a) <= Rank(listed', a)
  <2>1. listed \in SUBSET listed' /\ IsFiniteSet(listed')
    BY <1>1, <1>3, ListedFinite DEF NamesType
  <2> QED BY <2>1, RankShrinks
<1>5. \A a \in steady : Rank(listed', a) < current => Rank(listed, a) < current
  <2>1. \A a : Rank(listed, a) \in Nat /\ Rank(listed', a) \in Nat
    BY <1>3, ListedFinite DEF NamesInv, NamesType
  <2> QED BY <1>4, <2>1 DEF NamesInv, NamesType
<1>6. PassedIsReturned'
  BY <1>2, <1>5 DEF NamesInv, PassedIsReturned
<1>7. AheadIsAbove'
  BY <1>2 DEF AheadIsAbove
<1> QED BY <1>3, <1>6, <1>7 DEF NamesInv

\* A removal lowers ranks, if anything: nothing seen comes up ahead of the index.
LEMMA RemoveNameInv ==
    ASSUME NamesInv, Names!RemoveName
    PROVE  NamesInv'
<1>1. PICK ea \in listed :
        /\ listed' = listed \ {ea}
        /\ nameless' = nameless \ {ea}
        /\ steady' = steady \ {ea}
  BY DEF Names!RemoveName
<1>2. shrunk' = TRUE /\ UNCHANGED <<current, yielded, exhausted, grown>>
  BY DEF Names!RemoveName
<1>3. NamesType'
  BY <1>1, <1>2 DEF NamesInv, NamesType
<1>4. \A a \in listed' : current <= Rank(listed', a) => current <= Rank(listed, a)
  <2>1. \A a : Rank(listed', a) <= Rank(listed, a)
    BY <1>1, ListedFinite, RankShrinks DEF NamesInv, NamesType
  <2>2. \A a : Rank(listed, a) \in Nat /\ Rank(listed', a) \in Nat
    BY <1>3, ListedFinite DEF NamesInv, NamesType
  <2> QED BY <2>1, <2>2 DEF NamesInv, NamesType
<1>5. AheadIsAbove'
  BY <1>1, <1>2, <1>4 DEF NamesInv, AheadIsAbove
<1>6. PassedIsReturned'
  BY <1>2 DEF PassedIsReturned
<1> QED BY <1>3, <1>5, <1>6 DEF NamesInv

-----------------------------------------------------------------------------
(* The walk along cross-references.                                        *)

Wanted == XRefs!Shown(query)

XRefsType ==
    /\ refs \in SUBSET Refs
    /\ query \in XRefs!XRefQuery
    /\ yielded \in Seq(XRefs!XRef)
    /\ exhausted \in BOOLEAN
    /\ lasting \in SUBSET refs

\* At each of its steps the walk has what was there all along up to that step.
WalkInv ==
    /\ XRefsType
    /\ \A i \in DOMAIN yielded : yielded[i]._flags = query /\ yielded[i].at \in Wanted
    /\ \A i, j \in DOMAIN yielded : i < j => yielded[i].at < yielded[j].at
    /\ \A n \in DOMAIN yielded, r \in lasting \cap Wanted :
         r <= yielded[n].at => \E j \in DOMAIN yielded : j <= n /\ yielded[j].at = r
    /\ exhausted =>
         \A r \in lasting \cap Wanted :
            yielded # <<>> /\ r <= yielded[Len(yielded)].at

\* What the SDK's cursor finds behind a position.
LEMMA BehindIsNext ==
    ASSUME XRefsType, NEW position \in Nat
    PROVE  /\ XRefs!Behind(position, query) = {} =>
                \A r \in refs \cap Wanted : r <= position
           /\ \A xref \in XRefs!Behind(position, query) :
                /\ xref \in XRefs!XRef /\ xref._flags = query
                /\ xref.at \in refs \cap Wanted /\ xref.at > position
                /\ \A r \in refs \cap Wanted : r > position => xref.at <= r
<1> DEFINE later == {r \in refs \cap Wanted : r > position}
           least == {q \in refs \cap Wanted :
                       q > position /\ \A p \in refs \cap Wanted : p > position => q <= p}
<1>1. XRefs!Behind(position, query) = {[at |-> r, _flags |-> query] : r \in least}
  BY DEF XRefs!Behind, Wanted
<1>2. \A r \in refs : r \in Refs /\ r \in Nat
  BY LoopsAssumption DEF XRefsType
<1>3. ASSUME XRefs!Behind(position, query) = {}, NEW r \in refs \cap Wanted
      PROVE  r <= position
  <2> SUFFICES ASSUME r > position PROVE FALSE
    BY <1>2
  <2>1. later \in SUBSET Nat /\ later # {}
    BY <1>2
  <2>2. PICK q \in later : \A p \in later : q <= p
    BY <2>1, Least
  <2>3. q \in least
    BY <2>2
  <2> QED BY <1>1, <1>3, <2>3
<1>4. ASSUME NEW xref \in XRefs!Behind(position, query)
      PROVE  /\ xref \in XRefs!XRef /\ xref._flags = query
             /\ xref.at \in refs \cap Wanted /\ xref.at > position
             /\ \A r \in refs \cap Wanted : r > position => xref.at <= r
  <2>1. PICK q \in least : xref = [at |-> q, _flags |-> query]
    BY <1>1
  <2>2. xref \in XRefs!XRef
    BY <1>2, <2>1 DEF XRefs!XRef, XRefsType
  <2> QED BY <2>1, <2>2
<1> QED BY <1>3, <1>4

\* A walk that goes on from a position it has covered.
LEMMA AnswerInv ==
    ASSUME WalkInv, ~exhausted, NEW position \in Nat,
           IF yielded = <<>> THEN position = 0 ELSE position = yielded[Len(yielded)].at,
           XRefs!Answer(XRefs!Behind(position, query))
    PROVE  WalkInv'
<1>1. UNCHANGED <<refs, query, lasting>> /\ UNCHANGED Wanted
  BY DEF XRefs!Answer, Wanted, XRefs!Shown
<1>2. /\ DOMAIN yielded = 1 .. Len(yielded) /\ Len(yielded) \in Nat
      /\ yielded = <<>> <=> Len(yielded) = 0
  BY DEF WalkInv, XRefsType
<1>3. /\ \A r \in refs : r \in Nat /\ r > 0
      /\ \A i \in DOMAIN yielded : yielded[i] \in XRefs!XRef /\ yielded[i].at \in Nat
      /\ lasting \in SUBSET refs
  <2>1. \A r \in Refs : r \in Nat /\ r > 0
    BY LoopsAssumption
  <2>2. ASSUME NEW i \in DOMAIN yielded
        PROVE  yielded[i] \in XRefs!XRef /\ yielded[i].at \in Nat
    <3>1. yielded[i] \in XRefs!XRef
      BY <1>2 DEF WalkInv, XRefsType
    <3>2. yielded[i].at \in Refs
      BY <3>1 DEF XRefs!XRef
    <3> QED BY <2>1, <3>1, <3>2
  <2> QED BY <2>1, <2>2 DEF WalkInv, XRefsType
<1>4. \A i \in DOMAIN yielded : yielded[i].at <= position
  BY <1>2, <1>3 DEF WalkInv
<1>5. ASSUME NEW xref \in XRefs!Behind(position, query),
             yielded' = Append(yielded, xref), UNCHANGED exhausted
      PROVE  WalkInv'
  <2>1. /\ xref \in XRefs!XRef /\ xref._flags = query
        /\ xref.at \in refs \cap Wanted /\ xref.at > position
        /\ \A r \in refs \cap Wanted : r > position => xref.at <= r
    BY BehindIsNext DEF WalkInv
  <2> DEFINE n == Len(yielded) + 1
  <2>2. /\ yielded' \in Seq(XRefs!XRef)
        /\ DOMAIN yielded' = 1 .. n
        /\ \A i \in 1 .. Len(yielded) : yielded'[i] = yielded[i]
        /\ yielded'[n] = xref
        /\ \A i \in 1 .. n : i \in 1 .. Len(yielded) \/ i = n
    BY <1>2, <1>5, <2>1, AppendElements DEF WalkInv, XRefsType
  <2>3. \A i \in DOMAIN yielded' : yielded'[i]._flags = query' /\ yielded'[i].at \in Wanted'
    BY <1>1, <1>2, <2>1, <2>2 DEF WalkInv
  <2>4. ASSUME NEW i \in DOMAIN yielded', NEW j \in DOMAIN yielded', i < j
        PROVE  yielded'[i].at < yielded'[j].at
    <3>1. i \in 1 .. Len(yielded)
      BY <1>2, <2>2, <2>4
    <3>2. CASE j \in 1 .. Len(yielded)
      BY <1>2, <2>2, <2>4, <3>1, <3>2 DEF WalkInv
    <3>3. CASE j = n
      BY <1>2, <1>3, <1>4, <2>1, <2>2, <3>1, <3>3
    <3> QED BY <2>2, <3>2, <3>3
  <2>5. ASSUME NEW m \in DOMAIN yielded', NEW r \in lasting \cap Wanted,
               r <= yielded'[m].at
        PROVE  \E j \in DOMAIN yielded' : j <= m /\ yielded'[j].at = r
    <3>1. CASE m \in 1 .. Len(yielded)
      <4>1. PICK j \in DOMAIN yielded : j <= m /\ yielded[j].at = r
        BY <1>2, <2>2, <2>5, <3>1 DEF WalkInv
      <4> QED BY <1>2, <2>2, <4>1
    <3>2. CASE m = n
      <4>1. CASE r > position
        <5>1. r = xref.at
          BY <1>3, <2>1, <2>2, <2>5, <3>2, <4>1
        <5> QED BY <1>2, <2>2, <3>2, <5>1
      <4>2. CASE r <= position
        <5>1. yielded # <<>>
          BY <1>3, <4>2
        <5>2. Len(yielded) \in DOMAIN yielded /\ r <= yielded[Len(yielded)].at
          BY <1>2, <4>2, <5>1
        <5>3. PICK j \in DOMAIN yielded : j <= Len(yielded) /\ yielded[j].at = r
          BY <5>2 DEF WalkInv
        <5> QED BY <1>2, <2>2, <3>2, <5>3
      <4> QED BY <1>3, <4>1, <4>2
    <3> QED BY <2>2, <3>1, <3>2
  <2>6. XRefsType'
    BY <1>1, <1>5, <2>2 DEF WalkInv, XRefsType
  <2> QED BY <1>1, <1>5, <2>3, <2>4, <2>5, <2>6 DEF WalkInv
<1>6. ASSUME XRefs!Behind(position, query) = {}, exhausted' = TRUE, UNCHANGED yielded
      PROVE  WalkInv'
  <2>1. \A r \in lasting \cap Wanted : r <= position
    BY <1>3, <1>6, BehindIsNext DEF WalkInv
  <2>2. \A r \in lasting \cap Wanted : yielded # <<>> /\ r <= yielded[Len(yielded)].at
    BY <1>3, <2>1
  <2> QED BY <1>1, <1>6, <2>2 DEF WalkInv, XRefsType
<1> QED BY <1>5, <1>6 DEF XRefs!Answer

LEMMA ReturnInv ==
    ASSUME WalkInv, XRefs!Return
    PROVE  WalkInv'
<1>1. PICK n \in 1 .. Len(yielded) : yielded' = SubSeq(yielded, 1, n)
  BY DEF XRefs!Return
<1>2. /\ exhausted' = FALSE /\ UNCHANGED <<refs, query, lasting>> /\ UNCHANGED Wanted
  BY DEF XRefs!Return, Wanted, XRefs!Shown
<1>3. /\ yielded' \in Seq(XRefs!XRef)
      /\ DOMAIN yielded = 1 .. Len(yielded) /\ Len(yielded) \in Nat
      /\ DOMAIN yielded' = 1 .. n
      /\ \A i \in 1 .. n : i \in DOMAIN yielded /\ yielded'[i] = yielded[i]
  BY <1>1, SubSeqProperties DEF WalkInv, XRefsType
<1>4. ASSUME NEW m \in DOMAIN yielded', NEW r \in lasting \cap Wanted, r <= yielded'[m].at
      PROVE  \E j \in DOMAIN yielded' : j <= m /\ yielded'[j].at = r
  <2>1. PICK j \in DOMAIN yielded : j <= m /\ yielded[j].at = r
    BY <1>3, <1>4 DEF WalkInv
  <2>2. j \in 1 .. n
    BY <1>3, <2>1
  <2> QED BY <1>3, <2>1, <2>2
<1>5. XRefsType'
  BY <1>2, <1>3 DEF WalkInv, XRefsType
<1> QED BY <1>2, <1>3, <1>4, <1>5 DEF WalkInv

LEMMA ChangeRefsInv ==
    ASSUME WalkInv, XRefs!ChangeRefs
    PROVE  WalkInv'
<1>1. /\ refs' \in SUBSET Refs /\ lasting' \in SUBSET refs' /\ lasting' \in SUBSET lasting
      /\ UNCHANGED <<query, yielded, exhausted>> /\ UNCHANGED Wanted
  BY DEF WalkInv, XRefsType, XRefs!ChangeRefs, Wanted, XRefs!Shown
<1> QED BY <1>1 DEF WalkInv, XRefsType

-----------------------------------------------------------------------------
(* The loop over entry points.                                             *)

EntryItems == EntryAddresses \cup {BADADDR}

TableType ==
    /\ entries \in Seq(EntryItems)
    /\ current \in Nat /\ limit \in Nat /\ current <= limit
    /\ yielded \in Seq(EntryAddresses)
    /\ exhausted \in BOOLEAN

\* The index stays within the limit, and is there when the end was reached.
EntryInv ==
    /\ TableType
    /\ exhausted => current = limit

LEMMA TablesAreSequences ==
    ASSUME NEW t \in Entries!Tables
    PROVE  t \in Seq(EntryItems)
<1>1. PICK n \in 0 .. MaxEntries : t \in [1 .. n -> EntryItems]
  BY DEF Entries!Tables, EntryItems
<1>2. n \in Nat
  BY LoopsAssumption
<1> QED BY <1>1, <1>2

\* The entry that is returned is one within the limit.
LEMMA FirstEntry ==
    ASSUME EntryInv, Entries!Present # {}
    PROVE  /\ Entries!FirstPresent \in Nat
           /\ current <= Entries!FirstPresent /\ Entries!FirstPresent < limit
           /\ Entries!GetEntry(Entries!FirstPresent) \in EntryAddresses
<1>1. Entries!Present \in SUBSET Nat
  BY DEF Entries!Present, EntryInv, TableType
<1>2. Entries!FirstPresent \in Entries!Present
  BY <1>1, Least DEF Entries!FirstPresent
<1>3. \A i \in Nat : Entries!GetEntry(i) \in EntryItems
  BY DEF EntryInv, TableType, Entries!GetEntry, EntryItems
<1> QED BY <1>1, <1>2, <1>3 DEF Entries!Present, EntryInv, TableType, EntryItems

\* The index moves to the next entry with an address, and stays there.
LEMMA NextEntryInv ==
    ASSUME EntryInv, Entries!NextEntry
    PROVE  EntryInv'
<1>1. UNCHANGED <<entries, limit>>
  BY DEF Entries!NextEntry
<1>2. CASE /\ Entries!Present # {}
           /\ current' = Entries!FirstPresent
           /\ yielded' = Append(yielded, Entries!GetEntry(Entries!FirstPresent))
           /\ UNCHANGED exhausted
  <2>1. yielded' \in Seq(EntryAddresses)
    BY <1>2, FirstEntry, AppendElements DEF EntryInv, TableType
  <2>2. ~exhausted
    BY <1>2, FirstEntry DEF EntryInv, TableType
  <2> QED BY <1>1, <1>2, <2>1, <2>2, FirstEntry DEF EntryInv, TableType
<1>3. CASE /\ Entries!Present = {}
           /\ current' = limit
           /\ exhausted' = TRUE
           /\ UNCHANGED yielded
  BY <1>1, <1>3 DEF EntryInv, TableType
<1> QED BY <1>2, <1>3 DEF Entries!NextEntry

LEMMA ChangeTableInv ==
    ASSUME EntryInv, Entries!ChangeTable
    PROVE  EntryInv'
BY TablesAreSequences DEF EntryInv, TableType, Entries!ChangeTable

\* An iterator that ended has nothing left between its index and the limit,
\* whatever the table holds by now.
LEMMA NextEntryStays ==
    ASSUME EntryInv, Entries!NextEntry
    PROVE  Entries!StaysWithinLimit
<1>1. Entries!SizeHint' \in Nat /\ (exhausted' => Entries!SizeHint' = 0)
  BY NextEntryInv DEF EntryInv, TableType, Entries!SizeHint
<1>2. ASSUME exhausted PROVE Entries!SizeHint' = 0 /\ UNCHANGED yielded
  <2>1. Entries!Present = {}
    BY <1>2 DEF Entries!Present, EntryInv, TableType
  <2> QED BY <2>1, <1>1 DEF Entries!NextEntry
<1> QED BY <1>1, <1>2 DEF Entries!StaysWithinLimit

-----------------------------------------------------------------------------
(* The loop over operands.                                                 *)

\* The loop has got the operands before the first void one.
OpsInv ==
    /\ ops \in [1 .. MaxOps -> Operands!Operand]
    /\ yielded \in Seq(Operands!Operand)
    /\ Len(yielded) <= MaxOps
    /\ \A i \in 1 .. Len(yielded) : yielded[i] = ops[i] /\ ops[i].type # "void"
    /\ exhausted \in BOOLEAN
    /\ exhausted => Len(yielded) = MaxOps \/ ops[Len(yielded) + 1].type = "void"

LEMMA NextOperandInv ==
    ASSUME OpsInv, Operands!NextOperand
    PROVE  OpsInv'
<1> DEFINE n == Len(yielded)
<1>1. /\ UNCHANGED ops /\ MaxOps \in Nat /\ n \in Nat
      /\ Len(ops) = MaxOps
  BY LoopsAssumption DEF Operands!NextOperand, OpsInv
<1>2. ASSUME NEW op \in Operands!OperandAt(n), yielded' = Append(yielded, op), UNCHANGED exhausted
      PROVE  OpsInv'
  <2>1. n < MaxOps /\ op = ops[n + 1] /\ op.type # "void" /\ op \in Operands!Operand
    BY <1>1, <1>2 DEF Operands!OperandAt, OpsInv
  <2>2. /\ yielded' \in Seq(Operands!Operand)
        /\ Len(yielded') = n + 1
        /\ \A i \in 1 .. n : yielded'[i] = yielded[i]
        /\ yielded'[n + 1] = op
    BY <1>2, <2>1, AppendElements DEF OpsInv
  <2>3. \A i \in 1 .. n + 1 : yielded'[i] = ops[i] /\ ops[i].type # "void"
    BY <1>1, <2>1, <2>2 DEF OpsInv
  <2>4. ~exhausted
    BY <1>1, <2>1 DEF OpsInv
  <2> QED BY <1>1, <1>2, <2>1, <2>2, <2>3, <2>4 DEF OpsInv
<1>3. ASSUME Operands!OperandAt(n) = {}, exhausted' = TRUE, UNCHANGED yielded
      PROVE  OpsInv'
  <2>1. n = MaxOps \/ ops[n + 1].type = "void"
    <3>1. CASE n < Len(ops)
      BY <1>3, <3>1 DEF Operands!OperandAt
    <3>2. CASE ~(n < Len(ops))
      BY <1>1, <3>2 DEF OpsInv
    <3> QED BY <3>1, <3>2
  <2> QED BY <1>1, <1>3, <2>1 DEF OpsInv
<1> QED BY <1>2, <1>3 DEF Operands!NextOperand

LEMMA OperandsCovered == OpsInv => Operands!OperandsAreCovered
<1> SUFFICES ASSUME OpsInv PROVE Operands!OperandsAreCovered
  OBVIOUS
<1> DEFINE n == Len(yielded)
           void == {m \in 0 .. Len(ops) - 1 : ops[m + 1].type = "void"}
<1>1. /\ MaxOps \in Nat /\ n \in Nat /\ n <= MaxOps
      /\ DOMAIN yielded = 1 .. n
      /\ Len(ops) = MaxOps
  BY LoopsAssumption DEF OpsInv
<1>2. /\ exhausted => n = MaxOps \/ ops[n + 1].type = "void"
      /\ \A i \in 1 .. n : ops[i].type # "void"
  BY Zenon DEF OpsInv
<1>3. /\ \A m : m \in void <=> m \in 0 .. MaxOps - 1 /\ ops[m + 1].type = "void"
      /\ Operands!OperandCount =
           IF void = {} THEN MaxOps ELSE CHOOSE k \in void : \A m \in void : k <= m
  BY <1>1 DEF Operands!OperandCount
<1>4. ASSUME exhausted PROVE n = Operands!OperandCount
  <2> HIDE DEF void
  <2>1. n < MaxOps => n \in void
    <3>1. n = MaxOps \/ ops[n + 1].type = "void"
      BY <1>2, <1>4
    <3>2. n < MaxOps => n \in 0 .. MaxOps - 1 /\ n # MaxOps
      <4>1. MaxOps \in Nat /\ n \in Nat
        BY <1>1
      <4> HIDE DEF n
      <4> QED BY <4>1
    <3>3. n \in void <=> n \in 0 .. MaxOps - 1 /\ ops[n + 1].type = "void"
      BY <1>3, Zenon
    <3> QED BY <3>1, <3>2, <3>3, Zenon
  <2>2. ASSUME NEW m \in void PROVE n <= m /\ m \in Nat /\ m < MaxOps
    <3>1. m \in 0 .. MaxOps - 1 /\ ops[m + 1].type = "void"
      BY <1>3
    <3>2. m + 1 \notin 1 .. n
      BY <1>2, <3>1
    <3> QED BY <1>1, <3>1, <3>2
  <2>3. CASE void = {}
    <3>1. n = MaxOps
      <4>1. ~(n < MaxOps)
        BY <2>1, <2>3, Zenon
      <4>2. MaxOps \in Nat /\ n \in Nat /\ n <= MaxOps
        BY <1>1
      <4> HIDE DEF n
      <4> QED BY <4>1, <4>2
    <3>2. Operands!OperandCount = MaxOps
      BY <1>3, <2>3, Zenon
    <3> QED BY <3>1, <3>2
  <2>4. CASE void # {}
    <3>1. n \in void
      BY <1>1, <2>1, <2>2, <2>4
    <3>2. ASSUME NEW k \in void, \A m \in void : k <= m PROVE k = n
      BY <1>1, <2>2, <3>1, <3>2
    <3>3. (CHOOSE k \in void : \A m \in void : k <= m) = n
      BY <2>2, <3>1, <3>2
    <3> QED BY <1>3, <2>4, <3>3
  <2> QED BY <2>3, <2>4
<1>5. ASSUME NEW i \in DOMAIN yielded
      PROVE  yielded[i].type \in Operands!OperandType /\ Operands!Answers(yielded[i]) # {}
  <2> DEFINE op == yielded[i]
  <2>1. op \in Operands!Operand /\ op.type # "void"
    <3>1. i \in 1 .. n
      BY <1>1
    <3> QED BY <3>1 DEF OpsInv
  <2>2. op.type \in Operands!OperandType
    BY <2>1 DEF Operands!Operand
  <2>3. \E field \in {"reg", "phrase", "value", "addr", "specval"} :
          field \in Operands!Answers(op)
    BY <2>2 DEF Operands!Answers, Operands!OperandType, Operands!ProcessorSpecific
  <2> QED BY <2>2, <2>3
<1> QED BY <1>4, <1>5 DEF Operands!OperandsAreCovered

-----------------------------------------------------------------------------
(* The loops together.                                                     *)

Inv ==
    /\ loop = "strings" => StringsInv
    /\ loop = "names" => NamesInv
    /\ loop = "xrefs" => WalkInv
    /\ loop = "entries" => EntryInv
    /\ loop = "operands" => OpsInv

LEMMA InitInv == Init => Inv
<1> SUFFICES ASSUME Init PROVE Inv
  OBVIOUS
<1>1. ASSUME loop = "xrefs" PROVE WalkInv
  <2>1. XRefs!Init
    BY <1>1 DEF Init
  <2>2. yielded = <<>> /\ ~exhausted /\ exhausted \in BOOLEAN
    BY <2>1, Zenon DEF XRefs!Init
  <2>3. refs \in SUBSET Refs /\ query \in XRefs!XRefQuery /\ lasting = refs
    BY <2>1 DEF XRefs!Init
  <2>4. XRefsType
    BY <2>2, <2>3 DEF XRefsType
  <2> QED BY <2>2, <2>4 DEF WalkInv
<1>2. ASSUME loop = "entries" PROVE EntryInv
  <2>1. Entries!Init
    BY <1>2 DEF Init
  <2>2. entries \in Seq(EntryItems) /\ limit = Len(entries)
    BY <2>1, TablesAreSequences DEF Entries!Init
  <2>3. /\ current = 0 /\ yielded = <<>> /\ ~exhausted
        /\ exhausted \in BOOLEAN
    BY <2>1, Zenon DEF Entries!Init
  <2>4. TableType
    BY <2>2, <2>3 DEF TableType
  <2> QED BY <2>2, <2>3, <2>4 DEF EntryInv
<1>3. ASSUME loop = "operands" PROVE OpsInv
  <2>1. Operands!Init /\ MaxOps \in Nat
    BY <1>3, LoopsAssumption DEF Init
  <2>2. /\ ops \in [1 .. MaxOps -> Operands!Operand] /\ yielded = <<>>
        /\ ~exhausted /\ exhausted \in BOOLEAN
    BY <2>1, Zenon DEF Operands!Init
  <2> QED BY <2>1, <2>2 DEF OpsInv
<1>4. ASSUME loop = "strings" PROVE StringsInv
  <2>1. Strings!Init /\ current = 0
    BY <1>4, Zenon DEF Init
  <2>2. yielded = <<>> /\ ~exhausted /\ steady = Strings!Listed
    BY <2>1, Zenon DEF Strings!Init
  <2>3. PICK old : list = Strings!Collected(old)
    BY <2>1, Zenon DEF Strings!Init
  <2>4. /\ list \in SUBSET StringEntry
        /\ \A a, b \in list : a.ea = b.ea => a = b
    BY <2>3, CollectedType
  <2>5. StringsType
    BY <2>1, <2>2, <2>4 DEF StringsType
  <2>6. \A a : ~(Rank(Strings!Listed, a) < current)
    <3>1. \A a : Rank(Strings!Listed, a) \in Nat
      BY <2>5, StringsFinite
    <3>2. \A n \in Nat : ~(n < 0)
      OBVIOUS
    <3> QED BY <2>1, <3>1, <3>2, Zenon
  <2> QED BY <2>2, <2>5, <2>6 DEF StringsInv, PassedStrings, StringsAhead
<1>5. ASSUME loop = "names" PROVE NamesInv
  <2>1. Names!Init /\ current = 0
    BY <1>5, Zenon DEF Init
  <2>2. /\ listed \in SUBSET NameAddresses /\ steady \in SUBSET (listed \ nameless)
        /\ yielded = <<>>
    BY <2>1 DEF Names!Init
  <2>3. ~exhausted
    BY <2>1, Zenon DEF Names!Init
  <2>4. \A a : ~(Rank(listed, a) < current)
    <3>1. \A a : Rank(listed, a) \in Nat
      BY <2>2, ListedFinite
    <3>2. \A n \in Nat : ~(n < 0)
      OBVIOUS
    <3> QED BY <2>1, <3>1, <3>2, Zenon
  <2> QED BY <2>1, <2>2, <2>3, <2>4
          DEF NamesInv, NamesType, PassedIsReturned, AheadIsAbove
<1> QED BY <1>1, <1>2, <1>3, <1>4, <1>5 DEF Inv

LEMMA XRefsInv ==
    ASSUME WalkInv,
           XRefs!FirstXRef \/ XRefs!NextXRef \/ XRefs!Return \/ XRefs!ChangeRefs
    PROVE  WalkInv'
<1>1. CASE XRefs!FirstXRef
  BY <1>1, AnswerInv DEF XRefs!FirstXRef
<1>2. CASE XRefs!NextXRef
  <2> DEFINE last == yielded[Len(yielded)]
  <2>1. yielded # <<>> /\ ~exhausted
    BY <1>2 DEF XRefs!NextXRef
  <2>2. Len(yielded) \in DOMAIN yielded /\ last \in XRefs!XRef
    BY <2>1 DEF WalkInv, XRefsType
  <2>3. last._flags = query /\ last.at \in Nat
    BY <2>2, LoopsAssumption DEF WalkInv, XRefs!XRef
  <2>4. XRefs!Answer(XRefs!Behind(last.at, query))
    BY <1>2, <2>3 DEF XRefs!NextXRef, XRefs!Clone, XRefs!Last
  <2> QED BY <2>1, <2>3, <2>4, AnswerInv
<1> QED BY <1>1, <1>2, ReturnInv, ChangeRefsInv

LEMMA NextInv == Inv /\ [Next]_vars => Inv'
<1> SUFFICES ASSUME Inv, [Next]_vars PROVE Inv'
  OBVIOUS
<1>1. CASE UNCHANGED vars
  <2>1. /\ UNCHANGED <<loop, current, yielded, exhausted>>
        /\ UNCHANGED <<entries, limit, refs, query, lasting, ops>>
        /\ UNCHANGED <<bytes, list, listed, nameless, steady, grown, shrunk>>
    BY <1>1 DEF vars, history, strings, names, table, xrefs
  <2>2. WalkInv => WalkInv'
    <3>1. UNCHANGED Wanted
      BY <2>1 DEF Wanted, XRefs!Shown
    <3> QED BY <2>1, <3>1 DEF WalkInv, XRefsType
  <2>3. EntryInv => EntryInv'
    BY <2>1 DEF EntryInv, TableType, Returned, Entries!GetEntry
  <2>4. OpsInv => OpsInv'
    BY <2>1 DEF OpsInv
  <2>5. StringsInv => StringsInv'
    BY <2>1 DEF StringsInv, StringsType, PassedStrings, StringsAhead,
                Strings!Listed, Strings!Returned
  <2>6. NamesInv => NamesInv'
    BY <2>1 DEF NamesInv, NamesType, PassedIsReturned, AheadIsAbove, Returned
  <2> QED BY <2>1, <2>2, <2>3, <2>4, <2>5, <2>6 DEF Inv
<1>2. CASE Next
  <2>1. loop' = loop
    BY <1>2 DEF Next, NextItem, GoBack, Body
  <2>2. ASSUME loop = "xrefs" PROVE WalkInv'
    <3>1. XRefs!FirstXRef \/ XRefs!NextXRef \/ XRefs!Return \/ XRefs!ChangeRefs
      BY <1>2, <2>2 DEF Next, NextItem, GoBack, Body
    <3> QED BY <2>2, <3>1, XRefsInv DEF Inv
  <2>3. ASSUME loop = "entries" PROVE EntryInv'
    <3>1. Entries!NextEntry \/ Entries!ChangeTable
      BY <1>2, <2>3 DEF Next, NextItem, GoBack, Body
    <3> QED BY <2>3, <3>1, NextEntryInv, ChangeTableInv DEF Inv
  <2>4. ASSUME loop = "operands" PROVE OpsInv'
    <3>1. Operands!NextOperand
      BY <1>2, <2>4 DEF Next, NextItem, GoBack, Body
    <3> QED BY <2>4, <3>1, NextOperandInv DEF Inv
  <2>5. ASSUME loop = "strings" PROVE StringsInv'
    <3>1. Strings!NextItem \/ Strings!Rebuild \/ Strings!Clear \/ Strings!Redefine
      BY <1>2, <2>5 DEF Next, NextItem, GoBack, Body
    <3> QED BY <2>5, <3>1, StringStepInv DEF Inv
  <2>6. ASSUME loop = "names" PROVE NamesInv'
    <3>1. Names!NextName \/ Names!AddName \/ Names!RemoveName
      BY <1>2, <2>6 DEF Next, NextItem, GoBack, Body
    <3> QED BY <2>6, <3>1, NextNameInv, AddNameInv, RemoveNameInv DEF Inv
  <2> QED BY <2>1, <2>2, <2>3, <2>4, <2>5, <2>6 DEF Inv
<1> QED BY <1>1, <1>2

THEOREM Invariance == Spec => []Inv
<1> QED BY InitInv, NextInv, PTL DEF Spec

-----------------------------------------------------------------------------
(* Theorems.                                                               *)

\* While the index of the iterator is below the length of the list, each lookup
\* finds one entry, the same for all: the loop of next never turns twice.
THEOREM StringLookupsAnswer ==
    Spec => [](loop = "strings" =>
                 \A index \in 0 .. Strings!StringCount - 1 :
                    \E si \in list : Strings!StringInfo(index) = {si})
<1>1. Inv => (loop = "strings" =>
                \A index \in 0 .. Strings!StringCount - 1 :
                   \E si \in list : Strings!StringInfo(index) = {si})
  BY StringLookups DEF Inv, StringsInv
<1> QED BY <1>1, Invariance, PTL

\* Whatever the body of the loop does to the list and to the bytes, an item has
\* address, length and bytes of one entry.
THEOREM ItemsAreWhole == Spec => ItemsAreExact
<1>1. ASSUME Inv, [Next]_vars
      PROVE  [loop = "strings" => Strings!ItemIsExact]_vars
  <2> SUFFICES ASSUME Next, loop = "strings", yielded' # yielded, yielded' # <<>>
               PROVE  LET item == Strings!Last(yielded') IN
                        /\ item.text.at = item.ea
                        /\ \E si \in list :
                             /\ si.ea = item.ea
                             /\ item.text.length =
                                  (IF bytes[item.ea] = Gone THEN 0 ELSE si.length)
    BY <1>1 DEF vars, Strings!ItemIsExact
  <2>1. StringsInv /\ Strings!NextItem
    BY <1>1 DEF Inv, Next, NextItem, GoBack, Body,
                Strings!Rebuild, Strings!Clear, Strings!Redefine
  <2>2. current < Strings!StringCount
    BY <2>1 DEF Strings!NextItem
  <2>3. PICK si \in Strings!StringInfo(current), item \in StringItem :
          /\ item = [ea |-> si.ea, text |-> [at |-> si.ea,
                       length |-> IF bytes[si.ea] = Gone THEN 0 ELSE si.length]]
          /\ yielded' = Append(yielded, item)
    BY <2>1, <2>2, NewString DEF StringsInv
  <2>4. Strings!Last(yielded') = item
    BY <2>1, <2>3, AppendElements DEF Strings!Last, StringsInv, StringsType
  <2>5. si \in list
    BY <2>1, StringLookups DEF StringsInv
  <2> QED BY <2>3, <2>4, <2>5
<1> QED BY <1>1, Invariance, PTL DEF Spec, ItemsAreExact

\* As long as nothing leaves the list, a loop over strings or names ends with
\* all that was there throughout, whatever joins before, at or behind its index.
THEOREM GrowthLosesNothing == Spec => []NothingLostByGrowth
<1>1. Inv => NothingLostByGrowth
  BY DEF Inv, StringsInv, PassedStrings, NamesInv, PassedIsReturned, Returned,
         NothingLostByGrowth, Strings!NothingLostByGrowth, Names!NothingLostByGrowth
<1> QED BY <1>1, Invariance, PTL

\* As long as nothing joins the list, a loop over strings or names ascends and
\* so returns nothing twice, whatever leaves.
THEOREM ShrinkingRepeatsNothing == Spec => []NothingRepeatedByShrinking
<1>1. Inv => NothingRepeatedByShrinking
  BY DEF Inv, StringsInv, StringsAhead, NamesInv, AheadIsAbove,
         NothingRepeatedByShrinking, Strings!NothingRepeatedByShrinking,
         Names!NothingRepeatedByShrinking
<1> QED BY <1>1, Invariance, PTL

\* However references come and go, and wherever the program goes on from, a
\* walk ascends, keeps to its query and misses nothing that was there all along.
THEOREM WalksAreExact == Spec => []WalkIsExact
<1>1. Inv => WalkIsExact
  <2> SUFFICES ASSUME WalkInv PROVE XRefs!WalkIsExact
    BY DEF Inv, WalkIsExact
  <2> DEFINE at == [i \in DOMAIN yielded |-> yielded[i].at]
  <2>1. \A i, j \in DOMAIN at : i < j => at[i] < at[j]
    BY DEF WalkInv
  <2>2. \A i \in DOMAIN at : at[i] \in XRefs!Shown(query)
    BY DEF WalkInv, Wanted
  <2>3. ASSUME exhausted, NEW r \in lasting \cap XRefs!Shown(query)
        PROVE  r \in {at[i] : i \in DOMAIN at}
    <3>1. yielded # <<>> /\ r <= yielded[Len(yielded)].at
      BY <2>3 DEF WalkInv, Wanted
    <3>2. Len(yielded) \in DOMAIN yielded
      BY <3>1 DEF WalkInv, XRefsType
    <3>3. PICK j \in DOMAIN yielded : yielded[j].at = r
      BY <2>3, <3>1, <3>2 DEF WalkInv, Wanted
    <3> QED BY <3>3
  <2> QED BY <2>1, <2>2, <2>3 DEF XRefs!WalkIsExact
<1> QED BY <1>1, Invariance, PTL

\* However the table changes, the index of the loop over entry points stays
\* within the limit it took, and a loop that ended returns nothing more.
THEOREM EntryLoopStaysWithinLimit == Spec => EntriesStayWithinLimit
<1>1. Inv /\ [Next]_vars => [loop = "entries" => Entries!StaysWithinLimit]_vars
  <2> SUFFICES ASSUME EntryInv, Next, loop = "entries"
               PROVE  Entries!StaysWithinLimit
    BY DEF Inv
  <2>1. CASE Entries!NextEntry
    BY <2>1, NextEntryStays
  <2>2. CASE Entries!ChangeTable
    BY <2>2 DEF Entries!ChangeTable, Entries!StaysWithinLimit, Entries!SizeHint, EntryInv, TableType
  <2> QED BY <2>1, <2>2 DEF Next, NextItem, GoBack, Body
<1> QED BY <1>1, Invariance, PTL DEF Spec, EntriesStayWithinLimit

\* A loop over operands ends at operand_count, and each operand can be read.
THEOREM OperandLoopsAreRight == Spec => []OperandsAreCovered
<1>1. Inv => OperandsAreCovered
  BY OperandsCovered DEF Inv, OperandsAreCovered
<1> QED BY <1>1, Invariance, PTL
=============================================================================
