--------------------------- MODULE IniparserProofs ----------------------------
(***************************************************************************)
(* Theorems about contrib/iniparser: first about dictionaries, for every   *)
(* set of keys, every hash function and every initial size, then about     *)
(* files, for every set of lines, read line by line into a dictionary.     *)
(* What is proved about DictSpec uses the assumptions of Dictionary only.  *)
(***************************************************************************)
EXTENDS IniFile, FiniteSetTheorems, WellFoundedInduction, SequenceTheorems, TLAPS

(* The invariant as a predicate on any dictionary, to be used for the old, *)
(* the grown and the new one.                                              *)
TypeOf(d) ==
  /\ d.size \in Nat \ {0}
  /\ d = [size |-> d.size, n |-> d.n, key |-> d.key,
          val |-> d.val, hash |-> d.hash]
  /\ d.n \in 0 .. d.size
  /\ d.key \in [Slots(d) -> OrNull(Key)]
  /\ d.val \in [Slots(d) -> OrNull(Value)]
  /\ d.hash \in [Slots(d) -> Nat]

CountOf(d) == d.n = Cardinality(Used(d))

KeysOf(d) ==
  \A i, j \in Used(d) :
    /\ d.hash[i] = Hash(d.key[i])
    /\ d.key[i] = d.key[j] => i = j

Good(d) == TypeOf(d) /\ CountOf(d) /\ KeysOf(d)

IInv == DictionaryOK /\ CountIsRight /\ OneSlotPerKey

LEMMA IInvIsGood == IInv <=> Good(dict)
  BY DEF IInv, Good, DictionaryOK, CountIsRight, OneSlotPerKey, TypeOf, CountOf, KeysOf

-----------------------------------------------------------------------------
(* Searching.                                                              *)

(* A nonempty set of naturals has a least element: the one that ends the   *)
(* least of the intervals from 0 to an element, ordered by inclusion.      *)
LEMMA LeastElement ==
  ASSUME NEW T, T \subseteq Nat, T # {}
  PROVE  \E x \in T : \A y \in T : x <= y
<1>. DEFINE I == {0 .. x : x \in T}
<1>1. \A x \in T : IsFiniteSet(0 .. x)
  BY FS_Interval
<1>2. I \subseteq FiniteSubsetsOf(Nat) /\ I # {}
  <2>1. ASSUME NEW x \in T PROVE 0 .. x \in FiniteSubsetsOf(Nat)
    <3>1. 0 .. x \in SUBSET Nat
      OBVIOUS
    <3>. QED BY <1>1, <3>1 DEF FiniteSubsetsOf
  <2>2. PICK x \in T : TRUE
    OBVIOUS
  <2>3. 0 .. x \in I
    OBVIOUS
  <2>. QED BY <2>1, <2>3
<1>3. PICK i \in I : \A j \in I : ~ (<<j, i>> \in StrictSubsetOrdering(Nat))
  <2>. HIDE DEF I
  <2>. QED BY <1>2, FS_StrictSubsetOrderingWellFounded, WFMin
<1>4. PICK x \in T : i = 0 .. x
  OBVIOUS
<1>5. ASSUME NEW y \in T, y < x PROVE FALSE
  <2>1. 0 .. y \in I /\ x \in Nat /\ y \in Nat
    BY <1>5
  <2>2. 0 .. y \subseteq 0 .. x /\ 0 .. x \subseteq Nat /\ 0 .. y \subseteq Nat
    BY <1>5, <2>1
  <2>3. x \in 0 .. x /\ x \notin 0 .. y
    BY <1>5, <2>1
  <2>4. ~ (<<0 .. y, 0 .. x>> \in StrictSubsetOrdering(Nat))
    BY <1>3, <1>4, <2>1
  <2>. QED BY <2>2, <2>3, <2>4 DEF StrictSubsetOrdering
<1>6. \A y \in T : x <= y
  BY <1>5
<1>. QED BY <1>6

(* The used slots are finitely many.                                       *)
LEMMA UsedIsFinite ==
  ASSUME NEW d, TypeOf(d)
  PROVE  /\ IsFiniteSet(Slots(d)) /\ Cardinality(Slots(d)) = d.size
         /\ IsFiniteSet(Used(d)) /\ Cardinality(Used(d)) \in Nat
         /\ Cardinality(Used(d)) <= d.size
         /\ Cardinality(Used(d)) = d.size => Used(d) = Slots(d)
<1>1. d.size \in Nat /\ 0 \in Int /\ d.size - 1 \in Int
  BY DEF TypeOf
<1>2. IsFiniteSet(Slots(d)) /\ Cardinality(Slots(d)) = d.size
  <2>1. /\ IsFiniteSet(0 .. d.size - 1)
        /\ Cardinality(0 .. d.size - 1) = IF 0 > d.size - 1 THEN 0 ELSE d.size - 1 - 0 + 1
    BY <1>1, FS_Interval
  <2>2. d.size > 0
    BY DEF TypeOf
  <2>3. Cardinality(0 .. d.size - 1) = d.size
    BY <1>1, <2>1, <2>2
  <2>. QED BY <2>1, <2>3 DEF Slots
<1>3. Used(d) \in SUBSET Slots(d)
  BY DEF Used
<1>. QED BY <1>2, <1>3, FS_Subset, FS_CardinalityType

(* Where a key is, if it is anywhere: the search stops at its only slot.   *)
LEMMA OneMatch ==
  ASSUME NEW d, Good(d), NEW k \in Key
  PROVE  /\ Matches(d, k) = {i \in Used(d) : d.key[i] = k}
         /\ Matches(d, k) # {} =>
              /\ FirstMatch(d, k) \in Used(d)
              /\ d.key[FirstMatch(d, k)] = k
              /\ \A j \in Used(d) : d.key[j] = k => j = FirstMatch(d, k)
<1>1. Matches(d, k) = {i \in Used(d) : d.key[i] = k}
  BY DEF Matches, Good, KeysOf
<1>2. ASSUME NEW i \in Matches(d, k)
      PROVE  /\ FirstMatch(d, k) = i
             /\ \A j \in Used(d) : d.key[j] = k => j = i
  <2>1. \A j \in Used(d) : d.key[j] = k => j = i
    BY <1>1, <1>2 DEF Good, KeysOf
  <2>2. i \in Int
    BY <1>2 DEF Matches, Used, Slots, Good, TypeOf
  <2>3. \A j \in Matches(d, k) : i <= j
    BY <1>1, <2>1, <2>2
  <2>4. FirstMatch(d, k) \in Matches(d, k)
    BY <1>2, <2>3 DEF FirstMatch
  <2>. QED BY <1>1, <2>1, <2>4
<1>. QED BY <1>1, <1>2

(* The claim of lines 267-269: as long as n < size the search for a free   *)
(* slot ends, because a used slot less than all leaves one to be found.    *)
LEMMA FreeSlotExists ==
  ASSUME NEW d, TypeOf(d), CountOf(d), d.n < d.size
  PROVE  FreeSlot(d) \in Slots(d) /\ d.key[FreeSlot(d)] = NULL
<1>1. d.size \in Nat /\ d.n \in Nat /\ d.size > 0
  BY DEF TypeOf
<1>2. PICK i \in Slots(d) : d.key[i] = NULL
  <2>1. Used(d) # Slots(d)
    BY UsedIsFinite, <1>1 DEF CountOf
  <2>. QED BY <2>1 DEF Used
<1>. DEFINE T == {s \in Slots(d) : d.key[Probe(d, s)] = NULL}
<1>3. T # {}
  <2>1. i \in Int /\ 0 <= i /\ i < d.size
    BY <1>1, <1>2 DEF Slots
  <2>. DEFINE s == IF i >= d.n THEN i - d.n ELSE i - d.n + d.size
  <2>2. s \in Slots(d)
    BY <1>1, <2>1 DEF Slots
  <2>3. d.n + s = i \/ d.n + s = i + d.size
    BY <1>1, <2>1
  <2>4. Probe(d, s) = i
    <3>. HIDE DEF s
    <3>1. i % d.size = i
      BY <1>1, <2>1
    <3>2. (i + d.size) % d.size = i
      BY <1>1, <2>1
    <3>. QED BY <2>3, <3>1, <3>2 DEF Probe
  <2>. QED BY <2>2, <2>4, <1>2
<1>4. PICK x \in T : \A y \in T : x <= y
  <2>1. T \subseteq Nat
    BY <1>1 DEF Slots
  <2>. QED BY <1>3, <2>1, LeastElement
<1>. DEFINE P(s) == /\ d.key[Probe(d, s)] = NULL
                    /\ \A t \in 0 .. s - 1 : d.key[Probe(d, t)] # NULL
<1>5. x \in Slots(d) /\ P(x)
  BY <1>1, <1>4 DEF Slots
<1>. DEFINE c == CHOOSE s \in Slots(d) : P(s)
<1>6. c \in Slots(d) /\ P(c)
  BY <1>5
<1>7. FreeSlot(d) = Probe(d, c)
  BY DEF FreeSlot
<1>8. \A s \in Slots(d) : Probe(d, s) \in Slots(d)
  BY <1>1 DEF Probe, Slots
<1>. QED BY <1>6, <1>7, <1>8

-----------------------------------------------------------------------------
(* What the operations do to a good dictionary.                            *)

(* A new dictionary is good and empty.                                     *)
LEMMA NewIsGood ==
  Good(DictionaryNew(0)) /\ Used(DictionaryNew(0)) = {}
<1>. DEFINE d == DictionaryNew(0)
<1>1. d = [size |-> DictMinSz, n |-> 0,
           key |-> [i \in 0 .. DictMinSz - 1 |-> NULL],
           val |-> [i \in 0 .. DictMinSz - 1 |-> NULL],
           hash |-> [i \in 0 .. DictMinSz - 1 |-> 0]]
  BY DictionaryAssumption DEF DictionaryNew
<1>2. TypeOf(d)
  BY <1>1, DictionaryAssumption DEF TypeOf, Slots, OrNull
<1>3. Used(d) = {}
  <2>1. d.key = [i \in 0 .. DictMinSz - 1 |-> NULL]
    <3>. HIDE DEF d
    <3>. QED BY <1>1, Zenon
  <2>2. Slots(d) = 0 .. DictMinSz - 1
    BY <1>1 DEF Slots
  <2>. QED BY <2>1, <2>2 DEF Used
<1>4. CountOf(d)
  BY <1>1, <1>3, FS_EmptySet DEF CountOf
<1>. QED BY <1>2, <1>3, <1>4 DEF Good, KeysOf

(* Doubling the memory of an array keeps its elements; the rest is zero.   *)
LEMMA Doubled ==
  ASSUME NEW A, NEW z \in A, NEW n \in Nat \ {0}, NEW f \in [0 .. n - 1 -> A]
  PROVE  /\ MemDouble(f, n, z) \in [0 .. 2 * n - 1 -> A]
         /\ \A i \in 0 .. 2 * n - 1 :
              MemDouble(f, n, z)[i] = IF i \in 0 .. n - 1 THEN f[i] ELSE z
<1>1. ASSUME NEW i \in 0 .. 2 * n - 1
      PROVE  /\ (IF i < n THEN f[i] ELSE z) = IF i \in 0 .. n - 1 THEN f[i] ELSE z
             /\ (IF i < n THEN f[i] ELSE z) \in A
  OBVIOUS
<1>. QED BY <1>1 DEF MemDouble

(* Growing keeps what is in the dictionary and leaves a free slot.         *)
LEMMA GrownIsGood ==
  ASSUME NEW d, Good(d)
  PROVE  /\ Good(Grown(d)) /\ Grown(d).n < Grown(d).size
         /\ Used(Grown(d)) = Used(d)
         /\ \A i \in Used(d) : /\ Grown(d).key[i] = d.key[i]
                               /\ Grown(d).val[i] = d.val[i]
<1>. DEFINE g == Grown(d)
<1>1. CASE d.n # d.size
  BY <1>1 DEF Grown, Good, TypeOf
<1>2. CASE d.n = d.size
  <2>1. g = [size |-> 2 * d.size, n |-> d.n,
             key |-> MemDouble(d.key, d.size, NULL),
             val |-> MemDouble(d.val, d.size, NULL),
             hash |-> MemDouble(d.hash, d.size, 0)]
    BY <1>2 DEF Grown, Good, TypeOf
  <2>2. d.size \in Nat \ {0} /\ 2 * d.size \in Nat \ {0}
    BY DEF Good, TypeOf
  <2>3. Slots(g) = 0 .. 2 * d.size - 1 /\ Slots(d) \subseteq Slots(g)
    BY <2>1, <2>2 DEF Slots
  <2>4. /\ d.key \in [0 .. d.size - 1 -> OrNull(Key)] /\ NULL \in OrNull(Key)
        /\ d.val \in [0 .. d.size - 1 -> OrNull(Value)] /\ NULL \in OrNull(Value)
        /\ d.hash \in [0 .. d.size - 1 -> Nat] /\ 0 \in Nat
    BY DEF Good, TypeOf, Slots, OrNull
  <2>5. /\ g.key \in [Slots(g) -> OrNull(Key)]
        /\ g.val \in [Slots(g) -> OrNull(Value)]
        /\ g.hash \in [Slots(g) -> Nat]
        /\ \A i \in Slots(g) :
             /\ g.key[i] = IF i \in Slots(d) THEN d.key[i] ELSE NULL
             /\ g.val[i] = IF i \in Slots(d) THEN d.val[i] ELSE NULL
             /\ g.hash[i] = IF i \in Slots(d) THEN d.hash[i] ELSE 0
    <3>1. /\ g.key = MemDouble(d.key, d.size, NULL)
          /\ g.val = MemDouble(d.val, d.size, NULL)
          /\ g.hash = MemDouble(d.hash, d.size, 0)
      BY <2>1
    <3>. HIDE DEF g
    <3>2. Slots(d) = 0 .. d.size - 1
      BY DEF Slots
    <3>3. /\ g.key \in [Slots(g) -> OrNull(Key)]
          /\ \A i \in Slots(g) : g.key[i] = IF i \in Slots(d) THEN d.key[i] ELSE NULL
      <4>1. /\ MemDouble(d.key, d.size, NULL) \in [0 .. 2 * d.size - 1 -> OrNull(Key)]
            /\ \A i \in 0 .. 2 * d.size - 1 :
                 MemDouble(d.key, d.size, NULL)[i] = IF i \in 0 .. d.size - 1
                   THEN d.key[i] ELSE NULL
        <5>1. d.size \in Nat \ {0} /\ d.key \in [0 .. d.size - 1 -> OrNull(Key)]
                /\ NULL \in OrNull(Key)
          BY <2>2, <2>4
        <5>. QED BY ONLY <5>1, Doubled
      <4>. QED BY <2>3, <3>1, <3>2, <4>1
    <3>4. /\ g.val \in [Slots(g) -> OrNull(Value)]
          /\ \A i \in Slots(g) : g.val[i] = IF i \in Slots(d) THEN d.val[i] ELSE NULL
      <4>1. /\ MemDouble(d.val, d.size, NULL) \in [0 .. 2 * d.size - 1 -> OrNull(Value)]
            /\ \A i \in 0 .. 2 * d.size - 1 :
                 MemDouble(d.val, d.size, NULL)[i] = IF i \in 0 .. d.size - 1
                   THEN d.val[i] ELSE NULL
        <5>1. d.size \in Nat \ {0} /\ d.val \in [0 .. d.size - 1 -> OrNull(Value)]
                /\ NULL \in OrNull(Value)
          BY <2>2, <2>4
        <5>. QED BY ONLY <5>1, Doubled
      <4>. QED BY <2>3, <3>1, <3>2, <4>1
    <3>5. /\ g.hash \in [Slots(g) -> Nat]
          /\ \A i \in Slots(g) : g.hash[i] = IF i \in Slots(d) THEN d.hash[i] ELSE 0
      <4>1. /\ MemDouble(d.hash, d.size, 0) \in [0 .. 2 * d.size - 1 -> Nat]
            /\ \A i \in 0 .. 2 * d.size - 1 :
                 MemDouble(d.hash, d.size, 0)[i] = IF i \in 0 .. d.size - 1
                   THEN d.hash[i] ELSE 0
        <5>1. d.size \in Nat \ {0} /\ d.hash \in [0 .. d.size - 1 -> Nat]
          BY <2>2, <2>4
        <5>. QED BY ONLY <5>1 DEF MemDouble
      <4>. QED BY <2>3, <3>1, <3>2, <4>1
    <3>. QED BY <3>3, <3>4, <3>5
  <2>6. Used(g) = Used(d)
    BY <2>3, <2>5 DEF Used
  <2>7. TypeOf(g)
    <3>1. g.n \in 0 .. g.size
      BY <2>1, <2>2 DEF Good, TypeOf
    <3>. QED BY <2>1, <2>2, <2>5, <3>1 DEF TypeOf
  <2>8. CountOf(g)
    BY <2>1, <2>6 DEF Good, CountOf
  <2>9. \A i \in Used(d) : i \in Slots(g) /\ i \in Slots(d)
    BY <2>3 DEF Used
  <2>10. KeysOf(g)
    BY <2>5, <2>6, <2>9 DEF Good, KeysOf
  <2>. QED BY <1>2, <2>1, <2>2, <2>5, <2>6, <2>7, <2>8, <2>9, <2>10 DEF Good
<1>. QED BY <1>1, <1>2

-----------------------------------------------------------------------------
(* What a good dictionary holds.                                           *)

(* A map in which k has the value v.                                       *)
With(m, k, v) == [j \in DOMAIN m \cup {k} |-> IF j = k THEN v ELSE m[j]]

LEMMA ContentsOfGood ==
  ASSUME NEW d, Good(d)
  PROVE  /\ \A j : j \in DOMAIN Contents(d) <=> \E i \in Used(d) : d.key[i] = j
         /\ DOMAIN Contents(d) \subseteq Key
         /\ \A i \in Used(d) : Contents(d)[d.key[i]] = d.val[i]
<1>1. \A i \in Used(d) : d.key[i] \in Key /\ i \in Slots(d)
  BY DEF Good, TypeOf, Used, OrNull
<1>2. ASSUME NEW i \in Used(d) PROVE DictionaryGet(d, d.key[i], NULL) = d.val[i]
  <2>1. i \in Matches(d, d.key[i])
    BY <1>1, OneMatch
  <2>. QED BY <1>1, <2>1, OneMatch DEF DictionaryGet
<1>. QED BY <1>1, <1>2 DEF Contents

LEMMA ContentsType ==
  ASSUME NEW d, Good(d)
  PROVE  Contents(d) \in [DOMAIN Contents(d) -> OrNull(Value)]
<1>1. ASSUME NEW j \in DOMAIN Contents(d) PROVE Contents(d)[j] \in OrNull(Value)
  <2>1. PICK i \in Used(d) : d.key[i] = j
    BY ContentsOfGood
  <2>2. Contents(d)[j] = d.val[i]
    BY <2>1, ContentsOfGood
  <2>. QED BY <2>1, <2>2 DEF Used, Good, TypeOf
<1>. QED BY <1>1 DEF Contents

(* A key that is found gets the new value and nothing else changes.        *)
LEMMA ReplaceIsSet ==
  ASSUME NEW d, Good(d), NEW k \in Key, NEW v \in OrNull(Value), Matches(d, k) # {},
         NEW e, e = Replaced(d, FirstMatch(d, k), v)
  PROVE  /\ Good(e)
         /\ Contents(e) = With(Contents(d), k, v)
<1>. DEFINE m == FirstMatch(d, k)
<1>1. m \in Used(d) /\ d.key[m] = k /\ \A j \in Used(d) : d.key[j] = k => j = m
  BY OneMatch
<1>2. m \in Slots(d)
  BY <1>1 DEF Used
<1>. HIDE DEF m
<1>3. e = [size |-> d.size, n |-> d.n, key |-> d.key,
           val |-> [d.val EXCEPT ![m] = v], hash |-> d.hash]
  BY DEF Good, TypeOf, m, Replaced
<1>4. Slots(e) = Slots(d) /\ Used(e) = Used(d) /\ e.key = d.key /\ e.hash = d.hash
  BY <1>3 DEF Slots, Used
<1>5. e.val = [d.val EXCEPT ![m] = v] /\ d.val \in [Slots(d) -> OrNull(Value)]
  BY <1>3 DEF Good, TypeOf
<1>6. TypeOf(e)
  <2>1. e.val \in [Slots(d) -> OrNull(Value)]
    BY <1>5
  <2>. QED BY <1>3, <1>4, <2>1 DEF Good, TypeOf
<1>7. CountOf(e) /\ KeysOf(e)
  BY <1>3, <1>4 DEF Good, CountOf, KeysOf
<1>8. Good(e)
  BY <1>6, <1>7 DEF Good
<1>9. /\ \A j : j \in DOMAIN Contents(d) <=> \E i \in Used(d) : d.key[i] = j
      /\ \A j : j \in DOMAIN Contents(e) <=> \E i \in Used(d) : d.key[i] = j
      /\ \A i \in Used(d) : Contents(d)[d.key[i]] = d.val[i]
      /\ \A i \in Used(d) : Contents(e)[d.key[i]] = e.val[i]
  <2>1. /\ \A j : j \in DOMAIN Contents(e) <=> \E i \in Used(e) : e.key[i] = j
        /\ \A i \in Used(e) : Contents(e)[e.key[i]] = e.val[i]
    BY ONLY <1>8, ContentsOfGood
  <2>2. /\ \A j : j \in DOMAIN Contents(d) <=> \E i \in Used(d) : d.key[i] = j
        /\ \A i \in Used(d) : Contents(d)[d.key[i]] = d.val[i]
    BY ContentsOfGood
  <2>. QED BY <1>4, <2>1, <2>2
<1>10. ASSUME NEW j \in DOMAIN Contents(e)
       PROVE  Contents(e)[j] = IF j = k THEN v ELSE Contents(d)[j]
  <2>1. PICK i \in Used(d) : j = d.key[i]
    BY <1>9, <1>10
  <2>2. Contents(e)[j] = e.val[i] /\ Contents(d)[j] = d.val[i]
    BY <1>9, <2>1
  <2>3. e.val[i] = IF i = m THEN v ELSE d.val[i]
    BY <1>5, <2>1 DEF Used
  <2>. QED BY <1>1, <2>1, <2>2, <2>3
<1>11. DOMAIN Contents(e) = DOMAIN Contents(d) \cup {k}
  BY <1>1, <1>9
<1>. QED BY <1>8, <1>10, <1>11 DEF Contents, With

(* A new key in a free slot of a dictionary that is not full.              *)
LEMMA InsertIsSet ==
  ASSUME NEW d, Good(d), d.n < d.size, NEW k \in Key, NEW v \in OrNull(Value),
         Matches(d, k) = {},
         NEW s \in Slots(d), d.key[s] = NULL, NEW e, e = Inserted(d, s, k, v)
  PROVE  /\ Good(e)
         /\ Contents(e) = With(Contents(d), k, v)
<1>1. e = [size |-> d.size, n |-> d.n + 1, key |-> [d.key EXCEPT ![s] = k],
           val |-> [d.val EXCEPT ![s] = v], hash |-> [d.hash EXCEPT ![s] = Hash(k)]]
  BY DEF Good, TypeOf, Inserted
<1>2. /\ d.key \in [Slots(d) -> OrNull(Key)]
      /\ d.val \in [Slots(d) -> OrNull(Value)]
      /\ d.hash \in [Slots(d) -> Nat]
      /\ k \in OrNull(Key) /\ k # NULL /\ Hash(k) \in Nat
  BY DictionaryAssumption DEF Good, TypeOf, OrNull
<1>3. Slots(e) = Slots(d) /\ s \notin Used(d)
  BY <1>1 DEF Slots, Used
<1>4. /\ e.key = [d.key EXCEPT ![s] = k] /\ e.val = [d.val EXCEPT ![s] = v]
      /\ e.hash = [d.hash EXCEPT ![s] = Hash(k)]
  BY <1>1
<1>5. \A i \in Slots(d) : /\ e.key[i] = IF i = s THEN k ELSE d.key[i]
                          /\ e.val[i] = IF i = s THEN v ELSE d.val[i]
                          /\ e.hash[i] = IF i = s THEN Hash(k) ELSE d.hash[i]
  BY <1>2, <1>4
<1>6. Used(e) = Used(d) \cup {s}
  BY <1>2, <1>3, <1>5 DEF Used
<1>7. TypeOf(e)
  <2>1. e.key \in [Slots(d) -> OrNull(Key)]
    BY <1>2, <1>4
  <2>2. e.val \in [Slots(d) -> OrNull(Value)]
    BY <1>2, <1>4
  <2>3. e.hash \in [Slots(d) -> Nat]
    BY <1>2, <1>4
  <2>4. e.n \in 0 .. e.size /\ e.size \in Nat \ {0}
    BY <1>1 DEF Good, TypeOf
  <2>. QED BY <1>1, <1>3, <2>1, <2>2, <2>3, <2>4 DEF TypeOf
<1>8. CountOf(e)
  BY <1>1, <1>3, <1>6, UsedIsFinite, FS_AddElement DEF Good, CountOf
<1>9. \A i \in Used(d) : i \in Slots(d) /\ d.key[i] # k
  BY OneMatch DEF Used
<1>10. KeysOf(e)
  <2>1. ASSUME NEW i \in Used(e), NEW j \in Used(e)
        PROVE  /\ e.hash[i] = Hash(e.key[i])
               /\ e.key[i] = e.key[j] => i = j
    <3>1. i \in Slots(d) /\ j \in Slots(d)
      BY <1>3, <2>1 DEF Used
    <3>. QED BY <1>5, <1>6, <1>9, <2>1, <3>1 DEF Good, KeysOf
  <2>. QED BY <2>1 DEF KeysOf
<1>11. Good(e)
  BY <1>7, <1>8, <1>10 DEF Good
<1>12. DOMAIN Contents(e) = DOMAIN Contents(d) \cup {k}
  <2>1. \A j : j \in DOMAIN Contents(e) <=> \E i \in Used(e) : e.key[i] = j
    BY <1>11, ContentsOfGood
  <2>2. \A j : j \in DOMAIN Contents(d) <=> \E i \in Used(d) : d.key[i] = j
    BY ContentsOfGood
  <2>3. e.key[s] = k /\ \A i \in Used(d) : e.key[i] = d.key[i]
    BY <1>3, <1>5, <1>9
  <2>4. ASSUME NEW j PROVE j \in DOMAIN Contents(e) <=> j \in DOMAIN Contents(d) \cup {k}
    BY <1>6, <2>1, <2>2, <2>3
  <2>. QED BY <2>4
<1>13. ASSUME NEW j \in DOMAIN Contents(e)
       PROVE  Contents(e)[j] = IF j = k THEN v ELSE Contents(d)[j]
  <2>1. PICK i \in Used(e) : j = e.key[i]
    BY <1>11, <1>13, ContentsOfGood
  <2>2. Contents(e)[j] = e.val[i]
    BY <1>11, <2>1, ContentsOfGood
  <2>3. CASE i = s
    BY <1>5, <2>1, <2>2, <2>3
  <2>4. CASE i # s
    <3>1. i \in Used(d) /\ j = d.key[i] /\ e.val[i] = d.val[i]
      BY <1>5, <1>6, <1>9, <2>1, <2>4
    <3>. QED BY <1>9, <2>2, <3>1, ContentsOfGood
  <2>. QED BY <2>3, <2>4
<1>. QED BY <1>11, <1>12, <1>13 DEF Contents, With

(* dictionary_set adds the key or replaces its value.                      *)
LEMMA SetIsSet ==
  ASSUME NEW d, Good(d), NEW k \in Key, NEW v \in OrNull(Value)
  PROVE  /\ Good(DictionarySet(d, k, v))
         /\ Contents(DictionarySet(d, k, v)) = With(Contents(d), k, v)
<1>1. CASE Matches(d, k) # {}
  <2>1. d.n > 0
    <3>1. Used(d) # {}
      BY <1>1, OneMatch
    <3>. QED BY <3>1, UsedIsFinite, FS_EmptySet DEF Good, CountOf, TypeOf
  <2>2. PICK e : e = Replaced(d, FirstMatch(d, k), v)
    OBVIOUS
  <2>3. DictionarySet(d, k, v) = e
    BY <1>1, <2>1, <2>2 DEF DictionarySet
  <2>4. /\ Good(e)
        /\ Contents(e) = With(Contents(d), k, v)
    BY <1>1, <2>2, ReplaceIsSet
  <2>. QED BY <2>3, <2>4
<1>2. CASE Matches(d, k) = {}
  <2>. DEFINE g == Grown(d)
  <2>1. /\ Good(g) /\ g.n < g.size /\ Used(g) = Used(d)
        /\ \A i \in Used(d) : g.key[i] = d.key[i] /\ g.val[i] = d.val[i]
    BY GrownIsGood
  <2>2. DictionarySet(d, k, v) = Inserted(g, FreeSlot(g), k, v)
    BY <1>2 DEF DictionarySet
  <2>. HIDE DEF g
  <2>3. FreeSlot(g) \in Slots(g) /\ g.key[FreeSlot(g)] = NULL
    BY <2>1, FreeSlotExists DEF Good
  <2>4. Matches(g, k) = {}
    BY <1>2, <2>1, OneMatch
  <2>5. Contents(g) = Contents(d)
    <3>1. DOMAIN Contents(g) = DOMAIN Contents(d)
      BY <2>1, ContentsOfGood
    <3>2. ASSUME NEW j \in DOMAIN Contents(d) PROVE Contents(g)[j] = Contents(d)[j]
      <4>1. PICK i \in Used(d) : j = d.key[i]
        BY <3>2, ContentsOfGood
      <4>. QED BY <2>1, <4>1, ContentsOfGood
    <3>. QED BY <3>1, <3>2 DEF Contents
  <2>6. PICK s \in Slots(g) : s = FreeSlot(g) /\ g.key[s] = NULL
    BY <2>3
  <2>7. PICK e : e = Inserted(g, s, k, v)
    OBVIOUS
  <2>8. /\ Good(e)
        /\ Contents(e) = With(Contents(g), k, v)
    BY <2>1, <2>4, <2>6, <2>7, InsertIsSet
  <2>. QED BY <2>2, <2>5, <2>6, <2>7, <2>8
<1>. QED BY <1>1, <1>2

(* dictionary_unset takes the key out, whether it is there or not.         *)
LEMMA UnsetIsUnset ==
  ASSUME NEW d, Good(d), NEW k \in Key, NEW e, e = DictionaryUnset(d, k)
  PROVE  /\ Good(e)
         /\ Contents(e) = [j \in DOMAIN Contents(d) \ {k} |-> Contents(d)[j]]
<1>1. CASE Matches(d, k) = {}
  <2>1. e = d
    BY <1>1 DEF DictionaryUnset
  <2>2. k \notin DOMAIN Contents(d)
    BY <1>1, OneMatch, ContentsOfGood
  <2>3. DOMAIN Contents(d) \ {k} = DOMAIN Contents(d)
    BY <2>2
  <2>. QED BY <2>1, <2>3 DEF Contents
<1>2. CASE Matches(d, k) # {}
  <2>. DEFINE m == FirstMatch(d, k)
  <2>1. m \in Used(d) /\ d.key[m] = k /\ \A j \in Used(d) : d.key[j] = k => j = m
    BY <1>2, OneMatch
  <2>2. m \in Slots(d)
    BY <2>1 DEF Used
  <2>3. e = [size |-> d.size, n |-> d.n - 1, key |-> [d.key EXCEPT ![m] = NULL],
             val |-> [d.val EXCEPT ![m] = NULL], hash |-> [d.hash EXCEPT ![m] = 0]]
    BY <1>2 DEF DictionaryUnset, Good, TypeOf
  <2>. HIDE DEF m
  <2>4. /\ d.key \in [Slots(d) -> OrNull(Key)]
        /\ d.val \in [Slots(d) -> OrNull(Value)]
        /\ d.hash \in [Slots(d) -> Nat]
        /\ NULL \in OrNull(Key) /\ NULL \in OrNull(Value) /\ 0 \in Nat
    BY DEF Good, TypeOf, OrNull
  <2>5. /\ e.key = [d.key EXCEPT ![m] = NULL] /\ e.val = [d.val EXCEPT ![m] = NULL]
        /\ e.hash = [d.hash EXCEPT ![m] = 0] /\ Slots(e) = Slots(d)
    BY <2>3 DEF Slots
  <2>6. \A i \in Slots(d) : /\ e.key[i] = IF i = m THEN NULL ELSE d.key[i]
                            /\ i # m => e.val[i] = d.val[i] /\ e.hash[i] = d.hash[i]
    BY <2>4, <2>5
  <2>7. Used(e) = Used(d) \ {m}
    BY <2>5, <2>6 DEF Used
  <2>8. Cardinality(Used(e)) = d.n - 1 /\ Cardinality(Used(e)) \in Nat
    BY <2>1, <2>7, UsedIsFinite, FS_RemoveElement, FS_CardinalityType DEF Good, CountOf
  <2>9. TypeOf(e)
    <3>1. e.key \in [Slots(d) -> OrNull(Key)]
      BY <2>4, <2>5
    <3>2. e.val \in [Slots(d) -> OrNull(Value)]
      BY <2>4, <2>5
    <3>3. e.hash \in [Slots(d) -> Nat]
      BY <2>4, <2>5
    <3>4. e.n \in 0 .. e.size /\ e.size \in Nat \ {0}
      BY <2>3, <2>8 DEF Good, TypeOf
    <3>. QED BY <2>3, <2>5, <3>1, <3>2, <3>3, <3>4 DEF TypeOf
  <2>10. CountOf(e)
    BY <2>3, <2>8 DEF CountOf
  <2>11. \A i \in Used(e) : /\ i \in Used(d) /\ e.key[i] = d.key[i]
                            /\ e.val[i] = d.val[i] /\ e.hash[i] = d.hash[i]
    BY <2>6, <2>7 DEF Used
  <2>12. KeysOf(e)
    BY <2>11 DEF Good, KeysOf
  <2>13. Good(e)
    BY <2>9, <2>10, <2>12 DEF Good
  <2>14. DOMAIN Contents(e) = DOMAIN Contents(d) \ {k}
    <3>1. \A j : j \in DOMAIN Contents(e) <=> \E i \in Used(e) : e.key[i] = j
      BY <2>13, ContentsOfGood
    <3>2. \A j : j \in DOMAIN Contents(d) <=> \E i \in Used(d) : d.key[i] = j
      BY ContentsOfGood
    <3>3. ASSUME NEW j PROVE j \in DOMAIN Contents(e) <=> j \in DOMAIN Contents(d) \ {k}
      BY <2>1, <2>7, <2>11, <3>1, <3>2
    <3>. QED BY <3>3
  <2>15. ASSUME NEW j \in DOMAIN Contents(e) PROVE Contents(e)[j] = Contents(d)[j]
    <3>1. PICK i \in Used(e) : j = e.key[i]
      BY <2>13, <2>15, ContentsOfGood
    <3>. QED BY <2>11, <2>13, <3>1, ContentsOfGood
  <2>. QED BY <2>13, <2>14, <2>15 DEF Contents
<1>. QED BY <1>1, <1>2

-----------------------------------------------------------------------------
(* The theorems.                                                           *)

LEMMA InitInv == DictInit => IInv
  BY NewIsGood, IInvIsGood DEF DictInit

LEMMA NextInv == IInv /\ [DictNext]_dict => IInv'
<1>. SUFFICES ASSUME IInv, [DictNext]_dict PROVE Good(dict')
  BY DEF IInv, Good, DictionaryOK, CountIsRight, OneSlotPerKey, TypeOf, CountOf, KeysOf,
         Slots, Used
<1>1. Good(dict)
  BY IInvIsGood
<1>2. ASSUME NEW k \in Key, NEW v \in OrNull(Value), DictSet(k, v) PROVE Good(dict')
  BY <1>1, <1>2, SetIsSet DEF DictSet
<1>3. ASSUME NEW k \in Key, DictUnset(k) PROVE Good(dict')
  <2>1. PICK e : e = DictionaryUnset(dict, k)
    OBVIOUS
  <2>2. Good(e)
    BY <1>1, <2>1, UnsetIsUnset
  <2>. QED BY <1>3, <2>1, <2>2 DEF DictUnset
<1>4. CASE DictDelete
  BY <1>4, NewIsGood DEF DictDelete
<1>. QED BY <1>1, <1>2, <1>3, <1>4 DEF DictNext

(* In every reachable dictionary the types are right, n counts the used    *)
(* slots, and each key is in one slot with its hash beside it.             *)
THEOREM DictionaryInvariant == DictSpec =>
  [](DictionaryOK /\ CountIsRight /\ OneSlotPerKey)
<1>1. IInv => DictionaryOK /\ CountIsRight /\ OneSlotPerKey
  BY DEF IInv
<1>. QED BY <1>1, InitInv, NextInv, PTL DEF DictSpec

(* The search for a free slot in dictionary_set always ends, as lines      *)
(* 267-269 claim: after the dictionary has grown if it was full, there is  *)
(* a free slot and the loop finds it.                                      *)
SearchEnds == LET g == Grown(dict) IN FreeSlot(g) \in Slots(g)
  /\ g.key[FreeSlot(g)] = NULL

THEOREM InsertionTerminates == DictSpec => []SearchEnds
<1>1. IInv => SearchEnds
  <2>. SUFFICES ASSUME IInv PROVE SearchEnds
    OBVIOUS
  <2>1. Good(Grown(dict)) /\ Grown(dict).n < Grown(dict).size
    BY IInvIsGood, GrownIsGood
  <2>. QED BY <2>1, FreeSlotExists DEF SearchEnds, Good
<1>. QED BY <1>1, InitInv, NextInv, PTL DEF DictSpec

LEMMA InitMap == DictInit => Map!Init
<1>. SUFFICES ASSUME DictInit PROVE Contents(dict) = Map!EmptyMap
  BY DEF Map!Init
<1>1. Good(dict) /\ Used(dict) = {}
  BY NewIsGood DEF DictInit
<1>. QED BY <1>1 DEF Contents, Map!EmptyMap

LEMMA NextMap == IInv /\ [DictNext]_dict => [Map!Next]_(Contents(dict))
<1>. SUFFICES ASSUME IInv, [DictNext]_dict PROVE [Map!Next]_(Contents(dict))
  OBVIOUS
<1>1. Good(dict)
  BY IInvIsGood
<1>2. ASSUME NEW k \in Key, NEW v \in OrNull(Value), DictSet(k, v) PROVE Map!Set(k)
  <2>1. Contents(dict)' = Contents(DictionarySet(dict, k, v))
    BY <1>2 DEF DictSet, Contents, DictionaryGet, Matches, FirstMatch, Used, Slots
  <2>2. Contents(DictionarySet(dict, k, v)) = With(Contents(dict), k, v)
    BY ONLY <1>1, k \in Key, v \in OrNull(Value), SetIsSet
  <2>3. Contents(dict) \in [DOMAIN Contents(dict) -> OrNull(Value)]
    BY <1>1, ContentsType
  <2>. QED BY <2>1, <2>2, <2>3 DEF Map!Set, With
<1>3. ASSUME NEW k \in Key, DictUnset(k) PROVE Map!Unset(k)
  <2>1. Contents(dict)' = Contents(DictionaryUnset(dict, k))
    BY <1>3 DEF DictUnset, Contents, DictionaryGet, Matches, FirstMatch, Used, Slots
  <2>2. PICK e : e = DictionaryUnset(dict, k)
    OBVIOUS
  <2>3. Contents(e) = [j \in DOMAIN Contents(dict) \ {k} |-> Contents(dict)[j]]
    BY <1>1, <2>2, UnsetIsUnset
  <2>. QED BY <2>1, <2>2, <2>3 DEF Map!Unset
<1>4. ASSUME DictDelete PROVE Map!Delete
  <2>1. Contents(dict)' = Contents(DictionaryNew(0))
    BY <1>4 DEF DictDelete, Contents, DictionaryGet, Matches, FirstMatch, Used, Slots
  <2>2. Contents(DictionaryNew(0)) = Map!EmptyMap
    BY NewIsGood DEF Contents, Map!EmptyMap
  <2>. QED BY <2>1, <2>2 DEF Map!Delete, Map!EmptyMap
<1>5. CASE UNCHANGED dict
  BY <1>5 DEF Contents, DictionaryGet, Matches, FirstMatch, Used, Slots
<1>. QED BY <1>2, <1>3, <1>4, <1>5 DEF DictNext, Map!Next

(* A dictionary implements a map from strings to strings.                  *)
THEOREM DictionaryImplementsMap == DictSpec => ImplementsMap
BY InitInv, NextInv, InitMap, NextMap, PTL DEF DictSpec, ImplementsMap, Map!Spec

(* Induction over the naturals, for a set of them.                         *)
LEMMA NumbersByInduction ==
  ASSUME NEW T, 0 \in T, \A n \in Nat : n \in T => n + 1 \in T
  PROVE  \A n \in Nat : n \in T
<1>. DEFINE Missing == {n \in Nat : n \notin T}
<1>1. SUFFICES ASSUME Missing # {} PROVE FALSE
  OBVIOUS
<1>2. PICK x \in Missing : \A y \in Missing : x <= y
  BY <1>1, LeastElement
<1>3. x \in Nat /\ x # 0 /\ x - 1 \in Nat /\ (x - 1) + 1 = x
  BY <1>2
<1>4. x - 1 \in T
  BY <1>2, <1>3
<1>5. QED
  BY <1>2, <1>3, <1>4

(* The greatest and the least of some places.                              *)
LEMMA GreatestIn ==
  ASSUME NEW n \in Nat, NEW T \in SUBSET (0 .. n), T # {}
  PROVE  Max(T) \in T /\ \A y \in T : y <= Max(T)
<1>. DEFINE R == {n - y : y \in T}
<1>1. R \subseteq Nat /\ R # {}
  <2>1. \A y \in T : n - y \in Nat
    OBVIOUS
  <2>. QED BY <2>1
<1>2. PICK r \in R : \A y \in R : r <= y
  BY <1>1, LeastElement
<1>3. PICK x \in T : r = n - x
  BY <1>2
<1>4. ASSUME NEW y \in T PROVE x >= y
  <2>1. n - y \in R
    OBVIOUS
  <2>2. n - x <= n - y
    BY <1>2, <1>3, <2>1
  <2>. QED BY <2>2
<1>5. Max(T) \in T /\ \A y \in T : Max(T) >= y
  BY <1>4, Zenon DEF Max
<1>. QED BY <1>5

(* A greatest element is what Max gives, a least one what Min gives.       *)
LEMMA GreatestIs ==
  ASSUME NEW T, T \subseteq Nat, NEW x \in T, \A y \in T : y <= x
  PROVE  Max(T) = x
<1>1. \A z \in T : (\A y \in T : z >= y) => z = x
  <2>1. ASSUME NEW z \in T, \A y \in T : z >= y PROVE z = x
    <3>1. z \in Nat /\ x \in Nat /\ z >= x /\ z <= x
      BY <2>1
    <3>. QED BY <3>1
  <2>. QED BY <2>1
<1>2. \A y \in T : x >= y
  OBVIOUS
<1>. QED BY <1>1, <1>2, Zenon DEF Max

LEMMA LeastIs ==
  ASSUME NEW T, T \subseteq Nat, NEW x \in T, \A y \in T : x <= y
  PROVE  Min(T) = x
<1>1. \A z \in T : (\A y \in T : z =< y) => z = x
  <2>1. ASSUME NEW z \in T, \A y \in T : z =< y PROVE z = x
    <3>1. z \in Nat /\ x \in Nat /\ z <= x /\ x <= z
      BY <2>1
    <3>. QED BY <3>1
  <2>. QED BY <2>1
<1>2. \A y \in T : x =< y
  OBVIOUS
<1>. QED BY <1>1, <1>2, Zenon DEF Min

-----------------------------------------------------------------------------
(* Flattening, as a walk from the first sequence to the last.              *)
Flattens(c, ss) ==
  c = [i \in 1 .. Len(ss) |-> IF i = 1 THEN ss[i] ELSE c[i - 1] \o ss[i]]

TEXT == Seq(STRING)

(* Each step of the walk gives a text.                                     *)
LEMMA FlattensType ==
  ASSUME NEW ss \in Seq(TEXT), NEW c, Flattens(c, ss)
  PROVE  c \in [1 .. Len(ss) -> TEXT]
<1>. DEFINE T == {i \in Nat : i \in 1 .. Len(ss) => c[i] \in TEXT}
<1>1. 0 \in T
  OBVIOUS
<1>2. ASSUME NEW i \in Nat, i \in T PROVE i + 1 \in T
  <2>1. SUFFICES ASSUME i + 1 \in 1 .. Len(ss) PROVE c[i + 1] \in TEXT
    OBVIOUS
  <2>2. ss[i + 1] \in TEXT
    BY <2>1
  <2>3. c[i + 1] = IF i + 1 = 1 THEN ss[i + 1] ELSE c[(i + 1) - 1] \o ss[i + 1]
    BY <2>1 DEF Flattens
  <2>4. CASE i = 0
    BY <2>2, <2>3, <2>4
  <2>5. CASE i # 0
    <3>1. i \in 1 .. Len(ss) /\ (i + 1) - 1 = i /\ i + 1 # 1
      BY <2>1, <2>5
    <3>2. c[i] \in TEXT
      BY <1>2, <3>1
    <3>3. c[i] \o ss[i + 1] \in TEXT
      BY <2>2, <3>2, ConcatProperties DEF TEXT
    <3>. QED BY <2>3, <3>1, <3>3
  <2>. QED BY <2>4, <2>5
<1>. HIDE DEF T
<1>3. \A i \in Nat : i \in T
  BY <1>1, <1>2, NumbersByInduction
<1>4. \A i \in 1 .. Len(ss) : c[i] \in TEXT
  BY <1>3 DEF T
<1>. QED BY <1>4 DEF Flattens

(* Two walks agree as far as their sequences do.                           *)
LEMMA FlattensAgree ==
  ASSUME NEW ss \in Seq(TEXT), NEW tt \in Seq(TEXT), NEW c, NEW d, Flattens(c, ss),
           Flattens(d, tt),
         Len(ss) <= Len(tt), \A i \in 1 .. Len(ss) : ss[i] = tt[i]
  PROVE  \A i \in 1 .. Len(ss) : c[i] = d[i]
<1>. DEFINE T == {i \in Nat : i \in 1 .. Len(ss) => c[i] = d[i]}
<1>1. 0 \in T
  OBVIOUS
<1>2. ASSUME NEW i \in Nat, i \in T PROVE i + 1 \in T
  <2>1. SUFFICES ASSUME i + 1 \in 1 .. Len(ss) PROVE c[i + 1] = d[i + 1]
    OBVIOUS
  <2>2. i + 1 \in 1 .. Len(tt) /\ ss[i + 1] = tt[i + 1]
    BY <2>1
  <2>3. /\ c[i + 1] = IF i + 1 = 1 THEN ss[i + 1] ELSE c[(i + 1) - 1] \o ss[i + 1]
        /\ d[i + 1] = IF i + 1 = 1 THEN tt[i + 1] ELSE d[(i + 1) - 1] \o tt[i + 1]
    BY <2>1, <2>2 DEF Flattens
  <2>4. i # 0 => c[(i + 1) - 1] = d[(i + 1) - 1]
    BY <1>2, <2>1
  <2>. QED BY <2>2, <2>3, <2>4
<1>. HIDE DEF T
<1>3. \A i \in Nat : i \in T
  BY <1>1, <1>2, NumbersByInduction
<1>. QED BY <1>3 DEF T

(* There is such a walk over every sequence of texts.                      *)
LEMMA FlattensExists == \A ss \in Seq(TEXT) : \E c : Flattens(c, ss)
<1>. DEFINE T == {n \in Nat : \A ss \in Seq(TEXT) : Len(ss) = n => \E c : Flattens(c, ss)}
<1>1. 0 \in T
  <2>1. ASSUME NEW ss \in Seq(TEXT), Len(ss) = 0
                 PROVE Flattens([i \in 1 .. 0 |-> <<>>], ss)
    BY <2>1 DEF Flattens
  <2>. QED BY <2>1
<1>2. ASSUME NEW n \in Nat, n \in T PROVE n + 1 \in T
  <2>1. SUFFICES ASSUME NEW ss \in Seq(TEXT), Len(ss) = n + 1 PROVE \E c : Flattens(c, ss)
    OBVIOUS
  <2>2. PICK tt : tt = SubSeq(ss, 1, n)
    OBVIOUS
  <2>3. tt \in Seq(TEXT) /\ Len(tt) = n /\ \A i \in 1 .. n : tt[i] = ss[i]
    BY <2>1, <2>2
  <2>4. PICK d : Flattens(d, tt)
    BY <1>2, <2>3
  <2>. DEFINE e == IF n = 0 THEN ss[1] ELSE d[n] \o ss[n + 1]
              c == [i \in 1 .. n + 1 |-> IF i <= n THEN d[i] ELSE e]
  <2>5. \A i \in 1 .. n : d[i] = IF i = 1 THEN tt[i] ELSE d[i - 1] \o tt[i]
    BY <2>3, <2>4 DEF Flattens
  <2>6. ASSUME NEW i \in 1 .. n + 1
                 PROVE c[i] = IF i = 1 THEN ss[i] ELSE c[i - 1] \o ss[i]
    <3>1. CASE i <= n
      <4>1. c[i] = d[i] /\ (i # 1 => c[i - 1] = d[i - 1]) /\ tt[i] = ss[i]
        BY <2>3, <3>1
      <4>. QED BY <2>5, <3>1, <4>1
    <3>2. CASE i = n + 1
      <4>1. c[i] = e /\ (i # 1 => c[i - 1] = d[n]) /\ (i = 1 <=> n = 0)
        BY <3>2
      <4>. QED BY <3>2, <4>1
    <3>. QED BY <3>1, <3>2
  <2>7. Flattens(c, ss)
    BY <2>1, <2>6 DEF Flattens
  <2>. QED BY <2>7
<1>. HIDE DEF T
<1>3. \A n \in Nat : n \in T
  BY <1>1, <1>2, NumbersByInduction
<1>. QED BY <1>3 DEF T

(* FlattenSeq gives what the walk has gathered at its end.                 *)
LEMMA FlattenIs ==
  ASSUME NEW ss \in Seq(TEXT), Len(ss) # 0
  PROVE  \E c : Flattens(c, ss) /\ FlattenSeq(ss) = c[Len(ss)]
<1>1. PICK c : c = CHOOSE w : Flattens(w, ss)
  OBVIOUS
<1>2. Flattens(c, ss)
  BY <1>1, FlattensExists
<1>3. FlattenSeq(ss) =
        (CHOOSE d : d = [i \in 1 .. Len(ss) |-> IF i = 1 THEN ss[i]
                         ELSE d[i - 1] \o ss[i]])[Len(ss)]
  BY Zenon DEF FlattenSeq
<1>4. FlattenSeq(ss) = c[Len(ss)]
  BY <1>1, <1>3, Zenon DEF Flattens
<1>. QED BY <1>2, <1>4

(* One more text is appended to what the others give.                      *)
LEMMA FlattenAppend ==
  ASSUME NEW ss \in Seq(TEXT), NEW t \in TEXT
  PROVE  /\ FlattenSeq(ss) \in TEXT
         /\ FlattenSeq(Append(ss, t)) = FlattenSeq(ss) \o t
         /\ Len(ss) = 0 => FlattenSeq(ss) = <<>>
<1>1. PICK tt : tt = Append(ss, t)
  OBVIOUS
<1>2. /\ tt \in Seq(TEXT) /\ Len(tt) = Len(ss) + 1 /\ Len(ss) \in Nat
      /\ tt[Len(ss) + 1] = t /\ \A i \in 1 .. Len(ss) : tt[i] = ss[i]
  BY <1>1
<1>3. PICK d : Flattens(d, tt) /\ FlattenSeq(tt) = d[Len(ss) + 1]
  BY <1>2, FlattenIs
<1>4. d[Len(ss) + 1] = IF Len(ss) + 1 = 1 THEN t ELSE d[(Len(ss) + 1) - 1] \o t
  <2>1. Len(ss) + 1 \in 1 .. Len(tt)
    BY <1>2
  <2>2. \A i \in 1 .. Len(tt) : d[i] = IF i = 1 THEN tt[i] ELSE d[i - 1] \o tt[i]
    BY <1>3 DEF Flattens
  <2>3. d[Len(ss) + 1] = IF Len(ss) + 1 = 1 THEN tt[Len(ss) + 1]
          ELSE d[(Len(ss) + 1) - 1] \o tt[Len(ss) + 1]
    BY <2>1, <2>2, Zenon
  <2>. QED BY <1>2, <2>3, Zenon
<1>5. CASE Len(ss) = 0
  <2>1. FlattenSeq(ss) = ss /\ ss = <<>>
    BY <1>5 DEF FlattenSeq
  <2>2. <<>> \o t = t /\ <<>> \in TEXT
    BY DEF TEXT
  <2>. QED BY <1>1, <1>3, <1>4, <1>5, <2>1, <2>2
<1>6. CASE Len(ss) # 0
  <2>1. PICK c : Flattens(c, ss) /\ FlattenSeq(ss) = c[Len(ss)]
    BY <1>6, FlattenIs
  <2>2. c[Len(ss)] = d[Len(ss)] /\ c[Len(ss)] \in TEXT
    <3>1. \A i \in 1 .. Len(ss) : c[i] = d[i]
      BY <1>2, <1>3, <2>1, FlattensAgree
    <3>2. c \in [1 .. Len(ss) -> TEXT]
      BY <2>1, FlattensType
    <3>. QED BY <1>2, <1>6, <3>1, <3>2
  <2>3. (Len(ss) + 1) - 1 = Len(ss) /\ Len(ss) + 1 # 1
    BY <1>2, <1>6
  <2>. QED BY <1>1, <1>3, <1>4, <1>6, <2>1, <2>2, <2>3
<1>. QED BY <1>5, <1>6

-----------------------------------------------------------------------------
(* Lines and what they say together.                                       *)
LEMMA TrimmedIsText == \A l \in Lines : Trimmed(l) \in TEXT
                         /\ (l.text = <<>> => Trimmed(l) = <<>>)
<1>. SUFFICES ASSUME NEW l \in Lines
                       PROVE Trimmed(l) \in TEXT /\ (l.text = <<>> => Trimmed(l) = <<>>)
  OBVIOUS
<1>1. l.text \in TEXT /\ l.more \in BOOLEAN
  BY IniFileAssumption DEF TEXT
<1>. DEFINE T == {0} \cup {i \in DOMAIN l.text : l.text[i] # " "}
<1>2. Max(T) \in 0 .. Len(l.text)
  <2>1. T \in SUBSET (0 .. Len(l.text)) /\ T # {} /\ Len(l.text) \in Nat
    <3>1. Len(l.text) \in Nat /\ DOMAIN l.text = 1 .. Len(l.text)
      BY <1>1 DEF TEXT
    <3>2. \A i \in 1 .. Len(l.text) : i \in 0 .. Len(l.text)
      BY <3>1
    <3>3. 0 \in 0 .. Len(l.text)
      BY <3>1
    <3>. QED BY <3>1, <3>2, <3>3
  <2>. HIDE DEF T
  <2>. QED BY <2>1, GreatestIn
<1>3. Trimmed(l) = IF l.more THEN l.text ELSE SubSeq(l.text, 1, Max(T))
  BY DEF Trimmed
<1>. HIDE DEF T
<1>4. SubSeq(l.text, 1, Max(T)) \in TEXT
  BY <1>1, <1>2 DEF TEXT
<1>5. l.text = <<>> => SubSeq(l.text, 1, Max(T)) = <<>>
  BY <1>1, <1>2 DEF TEXT
<1>. QED BY <1>1, <1>3, <1>4, <1>5

(* One more line is appended to what the others say.                       *)
LEMMA JoinedAppend ==
  ASSUME NEW ls \in Seq(Lines), NEW l \in Lines
  PROVE  /\ Joined(ls) \in TEXT
         /\ Joined(Append(ls, l)) = Joined(ls) \o Trimmed(l)
         /\ Len(ls) = 0 => Joined(ls) = <<>>
<1>1. PICK ss : ss = [n \in DOMAIN ls |-> Trimmed(ls[n])]
  OBVIOUS
<1>2. ss \in Seq(TEXT) /\ Len(ss) = Len(ls)
  <2>1. \A n \in 1 .. Len(ls) : Trimmed(ls[n]) \in TEXT
    BY TrimmedIsText
  <2>. QED BY <1>1, <2>1
<1>3. PICK ms : ms = Append(ls, l)
  OBVIOUS
<1>4. /\ ms \in Seq(Lines) /\ Len(ms) = Len(ls) + 1 /\ DOMAIN ms = 1 .. Len(ls) + 1
      /\ ms[Len(ls) + 1] = l /\ \A n \in 1 .. Len(ls) : ms[n] = ls[n]
  BY <1>3
<1>5. [n \in DOMAIN ms |-> Trimmed(ms[n])] = Append(ss, Trimmed(l))
  <2>1. PICK tt : tt = Append(ss, Trimmed(l))
    OBVIOUS
  <2>2. /\ DOMAIN tt = 1 .. Len(ls) + 1 /\ tt[Len(ls) + 1] = Trimmed(l)
        /\ \A n \in 1 .. Len(ls) : tt[n] = ss[n]
        /\ tt = [n \in 1 .. Len(ls) + 1 |-> tt[n]]
    <3>1. /\ tt \in Seq(TEXT) /\ Len(tt) = Len(ls) + 1 /\ DOMAIN tt = 1 .. Len(ls) + 1
          /\ tt[Len(ls) + 1] = Trimmed(l) /\ \A n \in 1 .. Len(ls) : tt[n] = ss[n]
      BY <1>2, <2>1, TrimmedIsText
    <3>2. tt = [n \in DOMAIN tt |-> tt[n]]
      BY <3>1
    <3>. QED BY <3>1, <3>2
  <2>3. \A n \in 1 .. Len(ls) + 1 : tt[n] = Trimmed(ms[n])
    <3>1. ASSUME NEW n \in 1 .. Len(ls) + 1 PROVE tt[n] = Trimmed(ms[n])
      <4>1. CASE n = Len(ls) + 1
        BY <1>4, <2>2, <4>1
      <4>2. CASE n # Len(ls) + 1
        <5>1. n \in 1 .. Len(ls) /\ n \in DOMAIN ls
          BY <4>2
        <5>. QED BY <1>1, <1>4, <2>2, <5>1
      <4>. QED BY <4>1, <4>2
    <3>. QED BY <3>1
  <2>. QED BY <1>4, <2>1, <2>2, <2>3, Zenon
<1>6. Joined(ls) = FlattenSeq(ss) /\ Joined(ms) = FlattenSeq(Append(ss, Trimmed(l)))
  BY <1>1, <1>5, Zenon DEF Joined
<1>7. Trimmed(l) \in TEXT
  BY TrimmedIsText
<1>. QED BY <1>2, <1>3, <1>6, <1>7, FlattenAppend, Zenon

-----------------------------------------------------------------------------
(* A file f and the same file with one more line.                          *)
Finishes(l) == ~ l.more /\ l.text # <<>>
After(f) == Max({0} \cup Ends(f)) + 1
Said(f) == Joined(SubSeq(f, After(f), Len(f)))
LastSection(f) ==
  IF EndsWith(f, "LINE_SECTION") = {} THEN <<>>
  ELSE LogicalLine(f, Max(EndsWith(f, "LINE_SECTION"))).key

(* What Append does, in one place.                                         *)
LEMMA Appended ==
  ASSUME NEW f \in Seq(Lines), NEW l \in Lines
  PROVE  /\ Append(f, l) \in Seq(Lines) /\ Len(f) \in Nat
              /\ Len(Append(f, l)) = Len(f) + 1
         /\ DOMAIN f = 1 .. Len(f) /\ DOMAIN Append(f, l) = 1 .. Len(f) + 1
         /\ Append(f, l)[Len(f) + 1] = l
         /\ \A i \in 1 .. Len(f) : Append(f, l)[i] = f[i]
  OBVIOUS

(* A new line ends a logical one or does not; the other ends stay.         *)
LEMMA EndsGrow ==
  ASSUME NEW f \in Seq(Lines), NEW l \in Lines, NEW g, g = Append(f, l)
  PROVE  /\ Ends(f) \subseteq 1 .. Len(f)
         /\ Ends(g) = Ends(f) \cup (IF Finishes(l) THEN {Len(f) + 1} ELSE {})
<1>1. PICK n \in Nat : n = Len(f)
  OBVIOUS
<1>2. /\ DOMAIN f = 1 .. n /\ DOMAIN g = 1 .. n + 1 /\ g[n + 1] = l
      /\ \A i \in 1 .. n : g[i] = f[i]
  BY <1>1, Appended
<1>3. \A i \in 1 .. n + 1 : i \in Ends(g) <=> i \in Ends(f) \/ (i = n + 1 /\ Finishes(l))
  <2>1. ASSUME NEW i \in 1 .. n + 1
        PROVE  i \in Ends(g) <=> i \in Ends(f) \/ (i = n + 1 /\ Finishes(l))
    <3>1. CASE i = n + 1
      <4>1. i \notin DOMAIN f /\ g[i] = l /\ i \in DOMAIN g
        BY <1>2, <3>1
      <4>. QED BY <3>1, <4>1 DEF Ends, Finishes
    <3>2. CASE i # n + 1
      <4>1. i \in DOMAIN f /\ g[i] = f[i] /\ i \in DOMAIN g
        BY <1>2, <3>2
      <4>. QED BY <3>2, <4>1 DEF Ends
    <3>. QED BY <3>1, <3>2
  <2>. QED BY <2>1
<1>4. Ends(f) \subseteq 1 .. n /\ Ends(g) \subseteq 1 .. n + 1
  BY <1>2 DEF Ends
<1>5. n + 1 \in 1 .. n + 1 /\ \A i \in 1 .. n : i \in 1 .. n + 1 /\ i # n + 1
  OBVIOUS
<1>. QED BY <1>1, <1>3, <1>4, <1>5

(* Where a logical line begins depends on the lines in front of it.        *)
LEMMA BeginsIs ==
  ASSUME NEW f \in Seq(Lines), NEW i \in Nat, i <= Len(f) + 1, i # 0
  PROVE  /\ BeginsAt(f, i) \in 1 .. i
         /\ \A j \in 1 .. Len(f) : j >= BeginsAt(f, i) /\ j < i => j \notin Ends(f)
<1>1. Ends(f) \subseteq 1 .. Len(f) /\ Len(f) \in Nat
  BY DEF Ends
<1>. DEFINE T == {0} \cup {j \in Ends(f) : j < i}
<1>2. T \in SUBSET (0 .. i - 1) /\ T # {} /\ i - 1 \in Nat
  <2>1. ASSUME NEW j \in Ends(f), j < i PROVE j \in 0 .. i - 1
    BY <1>1, <2>1
  <2>2. 0 \in 0 .. i - 1 /\ i - 1 \in Nat
    OBVIOUS
  <2>3. \A j \in T : j \in 0 .. i - 1
    BY <2>1, <2>2
  <2>. QED BY <2>2, <2>3
<1>3. BeginsAt(f, i) = Max(T) + 1
  BY DEF BeginsAt
<1>4. \A j \in Ends(f) : j < i => j \in T
  OBVIOUS
<1>. HIDE DEF T
<1>5. Max(T) \in T /\ \A y \in T : y <= Max(T)
  BY <1>2, GreatestIn
<1>6. Max(T) \in 0 .. i - 1
  BY <1>2, <1>5
<1>7. BeginsAt(f, i) \in 1 .. i
  BY <1>3, <1>6
<1>8. ASSUME NEW j \in 1 .. Len(f), j >= BeginsAt(f, i), j < i, j \in Ends(f) PROVE FALSE
  <2>1. j <= Max(T)
    BY <1>4, <1>5, <1>8
  <2>. QED BY <1>3, <1>6, <1>8, <2>1
<1>. QED BY <1>7, <1>8

(* Beginnings stay, and a line that ends a logical one moves the next.     *)
LEMMA BeginsGrow ==
  ASSUME NEW f \in Seq(Lines), NEW l \in Lines, NEW g, g = Append(f, l)
  PROVE  /\ \A i \in 1 .. Len(f) : BeginsAt(g, i) = BeginsAt(f, i)
         /\ BeginsAt(g, Len(f) + 1) = After(f) /\ BeginsAt(f, Len(f) + 1) = After(f)
         /\ After(f) \in 1 .. Len(f) + 1
         /\ After(g) = IF Finishes(l) THEN Len(f) + 2 ELSE After(f)
<1>1. PICK n \in Nat : n = Len(f)
  OBVIOUS
<1>2. Ends(f) \subseteq 1 .. n
        /\ Ends(g) = Ends(f) \cup (IF Finishes(l) THEN {n + 1} ELSE {})
  BY <1>1, EndsGrow
<1>3. \A i \in 1 .. n + 1 : {j \in Ends(g) : j < i} = {j \in Ends(f) : j < i}
  <2>1. ASSUME NEW i \in 1 .. n + 1 PROVE \A j \in Ends(g) : j < i => j \in Ends(f)
    BY <1>2
  <2>. QED BY <1>2, <2>1
<1>4. {j \in Ends(f) : j < n + 1} = Ends(f)
  BY <1>2
<1>5. n + 1 \in 1 .. n + 1 /\ \A i \in 1 .. n : i \in 1 .. n + 1
  OBVIOUS
<1>6. BeginsAt(f, n + 1) = After(f) /\ BeginsAt(g, n + 1) = After(f)
  BY <1>3, <1>4, <1>5, Zenon DEF BeginsAt, After
<1>7. \A i \in 1 .. n : BeginsAt(g, i) = BeginsAt(f, i)
  BY <1>3, <1>5, Zenon DEF BeginsAt
<1>8. After(f) \in 1 .. n + 1
  BY <1>1, <1>6, BeginsIs
<1>9. ASSUME Finishes(l) PROVE After(g) = n + 2
  <2>1. PICK T : T = {0} \cup Ends(g)
    OBVIOUS
  <2>2. T \subseteq Nat /\ n + 1 \in T /\ \A y \in T : y <= n + 1
    BY <1>2, <1>9, <2>1
  <2>3. Max(T) = n + 1
    BY <2>2, GreatestIs
  <2>. QED BY <2>1, <2>3 DEF After
<1>10. ASSUME ~ Finishes(l) PROVE After(g) = After(f)
  <2>1. Ends(g) = Ends(f)
    BY <1>2, <1>10
  <2>. QED BY <2>1, Zenon DEF After
<1>. QED BY <1>1, <1>6, <1>7, <1>8, <1>9, <1>10

(* Logical lines stay what they are.                                       *)
LEMMA SubSeqGrows ==
  ASSUME NEW f \in Seq(Lines), NEW l \in Lines, NEW g, g = Append(f, l),
           NEW a \in 1 .. Len(f) + 1
  PROVE  /\ \A i \in 1 .. Len(f) : SubSeq(g, a, i) = SubSeq(f, a, i)
         /\ SubSeq(f, a, Len(f)) \in Seq(Lines)
         /\ SubSeq(g, a, Len(f) + 1) = Append(SubSeq(f, a, Len(f)), l)
         /\ Len(SubSeq(f, a, Len(f))) = Len(f) - a + 1
<1>1. PICK n \in Nat : n = Len(f)
  OBVIOUS
<1>2. /\ DOMAIN f = 1 .. n /\ DOMAIN g = 1 .. n + 1 /\ g[n + 1] = l /\ g \in Seq(Lines)
      /\ Len(g) = n + 1 /\ \A i \in 1 .. n : g[i] = f[i]
  BY <1>1, Appended
<1>3. ASSUME NEW i \in 1 .. n PROVE SubSeq(g, a, i) = SubSeq(f, a, i)
  <2>1. /\ SubSeq(g, a, i) = [k \in 1 .. i - a + 1 |-> g[k + a - 1]]
        /\ SubSeq(f, a, i) = [k \in 1 .. i - a + 1 |-> f[k + a - 1]]
    BY <1>1, <1>2
  <2>2. \A k \in 1 .. i - a + 1 : g[k + a - 1] = f[k + a - 1]
    BY <1>1, <1>2
  <2>. QED BY <2>1, <2>2
<1>4. PICK s : s = SubSeq(f, a, n)
  OBVIOUS
<1>5. s \in Seq(Lines) /\ Len(s) = n - a + 1
  BY <1>1, <1>4
<1>6. s = [k \in 1 .. n - a + 1 |-> f[k + a - 1]]
  BY <1>1, <1>4
<1>7. PICK t : t = SubSeq(g, a, n + 1)
  OBVIOUS
<1>8. PICK u : u = Append(s, l)
  OBVIOUS
<1>9. t = [k \in 1 .. n - a + 2 |-> g[k + a - 1]]
  <2>1. PICK m \in Nat : m = n + 1
    BY <1>1
  <2>2. SubSeq(g, a, m) = [k \in 1 .. m - a + 1 |-> g[k + a - 1]]
    <3>1. a \in 1 .. m /\ g \in Seq(Lines) /\ m \in 1 .. Len(g) /\ Len(g) \in Nat
      BY <1>1, <1>2, <2>1
    <3>. QED BY <3>1
  <2>3. m - a + 1 = n - a + 2
    BY <1>1, <2>1
  <2>. QED BY <1>7, <2>1, <2>2, <2>3
<1>10. u = [k \in 1 .. n - a + 2 |-> u[k]]
         /\ \A k \in 1 .. n - a + 2 : u[k] = IF k = n - a + 2 THEN l ELSE s[k]
  <2>1. u \in Seq(Lines) /\ Len(u) = n - a + 2 /\ DOMAIN u = 1 .. n - a + 2
    BY <1>1, <1>5, <1>8
  <2>2. u = [k \in DOMAIN u |-> u[k]]
    BY <2>1
  <2>3. \A k \in 1 .. n - a + 2 : u[k] = IF k = n - a + 2 THEN l ELSE s[k]
    <3>1. u[n - a + 2] = l /\ \A k \in 1 .. n - a + 1 : u[k] = s[k]
      BY <1>1, <1>5, <1>8
    <3>2. \A k \in 1 .. n - a + 2 : k # n - a + 2 => k \in 1 .. n - a + 1
      BY <1>1
    <3>. QED BY <3>1, <3>2
  <2>. QED BY <2>1, <2>2, <2>3
<1>11. \A k \in 1 .. n - a + 2 : g[k + a - 1] = u[k]
  <2>1. ASSUME NEW k \in 1 .. n - a + 2 PROVE g[k + a - 1] = u[k]
    <3>1. CASE k = n - a + 2
      <4>1. k + a - 1 = n + 1
        BY <1>1, <3>1
      <4>. QED BY <1>2, <1>10, <3>1, <4>1
    <3>2. CASE k # n - a + 2
      <4>1. k \in 1 .. n - a + 1 /\ k + a - 1 \in 1 .. n
        BY <1>1, <3>2
      <4>. QED BY <1>2, <1>6, <1>10, <3>2, <4>1
    <3>. QED BY <3>1, <3>2
  <2>. QED BY <2>1
<1>12. t = u
  BY <1>9, <1>10, <1>11
<1>. QED BY <1>1, <1>3, <1>4, <1>5, <1>7, <1>8, <1>12

LEMMA LinesStay ==
  ASSUME NEW f \in Seq(Lines), NEW l \in Lines, NEW g, g = Append(f, l)
  PROVE  /\ \A i \in 1 .. Len(f) : LogicalLine(g, i) = LogicalLine(f, i)
         /\ LogicalLine(g, Len(f) + 1) = IniparserLine(Said(f) \o Trimmed(l))
         /\ Said(f) \in TEXT
         /\ Said(g) = IF Finishes(l) THEN <<>> ELSE Said(f) \o Trimmed(l)
<1>1. PICK n \in Nat : n = Len(f)
  OBVIOUS
<1>2. /\ \A i \in 1 .. n : BeginsAt(g, i) = BeginsAt(f, i)
           /\ BeginsAt(f, i) \in 1 .. n + 1
      /\ BeginsAt(g, n + 1) = After(f) /\ After(f) \in 1 .. n + 1
      /\ After(g) = IF Finishes(l) THEN n + 2 ELSE After(f)
  <2>1. \A i \in 1 .. n : BeginsAt(f, i) \in 1 .. n + 1
    <3>1. ASSUME NEW i \in 1 .. n PROVE BeginsAt(f, i) \in 1 .. n + 1
      <4>1. BeginsAt(f, i) \in 1 .. i
        BY <1>1, BeginsIs
      <4>. QED BY <4>1
    <3>. QED BY <3>1
  <2>. QED BY <1>1, <2>1, BeginsGrow
<1>3. ASSUME NEW i \in 1 .. n PROVE LogicalLine(g, i) = LogicalLine(f, i)
  <2>1. PICK a \in 1 .. n + 1 : a = BeginsAt(f, i)
    BY <1>2
  <2>2. SubSeq(g, a, i) = SubSeq(f, a, i)
    BY <1>1, SubSeqGrows
  <2>. QED BY <1>2, <2>1, <2>2, Zenon DEF LogicalLine
<1>4. PICK s : s = SubSeq(f, After(f), n)
  OBVIOUS
<1>5. s \in Seq(Lines) /\ SubSeq(g, After(f), n + 1) = Append(s, l)
  BY <1>1, <1>2, <1>4, SubSeqGrows
<1>6. Said(f) = Joined(s)
  BY <1>1, <1>4 DEF Said
<1>7. Joined(s) \in TEXT /\ Joined(Append(s, l)) = Joined(s) \o Trimmed(l)
  BY <1>5, JoinedAppend
<1>8. LogicalLine(g, n + 1) = IniparserLine(Said(f) \o Trimmed(l))
  BY <1>2, <1>5, <1>6, <1>7, Zenon DEF LogicalLine
<1>9. Len(g) = n + 1 /\ g \in Seq(Lines)
  BY <1>1
<1>10. ASSUME ~ Finishes(l) PROVE Said(g) = Said(f) \o Trimmed(l)
  BY <1>2, <1>5, <1>6, <1>7, <1>9, <1>10, Zenon DEF Said
<1>11. ASSUME Finishes(l) PROVE Said(g) = <<>>
  <2>1. Said(g) = Joined(SubSeq(g, n + 2, n + 1))
    BY <1>2, <1>9, <1>11 DEF Said
  <2>2. PICK t : t = SubSeq(g, n + 2, n + 1)
    OBVIOUS
  <2>3. t \in Seq(Lines) /\ Len(t) = 0
    BY <1>1, <1>9, <2>2
  <2>. QED BY <2>1, <2>2, <2>3, JoinedAppend
<1>. QED BY <1>1, <1>3, <1>6, <1>7, <1>8, <1>10, <1>11

(* The text of the logical line that a line may end is among Texts.        *)
LEMMA TextIsKnown ==
  ASSUME NEW f \in Seq(Lines), NEW l \in Lines, Len(f) < MaxSteps
  PROVE  Said(f) \o Trimmed(l) \in Texts
<1>1. PICK n \in Nat : n = Len(f) /\ n < MaxSteps
  OBVIOUS
<1>2. PICK a : a = After(f)
  OBVIOUS
<1>3. a \in 1 .. n + 1 /\ a = BeginsAt(f, n + 1)
  BY <1>1, <1>2, BeginsGrow
<1>4. \A j \in 1 .. n : j >= a => j \notin Ends(f)
  BY <1>1, <1>3, BeginsIs
<1>5. \A j \in 1 .. n : j >= a => f[j] \in Unfinished
  <2>1. ASSUME NEW j \in 1 .. n, j >= a PROVE f[j] \in Unfinished
    <3>1. f[j] \in Lines /\ j \in DOMAIN f /\ j \notin Ends(f)
      BY <1>1, <1>4, <2>1
    <3>. QED BY <3>1 DEF Ends, Unfinished
  <2>. QED BY <2>1
<1>6. PICK s : s = SubSeq(f, a, n)
  OBVIOUS
<1>7. s \in Seq(Lines) /\ Len(s) = n - a + 1
        /\ s = [k \in 1 .. n - a + 1 |-> f[k + a - 1]]
  BY <1>1, <1>3, <1>6
<1>8. s \in [1 .. n - a + 1 -> Unfinished]
  <2>1. \A k \in 1 .. n - a + 1 : k + a - 1 \in 1 .. n /\ k + a - 1 >= a
    BY <1>3
  <2>. QED BY <1>5, <1>7, <2>1
<1>9. s \in BoundedSeq(Unfinished, MaxSteps - 1)
  <2>1. n - a + 1 \in 0 .. MaxSteps - 1
    BY <1>1, <1>3, IniFileAssumption
  <2>. QED BY <1>8, <2>1, Zenon DEF BoundedSeq, SeqOf
<1>10. Joined(Append(s, l)) \in Texts
  BY <1>9 DEF Texts
<1>11. Joined(Append(s, l)) = Joined(s) \o Trimmed(l) /\ Said(f) = Joined(s)
  BY <1>1, <1>2, <1>6, <1>7, JoinedAppend DEF Said
<1>. QED BY <1>10, <1>11

-----------------------------------------------------------------------------
(* What a file defines, with one more line.                                *)
Line(f, l) == IniparserLine(Said(f) \o Trimmed(l))
EndsAs(f, l, status) == Finishes(l) /\ ~ TooLong(l) /\ Line(f, l).status = status
Defines(f, l) == EndsAs(f, l, "LINE_SECTION") \/ EndsAs(f, l, "LINE_VALUE")

(* One more end of a kind, if the new line is one.                         *)
LEMMA EndsWithGrows ==
  ASSUME NEW f \in Seq(Lines), NEW l \in Lines, NEW st, NEW g, g = Append(f, l)
  PROVE  /\ EndsWith(f, st) \subseteq 1 .. Len(f)
         /\ EndsWith(g, st) =
              EndsWith(f, st) \cup (IF EndsAs(f, l, st) THEN {Len(f) + 1} ELSE {})
<1>1. PICK n \in Nat : n = Len(f)
  OBVIOUS
<1>2. /\ Ends(f) \subseteq 1 .. n
      /\ Ends(g) = Ends(f) \cup (IF Finishes(l) THEN {n + 1} ELSE {})
  BY <1>1, EndsGrow
<1>3. g[n + 1] = l /\ \A i \in 1 .. n : g[i] = f[i]
  BY <1>1, Appended
<1>4. LogicalLine(g, n + 1) = Line(f, l)
        /\ \A i \in 1 .. n : LogicalLine(g, i) = LogicalLine(f, i)
  BY <1>1, LinesStay DEF Line
<1>5. \A i \in 1 .. n : i # n + 1
  OBVIOUS
<1>6. ASSUME NEW i PROVE i \in EndsWith(g, st) <=>
               i \in EndsWith(f, st) \/ (i = n + 1 /\ EndsAs(f, l, st))
  <2>1. CASE i \in 1 .. n
    <3>1. i # n + 1 /\ g[i] = f[i] /\ LogicalLine(g, i) = LogicalLine(f, i)
            /\ (i \in Ends(g) <=> i \in Ends(f))
      BY <1>2, <1>3, <1>4, <1>5, <2>1
    <3>. QED BY <3>1, Zenon DEF EndsWith
  <2>2. CASE i = n + 1
    <3>1. i \notin EndsWith(f, st) /\ (i \in Ends(g) <=> Finishes(l))
      BY <1>2, <1>5, <2>2 DEF EndsWith
    <3>2. i \in EndsWith(g, st) <=>
            i \in Ends(g) /\ ~ TooLong(l) /\ Line(f, l).status = st
      BY <1>3, <1>4, <2>2, Zenon DEF EndsWith
    <3>. QED BY <2>2, <3>1, <3>2, Zenon DEF EndsAs
  <2>3. CASE i \notin 1 .. n /\ i # n + 1
    <3>1. i \notin Ends(g) /\ i \notin Ends(f)
      BY <1>2, <2>3
    <3>. QED BY <2>3, <3>1, Zenon DEF EndsWith
  <2>. QED BY <2>1, <2>2, <2>3
<1>7. EndsWith(f, st) \subseteq 1 .. n
  BY <1>2 DEF EndsWith
<1>. QED BY <1>1, <1>6, <1>7

(* Keys and sections that were defined stay what they are.                 *)
LEMMA DefinedStays ==
  ASSUME NEW f \in Seq(Lines), NEW l \in Lines, NEW g, g = Append(f, l)
  PROVE  /\ \A i \in 1 .. Len(f) : DefinedAt(g, i) = DefinedAt(f, i)
         /\ SectionAt(g, Len(f) + 1) = LastSection(f)
         /\ LastSection(g) = IF EndsAs(f, l, "LINE_SECTION") THEN Line(f, l).key
              ELSE LastSection(f)
<1>1. PICK n \in Nat : n = Len(f)
  OBVIOUS
<1>2. PICK st : st = "LINE_SECTION"
  OBVIOUS
<1>3. /\ EndsWith(f, st) \subseteq 1 .. n
      /\ EndsWith(g, st) = EndsWith(f, st) \cup (IF EndsAs(f, l, st) THEN {n + 1} ELSE {})
  BY <1>1, EndsWithGrows, Zenon
<1>4. LogicalLine(g, n + 1) = Line(f, l)
        /\ \A i \in 1 .. n : LogicalLine(g, i) = LogicalLine(f, i)
  BY <1>1, LinesStay DEF Line
<1>5. \A i \in 1 .. n + 1 : {j \in EndsWith(g, st) : j < i} =
        {j \in EndsWith(f, st) : j < i}
  <2>1. ASSUME NEW i \in 1 .. n + 1
                 PROVE \A j \in EndsWith(g, st) : j < i => j \in EndsWith(f, st)
    BY <1>3
  <2>. QED BY <1>3, <2>1
<1>6. {j \in EndsWith(f, st) : j < n + 1} = EndsWith(f, st)
  BY <1>3
<1>7. ASSUME NEW T \in SUBSET EndsWith(f, st), T # {}
      PROVE  Max(T) \in 1 .. n
  <2>1. T \in SUBSET (0 .. n)
    BY <1>3
  <2>2. Max(T) \in T
    BY <1>7, <2>1, GreatestIn
  <2>. QED BY <1>3, <2>2
<1>8. ASSUME NEW i \in 1 .. n + 1 PROVE SectionAt(g, i) = SectionAt(f, i)
  <2>1. PICK T : T = {j \in EndsWith(f, st) : j < i}
    OBVIOUS
  <2>2. T # {} => LogicalLine(g, Max(T)) = LogicalLine(f, Max(T))
    BY <1>4, <1>7, <2>1
  <2>3. SectionAt(f, i) = IF T = {} THEN <<>> ELSE LogicalLine(f, Max(T)).key
    BY <1>2, <2>1, Zenon DEF SectionAt
  <2>4. SectionAt(g, i) = IF T = {} THEN <<>> ELSE LogicalLine(g, Max(T)).key
    BY <1>2, <1>5, <2>1, Zenon DEF SectionAt
  <2>. QED BY <2>2, <2>3, <2>4, Zenon
<1>9. ASSUME NEW i \in 1 .. n PROVE DefinedAt(g, i) = DefinedAt(f, i)
  <2>1. i \in 1 .. n + 1 /\ i # n + 1
    OBVIOUS
  <2>2. i \in EndsWith(g, st) <=> i \in EndsWith(f, st)
    BY <1>3, <2>1
  <2>. QED BY <1>2, <1>4, <1>8, <2>1, <2>2, Zenon DEF DefinedAt
<1>10. n + 1 \in 1 .. n + 1
  OBVIOUS
<1>11. SectionAt(f, n + 1) = LastSection(f)
  BY <1>2, <1>6, Zenon DEF SectionAt, LastSection
<1>12. ASSUME EndsAs(f, l, st) PROVE LastSection(g) = Line(f, l).key
  <2>1. PICK T : T = EndsWith(g, st)
    OBVIOUS
  <2>2. T \subseteq Nat /\ n + 1 \in T /\ \A y \in T : y <= n + 1
    BY <1>3, <1>12, <2>1
  <2>3. Max(T) = n + 1 /\ T # {}
    BY <2>2, GreatestIs
  <2>. QED BY <1>2, <1>4, <2>1, <2>3, Zenon DEF LastSection
<1>13. ASSUME ~ EndsAs(f, l, st) PROVE LastSection(g) = LastSection(f)
  <2>1. EndsWith(g, st) = EndsWith(f, st)
    BY <1>3, <1>13
  <2>2. EndsWith(f, st) # {} =>
          LogicalLine(g, Max(EndsWith(f, st))) = LogicalLine(f, Max(EndsWith(f, st)))
    BY <1>4, <1>7
  <2>. QED BY <1>2, <2>1, <2>2, Zenon DEF LastSection
<1>. QED BY <1>1, <1>2, <1>8, <1>9, <1>10, <1>11, <1>12, <1>13

(* One more definition, of one key, if the new line is one.                *)
LEMMA DefinitionsGrow ==
  ASSUME NEW f \in Seq(Lines), NEW l \in Lines, NEW k, NEW g, g = Append(f, l)
  PROVE  /\ Definitions(f) \subseteq 1 .. Len(f)
         /\ Definitions(g) =
              Definitions(f) \cup (IF Defines(f, l) THEN {Len(f) + 1} ELSE {})
         /\ Defining(g, k) = Defining(f, k) \cup
              (IF Defines(f, l) /\ DefinedAt(g, Len(f) + 1) = k THEN {Len(f) + 1} ELSE {})
         /\ Defining(f, k) \subseteq 1 .. Len(f)
<1>1. PICK n \in Nat : n = Len(f)
  OBVIOUS
<1>2. /\ EndsWith(f, "LINE_SECTION") \subseteq 1 .. n
           /\ EndsWith(f, "LINE_VALUE") \subseteq 1 .. n
      /\ EndsWith(g, "LINE_SECTION") =
           EndsWith(f, "LINE_SECTION")
             \cup (IF EndsAs(f, l, "LINE_SECTION") THEN {n + 1} ELSE {})
      /\ EndsWith(g, "LINE_VALUE") =
           EndsWith(f, "LINE_VALUE")
             \cup (IF EndsAs(f, l, "LINE_VALUE") THEN {n + 1} ELSE {})
  BY <1>1, EndsWithGrows, Zenon
<1>3. /\ Definitions(f) \subseteq 1 .. n
      /\ Definitions(g) = Definitions(f) \cup (IF Defines(f, l) THEN {n + 1} ELSE {})
  BY <1>2 DEF Definitions, Defines
<1>4. \A i \in 1 .. n : DefinedAt(g, i) = DefinedAt(f, i)
  BY <1>1, DefinedStays
<1>5. \A i \in 1 .. n : i # n + 1
  OBVIOUS
<1>6. /\ Defining(g, k) =
           Defining(f, k)
             \cup (IF Defines(f, l) /\ DefinedAt(g, n + 1) = k THEN {n + 1} ELSE {})
      /\ Defining(f, k) \subseteq 1 .. n
  BY <1>3, <1>4, <1>5 DEF Defining
<1>. QED BY <1>1, <1>3, <1>6

(* What is written in a file without new definitions stays.                *)
LEMMA NothingDefined ==
  ASSUME NEW f \in Seq(Lines), NEW l \in Lines, NEW g, g = Append(f, l), ~ Defines(f, l)
  PROVE  /\ Written(g) = Written(f) /\ Definitions(g) = Definitions(f)
         /\ \A k : Defining(g, k) = Defining(f, k)
<1>1. PICK n \in Nat : n = Len(f)
  OBVIOUS
<1>2. /\ Definitions(f) \subseteq 1 .. n /\ Definitions(g) = Definitions(f)
      /\ \A k : Defining(g, k) = Defining(f, k) /\ Defining(f, k) \subseteq 1 .. n
  <2>1. ASSUME NEW j
        PROVE  /\ Definitions(f) \subseteq 1 .. Len(f)
               /\ Definitions(g) =
                    Definitions(f) \cup (IF Defines(f, l) THEN {Len(f) + 1} ELSE {})
               /\ Defining(g, j) = Defining(f, j) \cup
                    (IF Defines(f, l) /\ DefinedAt(g, Len(f) + 1) = j THEN {Len(f) + 1}
                      ELSE {})
               /\ Defining(f, j) \subseteq 1 .. Len(f)
    BY DefinitionsGrow
  <2>. QED BY <1>1, <2>1
<1>3. \A i \in 1 .. n : DefinedAt(g, i) = DefinedAt(f, i)
        /\ LogicalLine(g, i) = LogicalLine(f, i)
  BY <1>1, DefinedStays, LinesStay
<1>4. {DefinedAt(g, i) : i \in Definitions(g)} = {DefinedAt(f, i) : i \in Definitions(f)}
  BY <1>2, <1>3
<1>5. ASSUME NEW k \in {DefinedAt(f, i) : i \in Definitions(f)}
      PROVE  LogicalLine(g, Max(Defining(g, k))).value =
               LogicalLine(f, Max(Defining(f, k))).value
  <2>1. Defining(f, k) # {}
    BY <1>5 DEF Defining
  <2>2. Defining(f, k) \in SUBSET (0 .. n)
    BY <1>2
  <2>3. Max(Defining(f, k)) \in 1 .. n
    BY <1>2, <2>1, <2>2, GreatestIn
  <2>. QED BY <1>2, <1>3, <2>3
<1>. QED BY <1>2, <1>4, <1>5, Zenon DEF Written

(* A new definition adds its key or overrides the ones before.             *)
LEMMA OneDefined ==
  ASSUME NEW f \in Seq(Lines), NEW l \in Lines, NEW g, g = Append(f, l), Defines(f, l),
         NEW k, k = DefinedAt(g, Len(f) + 1)
  PROVE  /\ k = IF Line(f, l).status = "LINE_SECTION" THEN Line(f, l).key
                ELSE SecKey(LastSection(f), Line(f, l).key)
         /\ DOMAIN Written(f) = {DefinedAt(f, i) : i \in Definitions(f)}
         /\ Written(g) = With(Written(f), k, Line(f, l).value)
<1>1. PICK n \in Nat : n = Len(f)
  OBVIOUS
<1>2. /\ Definitions(f) \subseteq 1 .. n /\ Definitions(g) = Definitions(f) \cup {n + 1}
      /\ \A j : /\ Defining(g, j) = Defining(f, j) \cup (IF j = k THEN {n + 1} ELSE {})
                /\ Defining(f, j) \subseteq 1 .. n
  <2>1. ASSUME NEW j
        PROVE  /\ Definitions(f) \subseteq 1 .. Len(f)
               /\ Definitions(g) =
                    Definitions(f) \cup (IF Defines(f, l) THEN {Len(f) + 1} ELSE {})
               /\ Defining(g, j) = Defining(f, j) \cup
                    (IF Defines(f, l) /\ DefinedAt(g, Len(f) + 1) = j THEN {Len(f) + 1}
                      ELSE {})
               /\ Defining(f, j) \subseteq 1 .. Len(f)
    BY DefinitionsGrow
  <2>. QED BY <1>1, <2>1
<1>3. \A i \in 1 .. n : DefinedAt(g, i) = DefinedAt(f, i)
        /\ LogicalLine(g, i) = LogicalLine(f, i)
  BY <1>1, DefinedStays, LinesStay
<1>4. LogicalLine(g, n + 1) = Line(f, l)
  BY <1>1, LinesStay DEF Line
<1>5. DOMAIN Written(f) = {DefinedAt(f, i) : i \in Definitions(f)}
  BY DEF Written
<1>6. {DefinedAt(g, i) : i \in Definitions(g)} = DOMAIN Written(f) \cup {k}
  BY <1>1, <1>2, <1>3, <1>5
<1>7. ASSUME NEW j \in DOMAIN Written(f) \cup {k}
      PROVE  LogicalLine(g, Max(Defining(g, j))).value = IF j = k THEN Line(f, l).value
               ELSE Written(f)[j]
  <2>1. CASE j = k
    <3>1. PICK T : T = Defining(g, j)
      OBVIOUS
    <3>2. T \subseteq Nat /\ n + 1 \in T /\ \A y \in T : y <= n + 1
      BY <1>2, <2>1, <3>1
    <3>3. Max(T) = n + 1
      BY <3>2, GreatestIs
    <3>. QED BY <1>4, <2>1, <3>1, <3>3
  <2>2. CASE j # k
    <3>1. Defining(f, j) # {} /\ j \in {DefinedAt(f, i) : i \in Definitions(f)}
      BY <1>5, <1>7, <2>2 DEF Defining
    <3>2. Defining(f, j) \in SUBSET (0 .. n)
      BY <1>2
    <3>3. Max(Defining(f, j)) \in 1 .. n
      BY <1>2, <3>1, <3>2, GreatestIn
    <3>4. Written(f)[j] = LogicalLine(f, Max(Defining(f, j))).value
      BY <3>1, Zenon DEF Written
    <3>5. Defining(g, j) = Defining(f, j)
      BY <1>2, <2>2
    <3>. QED BY <1>3, <2>2, <3>3, <3>4, <3>5
  <2>. QED BY <2>1, <2>2
<1>8. Written(g) = With(Written(f), k, Line(f, l).value)
  BY <1>6, <1>7, Zenon DEF Written, With
<1>9. n + 1 \in EndsWith(g, "LINE_SECTION") <=> EndsAs(f, l, "LINE_SECTION")
  <2>1. EndsWith(f, "LINE_SECTION") \subseteq 1 .. n
    BY <1>1, EndsWithGrows
  <2>2. n + 1 \notin EndsWith(f, "LINE_SECTION")
    BY <2>1
  <2>. QED BY <1>1, <2>2, EndsWithGrows
<1>10. SectionAt(g, n + 1) = LastSection(f)
  BY <1>1, DefinedStays
<1>11. EndsAs(f, l, "LINE_SECTION") <=> Line(f, l).status = "LINE_SECTION"
  BY DEF Defines, EndsAs
<1>12. k = IF Line(f, l).status = "LINE_SECTION" THEN Line(f, l).key
           ELSE SecKey(LastSection(f), Line(f, l).key)
  BY <1>1, <1>4, <1>9, <1>10, <1>11, Zenon DEF DefinedAt
<1>. QED BY <1>5, <1>8, <1>12

-----------------------------------------------------------------------------
(* Without removals a dictionary is filled from the first slot on.         *)
Filled(d) == Used(d) = 0 .. d.n - 1

(* The numbers of a good dictionary.                                       *)
LEMMA SlotsOfGood ==
  ASSUME NEW d, Good(d)
  PROVE  /\ d.n \in Nat /\ d.size \in Nat \ {0} /\ d.n <= d.size
              /\ Slots(d) = 0 .. d.size - 1
         /\ Used(d) \subseteq 0 .. d.size - 1
         /\ \A i \in Slots(d) : i \in Used(d) <=> d.key[i] # NULL
  BY DEF Good, TypeOf, Slots, Used

(* In a filled dictionary the search for a free slot ends where it begins. *)
LEMMA NextSlot ==
  ASSUME NEW d, Good(d), d.n < d.size, Filled(d)
  PROVE  FreeSlot(d) = d.n /\ d.n \in Slots(d) /\ d.key[d.n] = NULL
<1>1. PICK n, z : n = d.n /\ z = d.size
  OBVIOUS
<1>2. n \in Nat /\ z \in Nat \ {0} /\ n < z /\ Slots(d) = 0 .. z - 1
  BY <1>1, SlotsOfGood
<1>3. n \in Slots(d) /\ n \notin Used(d)
  BY <1>1, <1>2 DEF Filled
<1>4. d.key[n] = NULL
  BY <1>3, SlotsOfGood
<1>5. Probe(d, 0) = n
  <2>1. (n + 0) % z = n
    BY <1>2
  <2>. QED BY <1>1, <2>1 DEF Probe
<1>. DEFINE P(s) == /\ d.key[Probe(d, s)] = NULL
                    /\ \A t \in 0 .. s - 1 : d.key[Probe(d, t)] # NULL
<1>6. 0 \in Slots(d) /\ P(0)
  BY <1>2, <1>4, <1>5
<1>7. \A s \in Slots(d) : P(s) => s = 0
  <2>1. ASSUME NEW s \in Slots(d), P(s), s # 0 PROVE FALSE
    <3>1. 0 \in 0 .. s - 1
      BY <1>2, <2>1
    <3>2. d.key[Probe(d, 0)] # NULL
      BY <2>1, <3>1
    <3>. QED BY <1>4, <1>5, <3>2
  <2>. QED BY <2>1
<1>8. (CHOOSE s \in Slots(d) : P(s)) = 0
  <2>. HIDE DEF P
  <2>. QED BY <1>6, <1>7
<1>9. FreeSlot(d) = Probe(d, 0)
  BY <1>8 DEF FreeSlot
<1>. QED BY <1>1, <1>3, <1>4, <1>5, <1>9

(* dictionary_set keeps a dictionary filled and the keys where they are.   *)
LEMMA SetFills ==
  ASSUME NEW d, Good(d), Filled(d), NEW k \in Key, NEW v \in OrNull(Value),
         NEW e, e = DictionarySet(d, k, v)
  PROVE  /\ Filled(e)
         /\ \A i \in Used(d) : e.key[i] = d.key[i]
         /\ k \in DOMAIN Contents(d) => e.n = d.n
         /\ k \notin DOMAIN Contents(d) => e.n = d.n + 1 /\ e.key[d.n] = k
<1>1. CASE Matches(d, k) # {}
  <2>1. Used(d) # {}
    BY <1>1, OneMatch
  <2>2. d.n > 0
    BY <2>1, SlotsOfGood DEF Filled
  <2>3. e = Replaced(d, FirstMatch(d, k), v)
    BY <1>1, <2>2 DEF DictionarySet
  <2>4. e.n = d.n /\ e.key = d.key /\ e.size = d.size
    BY <2>3 DEF Replaced, Good, TypeOf
  <2>5. Used(e) = Used(d)
    BY <2>4 DEF Used, Slots
  <2>6. k \in DOMAIN Contents(d)
    BY <1>1, OneMatch, ContentsOfGood
  <2>. QED BY <2>4, <2>5, <2>6 DEF Filled
<1>2. CASE Matches(d, k) = {}
  <2>1. PICK g : g = Grown(d)
    OBVIOUS
  <2>2. /\ Good(g) /\ g.n < g.size /\ Used(g) = Used(d)
        /\ \A i \in Used(d) : g.key[i] = d.key[i]
    BY <2>1, GrownIsGood
  <2>3. g.n = d.n
    BY <2>1 DEF Grown, Good, TypeOf
  <2>4. Filled(g)
    BY <2>2, <2>3 DEF Filled
  <2>5. FreeSlot(g) = g.n /\ g.n \in Slots(g) /\ g.key[g.n] = NULL
    BY <2>2, <2>4, NextSlot
  <2>6. e = Inserted(g, g.n, k, v)
    BY <1>2, <2>1, <2>5 DEF DictionarySet
  <2>7. e.n = g.n + 1 /\ e.key = [g.key EXCEPT ![g.n] = k] /\ e.size = g.size
    BY <2>2, <2>6 DEF Inserted, Good, TypeOf
  <2>8. g.key \in [Slots(g) -> OrNull(Key)] /\ k # NULL
    BY <2>2, DictionaryAssumption DEF Good, TypeOf
  <2>9. \A i \in Slots(g) : e.key[i] = IF i = g.n THEN k ELSE g.key[i]
    BY <2>7, <2>8
  <2>10. PICK n \in Nat : n = d.n /\ n = g.n
    BY <2>3, SlotsOfGood
  <2>11. Used(e) = Used(g) \cup {n}
    BY <2>5, <2>7, <2>8, <2>9, <2>10 DEF Used, Slots
  <2>12. Filled(e)
    BY <2>2, <2>4, <2>7, <2>10, <2>11 DEF Filled
  <2>13. \A i \in Used(d) : i \in Slots(g) /\ i # n
    <3>1. Used(d) = 0 .. n - 1
      BY <2>10 DEF Filled
    <3>2. Used(d) \subseteq Slots(g)
      BY <2>2 DEF Used
    <3>. QED BY <3>1, <3>2
  <2>14. \A i \in Used(d) : e.key[i] = d.key[i]
    BY <2>2, <2>9, <2>10, <2>13
  <2>15. k \notin DOMAIN Contents(d)
    BY <1>2, OneMatch, ContentsOfGood
  <2>. QED BY <2>5, <2>7, <2>9, <2>10, <2>12, <2>14, <2>15
<1>. QED BY <1>1, <1>2

-----------------------------------------------------------------------------
(* The slots hold the keys in the order in which the file defines them.    *)
InOrder(f, d) ==
  /\ Filled(d)
  /\ \A i, j \in Used(d) : i < j =>
       Min(Defining(f, d.key[i])) < Min(Defining(f, d.key[j]))

(* A least place among some.                                               *)
LEMMA LeastIn ==
  ASSUME NEW T, T \subseteq Nat, T # {}
  PROVE  Min(T) \in T /\ \A y \in T : Min(T) <= y
<1>1. PICK x \in T : \A y \in T : x <= y
  BY LeastElement
<1>2. Min(T) = x
  BY <1>1, LeastIs
<1>. QED BY <1>1, <1>2

(* A key that is defined first is put behind all others.                   *)
LEMMA DefinedInOrder ==
  ASSUME NEW f \in Seq(Lines), NEW l \in Lines, NEW g, g = Append(f, l), Defines(f, l),
         NEW k \in Key, k = DefinedAt(g, Len(f) + 1), NEW v \in OrNull(Value),
         NEW d, Good(d), InOrder(f, d), DOMAIN Contents(d) = DOMAIN Written(f),
         NEW e, e = DictionarySet(d, k, v)
  PROVE  InOrder(g, e)
<1>1. PICK n \in Nat : n = Len(f)
  OBVIOUS
<1>2. PICK m : m = d.n
  OBVIOUS
<1>3. m \in Nat /\ Used(d) = 0 .. m - 1 /\ Filled(d)
  BY <1>2, SlotsOfGood DEF InOrder, Filled
<1>4. /\ Filled(e)
      /\ \A i \in Used(d) : e.key[i] = d.key[i]
      /\ k \in DOMAIN Contents(d) => e.n = m
      /\ k \notin DOMAIN Contents(d) => e.n = m + 1 /\ e.key[m] = k
  BY <1>2, <1>3, SetFills
<1>5. ASSUME NEW j
      PROVE  /\ Defining(g, j) = Defining(f, j) \cup (IF j = k THEN {n + 1} ELSE {})
             /\ Defining(f, j) \subseteq 1 .. n
             /\ j \in DOMAIN Contents(d) => Defining(f, j) # {}
  <2>1. /\ Defining(g, j) = Defining(f, j) \cup (IF j = k THEN {n + 1} ELSE {})
        /\ Defining(f, j) \subseteq 1 .. n
    BY <1>1, DefinitionsGrow
  <2>2. DOMAIN Contents(d) = {DefinedAt(f, i) : i \in Definitions(f)}
    BY DEF Written
  <2>3. j \in DOMAIN Contents(d) => Defining(f, j) # {}
    BY <2>2 DEF Defining
  <2>. QED BY <2>1, <2>3
<1>6. ASSUME NEW j \in DOMAIN Contents(d)
      PROVE  Min(Defining(g, j)) = Min(Defining(f, j)) /\ Min(Defining(f, j)) \in 1 .. n
  <2>1. PICK T, S : T = Defining(f, j) /\ S = Defining(g, j)
    OBVIOUS
  <2>2. T \subseteq 1 .. n /\ T # {} /\ S \subseteq T \cup {n + 1} /\ T \subseteq S
    BY <1>5, <2>1
  <2>3. Min(T) \in T /\ \A y \in T : Min(T) <= y
    BY <2>2, LeastIn
  <2>4. PICK x \in T : x = Min(T)
    BY <2>3
  <2>5. x \in 1 .. n /\ \A y \in T : x <= y
    BY <2>2, <2>3, <2>4
  <2>6. x \in S /\ S \subseteq Nat
    BY <2>2
  <2>7. \A y \in S : x <= y
    <3>1. x <= n + 1
      BY <2>5
    <3>. QED BY <2>2, <2>5, <3>1
  <2>8. Min(S) = x
    BY <2>6, <2>7, LeastIs
  <2>. QED BY <2>1, <2>4, <2>5, <2>8
<1>7. ASSUME k \notin DOMAIN Contents(d) PROVE Min(Defining(g, k)) = n + 1
  <2>1. Defining(f, k) = {}
    <3>1. DOMAIN Contents(d) = {DefinedAt(f, i) : i \in Definitions(f)}
      BY DEF Written
    <3>. QED BY <1>7, <3>1 DEF Defining
  <2>2. Defining(g, k) = {n + 1}
    BY <1>5, <2>1
  <2>3. PICK T : T = {n + 1}
    OBVIOUS
  <2>4. n + 1 \in T /\ T \subseteq Nat /\ \A y \in T : n + 1 <= y
    BY <2>3
  <2>5. Min(T) = n + 1
    BY <2>4, LeastIs
  <2>. QED BY <2>2, <2>3, <2>5
<1>8. \A i \in Used(d) : e.key[i] = d.key[i] /\ d.key[i] \in DOMAIN Contents(d)
  BY <1>4, ContentsOfGood
<1>9. ASSUME NEW i \in Used(e), NEW j \in Used(e), i < j
      PROVE  Min(Defining(g, e.key[i])) < Min(Defining(g, e.key[j]))
  <2>1. Used(e) = 0 .. e.n - 1
    BY <1>4 DEF Filled
  <2>2. CASE k \in DOMAIN Contents(d)
    <3>1. i \in Used(d) /\ j \in Used(d)
      BY <1>3, <1>4, <1>9, <2>1, <2>2
    <3>2. Min(Defining(f, d.key[i])) < Min(Defining(f, d.key[j]))
      BY <1>9, <3>1 DEF InOrder
    <3>. QED BY <1>6, <1>8, <3>1, <3>2
  <2>3. CASE k \notin DOMAIN Contents(d)
    <3>1. i \in Used(d) /\ (j \in Used(d) \/ j = m)
      BY <1>3, <1>4, <1>9, <2>1, <2>3
    <3>2. CASE j \in Used(d)
      <4>1. Min(Defining(f, d.key[i])) < Min(Defining(f, d.key[j]))
        BY <1>9, <3>1, <3>2 DEF InOrder
      <4>. QED BY <1>6, <1>8, <3>1, <3>2, <4>1
    <3>3. CASE j = m
      <4>1. e.key[j] = k /\ Min(Defining(g, e.key[j])) = n + 1
        BY <1>4, <1>7, <2>3, <3>3
      <4>2. Min(Defining(g, e.key[i])) \in 1 .. n
        BY <1>6, <1>8, <3>1
      <4>. QED BY <4>1, <4>2
    <3>. QED BY <3>1, <3>2, <3>3
  <2>. QED BY <2>2, <2>3
<1>. QED BY <1>4, <1>9 DEF InOrder

-----------------------------------------------------------------------------
(* When a file is wrong, and how a line changes that.                      *)
SomeTooLong(f) == \E i \in DOMAIN f : TooLong(f[i])
Wrong(f) ==
  SomeTooLong(f) \/ \E i \in EndsWith(f, "LINE_ERROR") : \A j \in Definitions(f) : j < i

(* A file has a line too long when one of its lines is.                    *)
LEMMA LongGrows ==
  ASSUME NEW f \in Seq(Lines), NEW l \in Lines, NEW g, g = Append(f, l)
  PROVE  SomeTooLong(g) <=> SomeTooLong(f) \/ TooLong(l)
<1>1. PICK n \in Nat : n = Len(f)
  OBVIOUS
<1>2. /\ DOMAIN f = 1 .. n /\ DOMAIN g = 1 .. n + 1 /\ g[n + 1] = l
      /\ \A i \in 1 .. n : g[i] = f[i]
  BY <1>1, Appended
<1>3. n + 1 \in 1 .. n + 1 /\ \A i \in 1 .. n + 1 : i = n + 1 \/ i \in 1 .. n
  OBVIOUS
<1>4. \A i \in 1 .. n : i \in 1 .. n + 1
  OBVIOUS
<1>. QED BY <1>2, <1>3, <1>4, Zenon DEF SomeTooLong

(* A definition makes good what was wrong before, unless that was a line   *)
(* too long; an error after it makes the file wrong again.                 *)
LEMMA WrongGrows ==
  ASSUME NEW f \in Seq(Lines), NEW l \in Lines, NEW g, g = Append(f, l), ~ SomeTooLong(f)
  PROVE  Wrong(g) <=> TooLong(l) \/ EndsAs(f, l, "LINE_ERROR")
           \/ (Wrong(f) /\ ~ Defines(f, l))
<1>1. PICK n \in Nat : n = Len(f)
  OBVIOUS
<1>2. PICK E, F : E = EndsWith(f, "LINE_ERROR") /\ F = EndsWith(g, "LINE_ERROR")
  OBVIOUS
<1>3. PICK D, G : D = Definitions(f) /\ G = Definitions(g)
  OBVIOUS
<1>4. E \subseteq 1 .. n
        /\ F = E \cup (IF EndsAs(f, l, "LINE_ERROR") THEN {n + 1} ELSE {})
  BY <1>1, <1>2, EndsWithGrows
<1>5. D \subseteq 1 .. n /\ G = D \cup (IF Defines(f, l) THEN {n + 1} ELSE {})
  <2>1. D \subseteq 1 .. Len(f) /\ G = D \cup (IF Defines(f, l) THEN {Len(f) + 1} ELSE {})
    BY <1>3, DefinitionsGrow
  <2>. QED BY <1>1, <2>1
<1>6. /\ Wrong(f) <=> \E i \in E : \A j \in D : j < i
      /\ Wrong(g) <=> TooLong(l) \/ \E i \in F : \A j \in G : j < i
  BY <1>2, <1>3, LongGrows DEF Wrong
<1>7. EndsAs(f, l, "LINE_ERROR") => ~ Defines(f, l)
  BY DEF EndsAs, Defines
<1>8. CASE EndsAs(f, l, "LINE_ERROR")
  <2>1. n + 1 \in F /\ G = D
    BY <1>4, <1>5, <1>7, <1>8
  <2>2. \A j \in D : j < n + 1
    BY <1>5
  <2>. QED BY <1>6, <1>8, <2>1, <2>2
<1>9. CASE ~ EndsAs(f, l, "LINE_ERROR") /\ Defines(f, l)
  <2>1. F = E /\ n + 1 \in G
    BY <1>4, <1>5, <1>9
  <2>2. \A i \in E : ~ (n + 1 < i)
    BY <1>4
  <2>. QED BY <1>6, <1>9, <2>1, <2>2
<1>10. CASE ~ EndsAs(f, l, "LINE_ERROR") /\ ~ Defines(f, l)
  <2>1. F = E /\ G = D
    BY <1>4, <1>5, <1>10
  <2>. QED BY <1>6, <1>10, <2>1
<1>. QED BY <1>8, <1>9, <1>10

-----------------------------------------------------------------------------
(* What iniparser_load knows when it has read f.                           *)
Variables(p) ==
  /\ p = [dict |-> p.dict, full |-> p.full, section |-> p.section,
          errs |-> p.errs, stop |-> p.stop]
  /\ p.errs \in Nat /\ p.stop \in BOOLEAN

Loaded(f, d) == Good(d) /\ Contents(d) = Written(f) /\ InOrder(f, d)

Reading(f, p) ==
  /\ Variables(p) /\ Loaded(f, p.dict)
  /\ p.stop <=> SomeTooLong(f)
  /\ p.errs > 0 <=> Wrong(f)
  /\ ~ p.stop => p.full = Said(f) /\ p.section = LastSection(f)
  /\ LastSection(f) \in Headings \cup {<<>>}

(* A line without a definition changes nothing.                            *)
LEMMA LoadedStays ==
  ASSUME NEW f \in Seq(Lines), NEW l \in Lines, NEW g, g = Append(f, l), ~ Defines(f, l),
         NEW d, Loaded(f, d)
  PROVE  Loaded(g, d)
<1>1. /\ Written(g) = Written(f)
      /\ \A k : Defining(g, k) = Defining(f, k)
  BY NothingDefined
<1>2. InOrder(g, d)
  BY <1>1, Zenon DEF Loaded, InOrder
<1>. QED BY <1>1, <1>2, Zenon DEF Loaded

(* A definition changes the dictionary as it changes what is written.      *)
LEMMA LoadedGrows ==
  ASSUME NEW f \in Seq(Lines), NEW l \in Lines, NEW g, g = Append(f, l), Defines(f, l),
         NEW d, Loaded(f, d), NEW k \in Key, k = DefinedAt(g, Len(f) + 1),
         NEW v \in OrNull(Value), v = Line(f, l).value
  PROVE  Loaded(g, DictionarySet(d, k, v))
<1>1. PICK e : e = DictionarySet(d, k, v)
  OBVIOUS
<1>2. Good(d) /\ Contents(d) = Written(f) /\ InOrder(f, d)
  BY DEF Loaded
<1>3. Good(e) /\ Contents(e) = With(Contents(d), k, v)
  BY <1>1, <1>2, SetIsSet
<1>4. Written(g) = With(Written(f), k, v)
  <2>1. Written(g) = With(Written(f), k, Line(f, l).value)
    BY OneDefined
  <2>. QED BY <2>1, Zenon
<1>5. InOrder(g, e)
  BY <1>1, <1>2, DefinedInOrder
<1>6. Contents(e) = Written(g)
  BY <1>2, <1>3, <1>4
<1>. QED BY <1>1, <1>3, <1>5, <1>6 DEF Loaded

(* What a logical line gives is known.                                     *)
LEMMA LineIsKnown ==
  ASSUME NEW f \in Seq(Lines), NEW l \in Lines, Len(f) < MaxSteps
  PROVE  /\ Line(f, l).status = "LINE_SECTION" =>
              Line(f, l).key \in Headings /\ Line(f, l).key \in Key
                /\ Line(f, l).value = NULL
         /\ Line(f, l).status = "LINE_VALUE" =>
              /\ Line(f, l).value \in Value
              /\ \A s \in Headings \cup {<<>>} : SecKey(s, Line(f, l).key) \in Key
<1>1. PICK t : t = Said(f) \o Trimmed(l)
  OBVIOUS
<1>2. t \in Texts /\ Line(f, l) = IniparserLine(t)
  BY <1>1, TextIsKnown DEF Line
<1>3. IniparserLine(t).status = "LINE_SECTION" => IniparserLine(t).value = NULL
  BY DEF IniparserLine
<1>4. IniparserLine(t).status = "LINE_SECTION" => IniparserLine(t).key \in Headings
  BY <1>2 DEF Headings
<1>. QED BY <1>2, <1>3, <1>4, LinesAssumption

(* A mere newline is never too long.                                       *)
LEMMA EmptyIsShort == \A l \in Lines : l.text = <<>> /\ ~ l.more => ~ TooLong(l)
  BY IniFileAssumption DEF TooLong

(* A dictionary is changed by one call of dictionary_set, if at all.       *)
OneSet(d, e) == e = d \/ \E k \in Key, v \in OrNull(Value) : e = DictionarySet(d, k, v)

(* One turn of the loop in iniparser_load: the variables and the dictionary*)
(* are what they should be for the lines read so far.                      *)
LEMMA MoreRead ==
  ASSUME NEW f \in Seq(Lines), Len(f) < MaxSteps, NEW l \in Lines, NEW g,
           g = Append(f, l),
         NEW p, Reading(f, p), ~ p.stop, NEW q, q = LoadLine(p, l)
  PROVE  Reading(g, q) /\ OneSet(p.dict, q.dict)
<1>1. /\ p = [dict |-> p.dict, full |-> p.full, section |-> p.section, errs |-> p.errs,
              stop |-> p.stop]
      /\ p.stop \in BOOLEAN /\ ~ p.stop /\ p.errs \in Nat /\ Loaded(f, p.dict)
           /\ ~ SomeTooLong(f) /\ (p.errs > 0 <=> Wrong(f))
      /\ p.full = Said(f) /\ p.section = LastSection(f)
           /\ LastSection(f) \in Headings \cup {<<>>}
  BY DEF Reading, Variables
<1>2. /\ SomeTooLong(g) <=> TooLong(l)
      /\ Wrong(g) <=> TooLong(l) \/ EndsAs(f, l, "LINE_ERROR")
           \/ (Wrong(f) /\ ~ Defines(f, l))
  BY <1>1, LongGrows, WrongGrows
<1>3. /\ Said(f) \in TEXT
      /\ Said(g) = IF Finishes(l) THEN <<>> ELSE Said(f) \o Trimmed(l)
      /\ LastSection(g) = IF EndsAs(f, l, "LINE_SECTION") THEN Line(f, l).key
           ELSE LastSection(f)
  BY LinesStay, DefinedStays
<1>4. LastSection(g) \in Headings \cup {<<>>}
  BY <1>1, <1>3, LineIsKnown DEF EndsAs
<1>5. CASE l.text = <<>> /\ ~ l.more
  <2>1. q = p /\ ~ Finishes(l) /\ ~ TooLong(l)
    BY <1>5, EmptyIsShort DEF LoadLine, Finishes
  <2>2. Said(g) = Said(f)
    <3>1. Trimmed(l) = <<>>
      BY <1>5, TrimmedIsText
    <3>. QED BY <1>3, <2>1, <3>1 DEF TEXT
  <2>3. ~ EndsAs(f, l, "LINE_ERROR") /\ ~ EndsAs(f, l, "LINE_SECTION") /\ ~ Defines(f, l)
    BY <2>1 DEF EndsAs, Defines
  <2>4. Loaded(g, p.dict)
    BY <1>1, <2>3, LoadedStays
  <2>. QED BY <1>1, <1>2, <1>3, <1>4, <2>1, <2>2, <2>3, <2>4
             DEF Reading, Variables, OneSet
<1>6. CASE ~ (l.text = <<>> /\ ~ l.more) /\ TooLong(l)
  <2>1. q = [dict |-> p.dict, full |-> p.full, section |-> p.section,
             errs |-> p.errs + 1, stop |-> TRUE]
    BY <1>1, <1>6 DEF LoadLine
  <2>2. ~ Defines(f, l)
    BY <1>6 DEF EndsAs, Defines
  <2>3. Loaded(g, p.dict)
    BY <1>1, <2>2, LoadedStays
  <2>4. Wrong(g) /\ SomeTooLong(g)
    BY <1>2, <1>6
  <2>. QED BY <1>1, <1>4, <2>1, <2>3, <2>4 DEF Reading, Variables, OneSet
<1>7. CASE l.more /\ ~ TooLong(l)
  <2>1. q = [dict |-> p.dict, full |-> p.full \o Trimmed(l), section |-> p.section,
             errs |-> p.errs, stop |-> p.stop]
    BY <1>1, <1>7 DEF LoadLine
  <2>2. ~ Finishes(l)
    BY <1>7 DEF Finishes
  <2>3. ~ EndsAs(f, l, "LINE_ERROR") /\ ~ EndsAs(f, l, "LINE_SECTION") /\ ~ Defines(f, l)
    BY <2>2 DEF EndsAs, Defines
  <2>4. Loaded(g, p.dict)
    BY <1>1, <2>3, LoadedStays
  <2>. QED BY <1>1, <1>2, <1>3, <1>4, <1>7, <2>1, <2>2, <2>3, <2>4
             DEF Reading, Variables, OneSet
<1>8. CASE Finishes(l) /\ ~ TooLong(l)
  <2>1. PICK r : r = Line(f, l)
    OBVIOUS
  <2>2. PICK p2 : p2 = [dict |-> p.dict, full |-> <<>>, section |-> p.section,
                        errs |-> p.errs, stop |-> p.stop]
    OBVIOUS
  <2>3. q = EndOfLogicalLine(p2, r)
    <3>1. [p EXCEPT !.full = <<>>] = p2
      BY <1>1, <2>2
    <3>2. q = EndOfLogicalLine([p EXCEPT !.full = <<>>],
                               IniparserLine(p.full \o Trimmed(l)))
      BY <1>8, Zenon DEF LoadLine, Finishes
    <3>. QED BY <1>1, <2>1, <3>1, <3>2, Zenon DEF Line
  <2>4. /\ \A st : EndsAs(f, l, st) <=> r.status = st
        /\ Defines(f, l) <=> r.status \in {"LINE_SECTION", "LINE_VALUE"}
    BY <1>8, <2>1 DEF EndsAs, Defines
  <2>5. Said(g) = <<>>
    BY <1>3, <1>8
  <2>6. PICK k : k = DefinedAt(g, Len(f) + 1)
    OBVIOUS
  <2>7. Defines(f, l) => k = IF r.status = "LINE_SECTION" THEN r.key
          ELSE SecKey(LastSection(f), r.key)
    BY <2>1, <2>6, OneDefined
  <2>8. CASE r.status = "LINE_SECTION"
    <3>1. Define(p2, r.key, NULL) =
            [dict |-> DictionarySet(p.dict, r.key, NULL), full |-> <<>>,
              section |-> p.section, errs |-> 0, stop |-> p.stop]
      <4>1. PICK e : e = DictionarySet(p.dict, r.key, NULL)
        OBVIOUS
      <4>2. DictionarySet(p2.dict, r.key, NULL) = e
        BY <2>2, <4>1
      <4>3. Define(p2, r.key, NULL) = [p2 EXCEPT !.dict = e, !.errs = 0]
        BY <4>2, Zenon DEF Define
      <4>. QED BY <2>2, <4>1, <4>3
    <3>2. q = [dict |-> DictionarySet(p.dict, r.key, NULL), full |-> <<>>,
               section |-> r.key, errs |-> 0, stop |-> p.stop]
      <4>1. q = [Define(p2, r.key, NULL) EXCEPT !.section = r.key]
        BY <2>3, <2>8, Zenon DEF EndOfLogicalLine
      <4>. QED BY <3>1, <4>1
    <3>3. r.key \in Key /\ r.value = NULL /\ NULL \in OrNull(Value) /\ k = r.key
            /\ Defines(f, l)
      BY <2>1, <2>4, <2>7, <2>8, LineIsKnown DEF OrNull
    <3>4. Loaded(g, DictionarySet(p.dict, r.key, NULL))
      BY <1>1, <2>1, <2>6, <3>3, LoadedGrows
    <3>5. ~ Wrong(g) /\ ~ SomeTooLong(g)
      <4>1. ~ EndsAs(f, l, "LINE_ERROR")
        BY <2>4, <2>8
      <4>. QED BY <1>2, <1>8, <3>3, <4>1
    <3>6. LastSection(g) = r.key
      BY <1>3, <2>1, <2>4, <2>8
    <3>. QED BY <1>4, <2>5, <3>2, <3>3, <3>4, <3>5, <3>6 DEF Reading, Variables, OneSet
  <2>9. CASE r.status = "LINE_VALUE"
    <3>1. q = [dict |-> DictionarySet(p.dict, SecKey(p.section, r.key), r.value),
               full |-> <<>>, section |-> p.section, errs |-> 0, stop |-> p.stop]
      <4>1. q = Define(p2, SecKey(p2.section, r.key), r.value)
        BY <2>3, <2>9 DEF EndOfLogicalLine
      <4>. QED BY <2>2, <4>1 DEF Define
    <3>2. k \in Key /\ k = SecKey(p.section, r.key) /\ r.value \in OrNull(Value)
            /\ Defines(f, l)
      BY <1>1, <2>1, <2>4, <2>7, <2>9, LineIsKnown DEF OrNull
    <3>3. Loaded(g, DictionarySet(p.dict, k, r.value))
      BY <1>1, <2>1, <2>6, <3>2, LoadedGrows
    <3>4. ~ Wrong(g) /\ ~ SomeTooLong(g) /\ LastSection(g) = LastSection(f)
      <4>1. ~ EndsAs(f, l, "LINE_ERROR") /\ ~ EndsAs(f, l, "LINE_SECTION")
        BY <2>4, <2>9
      <4>. QED BY <1>2, <1>3, <1>8, <3>2, <4>1
    <3>. QED BY <1>1, <1>4, <2>5, <3>1, <3>2, <3>3, <3>4 DEF Reading, Variables, OneSet
  <2>10. CASE r.status = "LINE_ERROR"
    <3>1. q = [dict |-> p.dict, full |-> <<>>, section |-> p.section,
               errs |-> p.errs + 1, stop |-> p.stop]
      BY <2>2, <2>3, <2>10 DEF EndOfLogicalLine
    <3>2. EndsAs(f, l, "LINE_ERROR") /\ ~ EndsAs(f, l, "LINE_SECTION") /\ ~ Defines(f, l)
      BY <2>4, <2>10
    <3>3. Loaded(g, p.dict)
      BY <1>1, <3>2, LoadedStays
    <3>. QED BY <1>1, <1>2, <1>3, <1>4, <1>8, <2>5, <3>1, <3>2, <3>3
               DEF Reading, Variables, OneSet
  <2>11. CASE r.status \notin {"LINE_SECTION", "LINE_VALUE", "LINE_ERROR"}
    <3>1. q = p2
      BY <2>3, <2>11 DEF EndOfLogicalLine
    <3>2. ~ EndsAs(f, l, "LINE_ERROR") /\ ~ EndsAs(f, l, "LINE_SECTION")
            /\ ~ Defines(f, l)
      BY <2>4, <2>11
    <3>3. Loaded(g, p.dict)
      BY <1>1, <3>2, LoadedStays
    <3>. QED BY <1>1, <1>2, <1>3, <1>4, <1>8, <2>2, <2>5, <3>1, <3>2, <3>3
               DEF Reading, Variables, OneSet
  <2>. QED BY <2>8, <2>9, <2>10, <2>11
<1>9. ~ (l.text = <<>> /\ ~ l.more) /\ ~ TooLong(l) => l.more \/ Finishes(l)
  BY DEF Finishes
<1>. QED BY <1>5, <1>6, <1>7, <1>8, <1>9

-----------------------------------------------------------------------------
(* Sets of slots are finite sets of numbers.                               *)
LEMMA Bounded ==
  ASSUME NEW N \in Nat, NEW S, S \subseteq 0 .. N - 1
  PROVE  IsFiniteSet(S) /\ \A j \in S : j \in Nat /\ j < N
<1>1. IsFiniteSet(0 .. N - 1)
  BY FS_Interval
<1>2. IsFiniteSet(S)
  BY <1>1, FS_Subset
<1>3. \A j \in S : j \in Nat /\ j < N
  OBVIOUS
<1>. QED BY <1>2, <1>3

(* A set of slots is numbered from 0 on without a gap.                     *)
LEMMA Numbered ==
  ASSUME NEW N \in Nat, NEW S, S \subseteq 0 .. N - 1, NEW n \in 0 .. Cardinality(S) - 1
  PROVE  \E i \in S : Cardinality({j \in S : j < i}) = n
<1>. DEFINE C(x) == {j \in S : j < x}
            T == {x \in Nat : Cardinality(C(x)) > n}
<1>1. IsFiniteSet(S) /\ \A j \in S : j \in Nat /\ j < N
  BY Bounded
<1>2. \A x \in Nat : IsFiniteSet(C(x)) /\ Cardinality(C(x)) \in Nat
  <2>1. \A x \in Nat : C(x) \subseteq S
    OBVIOUS
  <2>. QED BY <1>1, <2>1, FS_Subset, FS_CardinalityType
<1>3. Cardinality(S) \in Nat /\ n \in Nat /\ n < Cardinality(S)
  BY <1>1, FS_CardinalityType
<1>4. C(N) = S /\ C(0) = {}
  <2>1. \A j \in S : j < N /\ ~ (j < 0)
    BY <1>1
  <2>. QED BY <2>1
<1>5. N \in T
  BY <1>3, <1>4
<1>6. PICK x \in T : \A y \in T : x <= y
  <2>1. T \subseteq Nat
    OBVIOUS
  <2>. HIDE DEF T
  <2>. QED BY <1>5, <2>1, LeastElement
<1>7. x # 0
  <2>1. 0 \notin T
    BY <1>3, <1>4, FS_EmptySet
  <2>. QED BY <2>1
<1>8. PICK y \in Nat : x = y + 1
  BY <1>7
<1>9. y \notin T
  BY <1>6, <1>8
<1>10. Cardinality(C(y)) <= n /\ Cardinality(C(y + 1)) > n
  <2>1. Cardinality(C(y + 1)) > n /\ ~ (Cardinality(C(y)) > n)
    BY <1>8, <1>9
  <2>. HIDE DEF C
  <2>. QED BY <1>2, <1>3, <2>1
<1>11. C(y + 1) = IF y \in S THEN C(y) \cup {y} ELSE C(y)
  <2>1. \A j \in S : j < y + 1 <=> j < y \/ j = y
    BY <1>1
  <2>2. \A j : j \in C(y + 1) <=> j \in C(y) \/ (j = y /\ y \in S)
    BY <2>1
  <2>. HIDE DEF C
  <2>. QED BY <2>2
<1>12. y \in S
  <2>. HIDE DEF C
  <2>. QED BY <1>2, <1>3, <1>10, <1>11
<1>13. Cardinality(C(y + 1)) = Cardinality(C(y)) + 1
  <2>1. y \notin C(y)
    OBVIOUS
  <2>. HIDE DEF C
  <2>. QED BY <1>2, <1>11, <1>12, <2>1, FS_AddElement
<1>14. Cardinality(C(y)) = n
  <2>. HIDE DEF C
  <2>. QED BY <1>2, <1>3, <1>10, <1>13
<1>. QED BY <1>12, <1>14

(* A higher number is a later slot.                                        *)
LEMMA NumbersGrow ==
  ASSUME NEW N \in Nat, NEW S, S \subseteq 0 .. N - 1, NEW i \in S, NEW k \in S,
         Cardinality({j \in S : j < i}) < Cardinality({j \in S : j < k})
  PROVE  i < k
<1>1. SUFFICES ASSUME k <= i PROVE FALSE
  OBVIOUS
<1>2. PICK A, B : A = {j \in S : j < k} /\ B = {j \in S : j < i}
  OBVIOUS
<1>3. IsFiniteSet(S) /\ \A j \in S : j \in Nat
  BY Bounded
<1>4. A \subseteq B /\ B \subseteq S
  <2>1. \A j \in S : j < k => j < i
    BY <1>1, <1>3
  <2>. QED BY <1>2, <2>1
<1>5. IsFiniteSet(B) /\ Cardinality(A) <= Cardinality(B) /\ Cardinality(A) \in Nat
        /\ Cardinality(B) \in Nat
  BY <1>3, <1>4, FS_Subset, FS_CardinalityType
<1>. QED BY <1>2, <1>5

(* The section with the number n.                                          *)
LEMMA SectionSlots ==
  ASSUME NEW d, Good(d), NEW n \in 0 .. IniparserGetNSec(d) - 1
  PROVE  \E i \in Used(d) : /\ i \in Sections(d) /\ FoundBefore(d, i) = n
                            /\ IniparserGetSecName(d, n) = d.key[i]
<1>1. d.size \in Nat /\ Sections(d) \subseteq 0 .. d.size - 1
        /\ Sections(d) \subseteq Used(d)
  BY SlotsOfGood DEF Sections
<1>2. \E i \in Sections(d) : FoundBefore(d, i) = n
  <2>1. n \in 0 .. Cardinality(Sections(d)) - 1
    BY DEF IniparserGetNSec
  <2>2. \E i \in Sections(d) : Cardinality({j \in Sections(d) : j < i}) = n
    BY <1>1, <2>1, Numbered
  <2>. QED BY <2>2, Zenon DEF FoundBefore
<1>3. PICK i : i = CHOOSE x \in Sections(d) : FoundBefore(d, x) = n
  OBVIOUS
<1>4. i \in Sections(d) /\ FoundBefore(d, i) = n
  BY <1>2, <1>3
<1>5. IniparserGetSecName(d, n) = d.key[i]
  BY <1>3 DEF IniparserGetSecName
<1>. QED BY <1>1, <1>4, <1>5

(* In a dictionary that is in order the section numbers are, too.          *)
LEMMA SectionsInOrder ==
  ASSUME NEW f, NEW d, Good(d), InOrder(f, d),
         NEW n \in 0 .. IniparserGetNSec(d) - 1, NEW m \in 0 .. IniparserGetNSec(d) - 1,
           n < m
  PROVE  Min(Defining(f, IniparserGetSecName(d, n)))
           < Min(Defining(f, IniparserGetSecName(d, m)))
<1>1. PICK i \in Used(d) : /\ i \in Sections(d) /\ FoundBefore(d, i) = n
                           /\ IniparserGetSecName(d, n) = d.key[i]
  BY SectionSlots
<1>2. PICK k \in Used(d) : /\ k \in Sections(d) /\ FoundBefore(d, k) = m
                           /\ IniparserGetSecName(d, m) = d.key[k]
  BY SectionSlots
<1>3. d.size \in Nat /\ Sections(d) \subseteq 0 .. d.size - 1
  BY SlotsOfGood DEF Sections
<1>4. i < k
  <2>1. Cardinality({j \in Sections(d) : j < i})
          < Cardinality({j \in Sections(d) : j < k})
    BY <1>1, <1>2 DEF FoundBefore
  <2>. QED BY <1>1, <1>2, <1>3, <2>1, NumbersGrow
<1>. QED BY <1>1, <1>2, <1>4 DEF InOrder

-----------------------------------------------------------------------------
(* The invariant of loading, using and freeing.                            *)
State(d, p, f, ph, e) ==
  /\ f \in Seq(Lines) /\ Len(f) <= MaxSteps /\ Good(d) /\ e \in Nat
  /\ ph = "loading" => e = 0 /\ Reading(f, [p EXCEPT !.dict = d]) /\ Variables(p)
  /\ ph = "loaded" /\ e = 0 => Loaded(f, d)
  /\ ph \in {"loaded", "refused"} => (ph = "refused" <=> Wrong(f))

FileInv == State(dict, parser, file, phase, edits)

(* An empty file and the variables at the start.                           *)
LEMMA NothingRead == Reading(<<>>, LoadStart)
<1>1. PICK f : f = <<>>
  OBVIOUS
<1>2. f \in Seq(Lines) /\ Len(f) = 0 /\ DOMAIN f = {}
  BY <1>1
<1>3. PICK d : d = DictionaryNew(0)
  OBVIOUS
<1>4. Good(d) /\ Used(d) = {} /\ d.n = 0
  <2>1. d.n = 0
    BY <1>3 DEF DictionaryNew
  <2>. QED BY <1>3, <2>1, NewIsGood
<1>5. LoadStart = [dict |-> d, full |-> <<>>, section |-> <<>>, errs |-> 0,
                   stop |-> FALSE]
  BY <1>3 DEF LoadStart
<1>6. Ends(f) = {} /\ ~ SomeTooLong(f)
  BY <1>2 DEF Ends, SomeTooLong
<1>7. (\A st : EndsWith(f, st) = {}) /\ Definitions(f) = {}
  BY <1>6 DEF EndsWith, Definitions
<1>8. Said(f) = <<>>
  <2>1. PICK T : T = {0} \cup Ends(f)
    OBVIOUS
  <2>2. 0 \in T /\ T \subseteq Nat /\ \A y \in T : y <= 0
    BY <1>6, <2>1
  <2>3. Max(T) = 0
    BY <2>2, GreatestIs
  <2>4. After(f) = 1
    BY <2>1, <2>3 DEF After
  <2>5. PICK s : s = SubSeq(f, 1, 0)
    OBVIOUS
  <2>6. s \in Seq(Lines) /\ Len(s) = 0
    BY <1>2, <2>5
  <2>7. Joined(s) = <<>>
    <3>1. CASE Lines # {}
      BY <2>6, <3>1, JoinedAppend
    <3>2. CASE Lines = {}
      <4>1. s = <<>>
        BY <2>6
      <4>2. [n \in DOMAIN s |-> Trimmed(s[n])] = <<>>
        BY <4>1
      <4>3. Joined(s) = FlattenSeq(<<>>)
        BY <4>2, Zenon DEF Joined
      <4>4. <<>> \in Seq(TEXT) /\ <<>> \in TEXT
        BY DEF TEXT
      <4>. QED BY <4>3, <4>4, FlattenAppend
    <3>. QED BY <3>1, <3>2
  <2>. QED BY <1>2, <2>4, <2>5, <2>7 DEF Said
<1>9. LastSection(f) = <<>>
  BY <1>7 DEF LastSection
<1>10. Contents(d) = Written(f)
  <2>1. DOMAIN Contents(d) = {} /\ DOMAIN Written(f) = {}
    BY <1>4, <1>7 DEF Contents, Written
  <2>. QED BY <2>1 DEF Contents, Written
<1>11. InOrder(f, d)
  <2>1. 0 .. 0 - 1 = {}
    OBVIOUS
  <2>. QED BY <1>4, <2>1 DEF InOrder, Filled
<1>12. ~ Wrong(f)
  BY <1>6, <1>7 DEF Wrong
<1>. QED BY <1>1, <1>4, <1>5, <1>6, <1>8, <1>9, <1>10, <1>11, <1>12
           DEF Reading, Variables, Loaded

(* The invariant holds at first, and every step keeps it and is a step of  *)
(* the dictionary.                                                         *)
LEMMA FileInit == Init => FileInv
<1>. SUFFICES ASSUME Init PROVE State(dict, parser, file, phase, edits)
  BY DEF FileInv
<1>1. dict = LoadStart.dict /\ parser = [LoadStart EXCEPT !.dict = NULL] /\ file = <<>>
        /\ phase = "loading" /\ edits = 0
  BY DEF Init
<1>2. Good(LoadStart.dict)
  BY NewIsGood DEF LoadStart
<1>3. [[LoadStart EXCEPT !.dict = NULL] EXCEPT !.dict = LoadStart.dict] = LoadStart
  BY DEF LoadStart
<1>4. Reading(file, [parser EXCEPT !.dict = dict])
  BY <1>1, <1>3, NothingRead
<1>5. Variables(parser)
  BY <1>1 DEF LoadStart, Variables
<1>6. file \in Seq(Lines) /\ Len(file) <= MaxSteps
  BY <1>1, IniFileAssumption
<1>. QED BY <1>1, <1>2, <1>4, <1>5, <1>6 DEF State

LEMMA LineRead ==
  ASSUME FileInv, NEW l \in Lines, ReadLine(l)
  PROVE  State(dict', parser', file', phase', edits') /\ OneSet(dict, dict')
<1>1. /\ file \in Seq(Lines) /\ Len(file) < MaxSteps /\ Good(dict) /\ phase = "loading"
           /\ edits = 0
      /\ Reading(file, [parser EXCEPT !.dict = dict]) /\ Variables(parser)
           /\ ~ parser.stop
  BY DEF FileInv, State, ReadLine
<1>2. PICK p : p = [parser EXCEPT !.dict = dict]
  OBVIOUS
<1>3. PICK q : q = LoadLine(p, l)
  OBVIOUS
<1>4. /\ dict' = q.dict /\ parser' = [q EXCEPT !.dict = NULL] /\ file' = Append(file, l)
      /\ phase' = phase /\ edits' = edits
  BY <1>2, <1>3 DEF ReadLine
<1>5. p.dict = dict /\ (p.stop <=> parser.stop)
  BY <1>1, <1>2 DEF Variables
<1>6. PICK f, g : f = file /\ g = Append(f, l)
  OBVIOUS
<1>7. Reading(g, q) /\ OneSet(p.dict, q.dict)
  BY <1>1, <1>2, <1>3, <1>5, <1>6, MoreRead
<1>8. PICK r, d : r = [q EXCEPT !.dict = NULL] /\ d = q.dict
  OBVIOUS
<1>9. [r EXCEPT !.dict = d] = q /\ Variables(r)
  BY <1>7, <1>8 DEF Reading, Variables
<1>10. g \in Seq(Lines) /\ Len(g) <= MaxSteps
  BY <1>1, <1>6, IniFileAssumption
<1>11. Good(d)
  BY <1>7, <1>8 DEF Reading, Loaded
<1>12. State(d, r, g, "loading", 0)
  BY <1>7, <1>9, <1>10, <1>11 DEF State
<1>. QED BY <1>1, <1>4, <1>5, <1>6, <1>7, <1>8, <1>12

LEMMA FileNext ==
  ASSUME FileInv, [Next]_vars
  PROVE  State(dict', parser', file', phase', edits') /\ [DictNext]_dict
<1>1. /\ file \in Seq(Lines) /\ Len(file) <= MaxSteps /\ Good(dict) /\ edits \in Nat
      /\ phase = "loaded" /\ edits = 0 => Loaded(file, dict)
      /\ phase = "loaded" => ~ Wrong(file)
      /\ phase = "loading" =>
           edits = 0 /\ Reading(file, [parser EXCEPT !.dict = dict]) /\ Variables(parser)
  BY DEF FileInv, State
<1>2. ASSUME NEW l \in Lines, ReadLine(l)
               PROVE State(dict', parser', file', phase', edits') /\ [DictNext]_dict
  <2>1. State(dict', parser', file', phase', edits') /\ OneSet(dict, dict')
    BY <1>2, LineRead
  <2>. QED BY <2>1 DEF OneSet, DictNext, DictSet
<1>3. CASE EndLoad
  <2>1. phase = "loading" /\ edits = 0 /\ file' = file /\ edits' = edits
    BY <1>1, <1>3 DEF EndLoad
  <2>2. Loaded(file, dict) /\ (parser.errs > 0 <=> Wrong(file))
    <3>1. PICK p : p = [parser EXCEPT !.dict = dict]
      OBVIOUS
    <3>2. Reading(file, p) /\ p.dict = dict /\ p.errs = parser.errs
      BY <1>1, <2>1, <3>1 DEF Variables
    <3>. QED BY <3>2 DEF Reading
  <2>3. CASE parser.errs > 0
    <3>1. phase' = "refused" /\ dict' = DictionaryNew(0)
      BY <1>3, <2>3 DEF EndLoad
    <3>. QED BY <1>1, <2>1, <2>2, <2>3, <3>1, NewIsGood DEF State, DictNext, DictDelete
  <2>4. CASE ~ (parser.errs > 0)
    <3>1. phase' = "loaded" /\ dict' = dict
      BY <1>3, <2>4 DEF EndLoad
    <3>. QED BY <1>1, <2>1, <2>2, <2>4, <3>1 DEF State
  <2>. QED BY <2>3, <2>4
<1>4. ASSUME NEW d, Edit(d), Good(d) PROVE State(dict', parser', file', phase', edits')
  <2>1. /\ phase = "loaded" /\ dict' = d /\ edits' = edits + 1 /\ file' = file
             /\ phase' = phase
    BY <1>4 DEF Edit
  <2>. QED BY <1>1, <1>4, <2>1 DEF State
<1>5. ASSUME NEW k \in EditKeys, NEW v \in EditValues, IniparserSet(k, v)
      PROVE  State(dict', parser', file', phase', edits') /\ [DictNext]_dict
  <2>1. k \in Key /\ v \in OrNull(Value)
    BY IniFileAssumption
  <2>2. PICK d : d = DictionarySet(dict, k, v)
    OBVIOUS
  <2>3. Good(d)
    BY <1>1, <2>1, <2>2, SetIsSet
  <2>4. Edit(d)
    BY <1>5, <2>2 DEF IniparserSet, Strlwc
  <2>5. DictSet(k, v)
    BY <2>2, <2>4 DEF Edit, DictSet
  <2>. QED BY <1>4, <2>1, <2>3, <2>4, <2>5 DEF DictNext
<1>6. ASSUME NEW k \in EditKeys, IniparserUnset(k)
      PROVE  State(dict', parser', file', phase', edits') /\ [DictNext]_dict
  <2>1. k \in Key
    BY IniFileAssumption
  <2>2. PICK d : d = DictionaryUnset(dict, k)
    OBVIOUS
  <2>3. Good(d)
    BY <1>1, <2>1, <2>2, UnsetIsUnset
  <2>4. Edit(d)
    BY <1>6, <2>2 DEF IniparserUnset, Strlwc
  <2>5. DictUnset(k)
    BY <2>2, <2>4 DEF Edit, DictUnset
  <2>. QED BY <1>4, <2>1, <2>3, <2>4, <2>5 DEF DictNext
<1>7. CASE IniparserFreedict
  <2>1. dict' = DictionaryNew(0) /\ phase' = "freed" /\ file' = file /\ edits' = edits
    BY <1>7 DEF IniparserFreedict
  <2>. QED BY <1>1, <2>1, NewIsGood DEF State, DictNext, DictDelete
<1>8. CASE UNCHANGED vars
  BY <1>8 DEF FileInv, vars
<1>. QED BY <1>2, <1>3, <1>5, <1>6, <1>7, <1>8 DEF Next

LEMMA FileInvariant == Spec => []FileInv
<1>1. FileInv /\ [Next]_vars => FileInv'
  <2>. SUFFICES ASSUME FileInv, [Next]_vars
                         PROVE State(dict', parser', file', phase', edits')
    BY DEF FileInv
  <2>. QED BY FileNext
<1>. QED BY <1>1, FileInit, PTL DEF Spec

(* iniparser.c touches the dictionary through dictionary.c only: every     *)
(* behaviour of a file is one of a dictionary.                             *)
THEOREM UsesDictionary == Spec => DictSpec
<1>1. Init => DictInit
  BY DEF Init, DictInit, LoadStart
<1>2. FileInv /\ [Next]_vars => [DictNext]_dict
  BY FileNext
<1>. QED BY <1>1, <1>2, FileInvariant, PTL DEF Spec, DictSpec

(* While a file is loaded, changed and freed, each key is in one slot, with*)
(* its hash beside it.                                                     *)
THEOREM FileKeysInOneSlot == Spec => []OneSlotPerKey
<1>1. DictionaryOK /\ CountIsRight /\ OneSlotPerKey => OneSlotPerKey
  OBVIOUS
<1>. QED BY <1>1, UsesDictionary, DictionaryInvariant, PTL

(* The dictionary of a file behaves as a map all the time: loading,        *)
(* iniparser_set and iniparser_unset set and remove keys, one at a time.   *)
THEOREM FileImplementsMap == Spec => ImplementsMap
BY UsesDictionary, DictionaryImplementsMap

(* A file that was accepted is loaded as it is written: each key has the   *)
(* value that its last definition gives it, and there are no others.       *)
THEOREM LoadsWhatIsWritten == Spec => []LoadedAsWritten
<1>1. FileInv => LoadedAsWritten
  BY DEF FileInv, State, Loaded, LoadedAsWritten
<1>. QED BY <1>1, FileInvariant, PTL

(* iniparser_load refuses a file exactly when a line is too long or the    *)
(* last wrong line comes after the last definition.                        *)
THEOREM RefusesForLastError == Spec => []RefusedForLastError
<1>1. FileInv => RefusedForLastError
  BY DEF FileInv, State, Wrong, SomeTooLong, RefusedForLastError
<1>. QED BY <1>1, FileInvariant, PTL

(* iniparser_getsecname numbers the sections in the order in which the file*)
(* names them first, which is the order that vt_loadAction relies on.      *)
THEOREM SectionsKeepFileOrder == Spec => []SectionsInFileOrder
<1>1. FileInv => SectionsInFileOrder
  <2>. SUFFICES ASSUME FileInv, phase = "loaded", edits = 0,
                       NEW n \in 0 .. IniparserGetNSec(dict) - 1,
                       NEW m \in 0 .. IniparserGetNSec(dict) - 1, n < m
                PROVE  Min(Defining(file, IniparserGetSecName(dict, n)))
                         < Min(Defining(file, IniparserGetSecName(dict, m)))
    BY DEF SectionsInFileOrder
  <2>1. Good(dict) /\ InOrder(file, dict)
    BY DEF FileInv, State, Loaded
  <2>. QED BY <2>1, SectionsInOrder
<1>. QED BY <1>1, FileInvariant, PTL

===============================================================================
