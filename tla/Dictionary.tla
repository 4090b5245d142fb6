------------------------------ MODULE Dictionary ------------------------------
(***************************************************************************)
(* contrib/iniparser/dictionary.c: an open list of slots, searched from    *)
(* the first to the last, that doubles when every slot is in use.  A free  *)
(* slot is one whose key is NULL; removed keys leave holes, so the number  *)
(* of keys, n, says how many slots are used and not which.  Out of memory  *)
(* is not modelled.                                                        *)
(***************************************************************************)
EXTENDS Integers, Sequences, FiniteSets

CONSTANTS
  Key,         \* strings used as keys
  Value,       \* strings used as values
  NULL,        \* the null pointer: a free slot, or a key without a value
  Hash(_),     \* dictionary_hash; different keys may have the same hash
  DictMinSz    \* DICTMINSZ, the smallest size of a dictionary

ASSUME DictionaryAssumption ==
  /\ NULL \notin Key \cup Value
  /\ \A k \in Key : Hash(k) \in Nat
  /\ DictMinSz \in Nat \ {0}

VARIABLE dict

OrNull(S) == S \cup {NULL}

(* The indices of d->key, d->val and d->hash.                              *)
Slots(d) == 0 .. d.size - 1

Used(d) == {i \in Slots(d) : d.key[i] # NULL}

DictionaryNew(size) ==
  LET sz == IF size < DictMinSz THEN DictMinSz ELSE size
  IN  [size |-> sz, n |-> 0,
       key |-> [i \in 0 .. sz - 1 |-> NULL],
       val |-> [i \in 0 .. sz - 1 |-> NULL],
       hash |-> [i \in 0 .. sz - 1 |-> 0]]

(* The slots at which the search of get, set and unset compares equal, and *)
(* the first of them, where it ends.                                       *)
Matches(d, k) == {i \in Used(d) : d.hash[i] = Hash(k) /\ d.key[i] = k}

FirstMatch(d, k) ==
  CHOOSE i \in Matches(d, k) : \A j \in Matches(d, k) : i <= j

DictionaryGet(d, k, def) ==
  IF Matches(d, k) = {} THEN def ELSE d.val[FirstMatch(d, k)]

(* The new half of the memory is zeroed.                                   *)
MemDouble(f, size, zero) ==
  [i \in 0 .. 2 * size - 1 |-> IF i < size THEN f[i] ELSE zero]

Grown(d) ==
  IF d.n # d.size THEN d
  ELSE [d EXCEPT !.size = 2 * d.size,
                 !.key = MemDouble(d.key, d.size, NULL),
                 !.val = MemDouble(d.val, d.size, NULL),
                 !.hash = MemDouble(d.hash, d.size, 0)]

(* The search for a free slot starts at slot n and wraps around.  Steps    *)
(* counts how often the loop moves on; if no slot is free it never ends.   *)
Probe(d, steps) == (d.n + steps) % d.size

MutFreeSlotAtCount(d) == IF d.n < d.size THEN d.n ELSE 0

MutFreeSlotFromEnd(d) ==
  CHOOSE i \in Slots(d) \ Used(d) : \A j \in Slots(d) \ Used(d) : j <= i

FreeSlot(d) ==
  LET steps == CHOOSE s \in Slots(d) :
                 /\ d.key[Probe(d, s)] = NULL
                 /\ \A t \in 0 .. s - 1 : d.key[Probe(d, t)] # NULL
  IN  Probe(d, steps)

Replaced(d, i, v) == [d EXCEPT !.val[i] = v]

MutInserted(d, i, k, v) == [d EXCEPT !.key[i] = k, !.val[i] = v, !.n = @ + 1]

Inserted(d, i, k, v) ==
  [d EXCEPT !.key[i] = k, !.val[i] = v, !.hash[i] = Hash(k), !.n = @ + 1]

DictionarySet(d, k, v) ==
  IF d.n > 0 /\ Matches(d, k) # {}
  THEN Replaced(d, FirstMatch(d, k), v)
  ELSE LET g == Grown(d) IN Inserted(g, FreeSlot(g), k, v)

DictionaryUnset(d, k) ==
  IF Matches(d, k) = {} THEN d
  ELSE LET i == FirstMatch(d, k)
       IN  [d EXCEPT !.key[i] = NULL, !.val[i] = NULL, !.hash[i] = 0, !.n = @ - 1]

(* What dictionary_dump and the loops of iniparser.c walk through: the     *)
(* used slots in the order of the slots.                                   *)
InSlotOrder(d) ==
  LET rank(i) == Cardinality({j \in Used(d) : j < i})
  IN  [r \in 1 .. Cardinality(Used(d)) |-> CHOOSE i \in Used(d) : rank(i) = r - 1]

DictionaryDump(d) ==
  [r \in DOMAIN InSlotOrder(d) |-> <<d.key[InSlotOrder(d)[r]], d.val[InSlotOrder(d)[r]]>>]

-----------------------------------------------------------------------------
(* A dictionary in use.  DictDelete stands for dictionary_del and a    *)
(* new dictionary: no pointer to a deleted one is kept.                    *)

DictSet(k, v) == dict' = DictionarySet(dict, k, v)

DictUnset(k) == dict' = DictionaryUnset(dict, k)

DictDelete == dict' = DictionaryNew(0)

DictInit == dict = DictionaryNew(0)

DictNext ==
  \/ \E k \in Key, v \in OrNull(Value) : DictSet(k, v)
  \/ \E k \in Key : DictUnset(k)
  \/ DictDelete

DictSpec == DictInit /\ [][DictNext]_dict

-----------------------------------------------------------------------------
DictionaryOK ==
  /\ dict.size \in Nat \ {0}
  /\ dict = [size |-> dict.size, n |-> dict.n, key |-> dict.key,
             val |-> dict.val, hash |-> dict.hash]
  /\ dict.n \in 0 .. dict.size
  /\ dict.key \in [Slots(dict) -> OrNull(Key)]
  /\ dict.val \in [Slots(dict) -> OrNull(Value)]
  /\ dict.hash \in [Slots(dict) -> Nat]

(* The counter n is the number of used slots.  dictionary_set relies on it *)
(* twice: to find that the dictionary is full (line 252), and for the      *)
(* claim of lines 267-269 that the search for a free slot must end.        *)
CountIsRight == dict.n = Cardinality(Used(dict))

(* A key is in one slot at most, and its hash beside it is its own: what   *)
(* unset removes does not come back, and get finds what set has stored.    *)
OneSlotPerKey ==
  \A i, j \in Used(dict) :
    /\ dict.hash[i] = Hash(dict.key[i])
    /\ dict.key[i] = dict.key[j] => i = j

(* The refinement: what get finds under each key that it finds.            *)
Contents(d) ==
  [k \in {d.key[i] : i \in Used(d)} |-> DictionaryGet(d, k, NULL)]

Map == INSTANCE StringMap WITH Value <- OrNull(Value), map <- Contents(dict)

(* A dictionary behaves as a map from keys to values, whatever holes were  *)
(* left, however often it grew and whichever keys share a hash.            *)
ImplementsMap == Map!Spec

===============================================================================
