------------------------------ MODULE StringMap -------------------------------
(***************************************************************************)
(* What a dictionary of contrib/iniparser promises its users: a map from   *)
(* keys to values in which a key has one value, the last one it was given. *)
(***************************************************************************)
CONSTANTS Key, Value

VARIABLE map

EmptyMap == [k \in {} |-> Value]

Set(k) ==
  /\ map' \in [DOMAIN map \cup {k} -> Value]
  /\ \A j \in DOMAIN map \ {k} : map'[j] = map[j]

Unset(k) == map' = [j \in DOMAIN map \ {k} |-> map[j]]

Delete == map' = EmptyMap

Init == map = EmptyMap

Next ==
  \/ \E k \in Key : Set(k)
  \/ \E k \in Key : Unset(k)
  \/ Delete

Spec == Init /\ [][Next]_map

===============================================================================
