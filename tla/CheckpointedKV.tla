--------------------------- MODULE CheckpointedKV ---------------------------
(***************************************************************************)
(* What the layered state promises its caller: a map from keys to values   *)
(* (view) and the map as it stood when the current period began (base).    *)
(* Erasing a set of keys touches no other key, with one exception the      *)
(* source documents (SPEC.md 5.4): erasing by an address prefix also takes *)
(* every other key back to what it was when the period began.  Erasing by  *)
(* a prefix that cuts a hashed field may miss keys it names.  Committing   *)
(* never changes what a reader sees.                                       *)
(***************************************************************************)
CONSTANTS Key, Value, Absent,
          Erasures,         \* the sets of keys a prefix can name
          AddressErasures,  \* those an address prefix can name
          CutErasures       \* those a prefix that cuts a hashed field names

VARIABLES view, base

kv == <<view, base>>

Map == [Key -> Value \cup {Absent}]

KVInit == /\ view \in Map
          /\ base = view

\* Storing Absent deletes the key.
Put(k, v) == /\ view' = [view EXCEPT ![k] = v]
             /\ UNCHANGED base

Erase(S) == /\ view' = [k \in Key |-> IF k \in S THEN Absent ELSE view[k]]
            /\ UNCHANGED base

EraseAddress(S) == /\ view' = [k \in Key |-> IF k \in S THEN Absent ELSE base[k]]
                   /\ UNCHANGED base

\* A period ends: the map becomes the base of the next period.
Checkpoint == /\ base' = view
              /\ UNCHANGED view

KVNext == \/ \E k \in Key, v \in Value \cup {Absent} : Put(k, v)
          \/ \E S \in Erasures : Erase(S)
          \/ \E S \in AddressErasures : EraseAddress(S)
          \/ \E S \in CutErasures : \E T \in SUBSET S : Erase(T)
          \/ Checkpoint

KVSpec == KVInit /\ [][KVNext]_kv
=============================================================================
