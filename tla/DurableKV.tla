----------------------------- MODULE DurableKV -----------------------------
(***************************************************************************)
(* What a StateManager promises beyond CheckpointedKV: a map that can be   *)
(* saved as a whole, and that a crash takes back to what was saved last,   *)
(* no more and no less.                                                    *)
(***************************************************************************)
EXTENDS CheckpointedKV

VARIABLES savedView, savedBase

saved == <<savedView, savedBase>>

DurableInit == /\ KVInit
               /\ savedView = view
               /\ savedBase = base

Save == /\ savedView' = view
        /\ savedBase' = base
        /\ UNCHANGED kv

Crash == /\ view' = savedView
         /\ base' = savedBase
         /\ UNCHANGED saved

DurableNext == \/ KVNext /\ UNCHANGED saved
               \/ Save
               \/ Crash

DurableSpec == DurableInit /\ [][DurableNext]_<<kv, saved>>
=============================================================================
