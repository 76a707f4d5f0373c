--------------------------- MODULE MCStateManager ---------------------------
(***************************************************************************)
(* Instances of StateManager for TLC, with the constants of MCLayeredState.*)
(***************************************************************************)
EXTENDS StateManager, MCLayeredState
=============================================================================
