----------------------------- MODULE Ascending -----------------------------
(***************************************************************************)
(* Sets of numbers in the order a sorted container gives them: the event   *)
(* table of RocksDB, the BTreeMap of collect_files.                        *)
(***************************************************************************)
EXTENDS Naturals, FiniteSets

\* Element number k of a set of numbers, counted from the smallest.
Nth(S, k) == CHOOSE i \in S : Cardinality({j \in S : j <= i}) = k

InOrder(S) == [k \in 1..Cardinality(S) |-> Nth(S, k)]
=============================================================================
