--------------------------- MODULE MCSnapshotTrie ---------------------------
(***************************************************************************)
(* Key sets of SnapshotTrie for TLC.                                       *)
(***************************************************************************)
EXTENDS SnapshotTrie

\* Keys that share long paths, one of them a prefix of the others: removing
\* and inserting them splits, merges, dissolves and brings back nodes.
TrieKeys == {<<0, 0>>, <<0, 0, 0, 0>>, <<0, 0, 0, 1>>, <<0, 0, 1, 0>>}
=============================================================================
