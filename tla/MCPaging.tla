------------------------------- MODULE MCPaging -------------------------------
(* Instances of Paging for TLC.  Nothing tells the indices of a directory or   *)
(* of a table apart, so both sets are symmetric.                              *)
EXTENDS Paging, TLC

MCSymmetry == Permutations(Dir) \cup Permutations(Entry)
=============================================================================
