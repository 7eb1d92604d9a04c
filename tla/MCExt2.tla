-------------------------------- MODULE MCExt2 --------------------------------
(* The lengths of names, for TLC. *)
EXTENDS Ext2

CONSTANT Long   \* the names that are long

MCNameLen == [n \in Name |-> IF n \in Long THEN 9 ELSE 5]
=============================================================================
