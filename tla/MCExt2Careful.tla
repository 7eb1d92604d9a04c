----------------------------- MODULE MCExt2Careful -----------------------------
(* Ext2Careful for TLC. *)
EXTENDS Ext2Careful, MCExt2, TLC

\* Names of one length are compared for equality only.
MCSymmetry == Permutations(Name \ Long)

\* No command reads the last command, and no state formula names it: states that
\* differ in it alone are one.  The properties that read the new value of did are
\* checked on every step, the ones that lead to a state known before too.
MCView == <<disk, result, tree>>
=============================================================================
