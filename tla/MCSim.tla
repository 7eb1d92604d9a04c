-------------------------------- MODULE MCSim ---------------------------------
(* An instance of Sim for TLC.  No policy compares addresses but for equality, *)
(* so pages are symmetric, and one trace stands for all that differ by a       *)
(* renaming of the pages.                                                      *)
EXTENDS Sim

\* The traces of MaxRefs lines with at most one Banner.
MCTraces == LET order == [i \in 1 .. Cardinality(Entry) |-> <<CHOOSE d \in Dir : TRUE, SetToSeq(Entry)[i]>>] IN
  {t \in [1 .. MaxRefs -> Range(order) \cup {Banner}] :
     /\ Cardinality({i \in 1 .. MaxRefs : t[i] = Banner}) <= 1
     /\ \A k \in 2 .. Len(order), i \in 1 .. MaxRefs :
          t[i] = order[k] => \E j \in 1 .. i - 1 : t[j] = order[k - 1]}

MCSymmetry == Permutations(Entry)
=============================================================================
