------------------------------- MODULE History -------------------------------
(* When each frame was filled and referenced: the history that the policies'  *)
(* properties compare their victims with.  No action reads it.                *)
EXTENDS PageTable

VARIABLES
  used,   \* for each frame, which reference last used it
  since   \* for each frame, which miss filled it

history_vars == <<used, since>>

HistoryInit ==
  /\ used = [f \in Frame |-> 0]
  /\ since = [f \in Frame |-> 0]

\* The history of a reference to v.
Recorded(v) == LET f == pte'[v].frame IN
  IF status' = "exited" THEN UNCHANGED history_vars
  ELSE /\ used' = [used EXCEPT ![f] = count'.ref]
       /\ since' = IF count'.miss = count.miss THEN since ELSE [since EXCEPT ![f] = count'.miss]
=============================================================================
