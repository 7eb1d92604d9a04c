--------------------------------- MODULE Clock --------------------------------
(* The simulator with clock.c.                                                *)
EXTENDS History

VARIABLES
  oldest_page,  \* the hand: the frame it points at
  passed        \* history: at which reference the hand last passed each frame

clock_vars == <<oldest_page, passed>>

clock_init ==
  /\ oldest_page = -1
  /\ passed = [f \in Frame |-> 0]

\* How far the loop of clock_evict moves the hand from h, R being the frames whose
\* page has PG_REF set: to the first without or, all of them cleared, round once.
Steps(h, R) == Min({k \in 1 .. MemSize : (h + k) % MemSize \notin R} \cup {MemSize + 1})

Referenced(t) == {f \in Frame : t[coremap[f].pte].ref}

\* Where the hand stops, and the frames whose PG_REF it clears on the way.
SweptFrom(h, t) == LET n == Steps(h, Referenced(t)) IN
  [hand |-> (h + n) % MemSize, cleared |-> {(h + k) % MemSize : k \in 1 .. n - 1}]

\* Variant: oldest_page is a local variable.
Swept_FromTop(t) == SweptFrom(-1, t)

Swept(t) == SweptFrom(oldest_page, t)

\* Variant: line 31 clears PG_DIRTY with PG_REF.
Passed_WrongMask(t, F) ==
  [w \in Page |-> IF w \in {coremap[f].pte : f \in F}
                  THEN [t[w] EXCEPT !.ref = FALSE, !.dirty = FALSE] ELSE t[w]]

\* The tables once the hand has passed the frames in F.
Passed(t, F) == Unreferenced(t, {coremap[f].pte : f \in F})

clock_evict(v, type) ==
  LET t == Tables(v)
      s == Swept(t)
  IN /\ FreeFrames = {}
     /\ Evict(v, Passed(t, s.cleared), s.hand, type)
     /\ oldest_page' = s.hand
     /\ passed' = [f \in Frame |-> IF f \in s.cleared \cup {s.hand} THEN count.ref ELSE passed[f]]

\* clock_ref sets PG_REF, which find_physpage has just set.
ClockAccess(v, type) ==
  \/ Hit(v, type) /\ UNCHANGED clock_vars
  \/ Fill(v, type) /\ UNCHANGED clock_vars
  \/ clock_evict(v, type)

\* A page used since the hand last passed its frame leaves only if every page
\* has been; otherwise the hand stops at the first page that has not.
Used(f)  == used[f] > passed[f]
Ahead(f) == (f - oldest_page - 1) % MemSize     \* steps the hand has to go
UnusedLeaves ==
  \A v \in Resident \ Resident' : LET f == pte[v].frame IN
    /\ Used(f) => Ahead(f) = 0 /\ \A g \in Frame : Used(g)
    /\ ~ Used(f) => \A g \in Frame : Ahead(g) < Ahead(f) => Used(g)
=============================================================================
