---------------------------------- MODULE Lru ---------------------------------
(* The simulator with lru.c: a doubly linked list threaded through the        *)
(* coremap, least recently used frame first.                                  *)
EXTENDS History

NULL == -1

VARIABLE list   \* head, tail and every frame's next and previous

lru_init ==
  list = [head |-> NULL, tail |-> NULL,
          next |-> [f \in Frame |-> NULL], previous |-> [f \in Frame |-> NULL]]

\* lru_evict: the head leaves the list.
Unlinked(l, f) ==
  IF l.head # l.tail
  THEN [l EXCEPT !.head = l.next[l.head],
                 !.previous[l.next[l.head]] = NULL, !.next[f] = NULL, !.previous[f] = NULL]
  ELSE [l EXCEPT !.head = NULL, !.tail = NULL, !.next[f] = NULL, !.previous[f] = NULL]

\* f is appended behind the tail.
Appended(l, f) ==
  [l EXCEPT !.next = [@ EXCEPT ![l.tail] = f, ![f] = NULL], !.previous[f] = l.tail, !.tail = f]

\* Variant: a frame in the middle keeps its successor's back link.
Unhooked_OneWay(l, f) == [l EXCEPT !.next[l.previous[f]] = l.next[f]]

\* f leaves the middle of the list.
Unhooked(l, f) ==
  [l EXCEPT !.previous[l.next[f]] = l.previous[f], !.next[l.previous[f]] = l.next[f]]

\* Variant: a frame in the middle of the list stays there.
Linked_MiddleStays(l, f) ==
  CASE l.next[f] = NULL /\ l.previous[f] = NULL ->
         IF l.head = NULL THEN [l EXCEPT !.head = f, !.tail = f] ELSE Appended(l, f)
    [] l.next[f] # NULL \/ l.previous[f] # NULL ->
         IF l.head = f /\ l.tail # f
         THEN Appended([l EXCEPT !.head = l.next[f], !.previous[l.next[f]] = NULL], f)
         ELSE l

Linked(l, f) ==                                         \* lru_ref
  CASE l.next[f] = NULL /\ l.previous[f] = NULL ->
         IF l.head = NULL THEN [l EXCEPT !.head = f, !.tail = f] ELSE Appended(l, f)
    [] l.next[f] # NULL \/ l.previous[f] # NULL ->
         IF l.head = l.tail \/ l.tail = f THEN l
         ELSE IF l.head = f
         THEN Appended([l EXCEPT !.head = l.next[f], !.previous[l.next[f]] = NULL], f)
         ELSE Appended(Unhooked(l, f), f)

\* The frame lru_evict returns, as the head's page knows it.
Victim == pte[coremap[list.head].pte].frame

LruAccess(v, type) ==
  \/ /\ Hit(v, type) \/ Fill(v, type)
     /\ list' = Linked(list, pte'[v].frame)
  \/ /\ FreeFrames = {}
     /\ Replace(v, Tables(v), Victim, type)
     /\ list' = Linked(Unlinked(list, Victim), pte'[v].frame)
  \/ /\ FreeFrames = {}
     /\ SwapExhausted(v, Tables(v), Victim)
     /\ list' = Unlinked(list, Victim)

\* The list as a walk along `next` finds it, NULL after its end.
Walk[k \in 1 .. MemSize] ==
  IF k = 1 THEN list.head ELSE IF Walk[k - 1] = NULL THEN NULL ELSE list.next[Walk[k - 1]]

InUse == Frame \ FreeFrames

\* The list holds each frame in use once, in the order of last reference, and
\* `previous` is the way back.
ListInOrder == LET n == Cardinality(InUse) IN
  /\ {Walk[k] : k \in 1 .. n} = InUse
  /\ \A k \in 2 .. n : used[Walk[k - 1]] < used[Walk[k]] /\ list.previous[Walk[k]] = Walk[k - 1]
  /\ n > 0 => list.tail = Walk[n] /\ list.next[list.tail] = NULL
  /\ n = 0 => list.head = NULL

\* The page that leaves is the one referenced longest ago.
LeastRecentLeaves ==
  \A v \in Resident \ Resident', w \in Resident : used[pte[v].frame] <= used[pte[w].frame]
=============================================================================
