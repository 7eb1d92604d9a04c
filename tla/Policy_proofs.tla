----------------------------- MODULE Policy_proofs -----------------------------
(* fifo.c, lru.c and clock.c evict the page their names say, for any           *)
(* addresses, memory and swap sizes and traces.                                *)
EXTENDS Sim, PageTable_proofs, Sums_proofs, SequenceTheorems

USE PagingAssumption DEF INVALID_SWAP, Frame, Slot

-----------------------------------------------------------------------------
(* What a reference does to the frames, whatever the policy. *)

\* No policy but clock changes the tables before the eviction.
LEMMA OwnTables ==
  ASSUME PagingInv, NEW v \in Page
  PROVE  Tables(v) = pte /\ SameButRef(Tables(v))
<1>1. pte \in [Page -> EntryType] /\ NewTablesFresh
  BY DEF PagingInv, TypeOK
<1> QED
  BY <1>1, TablesKept DEF SameButRef

\* find_physpage returns with the page's entry naming the frame it was given and
\* marked as referenced, and no other entry changed.
LEMMA PlaceFrame ==
  ASSUME NEW v \in Page, NEW f \in Frame, NEW type, NEW t \in [Page -> EntryType],
         ~ t[v].onswap, PagingInv, Place(v, t, f, type)
  PROVE  /\ pte'[v].frame = f /\ pte'[v].ref
         /\ \A w \in Page \ {v} : pte'[w] = t[w]
         /\ coremap' = [coremap EXCEPT ![f] = [in_use |-> TRUE, pte |-> v]]
         /\ InUse' = InUse \cup {f}
<1>1. PICK n \in EntryType, c \in Contents : Placed(v, t, f, n, c)
  BY PlaceResult
<1>2. /\ n.frame = f /\ pte' = [t EXCEPT ![v] = n]
      /\ coremap' = [coremap EXCEPT ![f] = [in_use |-> TRUE, pte |-> v]]
  BY <1>1 DEF Placed
<1>3. \A g \in Frame : coremap'[g].in_use <=> coremap[g].in_use \/ g = f
  BY <1>2 DEF PagingInv, TypeOK
<1>4. pte'[v].ref
  <2> DEFINE e == [FreshEntry EXCEPT !.frame = f, !.dirty = TRUE, !.swap_off = t[v].swap_off]
  <2>1. pte' = [t EXCEPT ![v] = Touched(e, type)]
    BY DEF Place
  <2>2. e \in EntryType
    BY DEF FreshEntry, EntryType
  <2> HIDE DEF e
  <2>3. Touched(e, type).ref = TRUE
    BY <2>2 DEF Touched, EntryType
  <2> QED
    BY <2>1, <2>3
<1> QED
  BY <1>2, <1>3, <1>4 DEF InUse, FreeFrames

\* What Recorded, and the policies' own actions, can rely on after a hit.
LEMMA HitFacts ==
  ASSUME PagingInv, NEW v \in Page, NEW type \in Type, Hit(v, type)
  PROVE  /\ PagingInv'
         /\ status = "running" /\ status' = "running"
         /\ pte'[v].frame = pte[v].frame /\ pte'[v].ref
         /\ \A w \in Page \ {v} : pte'[w] = pte[w]
         /\ coremap' = coremap
         /\ pte'[v].frame \in InUse /\ InUse' = InUse
         /\ Resident \subseteq Resident'
         /\ count'.ref = count.ref + 1 /\ count'.miss = count.miss
<1>1. Tables(v) = pte
  BY OwnTables
<1>2. /\ status = "running" /\ status' = status
      /\ pte[v].valid
      /\ pte' = [pte EXCEPT ![v] = Touched(pte[v], type)]
      /\ coremap' = coremap
      /\ count' = [count EXCEPT !.hit = @ + 1, !.ref = @ + 1]
  BY <1>1 DEF Hit, Reference
<1>3. pte \in [Page -> EntryType] /\ count \in CountType
  BY DEF PagingInv, TypeOK, CountType
<1>4. pte'[v].frame = pte[v].frame /\ pte'[v].ref
  <2>1. Touched(pte[v], type).ref = TRUE
    BY <1>3 DEF Touched, EntryType
  <2> QED
    BY <1>2, <1>3, <2>1, TouchedKeeps
<1>5. pte[v].frame \in Frame /\ coremap[pte[v].frame].in_use
  BY <1>2, ResidentInUse DEF PagingInv
<1>6. InUse' = InUse
  BY <1>2 DEF InUse, FreeFrames
<1>7. count'.ref = count.ref + 1 /\ count'.miss = count.miss
  BY <1>2, <1>3 DEF CountType
<1> QED
  BY <1>2, <1>3, <1>4, <1>5, <1>6, <1>7, HitKeeps DEF SwapKept, InUse, FreeFrames

\* After a miss that found a free frame: the first one is in use.
LEMMA FillFacts ==
  ASSUME PagingInv, NEW v \in Page, NEW type \in Type, Fill(v, type)
  PROVE  LET f == pte'[v].frame IN
         /\ PagingInv'
         /\ status = "running" /\ status' = "running"
         /\ pte'[v].ref /\ \A w \in Page \ {v} : pte'[w] = pte[w]
         /\ coremap' = [coremap EXCEPT ![f] = [in_use |-> TRUE, pte |-> v]]
         /\ v \notin Resident
         /\ f \in Frame \ InUse /\ InUse' = InUse \cup {f}
         /\ \A g \in Frame : g < f => g \in InUse
         /\ Resident \subseteq Resident'
         /\ count'.ref = count.ref + 1 /\ count'.miss = count.miss + 1
<1> DEFINE m == Min(FreeFrames)
<1>1. Tables(v) = pte
  BY OwnTables
<1>2. /\ status = "running" /\ status' = status
      /\ FreeFrames # {} /\ ~ pte[v].valid
      /\ Place(v, pte, m, type)
      /\ count' = [count EXCEPT !.miss = @ + 1, !.ref = @ + 1]
  BY <1>1 DEF Fill, Fault, Reference
<1>3. m \in FreeFrames /\ \A g \in FreeFrames : m <= g
  BY <1>2, MinOfNaturals DEF FreeFrames
<1> HIDE DEF m
<1>4. m \in Frame
  BY <1>3 DEF FreeFrames
<1>5. pte \in [Page -> EntryType] /\ ~ pte[v].onswap /\ count \in CountType
  BY DEF PagingInv, TypeOK, NeverOnSwap, CountType
<1>6. /\ pte'[v].frame = m /\ InUse' = InUse \cup {m}
      /\ pte'[v].ref /\ \A w \in Page \ {v} : pte'[w] = pte[w]
      /\ coremap' = [coremap EXCEPT ![m] = [in_use |-> TRUE, pte |-> v]]
  BY <1>2, <1>4, <1>5, PlaceFrame
<1>7. m \notin InUse /\ \A g \in Frame : g < m => g \in InUse
  BY <1>3, <1>4 DEF InUse
<1>8. count'.ref = count.ref + 1 /\ count'.miss = count.miss + 1
  BY <1>2, <1>5 DEF CountType
<1> QED
  BY <1>2, <1>4, <1>6, <1>7, <1>8, FillKeeps DEF SwapKept, Resident

\* After an eviction: the page has the victim's frame, and only the victim left.
LEMMA ReplaceFacts ==
  ASSUME PagingInv, NEW v \in Page, NEW type \in Type, NEW f \in Frame,
         NEW t, SameButRef(t), Replace(v, t, f, type)
  PROVE  /\ PagingInv'
         /\ status = "running" /\ status' = "running"
         /\ pte'[v].frame = f /\ pte'[v].ref
         /\ \A w \in Page \ {v, coremap[f].pte} : pte'[w] = t[w]
         /\ coremap' = [coremap EXCEPT ![f] = [in_use |-> TRUE, pte |-> v]]
         /\ v \notin Resident
         /\ FreeFrames = {} /\ InUse = Frame /\ InUse' = Frame
         /\ \A w \in Resident \ Resident' : pte[w].frame = f
         /\ count'.ref = count.ref + 1 /\ count'.miss = count.miss + 1
<1> DEFINE u == coremap[f].pte
           e == Evicted(t[u])
           t1 == [t EXCEPT ![u] = e]
<1>1. t \in [Page -> EntryType] /\ \A w \in Page : ~ t[w].onswap /\ t[w].valid = pte[w].valid
  BY DEF SameButRef, PagingInv, NeverOnSwap
<1>2. /\ status = "running" /\ status' = status
      /\ FreeFrames = {} /\ ~ t[v].valid
      /\ Place(v, t1, f, type)
      /\ count' = [EvictionCounted(t[u]) EXCEPT !.miss = @ + 1, !.ref = @ + 1]
  BY DEF Replace, Fault, Reference
<1>3. /\ u \in Page /\ pte[u].frame = f
      /\ t[u] \in EntryType /\ ~ t[u].onswap /\ ~ Clean(t[u])
  BY <1>2, VictimFacts
<1>4. SlotOf(t[u]) \in Slot
  BY VictimSaved
<1>5. PagingInv' /\ Resident \ {u} \subseteq Resident'
  BY ReplaceKeeps
<1> HIDE DEF u
<1>6. e \in EntryType /\ ~ e.onswap
  <2> DEFINE s == SlotOf(t[u])
  <2>1. e = [t[u] EXCEPT !.valid = FALSE, !.dirty = FALSE, !.swap_off = s]
    BY <1>3 DEF Evicted
  <2> HIDE DEF e, s
  <2>2. s \in Slot
    BY <1>4 DEF s
  <2>3. e \in EntryType
    BY <1>3, <2>1, <2>2 DEF EntryType
  <2>4. e.onswap = t[u].onswap
    BY <1>3, <2>1 DEF EntryType
  <2> QED
    BY <1>3, <2>3, <2>4
<1> HIDE DEF e
<1>7. t1 \in [Page -> EntryType] /\ ~ t1[v].onswap
  BY <1>1, <1>3, <1>6
<1>8. \A w \in Page \ {u} : t1[w] = t[w]
  BY <1>1
<1> HIDE DEF t1
<1>9. /\ pte'[v].frame = f /\ pte'[v].ref
      /\ \A w \in Page \ {v} : pte'[w] = t1[w]
      /\ coremap' = [coremap EXCEPT ![f] = [in_use |-> TRUE, pte |-> v]]
      /\ InUse' = InUse \cup {f}
  BY <1>2, <1>7, PlaceFrame
<1>10. InUse = Frame
  BY <1>2 DEF InUse
<1>11. count'.ref = count.ref + 1 /\ count'.miss = count.miss + 1
  <2> DEFINE c == EvictionCounted(t[u])
  <2>1. c \in CountType /\ c.miss = count.miss /\ c.ref = count.ref
    BY EvictionsAdd DEF PagingInv, TypeOK, CountType
  <2> HIDE DEF c
  <2>2. count' = [c EXCEPT !.miss = c.miss + 1, !.ref = c.ref + 1]
    BY <1>2 DEF c
  <2> QED
    BY <2>1, <2>2 DEF CountType
<1> QED
  BY <1>1, <1>2, <1>3, <1>5, <1>8, <1>9, <1>10, <1>11 DEF u, Resident

\* When the simulator exits, every page is where it was.
LEMMA ExitFacts ==
  ASSUME PagingInv, NEW v \in Page, NEW f \in Frame, NEW t, SameButRef(t),
         SwapExhausted(v, t, f)
  PROVE  PagingInv' /\ status' = "exited" /\ Resident \subseteq Resident'
<1> DEFINE u == coremap[f].pte
<1>1. t \in [Page -> EntryType] /\ \A w \in Page : t[w].valid = pte[w].valid
  BY DEF SameButRef
<1>2. /\ FreeFrames = {} /\ status' = "exited"
      /\ pte' = [t EXCEPT ![u] = [t[u] EXCEPT !.dirty = FALSE]]
  BY DEF SwapExhausted
<1>3. u \in Page /\ t[u] \in EntryType
  BY <1>2, VictimFacts
<1> HIDE DEF u
<1> DEFINE e == [t[u] EXCEPT !.dirty = FALSE]
<1>4. e.valid = t[u].valid
  BY <1>3 DEF EntryType
<1> HIDE DEF e
<1>5. \A w \in Page : pte'[w].valid = pte[w].valid
  BY <1>1, <1>2, <1>3, <1>4 DEF e
<1> QED
  BY <1>2, <1>5, ExitKeeps DEF Resident

-----------------------------------------------------------------------------
(* FIFO.  Frames are filled in order and then evicted in a circle, so from the *)
(* frame after `evict` round to `evict` they are in the order of their pages'  *)
(* arrival.                                                                    *)

\* g comes no earlier than f on the way round from behind the hand e.
NoEarlier(f, g, e) == (f <= g /\ (f <= e <=> g <= e)) \/ (g <= e /\ e < f)

FramesInTurn ==
  /\ evict \in -1 .. MemSize - 1
  /\ since \in [Frame -> Nat]
  /\ \A f \in Frame : since[f] <= count.miss
  /\ InUse # Frame => evict = -1
  /\ \A f \in InUse, g \in Frame : g < f => g \in InUse
  /\ \A f, g \in InUse : NoEarlier(f, g, evict) => since[f] <= since[g]

FifoInv == evict_fcn = "fifo" => PagingInv /\ (status = "running" => FramesInTurn)

\* The next victim's frame: one further, or the first after the last.
LEMMA FifoEvict ==
  ASSUME evict \in -1 .. MemSize - 1
  PROVE  /\ fifo_evict \in Frame
         /\ evict + 1 < MemSize => fifo_evict = evict + 1
         /\ evict + 1 = MemSize => fifo_evict = 0
BY DEF fifo_evict

\* A frame filled behind the hand's frame is the last on the way round.
LEMMA TurnKept ==
  ASSUME PagingInv, FramesInTurn, NEW f \in Frame,
         InUse' = InUse \cup {f}, \A g \in Frame : g < f => g \in InUse',
         since' = [since EXCEPT ![f] = count.miss + 1], count'.miss = count.miss + 1,
         \/ f \notin InUse /\ evict' = evict
         \/ InUse = Frame /\ evict' = f /\ f = fifo_evict
  PROVE  FramesInTurn'
<1>1. count.miss \in Nat
  BY DEF PagingInv, TypeOK
<1>2. /\ evict \in -1 .. MemSize - 1
      /\ since \in [Frame -> Nat]
      /\ \A g \in Frame : since[g] <= count.miss
      /\ InUse # Frame => evict = -1
      /\ \A h \in InUse, g \in Frame : g < h => g \in InUse
      /\ \A h, g \in InUse : NoEarlier(h, g, evict) => since[h] <= since[g]
  BY DEF FramesInTurn
<1>3. InUse \subseteq Frame
  BY DEF InUse
<1>4. since' \in [Frame -> Nat] /\ \A g \in Frame : since'[g] <= count'.miss
  BY <1>1, <1>2
<1>5. evict' \in -1 .. MemSize - 1 /\ (InUse' # Frame => evict' = -1)
  BY <1>2, <1>3, FifoEvict
<1>6. \A h \in InUse', g \in Frame : g < h => g \in InUse'
  BY <1>2
<1>7. ASSUME NEW h \in InUse', NEW g \in InUse', NoEarlier(h, g, evict') PROVE since'[h] <= since'[g]
  <2>1. CASE g = f
    BY <1>1, <1>2, <1>3, <2>1
  <2>2. CASE g # f /\ h = f
    <3>1. CASE f \notin InUse /\ evict' = evict
      BY <1>2, <1>3, <1>7, <2>2, <3>1 DEF NoEarlier
    <3>2. CASE InUse = Frame /\ evict' = f
      BY <1>2, <1>3, <1>7, <2>2, <3>2 DEF NoEarlier
    <3> QED
      BY <3>1, <3>2
  <2>3. CASE g # f /\ h # f
    <3>1. h \in InUse /\ g \in InUse
      BY <2>3
    <3>2. NoEarlier(h, g, evict)
      <4>1. CASE evict' = evict
        BY <1>7, <4>1
      <4>2. CASE evict' = f /\ f = fifo_evict
        BY <1>2, <1>3, <1>7, <2>3, <3>1, <4>2, FifoEvict DEF NoEarlier
      <4> QED
        BY <4>1, <4>2
    <3>3. since'[h] = since[h] /\ since'[g] = since[g]
      BY <1>2, <1>3, <2>3, <3>1
    <3> QED
      BY <1>2, <3>1, <3>2, <3>3
  <2> QED
    BY <2>1, <2>2, <2>3
<1> QED
  BY <1>4, <1>5, <1>6, <1>7 DEF FramesInTurn

\* A step of the simulator with fifo: the invariant, and who leaves.
LEMMA FifoStep ==
  ASSUME PagingInv, FramesInTurn, NEW v \in Page, NEW type \in Type,
         FifoAccess(v, type), Recorded(v)
  PROVE  PagingInv' /\ (status' = "running" => FramesInTurn') /\ OldestLeaves
<1>1. CASE Hit(v, type) /\ UNCHANGED evict
  <2>1. /\ PagingInv' /\ status' = "running" /\ InUse' = InUse
        /\ Resident \subseteq Resident' /\ count'.miss = count.miss
    BY <1>1, HitFacts
  <2>2. since' = since
    BY <2>1 DEF Recorded
  <2> QED
    BY <1>1, <2>1, <2>2 DEF FramesInTurn, OldestLeaves
<1>2. CASE Fill(v, type) /\ UNCHANGED evict
  <2> DEFINE f == pte'[v].frame
  <2>1. /\ PagingInv' /\ status' = "running"
        /\ f \in Frame \ InUse /\ InUse' = InUse \cup {f}
        /\ \A g \in Frame : g < f => g \in InUse
        /\ Resident \subseteq Resident' /\ count'.miss = count.miss + 1
    BY <1>2, FillFacts
  <2>2. count.miss \in Nat
    BY DEF PagingInv, TypeOK
  <2>3. since' = [since EXCEPT ![f] = count'.miss]
    BY <2>1, <2>2 DEF Recorded
  <2> HIDE DEF f
  <2>4. FramesInTurn'
    BY <1>2, <2>1, <2>3, TurnKept
  <2> QED
    BY <2>1, <2>4 DEF OldestLeaves
<1>3. CASE Replace(v, Tables(v), fifo_evict, type) /\ evict' = fifo_evict
  <2> DEFINE f == fifo_evict
  <2>1. evict \in -1 .. MemSize - 1
    BY DEF FramesInTurn
  <2>2. f \in Frame
    BY <2>1, FifoEvict
  <2>3. /\ PagingInv' /\ status' = "running" /\ pte'[v].frame = f
        /\ InUse = Frame /\ InUse' = Frame
        /\ \A w \in Resident \ Resident' : pte[w].frame = f
        /\ count'.miss = count.miss + 1
    BY <1>3, <2>2, OwnTables, ReplaceFacts
  <2>4. count.miss \in Nat
    BY DEF PagingInv, TypeOK
  <2>5. since' = [since EXCEPT ![f] = count'.miss]
    BY <2>3, <2>4 DEF Recorded
  <2> HIDE DEF f
  <2>6. FramesInTurn'
    BY <1>3, <2>2, <2>3, <2>5, TurnKept DEF f
  <2>7. \A w \in Resident : pte[w].frame \in InUse
    BY ResidentInUse DEF PagingInv, Resident, InUse, FreeFrames
  <2>8. \A g \in Frame : NoEarlier(f, g, evict)
    BY <2>1, FifoEvict DEF NoEarlier, f
  <2>9. OldestLeaves
    BY <2>2, <2>3, <2>7, <2>8 DEF OldestLeaves, FramesInTurn
  <2> QED
    BY <2>3, <2>6, <2>9
<1>4. CASE SwapExhausted(v, Tables(v), fifo_evict)
  <2>1. fifo_evict \in Frame
    BY FifoEvict DEF FramesInTurn
  <2> QED
    BY <1>4, <2>1, OwnTables, ExitFacts DEF OldestLeaves
<1> QED
  BY <1>1, <1>2, <1>3, <1>4 DEF FifoAccess, Evict

\* A step needs the simulator to be running.
LEMMA AccessRuns ==
  ASSUME NEW v, NEW t, NEW f, NEW type,
         Hit(v, type) \/ Fill(v, type) \/ Evict(v, t, f, type)
  PROVE  status = "running"
BY DEF Hit, Fill, Evict, Replace, SwapExhausted, Fault, Reference

\* The frames are in turn at the start
LEMMA FifoInit == SimInit => FifoInv
<1> SUFFICES ASSUME SimInit PROVE PagingInv /\ FramesInTurn
  BY DEF FifoInv
<1>1. PagingInv
  BY PagingInit DEF SimInit
<1>2. InUse = {}
  BY DEF SimInit, Init, InUse, FreeFrames
<1> QED
  BY <1>1, <1>2 DEF SimInit, Init, HistoryInit, fifo_init, FramesInTurn

\* and after every step.
LEMMA FifoNext ==
  FifoInv /\ [SimNext]_sim_vars => FifoInv' /\ [evict_fcn = "fifo" => OldestLeaves]_sim_vars
<1> SUFFICES ASSUME FifoInv, [SimNext]_sim_vars, evict_fcn = "fifo"
             PROVE  FifoInv' /\ (OldestLeaves \/ UNCHANGED sim_vars)
  BY DEF SimNext, sim_vars, FifoInv
<1>1. CASE SimNext
  <2>1. PICK v \in Page, type \in Type : FifoAccess(v, type) /\ Recorded(v)
    BY <1>1 DEF SimNext, Access
  <2>2. status = "running"
    BY <2>1, AccessRuns DEF FifoAccess
  <2> QED
    BY <2>1, <2>2, FifoStep DEF FifoInv
<1>2. CASE UNCHANGED sim_vars
  <2>1. UNCHANGED vars /\ UNCHANGED <<since, evict, evict_fcn>>
    BY <1>2 DEF sim_vars, history_vars
  <2>2. PagingInv'
    BY <2>1, PagingStep DEF FifoInv
  <2>3. status = "running" => FramesInTurn'
    BY <2>1 DEF FifoInv, FramesInTurn, InUse, FreeFrames, vars
  <2> QED
    BY <1>2, <2>1, <2>2, <2>3 DEF FifoInv, vars
<1> QED
  BY <1>1, <1>2

\* fifo.c only counts modulo memsize, and yet the page it evicts is the one that
\* has been in memory the longest.
THEOREM FifoEvictsOldest == SimSpec => EvictsOldest
<1> QED
  BY FifoInit, FifoNext, PTL DEF SimSpec, EvictsOldest

-----------------------------------------------------------------------------
(* LRU.  Each link of the list leads to a frame that was used later and is led *)
(* back to by that frame's other link; so the head, which has none before it,  *)
(* is the frame used longest ago.                                              *)

Link == Frame \cup {NULL}
ListType == [head : Link, tail : Link, next : [Frame -> Link], previous : [Frame -> Link]]

\* l is a list of the frames in U, in the order of x.  The first frame to be
\* listed may have a link to itself (Appended behind its own tail).
LinksOrdered(l, U, x) ==
  /\ U = {} => l.head = NULL
  /\ U # {} => /\ l.head \in U /\ l.previous[l.head] \in {NULL, l.head}
               /\ l.tail \in U /\ l.next[l.tail] = NULL
  /\ \A f \in Frame \ U : l.next[f] = NULL /\ l.previous[f] = NULL
  /\ \A f \in U \ {l.head} : /\ l.previous[f] \in U /\ l.next[l.previous[f]] = f
                            /\ x[l.previous[f]] < x[f]
  /\ \A f \in U \ {l.tail} : /\ l.next[f] \in U /\ l.previous[l.next[f]] = f
                            /\ x[f] < x[l.next[f]]

\* l is such a list of the frames in U, and of f only the links are left.
OrderedBut(f, l, U, x) ==
  /\ l.head \in U /\ l.previous[l.head] \in {NULL, l.head}
  /\ l.tail \in U /\ l.next[l.tail] = NULL
  /\ \A g \in Frame \ (U \cup {f}) : l.next[g] = NULL /\ l.previous[g] = NULL
  /\ \A g \in U \ {l.head} : /\ l.previous[g] \in U /\ l.next[l.previous[g]] = g
                            /\ x[l.previous[g]] < x[g]
  /\ \A g \in U \ {l.tail} : /\ l.next[g] \in U /\ l.previous[l.next[g]] = g
                            /\ x[g] < x[l.next[g]]

\* The uses once f was used at reference `now`.
UsedAt(x, f, now) == [x EXCEPT ![f] = now]

ListInv ==
  /\ list \in ListType
  /\ used \in [Frame -> Nat]
  /\ \A f \in Frame : used[f] <= count.ref
  /\ LinksOrdered(list, InUse, used)

LruInv == evict_fcn = "lru" => PagingInv /\ (status = "running" => ListInv)

\* Any frames have one that was used no later than the others.
LEMMA EarliestExists ==
  ASSUME NEW U \in SUBSET Frame, U # {}, NEW x \in [Frame -> Nat]
  PROVE  \E f \in U : \A g \in U : x[f] <= x[g]
<1> DEFINE S == {x[f] : f \in U}
<1>1. S \in SUBSET Nat /\ S # {}
  OBVIOUS
<1>2. Min(S) \in S /\ \A y \in S : Min(S) <= y
  BY <1>1, MinOfNaturals
<1> QED
  BY <1>2

\* The head was used no later than any other frame of the list.
LEMMA HeadIsEarliest ==
  ASSUME NEW l, NEW U \in SUBSET Frame, NEW x \in [Frame -> Nat], LinksOrdered(l, U, x),
         NEW g \in U
  PROVE  x[l.head] <= x[g]
<1>1. PICK f \in U : \A h \in U : x[f] <= x[h]
  BY EarliestExists
<1>2. f = l.head
  <2> SUFFICES ASSUME f # l.head PROVE FALSE
    OBVIOUS
  <2> DEFINE p == l.previous[f]
  <2>1. p \in U /\ x[p] < x[f]
    BY DEF LinksOrdered
  <2> HIDE DEF p
  <2>2. x[p] \in Nat /\ x[f] \in Nat /\ x[f] <= x[p]
    BY <1>1, <2>1
  <2> QED
    BY <2>1, <2>2
<1> QED
  BY <1>1, <1>2

\* A list whose head is its tail has no other frame.
LEMMA OnlyFrame ==
  ASSUME NEW l \in ListType, NEW U \in SUBSET Frame, NEW x \in [Frame -> Nat],
         LinksOrdered(l, U, x), l.head = l.tail, U # {}
  PROVE  U = {l.head}
<1> SUFFICES ASSUME U \ {l.head} # {} PROVE FALSE
  BY DEF LinksOrdered
<1>1. PICK f \in U \ {l.head} : \A g \in U \ {l.head} : x[f] <= x[g]
  BY EarliestExists
<1>2. l.previous[f] \in U /\ l.next[l.previous[f]] = f /\ x[l.previous[f]] < x[f]
  BY DEF LinksOrdered
<1>3. l.previous[f] = l.head
  BY <1>1, <1>2
<1> QED
  BY <1>2, <1>3 DEF LinksOrdered, NULL

\* lru_evict takes the head out of the list.
LEMMA HeadUnlinked ==
  ASSUME NEW l \in ListType, NEW U \in SUBSET Frame, NEW x \in [Frame -> Nat],
         LinksOrdered(l, U, x), U # {}
  PROVE  LET k == Unlinked(l, l.head) IN
         k \in ListType /\ LinksOrdered(k, U \ {l.head}, x)
<1> DEFINE h == l.head
           n == l.next[h]
           k == Unlinked(l, h)
<1>1. h \in U /\ h \in Frame /\ l.tail \in U /\ l.next[l.tail] = NULL
  BY DEF LinksOrdered
<1>2. CASE l.head # l.tail
  <2>1. n \in U /\ l.previous[n] = h /\ x[h] < x[n]
    BY <1>1, <1>2 DEF LinksOrdered
  <2>2. n # h /\ n \in Frame
    <3> HIDE DEF h, n
    <3>1. x[h] \in Nat /\ n \in Frame
      BY <1>1, <2>1
    <3>2. ~ (x[h] < x[h])
      BY <3>1
    <3> QED
      BY <2>1, <3>1, <3>2
  <2>3. /\ k.head = n /\ k.tail = l.tail
        /\ k.next = [l.next EXCEPT ![h] = NULL]
        /\ k.previous = [l.previous EXCEPT ![n] = NULL, ![h] = NULL]
    BY <1>2 DEF Unlinked, ListType
  <2>4. k \in ListType
    BY <1>2, <2>2 DEF Unlinked, ListType, Link
  <2> HIDE DEF k
  <2>5. /\ \A f \in Frame : k.next[f] = IF f = h THEN NULL ELSE l.next[f]
        /\ \A f \in Frame : k.previous[f] = IF f \in {h, n} THEN NULL ELSE l.previous[f]
    BY <1>1, <2>2, <2>3 DEF ListType
  <2> HIDE DEF h, n
  <2>6. /\ k.head \in U \ {h} /\ k.previous[k.head] = NULL
        /\ k.tail \in U \ {h} /\ k.next[k.tail] = NULL
    BY <1>1, <1>2, <2>1, <2>2, <2>3, <2>5 DEF h
  <2>7. \A f \in Frame \ (U \ {h}) : k.next[f] = NULL /\ k.previous[f] = NULL
    BY <2>1, <2>5 DEF LinksOrdered
  <2>8. ASSUME NEW f \in (U \ {h}) \ {n}
        PROVE  k.previous[f] \in U \ {h} /\ k.next[k.previous[f]] = f /\ x[k.previous[f]] < x[f]
    <3>1. l.previous[f] \in U /\ l.next[l.previous[f]] = f /\ x[l.previous[f]] < x[f]
      BY DEF LinksOrdered, h
    <3>2. l.previous[f] # h
      BY <3>1 DEF n
    <3> QED
      BY <2>5, <3>1, <3>2
  <2>9. ASSUME NEW f \in (U \ {h}) \ {l.tail}
        PROVE  k.next[f] \in U \ {h} /\ k.previous[k.next[f]] = f /\ x[f] < x[k.next[f]]
    <3>1. l.next[f] \in U /\ l.previous[l.next[f]] = f /\ x[f] < x[l.next[f]]
      BY DEF LinksOrdered
    <3>2. l.next[f] # h
      <4>1. x[h] \in Nat /\ x[f] \in Nat /\ x[h] <= x[f]
        BY <1>1, HeadIsEarliest DEF h
      <4>2. ~ (x[f] < x[h])
        BY <4>1
      <4> QED
        BY <3>1, <4>2
    <3>3. l.next[f] # n
      BY <2>1, <3>1
    <3> QED
      BY <2>5, <3>1, <3>2, <3>3
  <2> QED
    BY <2>3, <2>4, <2>6, <2>7, <2>8, <2>9 DEF LinksOrdered, k, h
<1>3. CASE l.head = l.tail
  <2>1. U = {h}
    BY <1>1, <1>3, OnlyFrame
  <2>2. /\ k.head = NULL /\ k.tail = NULL
        /\ k.next = [l.next EXCEPT ![h] = NULL]
        /\ k.previous = [l.previous EXCEPT ![h] = NULL]
    BY <1>3 DEF Unlinked, ListType
  <2>3. k \in ListType
    BY <1>1, <1>3 DEF Unlinked, ListType, Link
  <2> HIDE DEF k
  <2>4. \A f \in Frame : k.next[f] = NULL /\ k.previous[f] = NULL
    BY <1>1, <2>1, <2>2 DEF LinksOrdered, ListType
  <2> QED
    BY <2>1, <2>2, <2>3, <2>4 DEF LinksOrdered, k
<1> QED
  BY <1>2, <1>3

\* f, which no link of l leads to or from any more, goes behind the tail.
LEMMA AppendedOrdered ==
  ASSUME NEW l \in ListType, NEW U \in SUBSET Frame, NEW x \in [Frame -> Nat],
         NEW f \in Frame, f \notin U, OrderedBut(f, l, U, x),
         NEW now \in Nat, \A g \in U : x[g] < now
  PROVE  LET k == Appended(l, f) IN
         k \in ListType /\ LinksOrdered(k, U \cup {f}, UsedAt(x, f, now))
<1> DEFINE k == Appended(l, f)
           y == UsedAt(x, f, now)
<1> USE DEF OrderedBut, UsedAt
<1>1. /\ k.head = l.head /\ k.tail = f
      /\ k.next = [l.next EXCEPT ![l.tail] = f, ![f] = NULL]
      /\ k.previous = [l.previous EXCEPT ![f] = l.tail]
  BY DEF Appended, ListType
<1>2. k \in ListType
  BY DEF Appended, ListType, Link
<1> HIDE DEF k
<1>3. /\ \A g \in Frame : k.next[g] = IF g = f THEN NULL ELSE IF g = l.tail THEN f ELSE l.next[g]
      /\ \A g \in Frame : k.previous[g] = IF g = f THEN l.tail ELSE l.previous[g]
  BY <1>1 DEF ListType
<1>4. \A g \in U : g \in Frame /\ g # f /\ y[g] = x[g] /\ y[g] < now
  OBVIOUS
<1>5. y[f] = now
  OBVIOUS
<1> HIDE DEF y
<1>6. /\ k.head \in U \cup {f} /\ k.previous[k.head] \in {NULL, k.head}
      /\ k.tail \in U \cup {f} /\ k.next[k.tail] = NULL
  <2>1. k.previous[l.head] = l.previous[l.head] /\ l.head \in U
    BY <1>3, <1>4
  <2>2. k.next[f] = NULL
    BY <1>3
  <2> QED
    BY <1>1, <2>1, <2>2
<1>7. \A g \in Frame \ (U \cup {f}) : k.next[g] = NULL /\ k.previous[g] = NULL
  BY <1>3
<1>8. ASSUME NEW g \in (U \cup {f}) \ {k.head}
      PROVE  k.previous[g] \in U \cup {f} /\ k.next[k.previous[g]] = g /\ y[k.previous[g]] < y[g]
  <2>1. CASE g = f
    BY <1>3, <1>4, <1>5, <2>1
  <2>2. CASE g # f
    <3>1. g \in U /\ l.previous[g] \in U /\ l.next[l.previous[g]] = g /\ x[l.previous[g]] < x[g]
      BY <1>1, <2>2
    <3>2. l.previous[g] # l.tail
      BY <3>1 DEF NULL
    <3> DEFINE p == l.previous[g]
    <3>3. k.previous[g] = p /\ k.next[p] = l.next[p]
      BY <1>3, <1>4, <3>1, <3>2
    <3>4. p \in U /\ l.next[p] = g /\ x[p] < x[g]
      BY <3>1
    <3> HIDE DEF p
    <3>5. y[p] < y[g]
      BY <1>4, <3>1, <3>4
    <3> QED
      BY <3>3, <3>4, <3>5
  <2> QED
    BY <2>1, <2>2
<1>9. ASSUME NEW g \in (U \cup {f}) \ {f}
      PROVE  k.next[g] \in U \cup {f} /\ k.previous[k.next[g]] = g /\ y[g] < y[k.next[g]]
  <2>1. CASE g = l.tail
    BY <1>3, <1>4, <1>5, <2>1
  <2>2. CASE g # l.tail
    <3>1. l.next[g] \in U /\ l.previous[l.next[g]] = g /\ x[g] < x[l.next[g]]
      BY <2>2
    <3> DEFINE n == l.next[g]
    <3>2. k.next[g] = n /\ k.previous[n] = l.previous[n]
      BY <1>3, <1>4, <2>2, <3>1
    <3>3. n \in U /\ l.previous[n] = g /\ x[g] < x[n]
      BY <3>1
    <3> HIDE DEF n
    <3>4. y[g] < y[n]
      BY <1>4, <3>3
    <3> QED
      BY <3>2, <3>3, <3>4
  <2> QED
    BY <2>1, <2>2
<1> QED
  BY <1>1, <1>2, <1>6, <1>7, <1>8, <1>9 DEF LinksOrdered, k, y

\* A frame in the middle leaves the list of the others as it should be.
LEMMA MiddleUnhooked ==
  ASSUME NEW l \in ListType, NEW U \in SUBSET Frame, NEW x \in [Frame -> Nat],
         LinksOrdered(l, U, x), NEW f \in U, f # l.head, f # l.tail
  PROVE  LET k == Unhooked(l, f) IN
         k \in ListType /\ OrderedBut(f, k, U \ {f}, x)
<1> DEFINE p == l.previous[f]
           s == l.next[f]
           k == Unhooked(l, f)
           V == U \ {f}
<1>1. /\ p \in U /\ l.next[p] = f /\ x[p] < x[f]
      /\ s \in U /\ l.previous[s] = f /\ x[f] < x[s]
  BY DEF LinksOrdered
<1>2. /\ l.head \in U /\ l.previous[l.head] \in {NULL, l.head}
      /\ l.tail \in U /\ l.next[l.tail] = NULL
      /\ \A g \in Frame \ U : l.next[g] = NULL /\ l.previous[g] = NULL
      /\ \A g \in U \ {l.head} : /\ l.previous[g] \in U /\ l.next[l.previous[g]] = g
                               /\ x[l.previous[g]] < x[g]
      /\ \A g \in U \ {l.tail} : /\ l.next[g] \in U /\ l.previous[l.next[g]] = g
                               /\ x[g] < x[l.next[g]]
  BY DEF LinksOrdered
<1>3. /\ k.head = l.head /\ k.tail = l.tail
      /\ k.next = [l.next EXCEPT ![p] = s]
      /\ k.previous = [l.previous EXCEPT ![s] = p]
  BY DEF Unhooked, ListType
<1> HIDE DEF p, s
<1>4. k \in ListType
  BY <1>1 DEF Unhooked, ListType, Link, p, s
<1> HIDE DEF k
<1>5. \A g \in U : g \in Frame /\ x[g] \in Nat
  OBVIOUS
<1>6. p # f /\ s # f /\ x[p] < x[s]
  <2>1. x[p] \in Nat /\ x[f] \in Nat /\ x[s] \in Nat
    BY <1>1, <1>5
  <2> QED
    BY <1>1, <2>1
<1>7. /\ \A g \in Frame : k.next[g] = IF g = p THEN s ELSE l.next[g]
      /\ \A g \in Frame : k.previous[g] = IF g = s THEN p ELSE l.previous[g]
  BY <1>3 DEF ListType
<1>8. NULL \notin Frame
  BY DEF NULL
<1>9. p # l.tail
  BY <1>1, <1>2, <1>5, <1>8
<1>10. s # l.head
  <2>1. f # NULL /\ f # l.head
    BY <1>5, <1>8
  <2> QED
    BY <1>1, <1>2, <2>1
<1>11. /\ k.head \in V /\ k.previous[k.head] \in {NULL, k.head}
       /\ k.tail \in V /\ k.next[k.tail] = NULL
  BY <1>2, <1>3, <1>5, <1>7, <1>9, <1>10
<1>12. \A g \in Frame \ U : k.next[g] = NULL /\ k.previous[g] = NULL
  BY <1>1, <1>2, <1>7
<1>13. ASSUME NEW g \in V \ {k.head}
       PROVE  k.previous[g] \in V /\ k.next[k.previous[g]] = g /\ x[k.previous[g]] < x[g]
  <2>1. CASE g = s
    BY <1>1, <1>5, <1>6, <1>7, <2>1
  <2>2. CASE g # s
    <3> DEFINE q == l.previous[g]
    <3>1. q \in U /\ l.next[q] = g /\ x[q] < x[g]
      BY <1>2, <1>3
    <3>2. k.previous[g] = q
      BY <1>5, <1>7, <2>2
    <3> HIDE DEF q
    <3>3. q # f
      BY <2>2, <3>1 DEF s
    <3>4. q # p
      BY <1>1, <3>1
    <3> QED
      BY <1>5, <1>7, <3>1, <3>2, <3>3, <3>4
  <2> QED
    BY <2>1, <2>2
<1>14. ASSUME NEW g \in V \ {k.tail}
       PROVE  k.next[g] \in V /\ k.previous[k.next[g]] = g /\ x[g] < x[k.next[g]]
  <2>1. CASE g = p
    BY <1>1, <1>5, <1>6, <1>7, <2>1
  <2>2. CASE g # p
    <3> DEFINE q == l.next[g]
    <3>1. q \in U /\ l.previous[q] = g /\ x[g] < x[q]
      BY <1>2, <1>3
    <3>2. k.next[g] = q
      BY <1>5, <1>7, <2>2
    <3> HIDE DEF q
    <3>3. q # f
      BY <2>2, <3>1 DEF p
    <3>4. q # s
      BY <1>1, <3>1
    <3> QED
      BY <1>5, <1>7, <3>1, <3>2, <3>3, <3>4
  <2> QED
    BY <2>1, <2>2
<1> QED
  BY <1>4, <1>11, <1>12, <1>13, <1>14 DEF OrderedBut, k

\* So does the head, when its successor takes its place.
LEMMA HeadUnhooked ==
  ASSUME NEW l \in ListType, NEW U \in SUBSET Frame, NEW x \in [Frame -> Nat],
         LinksOrdered(l, U, x), NEW f \in U, f = l.head, f # l.tail
  PROVE  LET k == [l EXCEPT !.head = l.next[f], !.previous[l.next[f]] = NULL] IN
         k \in ListType /\ OrderedBut(f, k, U \ {f}, x)
<1> DEFINE s == l.next[f]
           k == [l EXCEPT !.head = l.next[f], !.previous[l.next[f]] = NULL]
           V == U \ {f}
<1>1. s \in U /\ l.previous[s] = f /\ x[f] < x[s]
  BY DEF LinksOrdered
<1>2. /\ l.tail \in U /\ l.next[l.tail] = NULL
      /\ \A g \in Frame \ U : l.next[g] = NULL /\ l.previous[g] = NULL
      /\ \A g \in U \ {f} : /\ l.previous[g] \in U /\ l.next[l.previous[g]] = g
                          /\ x[l.previous[g]] < x[g]
      /\ \A g \in U \ {l.tail} : /\ l.next[g] \in U /\ l.previous[l.next[g]] = g
                               /\ x[g] < x[l.next[g]]
  BY DEF LinksOrdered
<1>3. /\ k.head = s /\ k.tail = l.tail /\ k.next = l.next
      /\ k.previous = [l.previous EXCEPT ![s] = NULL]
  BY DEF ListType
<1>4. k \in ListType
  BY <1>1 DEF ListType, Link
<1> HIDE DEF k, s
<1>5. \A g \in U : g \in Frame /\ x[g] \in Nat /\ x[f] <= x[g]
  BY HeadIsEarliest
<1>6. s # f
  <2>1. x[f] \in Nat /\ ~ (x[f] < x[f])
    BY <1>5
  <2> QED
    BY <1>1, <2>1
<1>7. \A g \in Frame : k.previous[g] = IF g = s THEN NULL ELSE l.previous[g]
  BY <1>3 DEF ListType
<1>8. /\ k.head \in V /\ k.previous[k.head] \in {NULL, k.head}
      /\ k.tail \in V /\ k.next[k.tail] = NULL
  BY <1>1, <1>2, <1>3, <1>5, <1>6, <1>7
<1>9. \A g \in Frame \ U : k.next[g] = NULL /\ k.previous[g] = NULL
  BY <1>1, <1>2, <1>3, <1>7
<1>10. ASSUME NEW g \in V \ {k.head}
       PROVE  k.previous[g] \in V /\ k.next[k.previous[g]] = g /\ x[k.previous[g]] < x[g]
  <2> DEFINE q == l.previous[g]
  <2>1. q \in U /\ l.next[q] = g /\ x[q] < x[g]
    BY <1>2
  <2>2. k.previous[g] = q
    BY <1>3, <1>5, <1>7
  <2> HIDE DEF q
  <2>3. q # f
    BY <1>3, <2>1 DEF s
  <2> QED
    BY <1>3, <2>1, <2>2, <2>3
<1>11. ASSUME NEW g \in V \ {k.tail}
       PROVE  k.next[g] \in V /\ k.previous[k.next[g]] = g /\ x[g] < x[k.next[g]]
  <2> DEFINE q == l.next[g]
  <2>1. q \in U /\ l.previous[q] = g /\ x[g] < x[q]
    BY <1>2, <1>3
  <2>2. k.next[g] = q
    BY <1>3
  <2> HIDE DEF q
  <2>3. q # s
    BY <1>1, <2>1
  <2>4. q # f
    <3>1. x[f] \in Nat /\ x[g] \in Nat /\ x[f] <= x[g]
      BY <1>5
    <3>2. ~ (x[g] < x[f])
      BY <3>1
    <3> QED
      BY <2>1, <3>2
  <2> QED
    BY <1>5, <1>7, <2>1, <2>2, <2>3, <2>4
<1> QED
  BY <1>4, <1>8, <1>9, <1>10, <1>11 DEF OrderedBut, k

\* A later use of the last frame changes no order.
LEMMA TailUsed ==
  ASSUME NEW l \in ListType, NEW U \in SUBSET Frame, NEW x \in [Frame -> Nat],
         LinksOrdered(l, U, x), U # {}, NEW now \in Nat, \A g \in U : x[g] < now
  PROVE  LinksOrdered(l, U, UsedAt(x, l.tail, now))
<1> DEFINE f == l.tail
           y == UsedAt(x, f, now)
<1> USE DEF UsedAt
<1>1. /\ l.head \in U /\ l.previous[l.head] \in {NULL, l.head}
      /\ f \in U /\ l.next[f] = NULL
      /\ \A g \in Frame \ U : l.next[g] = NULL /\ l.previous[g] = NULL
      /\ \A g \in U \ {l.head} : /\ l.previous[g] \in U /\ l.next[l.previous[g]] = g
                               /\ x[l.previous[g]] < x[g]
      /\ \A g \in U \ {f} : /\ l.next[g] \in U /\ l.previous[l.next[g]] = g
                          /\ x[g] < x[l.next[g]]
  BY DEF LinksOrdered
<1>2. /\ \A g \in U : g \in Frame /\ y[g] = IF g = f THEN now ELSE x[g]
      /\ \A g \in U : x[g] \in Nat /\ x[g] < now
  BY <1>1
<1>3. NULL \notin U
  BY DEF NULL
<1> HIDE DEF f, y
<1>4. ASSUME NEW g \in U \ {l.head} PROVE y[l.previous[g]] < y[g]
  <2> DEFINE q == l.previous[g]
  <2>1. q \in U /\ l.next[q] = g /\ x[q] < x[g]
    BY <1>1
  <2> HIDE DEF q
  <2>2. q # f
    BY <1>1, <1>3, <2>1
  <2>3. y[q] < y[g]
    BY <1>2, <2>1, <2>2
  <2> QED
    BY <2>3 DEF q
<1>5. ASSUME NEW g \in U \ {f} PROVE y[g] < y[l.next[g]]
  <2> DEFINE q == l.next[g]
  <2>1. q \in U /\ x[g] < x[q]
    BY <1>1
  <2> HIDE DEF q
  <2>2. y[g] < y[q]
    BY <1>2, <2>1
  <2> QED
    BY <2>2 DEF q
<1> QED
  BY <1>1, <1>4, <1>5 DEF LinksOrdered, f, y

\* lru_ref makes the frame the last, wherever it was.
LEMMA LinkedOrdered ==
  ASSUME NEW l \in ListType, NEW U \in SUBSET Frame, NEW x \in [Frame -> Nat],
         LinksOrdered(l, U, x), NEW f \in Frame, NEW now \in Nat, \A g \in U : x[g] < now
  PROVE  LET k == Linked(l, f) IN
         k \in ListType /\ LinksOrdered(k, U \cup {f}, UsedAt(x, f, now))
<1>1. /\ U # {} => /\ l.head \in U /\ l.previous[l.head] \in {NULL, l.head}
                   /\ l.tail \in U /\ l.next[l.tail] = NULL
      /\ U = {} => l.head = NULL
      /\ \A g \in Frame \ U : l.next[g] = NULL /\ l.previous[g] = NULL
      /\ \A g \in U \ {l.head} : /\ l.previous[g] \in U /\ l.next[l.previous[g]] = g
                               /\ x[l.previous[g]] < x[g]
      /\ \A g \in U \ {l.tail} : /\ l.next[g] \in U /\ l.previous[l.next[g]] = g
                               /\ x[g] < x[l.next[g]]
  BY DEF LinksOrdered
<1>2. NULL \notin U /\ NULL \notin Frame
  BY DEF NULL
<1>3. CASE f \notin U /\ U = {}
  <2> DEFINE k == [l EXCEPT !.head = f, !.tail = f]
  <2>1. Linked(l, f) = k
    BY <1>1, <1>3 DEF Linked
  <2>2. k.head = f /\ k.tail = f /\ k.next = l.next /\ k.previous = l.previous /\ k \in ListType
    BY DEF ListType, Link
  <2> HIDE DEF k
  <2> QED
    BY <1>1, <1>3, <2>1, <2>2 DEF LinksOrdered
<1>4. CASE f \notin U /\ U # {}
  <2>1. Linked(l, f) = Appended(l, f)
    BY <1>1, <1>2, <1>4 DEF Linked
  <2>2. OrderedBut(f, l, U, x)
    BY <1>1, <1>4 DEF OrderedBut
  <2> QED
    BY <1>4, <2>1, <2>2, AppendedOrdered
<1>5. CASE f \in U /\ l.next[f] = NULL /\ l.previous[f] = NULL
  <2>1. f = l.head /\ f = l.tail
    BY <1>1, <1>2, <1>5
  <2>2. U = {f}
    BY <1>5, <2>1, OnlyFrame
  <2>3. l.head # NULL
    BY <1>2, <1>5, <2>1
  <2> DEFINE k == Appended(l, f)
  <2>4. Linked(l, f) = k
    BY <1>5, <2>3 DEF Linked
  <2>5. /\ k.head = l.head /\ k.tail = f
        /\ k.next = [l.next EXCEPT ![l.tail] = f, ![f] = NULL]
        /\ k.previous = [l.previous EXCEPT ![f] = l.tail]
    BY DEF Appended, ListType
  <2>6. k \in ListType
    BY <2>1 DEF Appended, ListType, Link
  <2> HIDE DEF k
  <2>7. \A g \in Frame : /\ k.next[g] = IF g = f THEN NULL ELSE l.next[g]
                        /\ k.previous[g] = IF g = f THEN f ELSE l.previous[g]
    BY <2>1, <2>5 DEF ListType
  <2>8. k.head = f /\ k.previous[f] = f /\ k.tail = f /\ k.next[f] = NULL
    BY <2>1, <2>5, <2>7
  <2>9. \A g \in Frame \ {f} : k.next[g] = NULL /\ k.previous[g] = NULL
    BY <1>1, <2>2, <2>7, ZenonT(40)
  <2>10. U \cup {f} = {f}
    BY <2>2
  <2>11. LinksOrdered(k, {f}, UsedAt(x, f, now))
    BY <2>8, <2>9 DEF LinksOrdered
  <2> QED
    BY <2>4, <2>6, <2>10, <2>11
<1>6. CASE f \in U /\ (l.next[f] # NULL \/ l.previous[f] # NULL)
  <2>1. Linked(l, f) =
          IF l.head = l.tail \/ l.tail = f THEN l
          ELSE IF l.head = f
          THEN Appended([l EXCEPT !.head = l.next[f], !.previous[l.next[f]] = NULL], f)
          ELSE Appended(Unhooked(l, f), f)
    BY <1>6 DEF Linked
  <2>2. U # {} /\ U \cup {f} = U /\ (U \ {f}) \cup {f} = U
    BY <1>6
  <2>3. CASE l.head = l.tail \/ l.tail = f
    <3>1. f = l.tail
      BY <1>6, <2>2, <2>3, OnlyFrame
    <3> QED
      BY <2>1, <2>2, <2>3, <3>1, TailUsed
  <2>4. CASE l.head # l.tail /\ l.tail # f /\ l.head = f
    <3> DEFINE k == [l EXCEPT !.head = l.next[f], !.previous[l.next[f]] = NULL]
               V == U \ {f}
    <3>1. k \in ListType /\ OrderedBut(f, k, V, x)
      BY <1>6, <2>4, HeadUnhooked
    <3>2. Linked(l, f) = Appended(k, f)
      BY <2>1, <2>4
    <3> HIDE DEF k
    <3>3. V \in SUBSET Frame /\ f \notin V /\ V \cup {f} = U /\ \A g \in V : x[g] < now
      BY <2>2
    <3> HIDE DEF V
    <3>4. /\ Appended(k, f) \in ListType
          /\ LinksOrdered(Appended(k, f), V \cup {f}, UsedAt(x, f, now))
      BY <3>1, <3>3, AppendedOrdered
    <3>5. V \cup {f} = U \cup {f}
      BY <2>2, <3>3
    <3> QED
      BY <3>2, <3>4, <3>5
  <2>5. CASE l.head # l.tail /\ l.tail # f /\ l.head # f
    <3> DEFINE k == Unhooked(l, f)
               V == U \ {f}
    <3>1. k \in ListType /\ OrderedBut(f, k, V, x)
      BY <1>6, <2>5, MiddleUnhooked
    <3>2. Linked(l, f) = Appended(k, f)
      BY <2>1, <2>5
    <3> HIDE DEF k
    <3>3. V \in SUBSET Frame /\ f \notin V /\ V \cup {f} = U /\ \A g \in V : x[g] < now
      BY <2>2
    <3> HIDE DEF V
    <3>4. /\ Appended(k, f) \in ListType
          /\ LinksOrdered(Appended(k, f), V \cup {f}, UsedAt(x, f, now))
      BY <3>1, <3>3, AppendedOrdered
    <3>5. V \cup {f} = U \cup {f}
      BY <2>2, <3>3
    <3> QED
      BY <3>2, <3>4, <3>5
  <2> QED
    BY <2>3, <2>4, <2>5
<1> QED
  BY <1>3, <1>4, <1>5, <1>6

\* The list follows a reference to frame f, which Recorded writes down as well.
LEMMA ListKept ==
  ASSUME NEW l \in ListType, NEW U \in SUBSET Frame, LinksOrdered(l, U, used),
         NEW f \in Frame, used \in [Frame -> Nat], count.ref \in Nat,
         \A g \in Frame : used[g] <= count.ref,
         list' = Linked(l, f), InUse' = U \cup {f},
         used' = [used EXCEPT ![f] = count'.ref], count'.ref = count.ref + 1
  PROVE  ListInv'
<1> DEFINE now == count.ref + 1
<1>1. now \in Nat /\ \A g \in U : used[g] < now
  OBVIOUS
<1>2. used' = UsedAt(used, f, now)
  BY DEF UsedAt
<1>3. used' \in [Frame -> Nat] /\ \A g \in Frame : used'[g] <= count'.ref
  BY <1>1
<1> HIDE DEF now
<1>4. Linked(l, f) \in ListType /\ LinksOrdered(Linked(l, f), U \cup {f}, UsedAt(used, f, now))
  BY <1>1, LinkedOrdered
<1>5. LinksOrdered(list', InUse', used')
  BY <1>2, <1>4
<1>6. LinksOrdered(list, InUse, used)' <=> LinksOrdered(list', InUse', used')
  BY DEF LinksOrdered
<1> QED
  BY <1>3, <1>4, <1>5, <1>6 DEF ListInv, ListType, Link

\* The victim is the frame at the head of the list.
LEMMA VictimIsHead ==
  ASSUME PagingInv, ListInv, FreeFrames = {}
  PROVE  Victim = list.head /\ list.head \in Frame /\ InUse = Frame /\ Frame # {}
<1>1. InUse = Frame
  BY DEF InUse
<1>2. Frame # {}
  <2>1. 0 \in Frame
    OBVIOUS
  <2> QED
    BY <2>1
<1>3. list.head \in Frame
  BY <1>1, <1>2 DEF ListInv, LinksOrdered
<1>4. coremap[list.head].in_use
  BY <1>3 DEF FreeFrames
<1>5. pte[coremap[list.head].pte].frame = list.head
  BY <1>3, <1>4 DEF PagingInv, FrameOwnership
<1> QED
  BY <1>1, <1>2, <1>3, <1>5 DEF Victim

\* A step of the simulator with lru: the invariant, and who leaves.
LEMMA LruStep ==
  ASSUME PagingInv, ListInv, NEW v \in Page, NEW type \in Type,
         LruAccess(v, type), Recorded(v)
  PROVE  PagingInv' /\ (status' = "running" => ListInv') /\ LeastRecentLeaves
<1> DEFINE f == pte'[v].frame
<1>1. /\ list \in ListType /\ used \in [Frame -> Nat] /\ count.ref \in Nat
      /\ \A g \in Frame : used[g] <= count.ref
      /\ LinksOrdered(list, InUse, used)
  BY DEF ListInv, PagingInv, TypeOK
<1>2. InUse \in SUBSET Frame
  BY DEF InUse
<1>3. ASSUME Hit(v, type) \/ Fill(v, type), list' = Linked(list, f)
      PROVE  PagingInv' /\ ListInv' /\ LeastRecentLeaves
  <2>1. /\ PagingInv' /\ status' = "running"
        /\ f \in Frame /\ InUse' = InUse \cup {f}
        /\ Resident \subseteq Resident' /\ count'.ref = count.ref + 1
    BY <1>2, <1>3, HitFacts, FillFacts
  <2>2. used' = [used EXCEPT ![f] = count'.ref]
    BY <2>1 DEF Recorded
  <2>3. list' = Linked(list, f)
    BY <1>3
  <2> HIDE DEF f
  <2>4. ListInv'
    BY <1>1, <1>2, <2>1, <2>2, <2>3, ListKept
  <2> QED
    BY <2>1, <2>4 DEF LeastRecentLeaves
<1>4. ASSUME FreeFrames = {}, Replace(v, Tables(v), Victim, type),
             list' = Linked(Unlinked(list, Victim), f)
      PROVE  PagingInv' /\ ListInv' /\ LeastRecentLeaves
  <2> DEFINE h == list.head
             k == Unlinked(list, h)
             V == InUse \ {h}
  <2>1. Victim = h /\ h \in Frame /\ InUse = Frame /\ Frame # {}
    BY <1>4, VictimIsHead
  <2>2. /\ PagingInv' /\ status' = "running" /\ f = h /\ InUse' = Frame
        /\ \A w \in Resident \ Resident' : pte[w].frame = h
        /\ count'.ref = count.ref + 1
    BY <1>4, <2>1, OwnTables, ReplaceFacts
  <2>3. used' = [used EXCEPT ![h] = count'.ref]
    BY <2>2 DEF Recorded
  <2>4. list' = Linked(k, h)
    BY <1>4, <2>1, <2>2
  <2>5. k \in ListType /\ LinksOrdered(k, V, used)
    BY <1>1, <1>2, <2>1, HeadUnlinked
  <2>6. V \in SUBSET Frame /\ InUse' = V \cup {h}
    BY <2>1, <2>2
  <2> HIDE DEF f, k, V
  <2>7. ListInv'
    BY <1>1, <2>1, <2>2, <2>3, <2>4, <2>5, <2>6, ListKept
  <2>8. \A g \in InUse : used[h] <= used[g]
    BY <1>1, <1>2, HeadIsEarliest
  <2>9. \A w \in Resident : pte[w].frame \in InUse
    BY <2>1, ResidentInUse DEF PagingInv, Resident
  <2>10. LeastRecentLeaves
    BY <2>2, <2>8, <2>9 DEF LeastRecentLeaves
  <2> QED
    BY <2>2, <2>7, <2>10
<1>5. CASE FreeFrames = {} /\ SwapExhausted(v, Tables(v), Victim)
  <2>1. Victim \in Frame
    BY <1>5, VictimIsHead
  <2> QED
    BY <1>5, <2>1, OwnTables, ExitFacts DEF LeastRecentLeaves
<1> QED
  BY <1>3, <1>4, <1>5 DEF LruAccess

\* The invariant that ties the list to the order of use, at the start
LEMMA LruInit == SimInit => LruInv
<1> SUFFICES ASSUME SimInit PROVE PagingInv /\ ListInv
  BY DEF LruInv
<1>1. PagingInv
  BY PagingInit DEF SimInit
<1>2. InUse = {}
  BY DEF SimInit, Init, InUse, FreeFrames
<1>3. list = [head |-> NULL, tail |-> NULL,
              next |-> [f \in Frame |-> NULL], previous |-> [f \in Frame |-> NULL]]
  BY DEF SimInit, lru_init
<1>4. list \in ListType /\ LinksOrdered(list, {}, used)
  BY <1>3 DEF ListType, Link, LinksOrdered
<1>5. used \in [Frame -> Nat] /\ \A f \in Frame : used[f] <= count.ref
  BY DEF SimInit, Init, HistoryInit
<1> QED
  BY <1>1, <1>2, <1>4, <1>5 DEF ListInv

\* and after every step.
LEMMA LruNext ==
  LruInv /\ [SimNext]_sim_vars => LruInv' /\ [evict_fcn = "lru" => LeastRecentLeaves]_sim_vars
<1> SUFFICES ASSUME LruInv, [SimNext]_sim_vars, evict_fcn = "lru"
             PROVE  LruInv' /\ (LeastRecentLeaves \/ UNCHANGED sim_vars)
  BY DEF SimNext, sim_vars, LruInv
<1>1. CASE SimNext
  <2>1. PICK v \in Page, type \in Type : LruAccess(v, type) /\ Recorded(v)
    BY <1>1 DEF SimNext, Access
  <2>2. status = "running"
    BY <2>1 DEF LruAccess, Hit, Fill, Replace, SwapExhausted, Fault, Reference
  <2> QED
    BY <2>1, <2>2, LruStep DEF LruInv
<1>2. CASE UNCHANGED sim_vars
  <2>1. UNCHANGED vars /\ UNCHANGED <<used, list, evict_fcn>>
    BY <1>2 DEF sim_vars, history_vars
  <2>2. PagingInv'
    BY <2>1, PagingStep DEF LruInv
  <2>3. status = "running" => ListInv'
    BY <2>1 DEF LruInv, ListInv, LinksOrdered, InUse, FreeFrames, vars
  <2> QED
    BY <1>2, <2>1, <2>2, <2>3 DEF LruInv, vars
<1> QED
  BY <1>1, <1>2

\* The five cases of lru_ref and the two of lru_evict, for any number of frames:
\* the page at the head of the list is the one referenced longest ago.
THEOREM LruEvictsLeastRecent == SimSpec => EvictsLeastRecent
<1> QED
  BY LruInit, LruNext, PTL DEF SimSpec, EvictsLeastRecent

-----------------------------------------------------------------------------
(* The list as ListIsRecency reads it: a walk from the head along `next` meets *)
(* the frames in use one after the other, and ends at the tail.                *)

\* There are MemSize frames.
LEMMA FramesCounted == IsFiniteSet(Frame) /\ Cardinality(Frame) = MemSize /\ NULL \notin Frame
<1>1. MemSize \in Nat /\ MemSize > 0 /\ 0 \in Int /\ MemSize - 1 \in Int
  OBVIOUS
<1>2. IsFiniteSet(0 .. MemSize - 1) /\ Cardinality(0 .. MemSize - 1) = MemSize
  BY <1>1, FS_Interval
<1>3. NULL \notin Frame
  BY DEF NULL
<1> QED
  BY <1>2, <1>3

HIDE DEF Frame

\* W is the walk along the list l, m frames long.
Walks(W, l, m) ==
  W = [k \in 1 .. m |-> IF k = 1 THEN l.head
                        ELSE IF W[k - 1] = NULL THEN NULL ELSE l.next[W[k - 1]]]

\* There is such a walk of any length.
LEMMA WalkUpTo ==
  ASSUME NEW l, NEW m \in Nat
  PROVE  \E W : Walks(W, l, m)
<1> DEFINE Bad == {k \in Nat : ~ \E W : Walks(W, l, k)}
<1> SUFFICES ASSUME Bad # {} PROVE FALSE
  OBVIOUS
<1>1. PICK k \in Bad : \A j \in Nat : j < k => j \notin Bad
  BY Smallest
<1>2. CASE k = 0
  <2> DEFINE W == [j \in 1 .. 0 |-> NULL]
  <2>1. Walks(W, l, 0)
    BY DEF Walks
  <2> QED
    BY <1>2, <2>1
<1>3. CASE k # 0
  <2>1. k - 1 \in Nat /\ k - 1 < k
    BY <1>3
  <2>2. PICK W : Walks(W, l, k - 1)
    BY <1>1, <2>1
  <2> DEFINE V == [j \in 1 .. k |-> IF j = 1 THEN l.head
                                    ELSE IF W[j - 1] = NULL THEN NULL ELSE l.next[W[j - 1]]]
  <2>3. ASSUME NEW j \in 1 .. k - 1 PROVE j \in 1 .. k /\ V[j] = W[j]
    <3>1. W[j] = IF j = 1 THEN l.head ELSE IF W[j - 1] = NULL THEN NULL ELSE l.next[W[j - 1]]
      BY <2>2 DEF Walks
    <3> QED
      BY <2>1, <3>1
  <2>4. \A j \in 1 .. k : V[j] = IF j = 1 THEN l.head
                                 ELSE IF V[j - 1] = NULL THEN NULL ELSE l.next[V[j - 1]]
    <3> SUFFICES ASSUME NEW j \in 1 .. k
                 PROVE  V[j] = IF j = 1 THEN l.head
                               ELSE IF V[j - 1] = NULL THEN NULL ELSE l.next[V[j - 1]]
      OBVIOUS
    <3>1. CASE j = 1
      BY <3>1
    <3>2. CASE j # 1
      <4>1. j - 1 \in 1 .. k - 1
        BY <2>1, <3>2
      <4>2. V[j - 1] = W[j - 1]
        BY <2>3, <4>1
      <4>3. V[j] = IF W[j - 1] = NULL THEN NULL ELSE l.next[W[j - 1]]
        BY <3>2
      <4> HIDE DEF V
      <4> QED
        BY <3>2, <4>2, <4>3
    <3> QED
      BY <3>1, <3>2
  <2>5. V = [j \in 1 .. k |-> V[j]]
    OBVIOUS
  <2> HIDE DEF V
  <2>6. Walks(V, l, k)
    BY <2>4, <2>5 DEF Walks
  <2> QED
    BY <2>6
<1> QED
  BY <1>2, <1>3

\* So Walk is one.
LEMMA WalkSteps ==
  /\ Walk[1] = list.head
  /\ \A k \in 2 .. MemSize : Walk[k] = IF Walk[k - 1] = NULL THEN NULL ELSE list.next[Walk[k - 1]]
<1>1. \E W : Walks(W, list, MemSize)
  BY WalkUpTo
<1>2. Walk = CHOOSE W : Walks(W, list, MemSize)
  BY DEF Walk, Walks
<1>3. Walks(Walk, list, MemSize)
  BY <1>1, <1>2
<1>4. \A k \in 1 .. MemSize : Walk[k] = IF k = 1 THEN list.head
        ELSE IF Walk[k - 1] = NULL THEN NULL ELSE list.next[Walk[k - 1]]
  BY <1>3 DEF Walks
<1> QED
  BY <1>4

\* The tail was used no earlier than any other frame of the list.
LEMMA TailIsLatest ==
  ASSUME NEW l, NEW U \in SUBSET Frame, NEW x \in [Frame -> Nat], LinksOrdered(l, U, x),
         NEW now \in Nat, \A f \in Frame : x[f] <= now, NEW g \in U
  PROVE  x[g] <= x[l.tail]
<1> DEFINE S == {now - x[f] : f \in U}
<1>1. S \in SUBSET Nat /\ S # {}
  OBVIOUS
<1>2. PICK n \in S : \A k \in Nat : k < n => k \notin S
  BY <1>1, Smallest
<1>3. PICK f \in U : n = now - x[f]
  BY <1>2
<1>4. \A h \in U : x[h] <= x[f]
  <2> SUFFICES ASSUME NEW h \in U, ~ (x[h] <= x[f]) PROVE FALSE
    OBVIOUS
  <2>1. now - x[h] \in S /\ now - x[h] \in Nat /\ now - x[h] < n
    BY <1>3
  <2> QED
    BY <1>2, <2>1
<1>5. f = l.tail
  <2> SUFFICES ASSUME f # l.tail PROVE FALSE
    OBVIOUS
  <2>1. l.next[f] \in U /\ x[f] < x[l.next[f]]
    BY DEF LinksOrdered
  <2>2. x[l.next[f]] <= x[f]
    BY <1>4, <2>1
  <2> QED
    BY <2>1, <2>2
<1> QED
  BY <1>4, <1>5

\* The frames in U used no later than f.
UsedUntil(f, U, x) == {g \in U : x[g] <= x[f]}

\* None was used before the head,
LEMMA NoneBeforeHead ==
  ASSUME NEW l, NEW U \in SUBSET Frame, NEW x \in [Frame -> Nat], LinksOrdered(l, U, x), U # {}
  PROVE  UsedUntil(l.head, U, x) = {l.head}
<1>1. l.head \in U
  BY DEF LinksOrdered
<1>2. ASSUME NEW g \in U, x[g] <= x[l.head], g # l.head PROVE FALSE
  <2>1. l.previous[g] \in U /\ x[l.previous[g]] < x[g]
    BY <1>2 DEF LinksOrdered
  <2>2. x[l.head] <= x[l.previous[g]]
    BY <2>1, HeadIsEarliest
  <2> QED
    BY <1>1, <1>2, <2>1, <2>2
<1> QED
  <2>1. x[l.head] <= x[l.head]
    BY <1>1
  <2> QED
    BY <1>1, <1>2, <2>1 DEF UsedUntil

\* and none between two frames that are linked.
LEMMA NoneBetween ==
  ASSUME NEW l, NEW U \in SUBSET Frame, NEW x \in [Frame -> Nat], LinksOrdered(l, U, x),
         NEW f \in U \ {l.tail},
         \A h \in UsedUntil(f, U, x) \ {f} : l.next[h] \in UsedUntil(f, U, x)
  PROVE  UsedUntil(l.next[f], U, x) = UsedUntil(f, U, x) \cup {l.next[f]}
<1> DEFINE n == l.next[f]
           UsedAfter == {g \in U : x[f] < x[g]}
<1>1. n \in U /\ x[f] < x[n]
  BY DEF LinksOrdered
<1>2. ASSUME NEW g \in UsedAfter, \A h \in UsedAfter : x[g] <= x[h] PROVE g = n
  <2>1. g # l.head
    BY <1>2, HeadIsEarliest
  <2>2. l.previous[g] \in U /\ l.next[l.previous[g]] = g /\ x[l.previous[g]] < x[g]
    BY <2>1 DEF LinksOrdered
  <2>3. l.previous[g] \notin UsedAfter
    BY <1>2, <2>2
  <2>4. l.previous[g] \in UsedUntil(f, U, x) /\ g \notin UsedUntil(f, U, x)
    <3> DEFINE p == l.previous[g]
    <3>1. x[f] \in Nat /\ x[g] \in Nat /\ x[p] \in Nat
      BY <1>2, <2>2
    <3>2. ~ (x[f] < x[p]) /\ x[f] < x[g]
      BY <1>2, <2>2, <2>3
    <3> HIDE DEF p
    <3>3. x[p] <= x[f] /\ ~ (x[g] <= x[f])
      BY <3>1, <3>2
    <3> QED
      BY <2>2, <3>3 DEF UsedUntil, p
  <2> QED
    BY <2>2, <2>4
<1>3. UsedAfter \in SUBSET Frame /\ UsedAfter # {}
  BY <1>1
<1>4. PICK g \in UsedAfter : \A h \in UsedAfter : x[g] <= x[h]
  BY <1>3, EarliestExists
<1>5. g = n
  BY <1>2, <1>4
<1>6. ASSUME NEW h \in UsedAfter, x[h] <= x[n] PROVE h = n
  <2>1. \A k \in UsedAfter : x[n] <= x[k]
    BY <1>4, <1>5
  <2>2. x[h] \in Nat /\ x[n] \in Nat /\ \A k \in UsedAfter : x[k] \in Nat
    BY <1>1, <1>3, <1>6
  <2> HIDE DEF UsedAfter, n
  <2>3. \A k \in UsedAfter : x[h] <= x[k]
    BY <1>6, <2>1, <2>2
  <2> QED
    BY <1>2, <1>6, <2>3
<1> HIDE DEF n
<1>7. UsedUntil(n, U, x) = UsedUntil(f, U, x) \cup {n}
  <2>1. ASSUME NEW h \in U, x[h] <= x[n], ~ (x[h] <= x[f]) PROVE h = n
    <3>1. x[f] \in Nat /\ x[h] \in Nat
      BY <2>1
    <3>2. x[f] < x[h]
      BY <2>1, <3>1
    <3> QED
      BY <1>6, <2>1, <3>2
  <2>2. ASSUME NEW h \in U, x[h] <= x[f] PROVE x[h] <= x[n]
    <3>1. x[f] \in Nat /\ x[h] \in Nat /\ x[n] \in Nat
      BY <1>1
    <3> QED
      BY <1>1, <2>2, <3>1
  <2>3. n \in U /\ x[n] <= x[n]
    BY <1>1
  <2> QED
    BY <2>1, <2>2, <2>3 DEF UsedUntil
<1> QED
  BY <1>7 DEF n

\* Up to its k-th frame the walk has met the frames used until then, each once.
Met(k) ==
  /\ Walk[k] \in InUse
  /\ UsedUntil(Walk[k], InUse, used) = {Walk[j] : j \in 1 .. k}
  /\ Cardinality({Walk[j] : j \in 1 .. k}) = k
  /\ k > 1 => used[Walk[k - 1]] < used[Walk[k]] /\ list.previous[Walk[k]] = Walk[k - 1]

\* The walk does so up to the number of frames in use.
LEMMA WalkMeets ==
  ASSUME ListInv, count.ref \in Nat, NEW m \in 1 .. Cardinality(InUse)
  PROVE  Met(m)
<1> DEFINE c == Cardinality(InUse)
           Bad == {k \in 1 .. c : ~ Met(k)}
<1>1. /\ InUse \in SUBSET Frame /\ IsFiniteSet(InUse) /\ c \in Nat /\ c <= MemSize
      /\ used \in [Frame -> Nat] /\ LinksOrdered(list, InUse, used)
  <2>1. IsFiniteSet(Frame) /\ Cardinality(Frame) = MemSize
    BY FramesCounted
  <2>2. InUse \in SUBSET Frame
    BY DEF InUse
  <2>3. IsFiniteSet(InUse) /\ c <= MemSize
    BY <2>1, <2>2, FS_Subset
  <2>4. c \in Nat
    BY <2>3, FS_CardinalityType
  <2> QED
    BY <2>2, <2>3, <2>4 DEF ListInv
<1>2. InUse # {} /\ list.head \in InUse
  BY <1>1, FS_EmptySet DEF LinksOrdered
<1> SUFFICES ASSUME Bad # {} PROVE FALSE
  OBVIOUS
<1>3. PICK k \in Bad : \A j \in Nat : j < k => j \notin Bad
  <2>1. Bad \in SUBSET Nat
    BY <1>1
  <2> HIDE DEF Bad
  <2> QED
    BY <2>1, Smallest
<1> HIDE DEF c
<1>4. CASE k = 1
  <2>1. {Walk[j] : j \in 1 .. 1} = {list.head}
    BY WalkSteps
  <2>2. Cardinality({list.head}) = 1
    BY FS_Singleton
  <2>3. UsedUntil(list.head, InUse, used) = {list.head}
    BY <1>1, <1>2, NoneBeforeHead
  <2>4. Met(1)
    <3>1. Walk[1] = list.head /\ ~ (1 > 1)
      BY WalkSteps
    <3> QED
      BY <1>2, <2>1, <2>2, <2>3, <3>1 DEF Met
  <2> QED
    BY <1>4, <2>4
<1>5. CASE k # 1
  <2> DEFINE f == Walk[k - 1]
             P == {Walk[j] : j \in 1 .. k - 1}
  <2>1. k - 1 \in 1 .. c /\ k - 1 \in Nat /\ k - 1 < k /\ k \in 2 .. MemSize
    BY <1>1, <1>5
  <2>2. Met(k - 1)
    BY <1>3, <2>1
  <2>3. f \in InUse /\ UsedUntil(f, InUse, used) = P /\ Cardinality(P) = k - 1
    BY <2>2 DEF Met
  <2>4. f # NULL /\ Walk[k] = list.next[f]
    BY <1>1, <2>1, <2>3, FramesCounted, WalkSteps
  <2>5. ASSUME f = list.tail PROVE FALSE
    <3>1. \A g \in InUse : used[g] <= used[f]
      BY <1>1, <2>5, TailIsLatest DEF ListInv
    <3>2. UsedUntil(f, InUse, used) = InUse
      BY <3>1 DEF UsedUntil
    <3>3. c = k - 1
      BY <2>3, <3>2 DEF c
    <3> QED
      BY <1>1, <2>1, <3>3
  <2>6. ASSUME NEW h \in P \ {f} PROVE list.next[h] \in P
    <3>1. PICK j \in 1 .. k - 1 : h = Walk[j]
      OBVIOUS
    <3>2. j # k - 1 /\ j + 1 \in 2 .. MemSize /\ j + 1 \in 1 .. k - 1 /\ (j + 1) - 1 = j
      BY <2>1, <2>6, <3>1
    <3>3. h # NULL
      BY <1>1, <2>3, <2>6, FramesCounted DEF UsedUntil
    <3>4. Walk[j + 1] = list.next[h]
      BY <3>1, <3>2, <3>3, WalkSteps
    <3> QED
      BY <3>2, <3>4
  <2>7. /\ list.next[f] \in InUse /\ list.previous[list.next[f]] = f
        /\ used[f] < used[list.next[f]]
    BY <1>1, <2>3, <2>5 DEF LinksOrdered
  <2>8. UsedUntil(list.next[f], InUse, used) = P \cup {list.next[f]}
    <3>1. \A h \in UsedUntil(f, InUse, used) \ {f} : list.next[h] \in UsedUntil(f, InUse, used)
      BY <2>3, <2>6
    <3>2. f \in InUse \ {list.tail}
      BY <2>3, <2>5
    <3> HIDE DEF f
    <3>3. UsedUntil(list.next[f], InUse, used) = UsedUntil(f, InUse, used) \cup {list.next[f]}
      <4> HIDE DEF UsedUntil, LinksOrdered, InUse
      <4> QED
        BY <1>1, <3>1, <3>2, NoneBetween
    <3> QED
      BY <2>3, <3>3
  <2>9. {Walk[j] : j \in 1 .. k} = P \cup {list.next[f]}
    <3>1. \A j \in 1 .. k : j \in 1 .. k - 1 \/ j = k
      BY <2>1
    <3> QED
      BY <2>1, <2>4, <3>1
  <2>10. Cardinality(P \cup {list.next[f]}) = k
    <3>1. list.next[f] \notin P
      <4> DEFINE s == list.next[f]
      <4>1. used[f] \in Nat /\ used[s] \in Nat
        BY <1>1, <2>3, <2>7
      <4> HIDE DEF s, f
      <4>2. ~ (used[s] <= used[f])
        BY <2>7, <4>1 DEF s
      <4> QED
        BY <2>3, <4>2 DEF UsedUntil, s
    <3>2. IsFiniteSet(P)
      BY <1>1, <2>3, FS_Subset DEF UsedUntil
    <3>3. Cardinality(P \cup {list.next[f]}) = Cardinality(P) + 1
      BY <3>1, <3>2, FS_AddElement
    <3> QED
      BY <2>1, <2>3, <3>3
  <2>11. Met(k)
    BY <2>4, <2>7, <2>8, <2>9, <2>10 DEF Met
  <2> QED
    BY <2>11
<1> QED
  BY <1>4, <1>5

\* So the list is in order.
LEMMA WalkInOrder ==
  ASSUME ListInv, count.ref \in Nat
  PROVE  ListInOrder
<1> DEFINE n == Cardinality(InUse)
<1>1. /\ InUse \in SUBSET Frame /\ IsFiniteSet(InUse) /\ n \in Nat
      /\ used \in [Frame -> Nat] /\ LinksOrdered(list, InUse, used)
      /\ n = 0 <=> InUse = {}
  <2>1. IsFiniteSet(Frame)
    BY FramesCounted
  <2>2. InUse \in SUBSET Frame
    BY DEF InUse
  <2>3. IsFiniteSet(InUse)
    BY <2>1, <2>2, FS_Subset
  <2>4. n \in Nat /\ (n = 0 <=> InUse = {})
    BY <2>3, FS_CardinalityType, FS_EmptySet
  <2> QED
    BY <2>2, <2>3, <2>4 DEF ListInv
<1>2. CASE n = 0
  <2>1. InUse = {} /\ list.head = NULL /\ 1 .. n = {} /\ 2 .. n = {}
    BY <1>1, <1>2 DEF LinksOrdered
  <2>2. {Walk[k] : k \in 1 .. n} = InUse
    BY <2>1
  <2> QED
    BY <1>2, <2>1, <2>2 DEF ListInOrder
<1>3. CASE n # 0
  <2> DEFINE P == {Walk[j] : j \in 1 .. n}
  <2>1. \A m \in 1 .. n : Met(m)
    BY WalkMeets
  <2>2. n \in 1 .. n /\ n > 0
    BY <1>1, <1>3
  <2>3. Walk[n] \in InUse /\ UsedUntil(Walk[n], InUse, used) = P /\ Cardinality(P) = n
    BY <2>1, <2>2 DEF Met
  <2>4. P = InUse
    <3>1. P \in SUBSET InUse
      BY <2>3 DEF UsedUntil
    <3> QED
      BY <1>1, <2>3, <3>1, FS_Subset
  <2>5. \A k \in 2 .. n : used[Walk[k - 1]] < used[Walk[k]] /\ list.previous[Walk[k]] = Walk[k - 1]
    <3> SUFFICES ASSUME NEW k \in 2 .. n
                 PROVE  used[Walk[k - 1]] < used[Walk[k]] /\ list.previous[Walk[k]] = Walk[k - 1]
      OBVIOUS
    <3>1. k \in 1 .. n /\ k > 1
      BY <1>1
    <3> QED
      BY <2>1, <3>1 DEF Met
  <2>6. list.tail \in InUse /\ list.next[list.tail] = NULL
    BY <1>1, <1>3 DEF LinksOrdered
  <2>7. list.tail = Walk[n]
    <3> SUFFICES ASSUME list.tail # Walk[n] PROVE FALSE
      OBVIOUS
    <3>1. list.next[Walk[n]] \in InUse /\ used[Walk[n]] < used[list.next[Walk[n]]]
      BY <1>1, <2>3 DEF LinksOrdered
    <3>2. list.next[Walk[n]] \in UsedUntil(Walk[n], InUse, used)
      BY <2>3, <2>4, <3>1
    <3> DEFINE f == Walk[n]
               s == list.next[f]
    <3>3. used[f] \in Nat /\ used[s] \in Nat
      BY <1>1, <2>3, <3>1
    <3>4. used[s] <= used[f] /\ used[f] < used[s]
      BY <3>1, <3>2 DEF UsedUntil
    <3> HIDE DEF f, s
    <3> QED
      BY <3>3, <3>4
  <2> HIDE DEF P
  <2>8. {Walk[k] : k \in 1 .. n} = InUse
    BY <2>4 DEF P
  <2> QED
    BY <1>3, <2>5, <2>6, <2>7, <2>8 DEF ListInOrder
<1> QED
  BY <1>2, <1>3

\* Whatever lru_ref and lru_evict do to it, the list holds every frame in use
\* once, in the order of last reference, and reads the same from its tail.
THEOREM LruListIsRecency == SimSpec => []ListIsRecency
<1>1. LruInv => ListIsRecency
  <2> SUFFICES ASSUME PagingInv, ListInv PROVE ListInOrder
    BY DEF LruInv, ListIsRecency
  <2>1. count.ref \in Nat
    BY DEF PagingInv, TypeOK
  <2> QED
    BY <2>1, WalkInOrder
<1> QED
  BY <1>1, LruInit, LruNext, PTL DEF SimSpec

-----------------------------------------------------------------------------
(* clock.c: the hand's way round. *)

USE DEF Frame

\* A sum of a hand and some steps, modulo memsize.
LEMMA Modulo ==
  ASSUME NEW a \in Int
  PROVE  /\ 0 <= a /\ a < MemSize => a % MemSize = a
         /\ MemSize <= a /\ a < 2 * MemSize => a % MemSize = a - MemSize
         /\ a = 2 * MemSize => a % MemSize = 0
         /\ - MemSize <= a /\ a < 0 => a % MemSize = a + MemSize
OBVIOUS

\* How many steps each frame is away.
LEMMA AheadIs ==
  ASSUME oldest_page \in -1 .. MemSize - 1, NEW f \in Frame
  PROVE  /\ f > oldest_page => Ahead(f) = f - oldest_page - 1
         /\ f <= oldest_page => Ahead(f) = f - oldest_page - 1 + MemSize
         /\ Ahead(f) \in 0 .. MemSize - 1
         /\ (oldest_page + (Ahead(f) + 1)) % MemSize = f
<1> DEFINE a == f - oldest_page - 1
<1>1. a \in Int /\ oldest_page \in Int
  OBVIOUS
<1>2. CASE f > oldest_page
  <2>1. Ahead(f) = a
    BY <1>1, <1>2, Modulo DEF Ahead
  <2>2. f % MemSize = f
    BY Modulo
  <2> QED
    BY <1>1, <1>2, <2>1, <2>2
<1>3. CASE f <= oldest_page
  <2>1. Ahead(f) = a + MemSize
    BY <1>1, <1>3, Modulo DEF Ahead
  <2>2. (f + MemSize) % MemSize = f
    BY Modulo
  <2>3. oldest_page + (Ahead(f) + 1) = f + MemSize
    BY <1>1, <2>1
  <2> QED
    BY <1>1, <1>3, <2>1, <2>2, <2>3
<1> QED
  BY <1>2, <1>3

\* Where some steps lead.
LEMMA Around ==
  ASSUME oldest_page \in -1 .. MemSize - 1, NEW k \in 1 .. MemSize + 1
  PROVE  LET f == (oldest_page + k) % MemSize IN
         f \in Frame /\ Ahead(f) = IF k = MemSize + 1 THEN 0 ELSE k - 1
<1> DEFINE a == oldest_page + k
           f == a % MemSize
<1>1. a \in Int /\ 0 <= a /\ a <= 2 * MemSize
  OBVIOUS
<1>2. CASE a < MemSize
  <2>1. f = a
    BY <1>1, <1>2, Modulo
  <2> QED
    BY <1>2, <2>1, AheadIs
<1>3. CASE MemSize <= a /\ a < 2 * MemSize
  <2>1. f = a - MemSize
    BY <1>1, <1>3, Modulo
  <2> QED
    BY <1>3, <2>1, AheadIs
<1>4. CASE a = 2 * MemSize
  <2>1. f = 0
    BY <1>1, <1>4, Modulo
  <2> QED
    BY <1>4, <2>1, AheadIs
<1> QED
  BY <1>1, <1>2, <1>3, <1>4

\* Where the loop of clock_evict stops: all frames before have their bit set and
\* are cleared, and so has the one it stops at if every frame has.
LEMMA SweepStops ==
  ASSUME oldest_page \in -1 .. MemSize - 1, NEW t
  PROVE  LET s == Swept(t)  R == Referenced(t) IN
         /\ s.hand \in Frame /\ s.cleared \subseteq R
         /\ s.hand \in R => Ahead(s.hand) = 0 /\ R = Frame
         /\ s.hand \notin R => \A g \in Frame : Ahead(g) < Ahead(s.hand) => g \in R
<1> DEFINE R == Referenced(t)
           at(k) == (oldest_page + k) % MemSize
           S == {k \in 1 .. MemSize : at(k) \notin R} \cup {MemSize + 1}
           n == Min(S)
<1>1. S \in SUBSET Nat /\ S # {}
  OBVIOUS
<1>2. n \in S /\ \A k \in S : n <= k
  BY <1>1, MinOfNaturals
<1>3. Swept(t) = [hand |-> at(n), cleared |-> {at(k) : k \in 1 .. n - 1}]
  BY DEF Swept, SweptFrom, Steps
<1> HIDE DEF n
<1>4. n \in 1 .. MemSize + 1 /\ (n # MemSize + 1 => at(n) \notin R)
  BY <1>2
<1>5. ASSUME NEW k \in 1 .. n - 1 PROVE at(k) \in R
  <2>1. k \in 1 .. MemSize /\ ~ (n <= k)
    BY <1>4
  <2> QED
    BY <1>2, <2>1
<1>6. at(n) \in Frame /\ Ahead(at(n)) = IF n = MemSize + 1 THEN 0 ELSE n - 1
  BY <1>4, Around
<1>7. ASSUME NEW g \in Frame, Ahead(g) + 1 < n PROVE g \in R
  <2>1. Ahead(g) \in 0 .. MemSize - 1 /\ at(Ahead(g) + 1) = g
    BY AheadIs
  <2>2. Ahead(g) + 1 \in 1 .. n - 1
    BY <1>4, <1>7, <2>1
  <2> QED
    BY <1>5, <2>1, <2>2
<1>8. ASSUME n = MemSize + 1 PROVE R = Frame
  <2>1. \A g \in Frame : Ahead(g) + 1 < n
    BY <1>8, AheadIs
  <2> QED
    BY <1>7, <2>1 DEF Referenced
<1>9. at(n) \in R => n = MemSize + 1
  BY <1>4
<1>10. ASSUME at(n) \notin R PROVE \A g \in Frame : Ahead(g) < Ahead(at(n)) => g \in R
  <2>1. n # MemSize + 1
    BY <1>6, <1>8, <1>10
  <2>2. Ahead(at(n)) = n - 1
    BY <1>6, <2>1
  <2>3. \A g \in Frame : Ahead(g) \in Int
    BY AheadIs
  <2> QED
    BY <1>4, <1>7, <2>2, <2>3
<1>11. {at(k) : k \in 1 .. n - 1} \subseteq R
  BY <1>5
<1> HIDE DEF R, at
<1>12. Swept(t).hand = at(n) /\ Swept(t).cleared \subseteq R
  BY <1>3, <1>11
<1> QED
  BY <1>6, <1>8, <1>9, <1>10, <1>12 DEF R

-----------------------------------------------------------------------------
(* A frame's page has its reference bit set exactly when it was used since the *)
(* hand last passed.                                                           *)

BitsTellUse ==
  /\ oldest_page \in -1 .. MemSize - 1
  /\ used \in [Frame -> Nat] /\ passed \in [Frame -> Nat]
  /\ \A f \in Frame : used[f] <= count.ref /\ passed[f] <= count.ref
  /\ \A f \in InUse : pte[coremap[f].pte].ref <=> Used(f)

ClockInv == evict_fcn = "clock" => PagingInv /\ (status = "running" => BitsTellUse)

\* Frames in use have pages, and different ones.
LEMMA PageOfFrame ==
  ASSUME PagingInv, NEW f \in InUse
  PROVE  coremap[f].pte \in Resident /\ coremap[f].pte \in Page /\ pte[coremap[f].pte].frame = f
BY DEF PagingInv, FrameOwnership, InUse, FreeFrames, Resident

\* A reference to v sets the bit of its page, and changes no other.
LEMMA BitsKept ==
  ASSUME PagingInv, BitsTellUse, NEW v \in Page, NEW f \in Frame,
         pte'[v].ref, \A g \in InUse \ {f} : coremap[g].pte # v,
         \A w \in Page \ {v} : pte'[w] = pte[w],
         coremap'[f].pte = v, \A g \in Frame \ {f} : coremap'[g] = coremap[g],
         InUse' = InUse \cup {f},
         used' = [used EXCEPT ![f] = count'.ref], count'.ref = count.ref + 1,
         UNCHANGED clock_vars
  PROVE  BitsTellUse'
<1>1. /\ oldest_page \in -1 .. MemSize - 1
      /\ used \in [Frame -> Nat] /\ passed \in [Frame -> Nat]
      /\ \A g \in Frame : used[g] <= count.ref /\ passed[g] <= count.ref
      /\ \A g \in InUse : pte[coremap[g].pte].ref <=> used[g] > passed[g]
  BY DEF BitsTellUse, Used
<1>2. count.ref \in Nat /\ InUse \subseteq Frame
  BY DEF PagingInv, TypeOK, InUse
<1>3. oldest_page' = oldest_page /\ passed' = passed
  BY DEF clock_vars
<1>4. used' \in [Frame -> Nat]
      /\ \A g \in Frame : used'[g] <= count'.ref /\ passed'[g] <= count'.ref
  BY <1>1, <1>2, <1>3
<1>5. ASSUME NEW g \in InUse' PROVE pte'[coremap'[g].pte].ref <=> used'[g] > passed'[g]
  <2>1. CASE g = f
    BY <1>1, <1>2, <1>3, <2>1
  <2>2. CASE g # f
    <3>1. g \in InUse /\ coremap'[g].pte = coremap[g].pte
      BY <1>2, <2>2
    <3>2. coremap[g].pte \in Page \ {v}
      BY <2>2, <3>1, PageOfFrame
    <3>3. used'[g] = used[g]
      BY <1>1, <1>2, <2>2, <3>1
    <3> QED
      BY <1>1, <1>3, <3>1, <3>2, <3>3
  <2> QED
    BY <2>1, <2>2
<1> QED
  BY <1>1, <1>3, <1>4, <1>5 DEF BitsTellUse, Used

\* The tables once the hand has passed the frames in F: their pages' bits are clear.
LEMMA PassedClears ==
  ASSUME PagingInv, FreeFrames = {}, NEW F \in SUBSET Frame
  PROVE  /\ SameButRef(Passed(pte, F))
         /\ \A g \in Frame : Passed(pte, F)[coremap[g].pte].ref <=>
                             pte[coremap[g].pte].ref /\ g \notin F
<1> DEFINE P == {coremap[f].pte : f \in F}
<1>1. InUse = Frame
  BY DEF InUse
<1>2. \A g \in Frame : /\ coremap[g].pte \in Resident /\ coremap[g].pte \in Page
                      /\ pte[coremap[g].pte].frame = g
  BY <1>1, PageOfFrame
<1>3. P \subseteq Resident
  BY <1>2
<1>4. pte \in [Page -> EntryType]
  BY DEF PagingInv, TypeOK
<1>5. \A g \in Frame : coremap[g].pte \in P <=> g \in F
  BY <1>2
<1>6. \A w \in Page : Passed(pte, F)[w] = IF w \in P THEN [pte[w] EXCEPT !.ref = FALSE] ELSE pte[w]
  BY DEF Passed, Unreferenced
<1>7. SameButRef(Passed(pte, F))
  BY <1>3, <1>4, UnreferencedSame DEF Passed
<1> HIDE DEF P
<1>8. \A w \in Page : [pte[w] EXCEPT !.ref = FALSE].ref = FALSE
  BY <1>4 DEF EntryType
<1> QED
  BY <1>2, <1>5, <1>6, <1>7, <1>8

\* An eviction: the bits that are left are those of the frames not passed, and of
\* the new page.
LEMMA EvictBits ==
  ASSUME PagingInv, BitsTellUse, FreeFrames = {}, NEW v \in Page, NEW type \in Type,
         NEW F \in SUBSET Frame, NEW h \in Frame,
         Replace(v, Passed(pte, F), h, type), Recorded(v), oldest_page' = h,
         passed' = [f \in Frame |-> IF f \in F \cup {h} THEN count.ref ELSE passed[f]]
  PROVE  PagingInv' /\ BitsTellUse' /\ \A w \in Resident \ Resident' : pte[w].frame = h
<1> DEFINE t == Passed(pte, F)
<1>1. /\ oldest_page \in -1 .. MemSize - 1
      /\ used \in [Frame -> Nat] /\ passed \in [Frame -> Nat]
      /\ \A g \in Frame : used[g] <= count.ref /\ passed[g] <= count.ref
      /\ \A g \in InUse : pte[coremap[g].pte].ref <=> used[g] > passed[g]
  BY DEF BitsTellUse, Used
<1>2. count.ref \in Nat
  BY DEF PagingInv, TypeOK
<1>3. /\ SameButRef(t)
      /\ \A g \in Frame : t[coremap[g].pte].ref <=> pte[coremap[g].pte].ref /\ g \notin F
  BY PassedClears
<1> HIDE DEF t
<1>4. /\ PagingInv' /\ status' = "running"
      /\ pte'[v].frame = h /\ pte'[v].ref
      /\ \A w \in Page \ {v, coremap[h].pte} : pte'[w] = t[w]
      /\ coremap' = [coremap EXCEPT ![h] = [in_use |-> TRUE, pte |-> v]]
      /\ v \notin Resident
      /\ InUse = Frame /\ InUse' = Frame
      /\ \A w \in Resident \ Resident' : pte[w].frame = h
      /\ count'.ref = count.ref + 1
  BY <1>3, ReplaceFacts DEF t
<1>5. used' = [used EXCEPT ![h] = count.ref + 1]
  BY <1>4 DEF Recorded
<1>6. /\ oldest_page' \in -1 .. MemSize - 1
      /\ used' \in [Frame -> Nat] /\ passed' \in [Frame -> Nat]
  BY <1>1, <1>2, <1>5
<1>7. ASSUME NEW g \in Frame PROVE used'[g] <= count'.ref /\ passed'[g] <= count'.ref
  <2>1. used'[g] = IF g = h THEN count.ref + 1 ELSE used[g]
    BY <1>1, <1>5
  <2>2. passed'[g] = count.ref \/ passed'[g] = passed[g]
    OBVIOUS
  <2>3. /\ used[g] \in Nat /\ used[g] <= count.ref
        /\ passed[g] \in Nat /\ passed[g] <= count.ref
    BY <1>1
  <2> QED
    BY <1>2, <1>4, <2>1, <2>2, <2>3
<1>8. ASSUME NEW g \in Frame PROVE pte'[coremap'[g].pte].ref <=> used'[g] > passed'[g]
  <2>1. CASE g = h
    <3>1. coremap'[h].pte = v
      BY <1>4 DEF PagingInv, TypeOK
    <3>2. used'[h] = count.ref + 1 /\ passed'[h] = count.ref
      BY <1>1, <1>5
    <3> QED
      BY <1>2, <1>4, <2>1, <3>1, <3>2
  <2>2. CASE g # h
    <3> DEFINE w == coremap[g].pte
    <3>1. coremap'[g].pte = w
      BY <1>4, <2>2 DEF PagingInv, TypeOK
    <3>2. w \in Page \ {v, coremap[h].pte}
      BY <1>4, <2>2, PageOfFrame
    <3>3. pte'[w].ref <=> pte[w].ref /\ g \notin F
      BY <1>3, <1>4, <3>2
    <3>4. pte[w].ref <=> used[g] > passed[g]
      BY <1>1, <1>4
    <3> HIDE DEF w
    <3>5. used'[g] = used[g] /\ passed'[g] = IF g \in F THEN count.ref ELSE passed[g]
      BY <1>1, <1>5, <2>2
    <3>6. used[g] \in Nat /\ used[g] <= count.ref
      BY <1>1
    <3> QED
      BY <1>2, <3>1, <3>3, <3>4, <3>5, <3>6
  <2> QED
    BY <2>1, <2>2
<1> QED
  BY <1>4, <1>6, <1>7, <1>8 DEF BitsTellUse, Used

\* A step of the simulator with clock: the invariant, and who leaves.
LEMMA ClockStep ==
  ASSUME PagingInv, BitsTellUse, NEW v \in Page, NEW type \in Type,
         ClockAccess(v, type), Recorded(v)
  PROVE  PagingInv' /\ (status' = "running" => BitsTellUse') /\ UnusedLeaves
<1> DEFINE f == pte'[v].frame
<1>1. CASE Hit(v, type) /\ UNCHANGED clock_vars
  <2>1. /\ PagingInv' /\ status' = "running"
        /\ f = pte[v].frame /\ pte'[v].ref
        /\ \A w \in Page \ {v} : pte'[w] = pte[w]
        /\ coremap' = coremap /\ f \in InUse /\ InUse' = InUse
        /\ Resident \subseteq Resident' /\ count'.ref = count.ref + 1
    BY <1>1, HitFacts
  <2>2. used' = [used EXCEPT ![f] = count'.ref]
    BY <2>1 DEF Recorded
  <2>3. f \in Frame /\ InUse' = InUse \cup {f}
    BY <2>1 DEF InUse
  <2>4. coremap[f].pte = v
    <3>1. pte[v].valid
      BY <1>1, OwnTables DEF Hit
    <3> QED
      BY <2>1, <3>1, ResidentInUse DEF PagingInv
  <2>5. \A g \in InUse \ {f} : coremap[g].pte # v
    BY <2>1, PageOfFrame
  <2> HIDE DEF f
  <2>6. BitsTellUse'
    BY <1>1, <2>1, <2>2, <2>3, <2>4, <2>5, BitsKept
  <2> QED
    BY <2>1, <2>6 DEF UnusedLeaves
<1>2. CASE Fill(v, type) /\ UNCHANGED clock_vars
  <2>1. /\ PagingInv' /\ status' = "running"
        /\ pte'[v].ref /\ \A w \in Page \ {v} : pte'[w] = pte[w]
        /\ coremap' = [coremap EXCEPT ![f] = [in_use |-> TRUE, pte |-> v]]
        /\ v \notin Resident /\ f \in Frame /\ InUse' = InUse \cup {f}
        /\ Resident \subseteq Resident' /\ count'.ref = count.ref + 1
    BY <1>2, FillFacts
  <2>2. used' = [used EXCEPT ![f] = count'.ref]
    BY <2>1 DEF Recorded
  <2>3. \A g \in InUse \ {f} : coremap[g].pte # v
    BY <2>1, PageOfFrame
  <2> HIDE DEF f
  <2>4. coremap'[f].pte = v /\ \A g \in Frame \ {f} : coremap'[g] = coremap[g]
    BY <2>1 DEF PagingInv, TypeOK
  <2>5. BitsTellUse'
    BY <1>2, <2>1, <2>2, <2>3, <2>4, BitsKept
  <2> QED
    BY <2>1, <2>5 DEF UnusedLeaves
<1>3. CASE clock_evict(v, type)
  <2> DEFINE s == Swept(pte)
             h == s.hand
             F == s.cleared
             R == Referenced(pte)
  <2>1. Tables(v) = pte
    BY OwnTables
  <2>2. /\ FreeFrames = {}
        /\ Evict(v, Passed(pte, F), h, type)
        /\ oldest_page' = h
        /\ passed' = [g \in Frame |-> IF g \in F \cup {h} THEN count.ref ELSE passed[g]]
    BY <1>3, <2>1 DEF clock_evict
  <2>3. /\ h \in Frame /\ F \subseteq R
        /\ h \in R => Ahead(h) = 0 /\ R = Frame
        /\ h \notin R => \A g \in Frame : Ahead(g) < Ahead(h) => g \in R
    BY SweepStops DEF BitsTellUse
  <2>4. R \subseteq Frame /\ \A g \in Frame : g \in R <=> Used(g)
    <3>1. InUse = Frame
      BY <2>2 DEF InUse
    <3> QED
      BY <3>1 DEF Referenced, BitsTellUse
  <2> HIDE DEF s, h, F, R
  <2>5. SameButRef(Passed(pte, F))
    BY <2>2, <2>3, <2>4, PassedClears
  <2>6. CASE Replace(v, Passed(pte, F), h, type)
    <3>1. PagingInv' /\ BitsTellUse' /\ \A w \in Resident \ Resident' : pte[w].frame = h
      BY <2>2, <2>3, <2>4, <2>6, EvictBits
    <3>2. /\ Used(h) => Ahead(h) = 0 /\ \A g \in Frame : Used(g)
          /\ ~ Used(h) => \A g \in Frame : Ahead(g) < Ahead(h) => Used(g)
      BY <2>3, <2>4
    <3>3. UnusedLeaves
      BY <3>1, <3>2 DEF UnusedLeaves
    <3> QED
      BY <3>1, <3>3
  <2>7. CASE SwapExhausted(v, Passed(pte, F), h)
    BY <2>3, <2>5, <2>7, ExitFacts DEF UnusedLeaves
  <2> QED
    BY <2>2, <2>6, <2>7 DEF Evict
<1> QED
  BY <1>1, <1>2, <1>3 DEF ClockAccess

\* The bits tell the uses at the start
LEMMA ClockInit == SimInit => ClockInv
<1> SUFFICES ASSUME SimInit PROVE PagingInv /\ BitsTellUse
  BY DEF ClockInv
<1>1. PagingInv
  BY PagingInit DEF SimInit
<1>2. InUse = {}
  BY DEF SimInit, Init, InUse, FreeFrames
<1> QED
  BY <1>1, <1>2 DEF SimInit, Init, HistoryInit, clock_init, BitsTellUse

\* and after every step.
LEMMA ClockNext ==
  ClockInv /\ [SimNext]_sim_vars => ClockInv' /\ [evict_fcn = "clock" => UnusedLeaves]_sim_vars
<1> SUFFICES ASSUME ClockInv, [SimNext]_sim_vars, evict_fcn = "clock"
             PROVE  ClockInv' /\ (UnusedLeaves \/ UNCHANGED sim_vars)
  BY DEF SimNext, sim_vars, ClockInv
<1>1. CASE SimNext
  <2>1. PICK v \in Page, type \in Type : ClockAccess(v, type) /\ Recorded(v)
    BY <1>1 DEF SimNext, Access
  <2>2. status = "running"
    BY <2>1, AccessRuns DEF ClockAccess, clock_evict
  <2> QED
    BY <2>1, <2>2, ClockStep DEF ClockInv
<1>2. CASE UNCHANGED sim_vars
  <2>1. UNCHANGED vars /\ UNCHANGED <<used, oldest_page, passed, evict_fcn>>
    BY <1>2 DEF sim_vars, history_vars, clock_vars
  <2>2. PagingInv'
    BY <2>1, PagingStep DEF ClockInv
  <2>3. status = "running" => BitsTellUse'
    BY <2>1 DEF ClockInv, BitsTellUse, Used, InUse, FreeFrames, vars
  <2> QED
    BY <1>2, <2>1, <2>2, <2>3 DEF ClockInv, vars
<1> QED
  BY <1>1, <1>2

\* A page used since the hand of clock_evict last passed it leaves only if every
\* page was, and otherwise the first that was not does.
THEOREM ClockGivesSecondChance == SimSpec => SecondChance
<1> QED
  BY ClockInit, ClockNext, PTL DEF SimSpec, SecondChance

HIDE DEF Frame, Slot

-----------------------------------------------------------------------------
(* The list of nodes: what remove_from_coremap and an insertion leave.         *)

Nodes(l)    == {l[k] : k \in 1 .. Len(l)}
Distinct(l) == \A j, k \in 1 .. Len(l) : l[j] = l[k] => j = k

\* m is the list l with a put at place n, and with place n taken out.
Put(m, l, n, a) ==
  /\ m \in Seq(Address) /\ Len(m) = Len(l) + 1
  /\ \A k \in 1 .. Len(l) + 1 : m[k] = IF k < n THEN l[k] ELSE IF k = n THEN a ELSE l[k - 1]
Cut(m, l, n) ==
  /\ m \in Seq(Address) /\ Len(m) = Len(l) - 1
  /\ \A k \in 1 .. Len(l) - 1 : m[k] = IF k < n THEN l[k] ELSE l[k + 1]

\* Two parts of a list, one after the other.
Joins(r, l, m) ==
  /\ r \in Seq(Address) /\ Len(r) = Len(l) + Len(m)
  /\ \A k \in 1 .. Len(l) + Len(m) : r[k] = IF k <= Len(l) THEN l[k] ELSE m[k - Len(l)]

\* Concatenation joins.
LEMMA Joined ==
  ASSUME NEW l \in Seq(Address), NEW m \in Seq(Address)
  PROVE  Joins(l \o m, l, m)
BY ConcatProperties DEF Joins

\* The part of a list from i to j.
LEMMA PartOf ==
  ASSUME NEW l \in Seq(Address), NEW i \in 1 .. Len(l) + 1, NEW j \in 0 .. Len(l), i <= j + 1
  PROVE  /\ SubSeq(l, i, j) \in Seq(Address) /\ Len(SubSeq(l, i, j)) = j - i + 1
         /\ \A k \in 1 .. j - i + 1 : SubSeq(l, i, j)[k] = l[i + k - 1]
<1>1. Len(l) \in Nat /\ i \in Int /\ j \in Int
  BY LenProperties
<1>2. \A k \in i .. j : l[k] \in Address
  BY <1>1, ElementOfSeq
<1>3. /\ SubSeq(l, i, j) \in Seq(Address)
      /\ Len(SubSeq(l, i, j)) = IF i <= j THEN j - i + 1 ELSE 0
      /\ \A k \in 1 .. j - i + 1 : SubSeq(l, i, j)[k] = l[i + k - 1]
  BY <1>1, <1>2, SubSeqProperties
<1> QED
  BY <1>1, <1>3

\* A list of one node.
LEMMA OneNode ==
  ASSUME NEW a \in Address
  PROVE  <<a>> \in Seq(Address) /\ Len(<<a>>) = 1 /\ <<a>>[1] = a
OBVIOUS

\* An insertion puts the node at its place.
LEMMA InsertAtPuts ==
  ASSUME NEW l \in Seq(Address), NEW a \in Address, NEW n \in 1 .. Len(l) + 1
  PROVE  Put(InsertAt(l, n, a), l, n, a)
<1> DEFINE p == SubSeq(l, 1, n - 1)
           q == SubSeq(l, n, Len(l))
           o == <<a>>
<1>1. Len(l) \in Nat /\ n - 1 \in 0 .. Len(l) /\ 1 \in 1 .. Len(l) + 1 /\ Len(l) \in 0 .. Len(l)
  BY LenProperties
<1>2. p \in Seq(Address) /\ Len(p) = n - 1 /\ \A k \in 1 .. n - 1 : p[k] = l[k]
  <2>1. /\ SubSeq(l, 1, n - 1) \in Seq(Address) /\ Len(SubSeq(l, 1, n - 1)) = n - 1 - 1 + 1
        /\ \A k \in 1 .. n - 1 - 1 + 1 : SubSeq(l, 1, n - 1)[k] = l[1 + k - 1]
    BY <1>1, PartOf
  <2> QED
    BY <1>1, <2>1
<1>3. q \in Seq(Address) /\ Len(q) = Len(l) - n + 1 /\ \A k \in 1 .. Len(l) - n + 1 : q[k] = l[n + k - 1]
  BY <1>1, PartOf
<1>4. o \in Seq(Address) /\ Len(o) = 1 /\ o[1] = a
  BY OneNode
<1>5. InsertAt(l, n, a) = (p \o o) \o q
  BY DEF InsertAt
<1> HIDE DEF p, q, o
<1> DEFINE r == p \o o
<1>6. r \in Seq(Address) /\ Len(r) = n /\ r[n] = a /\ \A k \in 1 .. n - 1 : r[k] = l[k]
  <2>1. Joins(r, p, o)
    BY <1>2, <1>4, Joined
  <2> HIDE DEF r
  <2> QED
    BY <1>1, <1>2, <1>4, <2>1 DEF Joins
<1> HIDE DEF r
<1> DEFINE s == r \o q
<1>7. Joins(s, r, q)
  BY <1>3, <1>6, Joined
<1> HIDE DEF s
<1>8. ASSUME NEW k \in 1 .. Len(l) + 1
      PROVE  s[k] = IF k < n THEN l[k] ELSE IF k = n THEN a ELSE l[k - 1]
  <2>1. CASE k < n
    BY <1>1, <1>3, <1>6, <1>7, <2>1 DEF Joins
  <2>2. CASE k = n
    BY <1>1, <1>3, <1>6, <1>7, <2>2 DEF Joins
  <2>3. CASE k > n
    <3>1. k \in 1 .. Len(r) + Len(q) /\ ~ (k <= Len(r)) /\ k - n \in 1 .. Len(l) - n + 1
      BY <1>1, <1>3, <1>6, <2>3
    <3>2. s[k] = q[k - n]
      BY <1>6, <1>7, <3>1 DEF Joins
    <3>3. q[k - n] = l[n + (k - n) - 1] /\ n + (k - n) - 1 = k - 1
      BY <1>3, <3>1
    <3> QED
      BY <2>3, <3>2, <3>3
  <2> QED
    BY <1>1, <2>1, <2>2, <2>3
<1> QED
  <2>1. s \in Seq(Address) /\ Len(s) = Len(l) + 1
    BY <1>1, <1>3, <1>6, <1>7 DEF Joins
  <2>2. Put(s, l, n, a)
    BY <1>8, <2>1 DEF Put
  <2> QED
    BY <1>5, <2>2 DEF s, r

\* A node put before the list is put at place 1.
LEMMA FrontPuts ==
  ASSUME NEW l \in Seq(Address), NEW a \in Address
  PROVE  Put(<<a>> \o l, l, 1, a)
<1> DEFINE o == <<a>>
<1>1. o \in Seq(Address) /\ Len(o) = 1 /\ o[1] = a
  BY OneNode
<1> HIDE DEF o
<1> DEFINE s == o \o l
<1>2. Joins(s, o, l)
  BY <1>1, Joined
<1>3. Len(l) \in Nat
  BY LenProperties
<1> HIDE DEF s
<1>4. Put(s, l, 1, a)
  BY <1>1, <1>2, <1>3 DEF Put, Joins
<1> QED
  BY <1>4 DEF s, o

\* remove_from_coremap takes the node out.
LEMMA RemoveAtCuts ==
  ASSUME NEW l \in Seq(Address), NEW n \in 1 .. Len(l)
  PROVE  Cut(RemoveAt(l, n), l, n)
<1> DEFINE p == SubSeq(l, 1, n - 1)
           q == SubSeq(l, n + 1, Len(l))
<1>1. /\ Len(l) \in Nat /\ n - 1 \in 0 .. Len(l) /\ 1 \in 1 .. Len(l) + 1
      /\ n + 1 \in 1 .. Len(l) + 1 /\ Len(l) \in 0 .. Len(l)
  BY LenProperties
<1>2. p \in Seq(Address) /\ Len(p) = n - 1 /\ \A k \in 1 .. n - 1 : p[k] = l[k]
  <2>1. /\ SubSeq(l, 1, n - 1) \in Seq(Address) /\ Len(SubSeq(l, 1, n - 1)) = n - 1 - 1 + 1
        /\ \A k \in 1 .. n - 1 - 1 + 1 : SubSeq(l, 1, n - 1)[k] = l[1 + k - 1]
    BY <1>1, PartOf
  <2> QED
    BY <1>1, <2>1
<1>3. q \in Seq(Address) /\ Len(q) = Len(l) - n /\ \A k \in 1 .. Len(l) - n : q[k] = l[n + k]
  <2>1. /\ SubSeq(l, n + 1, Len(l)) \in Seq(Address)
        /\ Len(SubSeq(l, n + 1, Len(l))) = Len(l) - (n + 1) + 1
        /\ \A k \in 1 .. Len(l) - (n + 1) + 1 : SubSeq(l, n + 1, Len(l))[k] = l[n + 1 + k - 1]
    BY <1>1, PartOf
  <2> QED
    BY <1>1, <2>1
<1>4. RemoveAt(l, n) = p \o q
  BY DEF RemoveAt
<1> HIDE DEF p, q
<1> DEFINE s == p \o q
<1>5. Joins(s, p, q)
  BY <1>2, <1>3, Joined
<1> HIDE DEF s
<1>6. ASSUME NEW k \in 1 .. Len(l) - 1
      PROVE  s[k] = IF k < n THEN l[k] ELSE l[k + 1]
  <2>1. CASE k < n
    <3>1. k \in 1 .. Len(p) + Len(q) /\ k <= Len(p) /\ k \in 1 .. n - 1
      BY <1>1, <1>2, <1>3, <2>1
    <3> QED
      BY <1>2, <1>5, <2>1, <3>1 DEF Joins
  <2>2. CASE k >= n
    <3>1. k \in 1 .. Len(p) + Len(q) /\ ~ (k <= Len(p)) /\ k - (n - 1) \in 1 .. Len(l) - n
      BY <1>1, <1>2, <1>3, <2>2
    <3>2. s[k] = q[k - (n - 1)]
      BY <1>2, <1>5, <3>1 DEF Joins
    <3>3. q[k - (n - 1)] = l[n + (k - (n - 1))] /\ n + (k - (n - 1)) = k + 1
      BY <1>3, <3>1
    <3> QED
      BY <2>2, <3>2, <3>3
  <2> QED
    BY <1>1, <2>1, <2>2
<1> QED
  BY <1>1, <1>2, <1>3, <1>4, <1>5, <1>6 DEF Cut, Joins, s

\* a is needed no sooner than b; and a list where no node is needed sooner than
\* one behind it.
NoSooner(a, b, occ) == occ[a] = {} \/ (occ[b] # {} /\ Min(occ[a]) >= Min(occ[b]))
Ordered(l, occ)     == \A j, k \in 1 .. Len(l) : j < k => NoSooner(l[j], l[k], occ)

\* A node put into a list.
LEMMA PutKeeps ==
  ASSUME NEW l \in Seq(Address), NEW a \in Address \ Nodes(l), NEW n \in 1 .. Len(l) + 1, NEW m,
         Put(m, l, n, a), Distinct(l)
  PROVE  Distinct(m) /\ Nodes(m) = Nodes(l) \cup {a} /\ m # <<>>
<1>1. Len(l) \in Nat /\ Len(m) = Len(l) + 1 /\ n \in 1 .. Len(m)
  BY LenProperties DEF Put
<1>2. /\ \A k \in 1 .. Len(m) : k < n => k \in 1 .. Len(l) /\ m[k] = l[k]
      /\ m[n] = a
      /\ \A k \in 1 .. Len(m) : k > n => k - 1 \in 1 .. Len(l) /\ m[k] = l[k - 1]
  BY <1>1 DEF Put
<1>3. \A k \in 1 .. Len(l) : l[k] # a /\ l[k] \in Nodes(l)
  BY DEF Nodes
<1>4. ASSUME NEW j \in 1 .. Len(m), NEW k \in 1 .. Len(m), m[j] = m[k], j < k PROVE FALSE
  <2>1. CASE k < n
    BY <1>1, <1>2, <1>4, <2>1 DEF Distinct
  <2>2. CASE k = n
    BY <1>1, <1>2, <1>3, <1>4, <2>2
  <2>3. CASE k > n /\ j = n
    BY <1>1, <1>2, <1>3, <1>4, <2>3
  <2>4. CASE k > n /\ j < n
    BY <1>1, <1>2, <1>4, <2>4 DEF Distinct
  <2>5. CASE j > n
    <3>1. m[j] = l[j - 1] /\ m[k] = l[k - 1] /\ j - 1 \in 1 .. Len(l) /\ k - 1 \in 1 .. Len(l)
      BY <1>1, <1>2, <1>4, <2>5
    <3>2. j - 1 = k - 1
      BY <1>4, <3>1 DEF Distinct
    <3> QED
      BY <1>1, <1>4, <3>2
  <2> QED
    BY <1>1, <1>4, <2>1, <2>2, <2>3, <2>4, <2>5
<1>5. Distinct(m)
  BY <1>1, <1>4 DEF Distinct
<1>6. Nodes(m) \subseteq Nodes(l) \cup {a}
  <2>1. ASSUME NEW k \in 1 .. Len(m) PROVE m[k] \in Nodes(l) \cup {a}
    <3>1. k < n \/ k = n \/ k > n
      BY <1>1
    <3> QED
      BY <1>2, <1>3, <3>1
  <2> QED
    BY <2>1 DEF Nodes
<1>7. ASSUME NEW k \in 1 .. Len(l) PROVE l[k] \in Nodes(m)
  <2>1. CASE k < n
    BY <1>1, <1>2, <2>1 DEF Nodes
  <2>2. CASE k >= n
    <3>1. k + 1 \in 1 .. Len(m) /\ k + 1 > n /\ k + 1 - 1 = k
      BY <1>1, <2>2
    <3>2. m[k + 1] = l[k]
      BY <1>2, <3>1
    <3> QED
      BY <3>1, <3>2 DEF Nodes
  <2> QED
    BY <1>1, <2>1, <2>2
<1>8. a \in Nodes(m)
  BY <1>1, <1>2 DEF Nodes
<1>9. m # <<>>
  BY <1>1
<1> QED
  BY <1>5, <1>6, <1>7, <1>8, <1>9 DEF Nodes

\* A node put after all that are needed sooner and before all that are needed later
\* keeps the list in order.
LEMMA PutOrdered ==
  ASSUME NEW l \in Seq(Address), NEW a \in Address, NEW n \in 1 .. Len(l) + 1, NEW m,
         Put(m, l, n, a), NEW occ, Ordered(l, occ),
         \A k \in 1 .. Len(l) : k < n => NoSooner(l[k], a, occ),
         \A k \in 1 .. Len(l) : k >= n => NoSooner(a, l[k], occ)
  PROVE  Ordered(m, occ)
<1>1. Len(l) \in Nat /\ Len(m) = Len(l) + 1 /\ n \in 1 .. Len(m)
  BY LenProperties DEF Put
<1>2. /\ \A k \in 1 .. Len(m) : k < n => k \in 1 .. Len(l) /\ m[k] = l[k]
      /\ m[n] = a
      /\ \A k \in 1 .. Len(m) : k > n => k - 1 \in 1 .. Len(l) /\ m[k] = l[k - 1]
  BY <1>1 DEF Put
<1> SUFFICES ASSUME NEW j \in 1 .. Len(m), NEW k \in 1 .. Len(m), j < k
             PROVE  NoSooner(m[j], m[k], occ)
  BY DEF Ordered
<1>3. CASE k < n
  BY <1>1, <1>2, <1>3 DEF Ordered
<1>4. CASE k = n
  BY <1>1, <1>2, <1>4
<1>5. CASE k > n /\ j = n
  <2>1. m[k] = l[k - 1] /\ k - 1 \in 1 .. Len(l) /\ k - 1 >= n
    BY <1>1, <1>2, <1>5
  <2> QED
    BY <1>2, <1>5, <2>1
<1>6. CASE k > n /\ j < n
  <2>1. m[k] = l[k - 1] /\ k - 1 \in 1 .. Len(l) /\ m[j] = l[j] /\ j \in 1 .. Len(l) /\ j < k - 1
    BY <1>1, <1>2, <1>6
  <2> QED
    BY <2>1 DEF Ordered
<1>7. CASE j > n
  <2>1. m[j] = l[j - 1] /\ m[k] = l[k - 1] /\ j - 1 \in 1 .. Len(l) /\ k - 1 \in 1 .. Len(l)
        /\ j - 1 < k - 1
    BY <1>1, <1>2, <1>7
  <2> QED
    BY <2>1 DEF Ordered
<1> QED
  BY <1>1, <1>3, <1>4, <1>5, <1>6, <1>7

\* A node taken out of a list.
LEMMA CutKeeps ==
  ASSUME NEW l \in Seq(Address), NEW n \in 1 .. Len(l), NEW m, Cut(m, l, n),
         Distinct(l), NEW occ, Ordered(l, occ)
  PROVE  Distinct(m) /\ Nodes(m) = Nodes(l) \ {l[n]} /\ Ordered(m, occ)
<1>1. Len(l) \in Nat /\ Len(m) = Len(l) - 1
  BY LenProperties DEF Cut
<1> DEFINE old(k) == IF k < n THEN k ELSE k + 1
<1>2. \A k \in 1 .. Len(m) : old(k) \in 1 .. Len(l) /\ old(k) # n /\ m[k] = l[old(k)]
  BY <1>1 DEF Cut
<1>3. \A j, k \in 1 .. Len(m) : (j < k <=> old(j) < old(k)) /\ (j = k <=> old(j) = old(k))
  BY <1>1
<1>4. \A i \in 1 .. Len(l) : i # n => \E k \in 1 .. Len(m) : old(k) = i
  <2> SUFFICES ASSUME NEW i \in 1 .. Len(l), i # n PROVE \E k \in 1 .. Len(m) : old(k) = i
    OBVIOUS
  <2>1. CASE i < n
    BY <1>1, <2>1
  <2>2. CASE i > n
    <3>1. i - 1 \in 1 .. Len(m) /\ old(i - 1) = i
      BY <1>1, <2>2
    <3> QED
      BY <3>1
  <2> QED
    BY <2>1, <2>2
<1> HIDE DEF old
<1>5. Distinct(m)
  BY <1>2, <1>3 DEF Distinct
<1>6. Ordered(m, occ)
  BY <1>2, <1>3 DEF Ordered
<1>7. \A k \in 1 .. Len(m) : m[k] \in Nodes(l) \ {l[n]}
  BY <1>2 DEF Nodes, Distinct
<1>8. \A i \in 1 .. Len(l) : l[i] # l[n] => \E k \in 1 .. Len(m) : m[k] = l[i]
  BY <1>2, <1>4
<1>9. Nodes(m) = Nodes(l) \ {l[n]}
  BY <1>7, <1>8 DEF Nodes
<1> QED
  BY <1>5, <1>6, <1>9

\* remove_from_coremap takes out the node that it looks for.
LEMMA WithoutCuts ==
  ASSUME NEW l \in Seq(Address), NEW a \in Nodes(l)
  PROVE  \E n \in 1 .. Len(l) : l[n] = a /\ Cut(Without(l, a), l, n)
<1>1. \E k \in DOMAIN l : l[k] = a
  BY LenProperties DEF Nodes
<1>2. PICK n \in DOMAIN l : l[n] = a /\ Without(l, a) = RemoveAt(l, n)
  BY <1>1 DEF Without
<1>3. n \in 1 .. Len(l)
  BY LenProperties
<1> QED
  BY <1>2, <1>3, RemoveAtCuts

\* add_to_coremap puts a node behind all that are needed later and before all
\* that are needed sooner.
LEMMA AddedInPlace ==
  ASSUME NEW l \in Seq(Address), NEW a \in Address, NEW occ \in [Address -> SUBSET Nat],
         Ordered(l, occ)
  PROVE  \E n \in 1 .. Len(l) + 1 :
           /\ Put(add_to_coremap(l, a, occ), l, n, a)
           /\ \A k \in 1 .. Len(l) : k < n => NoSooner(l[k], a, occ)
           /\ \A k \in 1 .. Len(l) : k >= n => NoSooner(a, l[k], occ)
<1>1. Len(l) \in Nat /\ \A k \in 1 .. Len(l) : l[k] \in Address /\ occ[l[k]] \in SUBSET Nat
  BY LenProperties
<1>2. occ[a] \in SUBSET Nat /\ (occ[a] # {} => Min(occ[a]) \in Nat)
  BY MinOfNaturals
<1>3. \A k \in 1 .. Len(l) : occ[l[k]] # {} => Min(occ[l[k]]) \in Nat
  BY <1>1, MinOfNaturals
<1>4. l # <<>> => Head(l) = l[1] /\ Len(l) >= 1
  BY <1>1, EmptySeq
<1> DEFINE first == l = <<>> \/ occ[a] = {} \/ (occ[Head(l)] # {} /\ Min(occ[a]) > Min(occ[Head(l)]))
<1>5. CASE first
  <2>1. add_to_coremap(l, a, occ) = <<a>> \o l
    BY <1>5 DEF add_to_coremap
  <2>2. Put(add_to_coremap(l, a, occ), l, 1, a)
    BY <2>1, FrontPuts
  <2>3. ASSUME NEW k \in 1 .. Len(l) PROVE NoSooner(a, l[k], occ)
    <3>1. CASE occ[a] = {}
      BY <3>1 DEF NoSooner
    <3>2. CASE occ[a] # {}
      <4>1. l # <<>> /\ 1 \in 1 .. Len(l)
        BY <1>1
      <4>2. occ[l[1]] # {} /\ Min(occ[a]) > Min(occ[l[1]])
        BY <1>4, <1>5, <3>2, <4>1
      <4>3. k = 1 \/ NoSooner(l[1], l[k], occ)
        BY <1>1, <4>1 DEF Ordered
      <4> QED
        BY <1>2, <1>3, <3>2, <4>1, <4>2, <4>3 DEF NoSooner
    <3> QED
      BY <3>1, <3>2
  <2>4. 1 \in 1 .. Len(l) + 1 /\ \A k \in 1 .. Len(l) : ~ (k < 1)
    BY <1>1
  <2> QED
    BY <2>2, <2>3, <2>4
<1>6. CASE ~ first
  <2> DEFINE stop == {k \in 1 .. Len(l) : k = Len(l) \/ ~ Later(l[k + 1], a, occ)}
             m == Min(stop)
  <2>1. l # <<>> /\ occ[a] # {} /\ ~ (occ[l[1]] # {} /\ Min(occ[a]) > Min(occ[l[1]])) /\ Len(l) >= 1
    BY <1>4, <1>6
  <2>2. add_to_coremap(l, a, occ) = InsertAt(l, 1 + m, a)
    BY <1>6 DEF add_to_coremap
  <2>3. stop \in SUBSET Nat /\ Len(l) \in stop
    BY <1>1, <2>1
  <2>4. m \in stop /\ \A k \in stop : m <= k
    BY <2>3, MinOfNaturals
  <2>5. m \in 1 .. Len(l) /\ (m = Len(l) \/ ~ Later(l[m + 1], a, occ))
    BY <2>4
  <2>6. \A k \in 1 .. Len(l) : k < m => Later(l[k + 1], a, occ)
    <3>1. \A k \in 1 .. Len(l) : k < m => k \notin stop
      BY <1>1, <2>4, <2>5
    <3> QED
      BY <3>1
  <2> HIDE DEF m, stop
  <2>7. 1 + m \in 1 .. Len(l) + 1
    BY <1>1, <2>5
  <2>8. Put(add_to_coremap(l, a, occ), l, 1 + m, a)
    BY <2>2, <2>7, InsertAtPuts
  <2>9. ASSUME NEW k \in 1 .. Len(l), k < 1 + m PROVE NoSooner(l[k], a, occ)
    <3>1. CASE k = 1
      BY <1>2, <1>3, <2>1, <3>1 DEF NoSooner
    <3>2. CASE k # 1
      <4>1. k - 1 \in 1 .. Len(l) /\ k - 1 < m /\ k - 1 + 1 = k
        BY <1>1, <2>5, <2>9, <3>2
      <4>2. Later(l[k], a, occ)
        BY <2>6, <4>1
      <4> QED
        BY <1>2, <1>3, <2>1, <4>2 DEF Later, NoSooner
    <3> QED
      BY <3>1, <3>2
  <2>10. ASSUME NEW k \in 1 .. Len(l), k >= 1 + m PROVE NoSooner(a, l[k], occ)
    <3>1. m + 1 \in 1 .. Len(l) /\ ~ Later(l[m + 1], a, occ)
      BY <1>1, <2>5, <2>10
    <3>2. occ[l[m + 1]] # {} /\ ~ (Min(occ[l[m + 1]]) > Min(occ[a]))
      BY <3>1 DEF Later
    <3>3. k = m + 1 \/ NoSooner(l[m + 1], l[k], occ)
      BY <1>1, <2>5, <2>10, <3>1 DEF Ordered
    <3>4. occ[l[k]] # {} /\ Min(occ[l[m + 1]]) >= Min(occ[l[k]])
      <4>1. Min(occ[l[m + 1]]) \in Nat
        BY <1>3, <3>1, <3>2
      <4> QED
        BY <3>2, <3>3, <4>1 DEF NoSooner
    <3>5. Min(occ[a]) \in Nat /\ Min(occ[l[m + 1]]) \in Nat /\ Min(occ[l[k]]) \in Nat
      BY <1>2, <1>3, <2>1, <3>1, <3>2, <3>4
    <3>6. Min(occ[a]) >= Min(occ[l[k]])
      BY <3>2, <3>4, <3>5
    <3> QED
      BY <3>4, <3>6 DEF NoSooner
  <2> QED
    BY <2>7, <2>8, <2>9, <2>10
<1> QED
  BY <1>5, <1>6

-----------------------------------------------------------------------------
(* opt_ref and opt_evict keep the list in the order of next use, whatever      *)
(* lines the nodes were recorded for.                                          *)

\* A node is in the list exactly when it has a frame.
Listed(l, fn) ==
  /\ l \in Seq(Address) /\ Distinct(l)
  /\ fn \in [Address -> Frame \cup {-1}]
  /\ \A a \in Address : fn[a] # -1 <=> a \in Nodes(l)

\* opt_evict: the head leaves.
LEMMA HeadLeaves ==
  ASSUME NEW l, NEW fn, Listed(l, fn), NEW occ, Ordered(l, occ), l # <<>>
  PROVE  LET h == Head(l) IN
         /\ h \in Address /\ h = l[1] /\ h \in Nodes(l) /\ fn[h] \in Frame
         /\ Listed(Tail(l), [fn EXCEPT ![h] = -1]) /\ Ordered(Tail(l), occ)
         /\ Nodes(Tail(l)) = Nodes(l) \ {h}
<1> DEFINE h == Head(l)
<1>1. l \in Seq(Address) /\ Len(l) \in Nat /\ Len(l) >= 1
  BY EmptySeq, LenProperties DEF Listed
<1>2. /\ Tail(l) \in Seq(Address) /\ Len(Tail(l)) = Len(l) - 1 /\ h \in Address
      /\ \A k \in 1 .. Len(Tail(l)) : Tail(l)[k] = l[k + 1]
  BY <1>1, HeadTailProperties
<1>3. h = l[1] /\ 1 \in 1 .. Len(l)
  BY <1>1
<1> HIDE DEF h
<1>4. Cut(Tail(l), l, 1)
  BY <1>1, <1>2 DEF Cut
<1>5. Distinct(Tail(l)) /\ Nodes(Tail(l)) = Nodes(l) \ {h} /\ Ordered(Tail(l), occ)
  BY <1>1, <1>3, <1>4, CutKeeps DEF Listed
<1>6. h \in Nodes(l)
  BY <1>3 DEF Nodes
<1>7. fn[h] \in Frame
  BY <1>2, <1>6 DEF Listed
<1>8. Listed(Tail(l), [fn EXCEPT ![h] = -1])
  BY <1>2, <1>5 DEF Listed
<1> QED
  BY <1>2, <1>3, <1>5, <1>6, <1>7, <1>8 DEF h

\* opt_ref: the node recorded for the line is in the list, with the frame it had
\* or the one it is given, and the list is again in the order of next use.
LEMMA RefKeeps ==
  ASSUME NEW l, NEW fn, Listed(l, fn), Ordered(l, occurances),
         occurances \in [Address -> SUBSET Nat],
         reference_string[position] \in Address, NEW f \in Frame, opt_ref(l, fn, f)
  PROVE  LET a == reference_string[position] IN
         /\ occurances' \in [Address -> SUBSET Nat] /\ Ordered(in_frame', occurances')
         /\ Listed(in_frame', frame_number') /\ in_frame' # <<>>
         /\ Nodes(in_frame') = Nodes(l) \cup {a}
         /\ frame_number' = [fn EXCEPT ![a] = IF fn[a] = -1 THEN f ELSE fn[a]]
         /\ occurances' = [occurances EXCEPT ![a] = @ \ {Min(@)}]
         /\ UNCHANGED <<trace, reference_string>> /\ position' = position + 1
<1> DEFINE a == reference_string[position]
           m == IF fn[a] = -1 THEN l ELSE Without(l, a)
<1>1. /\ occurances' = [occurances EXCEPT ![a] = IF @ = {} THEN @ ELSE @ \ {Min(@)}]
      /\ frame_number' = [fn EXCEPT ![a] = IF @ = -1 THEN f ELSE @]
      /\ in_frame' = add_to_coremap(m, a, occurances')
      /\ UNCHANGED <<trace, reference_string>> /\ position' = position + 1
  BY DEF opt_ref
<1>2. /\ occurances' = [occurances EXCEPT ![a] = @ \ {Min(@)}]
      /\ occurances' \in [Address -> SUBSET Nat]
      /\ \A b \in Address \ {a} : occurances'[b] = occurances[b]
  <2>1. (IF occurances[a] = {} THEN occurances[a] ELSE occurances[a] \ {Min(occurances[a])})
          = occurances[a] \ {Min(occurances[a])}
    OBVIOUS
  <2>2. occurances[a] \ {Min(occurances[a])} \in SUBSET Nat
    OBVIOUS
  <2> QED
    BY <1>1, <2>1, <2>2
<1>3. m \in Seq(Address) /\ Distinct(m) /\ Nodes(m) = Nodes(l) \ {a} /\ Ordered(m, occurances)
  <2>1. CASE fn[a] = -1
    BY <2>1 DEF Listed
  <2>2. CASE fn[a] # -1
    <3>1. a \in Nodes(l) /\ l \in Seq(Address) /\ Distinct(l)
      BY <2>2 DEF Listed
    <3>2. PICK n \in 1 .. Len(l) : l[n] = a /\ Cut(m, l, n)
      BY <2>2, <3>1, WithoutCuts
    <3> HIDE DEF m, a
    <3> QED
      BY <3>1, <3>2, CutKeeps DEF Cut
  <2> QED
    BY <2>1, <2>2
<1>4. Ordered(m, occurances')
  <2>1. \A k \in 1 .. Len(m) : m[k] \in Address \ {a}
    <3>1. \A k \in 1 .. Len(m) : m[k] \in Nodes(m) /\ m[k] \in Address
      BY <1>3, ElementOfSeq DEF Nodes
    <3> HIDE DEF m, a
    <3> QED
      BY <1>3, <3>1
  <2> HIDE DEF m, a
  <2>2. \A k \in 1 .. Len(m) : occurances'[m[k]] = occurances[m[k]]
    BY <1>2, <2>1
  <2> QED
    BY <1>3, <2>2 DEF Ordered, NoSooner
<1> HIDE DEF m, a
<1>5. a \in Address \ Nodes(m)
  BY <1>3 DEF a
<1> DEFINE r == add_to_coremap(m, a, occurances')
<1>6. PICK n \in 1 .. Len(m) + 1 :
        /\ Put(r, m, n, a)
        /\ \A k \in 1 .. Len(m) : k < n => NoSooner(m[k], a, occurances')
        /\ \A k \in 1 .. Len(m) : k >= n => NoSooner(a, m[k], occurances')
  BY <1>2, <1>3, <1>4, <1>5, AddedInPlace
<1> HIDE DEF r
<1>7. Distinct(r) /\ Nodes(r) = Nodes(m) \cup {a} /\ r # <<>> /\ r \in Seq(Address)
  <2>1. Distinct(r) /\ Nodes(r) = Nodes(m) \cup {a} /\ r # <<>>
    BY <1>3, <1>5, <1>6, PutKeeps
  <2> QED
    BY <1>6, <2>1 DEF Put
<1>8. Ordered(r, occurances')
  BY <1>3, <1>4, <1>5, <1>6, PutOrdered
<1>9. Nodes(r) = Nodes(l) \cup {a}
  BY <1>3, <1>7
<1>10. Listed(r, frame_number')
  <2>1. -1 \notin Frame
    BY DEF Frame
  <2>2. frame_number' \in [Address -> Frame \cup {-1}] /\ frame_number'[a] # -1
        /\ \A b \in Address \ {a} : frame_number'[b] = fn[b]
    BY <1>1, <1>5, <2>1 DEF Listed
  <2>3. \A b \in Address : frame_number'[b] # -1 <=> b \in Nodes(r)
    BY <1>9, <2>2 DEF Listed
  <2> QED
    BY <1>7, <2>2, <2>3 DEF Listed
<1> QED
  BY <1>1, <1>2, <1>7, <1>8, <1>9, <1>10 DEF a, r

-----------------------------------------------------------------------------
(* The trace, and the nodes recorded for its lines.                            *)

\* A set of numbers up to n has a greatest.
LEMMA Greatest ==
  ASSUME NEW n \in Nat, NEW S \in SUBSET (0 .. n), S # {}
  PROVE  Max(S) \in S /\ \A y \in S : Max(S) >= y
<1> DEFINE T == {n - x : x \in S}
<1>1. T \in SUBSET Nat /\ T # {}
  <2>1. \A x \in S : n - x \in Nat
    OBVIOUS
  <2>2. \E x \in S : n - x \in T
    OBVIOUS
  <2> QED
    BY <2>1, <2>2
<1>2. PICK m \in T : \A j \in Nat : j < m => j \notin T
  BY <1>1, Smallest
<1>3. PICK x \in S : m = n - x
  OBVIOUS
<1>4. ASSUME NEW y \in S PROVE x >= y
  <2>1. n - y \in T /\ n - y \in Nat
    OBVIOUS
  <2>2. ~ (n - y < m)
    BY <1>2, <2>1
  <2> QED
    BY <1>3, <2>2
<1>5. \E z \in S : \A y \in S : z >= y
  BY <1>4
<1> QED
  BY <1>5 DEF Max

\* opt_init records a node for every line, and the line's own when it is no Banner.
LEMMA StringFacts ==
  ASSUME NEW t \in Seq(Page \cup {Banner}), NEW x \in Address
  PROVE  /\ ReferenceString(t, x) \in Seq(Address) /\ Len(ReferenceString(t, x)) = Len(t)
         /\ Banner \notin {t[i] : i \in DOMAIN t} =>
              \A i \in 1 .. Len(t) : ReferenceString(t, x)[i] = t[i] /\ t[i] \in Page
<1> DEFINE K(i) == {j \in 1 .. i : t[j] # Banner} \cup {0}
           e(i) == LET k == Max(K(i)) IN IF k = 0 THEN x ELSE t[k]
<1>1. Len(t) \in Nat /\ DOMAIN t = 1 .. Len(t) /\ \A i \in 1 .. Len(t) : t[i] \in Page \cup {Banner}
  BY LenProperties
<1>2. ASSUME NEW i \in 1 .. Len(t)
      PROVE  e(i) \in Address /\ (t[i] # Banner => e(i) = t[i])
  <2>1. K(i) \in SUBSET (0 .. i) /\ K(i) # {} /\ i \in Nat
    OBVIOUS
  <2>2. Max(K(i)) \in K(i) /\ \A y \in K(i) : Max(K(i)) >= y
    BY <2>1, Greatest
  <2>3. Max(K(i)) = 0 \/ (Max(K(i)) \in 1 .. i /\ t[Max(K(i))] # Banner)
    BY <2>2
  <2>4. t[i] # Banner => Max(K(i)) = i
    <3>1. t[i] # Banner => i \in K(i)
      OBVIOUS
    <3> QED
      BY <2>2, <2>3, <3>1
  <2> HIDE DEF K
  <2>5. e(i) \in Address
    BY <1>1, <2>3 DEF Address
  <2> QED
    BY <2>4, <2>5
<1>3. ReferenceString(t, x) = [i \in 1 .. Len(t) |-> e(i)]
  BY DEF ReferenceString
<1> HIDE DEF e
<1>4. [i \in 1 .. Len(t) |-> e(i)] \in [1 .. Len(t) -> Address]
  BY <1>2
<1>5. ReferenceString(t, x) \in Seq(Address)
  BY <1>1, <1>3, <1>4, SeqDef
<1>6. Len(ReferenceString(t, x)) = Len(t)
  BY <1>1, <1>3, <1>5, LenProperties
<1>7. Banner \notin {t[i] : i \in DOMAIN t} => \A i \in 1 .. Len(t) : t[i] # Banner
  BY <1>1
<1> QED
  BY <1>1, <1>2, <1>3, <1>5, <1>6, <1>7

\* replay_trace replays at most the lines there are, and all of them in their
\* order when none is a Banner.
LEMMA ReplayedLines ==
  ASSUME trace \in Seq(Page \cup {Banner})
  PROVE  /\ Len(Replayed) \in Nat /\ Len(Replayed) <= Len(trace)
         /\ Plain => /\ Len(Replayed) = Len(trace)
                     /\ \A i \in 1 .. Len(trace) : Replayed[i] = trace[i]
<1>1. Len(trace) \in Nat /\ DOMAIN trace = 1 .. Len(trace)
  BY LenProperties
<1>2. IsFiniteSet(1 .. Len(trace)) /\ Cardinality(1 .. Len(trace)) = Len(trace)
  BY <1>1, FS_Interval
<1>3. Lines \in SUBSET (1 .. Len(trace))
  BY <1>1 DEF Lines
<1>4. Cardinality(Lines) \in Nat /\ Cardinality(Lines) <= Len(trace)
  BY <1>2, <1>3, FS_Subset, FS_CardinalityType
<1> DEFINE e(k) == trace[CHOOSE i \in Lines : Cardinality({j \in Lines : j <= i}) = k]
           n    == Cardinality(Lines)
<1>5. Replayed = [k \in 1 .. n |-> e(k)]
  BY DEF Replayed
<1> HIDE DEF e, n
<1>6. n \in Nat /\ n <= Len(trace)
  BY <1>4 DEF n
<1>7. Len(Replayed) = n
  BY <1>5, <1>6
<1>8. ASSUME Plain PROVE n = Len(trace) /\ \A k \in 1 .. Len(trace) : e(k) = trace[k]
  <2>1. Lines = 1 .. Len(trace)
    BY <1>1, <1>8 DEF Lines, Plain
  <2>2. \A i \in Lines : Cardinality({j \in Lines : j <= i}) = i
    <3> SUFFICES ASSUME NEW i \in 1 .. Len(trace)
                 PROVE  Cardinality({j \in 1 .. Len(trace) : j <= i}) = i
      BY <2>1
    <3>1. {j \in 1 .. Len(trace) : j <= i} = 1 .. i
      BY <1>1
    <3>2. Cardinality(1 .. i) = i
      BY <1>1, FS_Interval
    <3> QED
      BY <3>1, <3>2
  <2>3. ASSUME NEW k \in 1 .. Len(trace) PROVE e(k) = trace[k]
    <3> DEFINE c == CHOOSE i \in Lines : Cardinality({j \in Lines : j <= i}) = k
    <3>1. k \in Lines /\ Cardinality({j \in Lines : j <= k}) = k
      BY <2>1, <2>2
    <3>2. c \in Lines /\ Cardinality({j \in Lines : j <= c}) = k
      BY <3>1
    <3> HIDE DEF c
    <3>3. c = k
      BY <2>2, <3>2
    <3> QED
      BY <3>3 DEF c, e
  <2> QED
    BY <1>2, <2>1, <2>3 DEF n
<1> QED
  BY <1>5, <1>6, <1>7, <1>8

-----------------------------------------------------------------------------
(* The inductive invariant.                                                    *)

\* With a trace that names no line that is skipped, opt.c's list is the pages in
\* memory with their frames, and what it knows of their next uses is the trace.
Follows ==
  /\ \A i \in 1 .. Len(trace) : reference_string[i] = trace[i] /\ trace[i] \in Page
  /\ \A v \in Page : occurances[v] = {i \in position .. Len(trace) : trace[i] = v}
  /\ Nodes(in_frame) = Resident
  /\ \A v \in Resident : frame_number[v] = pte[v].frame

\* With any trace, the list has a node with a frame once memory is in use.
OptLists ==
  /\ position = count.ref + 1
  /\ trace \in Seq(Page \cup {Banner})
  /\ reference_string \in Seq(Address) /\ Len(reference_string) = Len(trace)
  /\ occurances \in [Address -> SUBSET Nat]
  /\ Listed(in_frame, frame_number) /\ Ordered(in_frame, occurances)
  /\ in_frame = <<>> => InUse = {}
  /\ Plain => Follows

OptInv == evict_fcn = "opt" => PagingInv /\ (status = "running" => OptLists)

\* A page that comes into memory is there, and so is all that was but the victim.
LEMMA ResidentThen ==
  ASSUME PagingInv, PagingInv', NEW v \in Page, \A w \in Page \ {v} : pte'[w] = pte[w],
         coremap'[pte'[v].frame].in_use, coremap'[pte'[v].frame].pte = v
  PROVE  Resident' = Resident \cup {v}
<1>1. v \in Resident'
  <2>1. pte'[v].frame \in Frame
    BY DEF PagingInv, TypeOK, EntryType
  <2> QED
    BY <2>1 DEF PagingInv, FrameOwnership
<1> QED
  BY <1>1 DEF Resident

\* A page that comes into memory takes the place of the one whose frame it gets.
LEMMA ResidentAfter ==
  ASSUME PagingInv, PagingInv', NEW v \in Page, v \notin Resident, NEW f \in Frame,
         coremap[f].in_use, pte'[v].frame = f,
         \A w \in Page \ {v, coremap[f].pte} : pte'[w] = pte[w],
         coremap' = [coremap EXCEPT ![f] = [in_use |-> TRUE, pte |-> v]]
  PROVE  /\ coremap[f].pte \in Resident
         /\ Resident' = (Resident \ {coremap[f].pte}) \cup {v}
<1> DEFINE u == coremap[f].pte
<1>1. u \in Resident /\ pte[u].frame = f
  BY DEF PagingInv, FrameOwnership
<1>2. coremap'[f] = [in_use |-> TRUE, pte |-> v] /\ \A g \in Frame \ {f} : coremap'[g] = coremap[g]
  BY DEF PagingInv, TypeOK
<1>3. v \in Resident'
  BY <1>2 DEF PagingInv, FrameOwnership
<1>4. u \in Page /\ u # v
  BY <1>1 DEF Resident
<1> HIDE DEF u
<1>5. u \notin Resident'
  <2> SUFFICES ASSUME u \in Resident' PROVE FALSE
    OBVIOUS
  <2> DEFINE g == pte'[u].frame
  <2>1. g \in Frame
    BY <1>4 DEF PagingInv, TypeOK, EntryType
  <2>2. coremap'[g] = [in_use |-> TRUE, pte |-> u]
    BY DEF PagingInv, FrameOwnership
  <2> HIDE DEF g
  <2>3. g # f
    BY <1>2, <1>4, <2>2
  <2>4. coremap[g].in_use /\ coremap[g].pte = u
    BY <1>2, <2>1, <2>2, <2>3
  <2>5. pte[u].frame = g
    BY <2>1, <2>4 DEF PagingInv, FrameOwnership
  <2> QED
    BY <1>1, <2>3, <2>5
<1>6. \A w \in Page \ {u, v} : w \in Resident' <=> w \in Resident
  BY DEF Resident, u
<1>7. Resident \subseteq Page /\ Resident' \subseteq Page
  BY DEF Resident
<1> QED
  BY <1>1, <1>3, <1>4, <1>5, <1>6, <1>7 DEF u

\* The line that is replayed next has a node, its own if the trace is Plain.
LEMMA NextLine ==
  ASSUME PagingInv, OptLists, count.ref < Len(Replayed), NEW v, v = Replayed[count.ref + 1]
  PROVE  /\ position \in 1 .. Len(trace) /\ reference_string[position] \in Address
         /\ Plain => reference_string[position] = v /\ trace[position] = v
<1>1. position = count.ref + 1 /\ count.ref \in Nat /\ Len(trace) \in Nat
  BY LenProperties DEF OptLists, PagingInv, TypeOK
<1>2. /\ Len(Replayed) \in Nat /\ Len(Replayed) <= Len(trace)
      /\ Plain => \A i \in 1 .. Len(trace) : Replayed[i] = trace[i]
  BY ReplayedLines DEF OptLists
<1>3. position \in 1 .. Len(trace)
  BY <1>1, <1>2
<1>4. reference_string[position] \in Address
  BY <1>3, ElementOfSeq DEF OptLists
<1>5. Plain => reference_string[position] = v /\ trace[position] = v
  BY <1>1, <1>2, <1>3 DEF OptLists, Follows
<1> QED
  BY <1>3, <1>4, <1>5

\* The line taken off the node is the one replayed.
LEMMA NextUses ==
  ASSUME Follows, position \in 1 .. Len(trace), trace \in Seq(Page \cup {Banner}),
         NEW v \in Page, trace[position] = v,
         occurances' = [occurances EXCEPT ![v] = @ \ {Min(@)}],
         occurances \in [Address -> SUBSET Nat], trace' = trace, position' = position + 1
  PROVE  \A w \in Page : occurances'[w] = {i \in position' .. Len(trace') : trace'[i] = w}
<1>1. Len(trace) \in Nat /\ position \in Nat
  BY LenProperties
<1>2. \A w \in Page : w \in Address /\ occurances[w] = {i \in position .. Len(trace) : trace[i] = w}
  BY DEF Follows, Address
<1>3. position \in occurances[v] /\ \A i \in occurances[v] : position <= i
  BY <1>1, <1>2
<1>4. Min(occurances[v]) = position
  <2>1. occurances[v] \in SUBSET Nat /\ occurances[v] # {}
    BY <1>2, <1>3
  <2>2. Min(occurances[v]) \in occurances[v] /\ \A y \in occurances[v] : Min(occurances[v]) <= y
    BY <2>1, MinOfNaturals
  <2>3. Min(occurances[v]) <= position /\ position <= Min(occurances[v]) /\ Min(occurances[v]) \in Nat
    BY <1>3, <2>1, <2>2
  <2> QED
    BY <1>1, <2>3
<1>5. occurances'[v] = occurances[v] \ {position} /\ \A w \in Page \ {v} : occurances'[w] = occurances[w]
  BY <1>2, <1>4
<1> SUFFICES ASSUME NEW w \in Page
             PROVE  occurances'[w] = {i \in position + 1 .. Len(trace) : trace[i] = w}
  OBVIOUS
<1>6. CASE w = v
  BY <1>1, <1>2, <1>5, <1>6
<1>7. CASE w # v
  BY <1>1, <1>2, <1>5, <1>7
<1> QED
  BY <1>6, <1>7

-----------------------------------------------------------------------------
(* The steps of the simulator with opt.                                        *)

\* A reference that found the page's frame, or a free one: the page is in memory.
LEMMA KeptFacts ==
  ASSUME PagingInv, NEW v \in Page, NEW type \in Type, Hit(v, type) \/ Fill(v, type)
  PROVE  LET f == pte'[v].frame IN
         /\ PagingInv' /\ status' = "running"
         /\ f \in Frame /\ coremap'[f].in_use /\ coremap'[f].pte = v
         /\ \A w \in Page \ {v} : pte'[w] = pte[w]
         /\ Resident \subseteq Resident' /\ count'.ref = count.ref + 1
         /\ v \in Resident => f = pte[v].frame
         /\ Resident' = Resident \cup {v}
<1> DEFINE f == pte'[v].frame
<1>1. /\ PagingInv' /\ status' = "running"
      /\ f \in Frame /\ coremap'[f].in_use /\ coremap'[f].pte = v
      /\ \A w \in Page \ {v} : pte'[w] = pte[w]
      /\ Resident \subseteq Resident' /\ count'.ref = count.ref + 1
      /\ v \in Resident => f = pte[v].frame
  <2>1. CASE Hit(v, type)
    <3>1. /\ PagingInv' /\ status' = "running" /\ f = pte[v].frame /\ coremap' = coremap
          /\ \A w \in Page \ {v} : pte'[w] = pte[w]
          /\ Resident \subseteq Resident' /\ count'.ref = count.ref + 1
      BY <2>1, HitFacts
    <3>2. pte[v].valid
      BY <2>1, OwnTables DEF Hit
    <3>3. f \in Frame /\ coremap[f].in_use /\ coremap[f].pte = v
      BY <3>1, <3>2, ResidentInUse DEF PagingInv
    <3> HIDE DEF f
    <3> QED
      BY <3>1, <3>3
  <2>2. CASE Fill(v, type)
    <3>1. /\ PagingInv' /\ status' = "running" /\ f \in Frame \ InUse /\ v \notin Resident
          /\ coremap' = [coremap EXCEPT ![f] = [in_use |-> TRUE, pte |-> v]]
          /\ \A w \in Page \ {v} : pte'[w] = pte[w]
          /\ Resident \subseteq Resident' /\ count'.ref = count.ref + 1
      BY <2>2, FillFacts
    <3> HIDE DEF f
    <3>2. coremap'[f] = [in_use |-> TRUE, pte |-> v]
      BY <3>1 DEF PagingInv, TypeOK
    <3> QED
      BY <3>1, <3>2
  <2> QED
    BY <2>1, <2>2
<1>2. Resident' = Resident \cup {v}
  BY <1>1, ResidentThen
<1> QED
  BY <1>1, <1>2

\* So the list has the page, and has it in its place.
LEMMA OptKept ==
  ASSUME PagingInv, OptLists, NEW v \in Page, NEW type \in Type,
         Hit(v, type) \/ Fill(v, type),
         count.ref < Len(Replayed), v = Replayed[count.ref + 1],
         opt_ref(in_frame, frame_number, pte'[v].frame)
  PROVE  PagingInv' /\ status' = "running" /\ OptLists' /\ Resident \subseteq Resident'
<1> DEFINE f == pte'[v].frame
           a == reference_string[position]
<1>1. /\ PagingInv' /\ status' = "running"
      /\ f \in Frame /\ coremap'[f].in_use /\ coremap'[f].pte = v
      /\ \A w \in Page \ {v} : pte'[w] = pte[w]
      /\ Resident \subseteq Resident' /\ count'.ref = count.ref + 1
      /\ v \in Resident => f = pte[v].frame
      /\ Resident' = Resident \cup {v}
  BY KeptFacts
<1>2. Resident' = Resident \cup {v}
  BY <1>1
<1> HIDE DEF f
<1>3. /\ position \in 1 .. Len(trace) /\ a \in Address
      /\ Plain => a = v /\ trace[position] = v
  BY NextLine
<1>4. /\ occurances' \in [Address -> SUBSET Nat] /\ Ordered(in_frame', occurances')
      /\ Listed(in_frame', frame_number') /\ in_frame' # <<>>
      /\ Nodes(in_frame') = Nodes(in_frame) \cup {a}
      /\ frame_number' = [frame_number EXCEPT ![a] = IF frame_number[a] = -1 THEN f ELSE frame_number[a]]
      /\ occurances' = [occurances EXCEPT ![a] = @ \ {Min(@)}]
      /\ UNCHANGED <<trace, reference_string>> /\ position' = position + 1
  BY <1>1, <1>3, RefKeeps DEF OptLists, f
<1>5. /\ frame_number \in [Address -> Frame \cup {-1}] /\ -1 \notin Frame
      /\ \A w \in Address : frame_number[w] # -1 <=> w \in Nodes(in_frame)
  BY DEF OptLists, Listed, Frame
<1>6. ASSUME Plain PROVE Follows'
  <2>1. Follows /\ a = v /\ trace[position] = v
    BY <1>3, <1>6 DEF OptLists
  <2> HIDE DEF a
  <2>2. \A w \in Page : occurances'[w] = {i \in position' .. Len(trace') : trace'[i] = w}
    BY <1>3, <1>4, <2>1, NextUses DEF OptLists
  <2>3. Nodes(in_frame') = Resident'
    BY <1>2, <1>4, <2>1 DEF Follows
  <2>4. frame_number'[v] = f
    <3>1. CASE v \in Resident
      BY <1>1, <1>3, <1>4, <1>5, <2>1, <3>1 DEF Follows
    <3>2. CASE v \notin Resident
      BY <1>1, <1>3, <1>4, <1>5, <2>1, <3>2 DEF Follows
    <3> QED
      BY <3>1, <3>2
  <2>5. \A w \in Resident' : frame_number'[w] = pte'[w].frame
    <3>1. \A w \in Resident \ {v} : frame_number'[w] = frame_number[w] /\ pte'[w] = pte[w]
      BY <1>1, <1>3, <1>4, <1>5, <2>1 DEF Address, Resident
    <3> QED
      BY <1>2, <2>1, <2>4, <3>1 DEF Follows, f
  <2>6. \A i \in 1 .. Len(trace') : reference_string'[i] = trace'[i] /\ trace'[i] \in Page
    BY <1>4, <2>1 DEF Follows
  <2> QED
    BY <2>2, <2>3, <2>5, <2>6 DEF Follows
<1>7. Plain' = Plain
  BY <1>4 DEF Plain
<1>8. position' = count'.ref + 1
  BY <1>1, <1>4 DEF OptLists
<1>9. OptLists'
  BY <1>4, <1>6, <1>7, <1>8 DEF OptLists
<1> QED
  BY <1>1, <1>9

\* The node at the head has a frame, and its page is needed no sooner than any.
LEMMA HeadIsFarthest ==
  ASSUME PagingInv, OptLists, FreeFrames = {}
  PROVE  /\ in_frame # <<>> /\ opt_evict \in Frame /\ InUse = Frame
         /\ Plain => /\ coremap[opt_evict].pte = Head(in_frame)
                     /\ \A w \in Resident : NextUse(w) <= NextUse(Head(in_frame))
<1> DEFINE h == Head(in_frame)
<1>1. InUse = Frame /\ 0 \in Frame
  BY DEF InUse, Frame
<1>2. in_frame # <<>>
  BY <1>1 DEF OptLists
<1>3. h \in Nodes(in_frame) /\ h = in_frame[1] /\ opt_evict = frame_number[h] /\ opt_evict \in Frame
  BY <1>2, HeadLeaves DEF OptLists, opt_evict
<1> HIDE DEF h
<1>4. ASSUME Plain
      PROVE  coremap[opt_evict].pte = h /\ \A w \in Resident : NextUse(w) <= NextUse(h)
  <2>1. Follows /\ h \in Resident
    BY <1>3, <1>4 DEF OptLists, Follows
  <2>2. coremap[opt_evict].pte = h
    <3>1. h \in Page /\ pte[h].valid /\ pte[h].frame = opt_evict
      BY <1>3, <2>1 DEF Follows, Resident
    <3> QED
      BY <3>1, ResidentInUse DEF PagingInv
  <2>3. /\ count.ref + 1 = position /\ position \in Nat /\ Len(trace) \in Nat
        /\ Len(Replayed) = Len(trace) /\ \A i \in 1 .. Len(trace) : Replayed[i] = trace[i]
    BY <1>4, ReplayedLines, LenProperties DEF OptLists, PagingInv, TypeOK
  <2> DEFINE U(w) == occurances[w] \cup {Len(trace) + 1}
  <2>4. ASSUME NEW w \in Page
        PROVE  /\ NextUse(w) = Min(U(w)) /\ U(w) \in SUBSET Nat /\ occurances[w] \in SUBSET Nat
               /\ Min(U(w)) \in U(w) /\ \A i \in U(w) : Min(U(w)) <= i
               /\ \A i \in occurances[w] : i <= Len(trace)
    <3>1. occurances[w] = {i \in position .. Len(trace) : trace[i] = w}
      BY <2>1 DEF Follows
    <3>2. {i \in count.ref + 1 .. Len(Replayed) : Replayed[i] = w}
            = {i \in position .. Len(trace) : trace[i] = w}
      <4>1. position >= 1
        BY <2>3 DEF PagingInv, TypeOK
      <4> QED
        BY <2>3, <4>1
    <3>3. NextUse(w) = Min(U(w))
      BY <2>3, <3>1, <3>2 DEF NextUse
    <3>4. U(w) \in SUBSET Nat /\ U(w) # {} /\ occurances[w] \in SUBSET Nat
      BY <2>3, <3>1
    <3>5. \A i \in occurances[w] : i <= Len(trace)
      BY <3>1
    <3> QED
      BY <3>3, <3>4, <3>5, MinOfNaturals
  <2>5. ASSUME NEW w \in Resident PROVE NextUse(w) <= NextUse(h)
    <3>1. w \in Page /\ h \in Page
      BY <2>1 DEF Resident
    <3>2. PICK k \in 1 .. Len(in_frame) : in_frame[k] = w
      BY <2>1 DEF Follows, Nodes
    <3>3. w = h \/ NoSooner(h, w, occurances)
      <4>1. Len(in_frame) \in Nat
        BY LenProperties DEF OptLists, Listed
      <4>2. k = 1 \/ (1 \in 1 .. Len(in_frame) /\ 1 < k)
        BY <4>1
      <4> QED
        BY <1>3, <3>2, <4>2 DEF OptLists, Ordered
    <3>4. /\ NextUse(w) \in Nat /\ NextUse(h) \in Nat /\ NextUse(h) \in U(h)
          /\ \A i \in U(w) : NextUse(w) <= i
          /\ NextUse(w) <= Len(trace) + 1
      BY <2>4, <3>1
    <3>5. CASE w = h
      BY <3>4, <3>5
    <3>6. CASE NextUse(h) = Len(trace) + 1
      BY <3>4, <3>6
    <3>7. CASE w # h /\ NextUse(h) # Len(trace) + 1
      <4>1. NextUse(h) \in occurances[h]
        BY <3>4, <3>7
      <4>2. occurances[h] # {} /\ occurances[w] # {} /\ Min(occurances[h]) >= Min(occurances[w])
        BY <3>3, <3>7, <4>1 DEF NoSooner
      <4>3. /\ Min(occurances[h]) <= NextUse(h) /\ Min(occurances[h]) \in Nat
            /\ Min(occurances[w]) \in occurances[w] /\ Min(occurances[w]) \in Nat
        BY <2>4, <3>1, <4>1, <4>2, MinOfNaturals
      <4>4. NextUse(w) <= Min(occurances[w])
        BY <3>4, <4>3
      <4> QED
        BY <3>4, <4>2, <4>3, <4>4
    <3> QED
      BY <3>5, <3>6, <3>7
  <2> QED
    BY <2>2, <2>5
<1> QED
  BY <1>1, <1>2, <1>3, <1>4 DEF h

\* A reference that was given a victim's frame: only the victim left.
LEMMA ReplacedFacts ==
  ASSUME PagingInv, NEW v \in Page, NEW type \in Type, NEW f \in Frame,
         Replace(v, Tables(v), f, type)
  PROVE  /\ PagingInv' /\ status' = "running" /\ pte'[v].frame = f
         /\ \A w \in Page \ {v, coremap[f].pte} : pte'[w] = pte[w]
         /\ coremap' = [coremap EXCEPT ![f] = [in_use |-> TRUE, pte |-> v]]
         /\ v \notin Resident
         /\ count'.ref = count.ref + 1 /\ count'.miss = count.miss + 1
         /\ coremap[f].pte \in Resident
         /\ Resident' = (Resident \ {coremap[f].pte}) \cup {v}
<1>1. /\ PagingInv' /\ status' = "running" /\ pte'[v].frame = f
      /\ \A w \in Page \ {v, coremap[f].pte} : pte'[w] = pte[w]
      /\ coremap' = [coremap EXCEPT ![f] = [in_use |-> TRUE, pte |-> v]]
      /\ v \notin Resident /\ InUse = Frame
      /\ count'.ref = count.ref + 1 /\ count'.miss = count.miss + 1
  <2>1. Tables(v) = pte /\ SameButRef(Tables(v))
    BY OwnTables
  <2> QED
    BY <2>1, ReplaceFacts
<1>2. coremap[f].in_use
  BY <1>1 DEF InUse, FreeFrames
<1>3. /\ coremap[f].pte \in Resident
      /\ Resident' = (Resident \ {coremap[f].pte}) \cup {v}
  BY <1>1, <1>2, ResidentAfter
<1> QED
  BY <1>1, <1>3

\* A reference that found memory full.
LEMMA OptReplaced ==
  ASSUME PagingInv, OptLists, NEW v \in Page, NEW type \in Type,
         FreeFrames = {}, Replace(v, Tables(v), opt_evict, type),
         count.ref < Len(Replayed), v = Replayed[count.ref + 1],
         opt_ref(Tail(in_frame), [frame_number EXCEPT ![Head(in_frame)] = -1], pte'[v].frame)
  PROVE  PagingInv' /\ status' = "running" /\ OptLists' /\ (Plain => FarthestLeaves)
<1> DEFINE f  == opt_evict
           a  == reference_string[position]
           h  == Head(in_frame)
           l  == Tail(in_frame)
           fn == [frame_number EXCEPT ![h] = -1]
<1>1. /\ in_frame # <<>> /\ f \in Frame /\ InUse = Frame
      /\ Plain => coremap[f].pte = h /\ \A w \in Resident : NextUse(w) <= NextUse(h)
  BY HeadIsFarthest
<1>2. /\ PagingInv' /\ status' = "running" /\ pte'[v].frame = f
      /\ \A w \in Page \ {v, coremap[f].pte} : pte'[w] = pte[w]
      /\ coremap' = [coremap EXCEPT ![f] = [in_use |-> TRUE, pte |-> v]]
      /\ v \notin Resident /\ count'.ref = count.ref + 1
      /\ coremap[f].pte \in Resident
      /\ Resident' = (Resident \ {coremap[f].pte}) \cup {v}
  BY <1>1, ReplacedFacts
<1>4. /\ coremap[f].pte \in Resident
      /\ Resident' = (Resident \ {coremap[f].pte}) \cup {v}
  BY <1>2
<1>5. /\ h \in Address /\ h \in Nodes(in_frame) /\ Nodes(l) = Nodes(in_frame) \ {h}
      /\ Listed(l, fn) /\ Ordered(l, occurances)
  BY <1>1, HeadLeaves DEF OptLists
<1>6. /\ position \in 1 .. Len(trace) /\ a \in Address
      /\ Plain => a = v /\ trace[position] = v
  BY NextLine
<1> HIDE DEF f, l, h, a, fn
<1>7. opt_ref(l, fn, f)
  BY <1>2 DEF l, fn, f, h
<1>8. /\ occurances' \in [Address -> SUBSET Nat] /\ Ordered(in_frame', occurances')
      /\ Listed(in_frame', frame_number') /\ in_frame' # <<>>
      /\ Nodes(in_frame') = Nodes(l) \cup {a}
      /\ frame_number' = [fn EXCEPT ![a] = IF fn[a] = -1 THEN f ELSE fn[a]]
      /\ occurances' = [occurances EXCEPT ![a] = @ \ {Min(@)}]
      /\ UNCHANGED <<trace, reference_string>> /\ position' = position + 1
  BY <1>1, <1>5, <1>6, <1>7, RefKeeps DEF OptLists, a
<1>9. /\ fn \in [Address -> Frame \cup {-1}] /\ -1 \notin Frame
      /\ \A w \in Address : fn[w] # -1 <=> w \in Nodes(l)
      /\ \A w \in Address \ {h} : fn[w] = frame_number[w]
  <2>1. frame_number \in [Address -> Frame \cup {-1}]
    BY DEF OptLists, Listed
  <2> QED
    BY <1>5, <2>1 DEF Listed, Frame, fn
<1>10. ASSUME Plain PROVE Follows' /\ FarthestLeaves
  <2>1. Follows /\ a = v /\ trace[position] = v
    BY <1>6, <1>10 DEF OptLists
  <2>2. /\ h \in Resident /\ Resident' = (Resident \ {h}) \cup {v}
        /\ \A w \in Page \ {v, h} : pte'[w] = pte[w]
    BY <1>1, <1>2, <1>4, <1>10
  <2>3. \A w \in Page : occurances'[w] = {i \in position' .. Len(trace') : trace'[i] = w}
    BY <1>6, <1>8, <2>1, NextUses DEF OptLists
  <2>4. Nodes(in_frame') = Resident' /\ v \notin Nodes(l)
    BY <1>2, <1>5, <1>8, <2>1, <2>2 DEF Follows
  <2>5. frame_number'[v] = f /\ \A w \in Resident \ {h} : w # v /\ frame_number'[w] = frame_number[w]
    BY <1>2, <1>6, <1>8, <1>9, <2>1, <2>4 DEF Address, Resident
  <2>6. \A w \in Resident' : frame_number'[w] = pte'[w].frame
    <3>1. \A w \in Resident \ {h} : pte'[w] = pte[w]
      BY <1>2, <2>2 DEF Resident
    <3> QED
      BY <1>2, <2>1, <2>2, <2>5, <3>1 DEF Follows
  <2>7. \A i \in 1 .. Len(trace') : reference_string'[i] = trace'[i] /\ trace'[i] \in Page
    BY <1>8, <2>1 DEF Follows
  <2>8. Follows'
    BY <2>3, <2>4, <2>6, <2>7 DEF Follows
  <2>9. \A w \in Resident \ Resident' : w = h
    BY <2>2
  <2> QED
    BY <1>1, <1>10, <2>8, <2>9 DEF FarthestLeaves
<1>11. Plain' = Plain
  BY <1>8 DEF Plain
<1>12. position' = count'.ref + 1
  BY <1>2, <1>8 DEF OptLists
<1>13. OptLists'
  BY <1>8, <1>10, <1>11, <1>12 DEF OptLists
<1> QED
  BY <1>2, <1>10, <1>13

\* A step of the simulator with opt: the invariant, and who leaves.
LEMMA OptStep ==
  ASSUME PagingInv, OptLists, NEW v \in Page, NEW type \in Type, OptAccess(v, type)
  PROVE  PagingInv' /\ (status' = "running" => OptLists') /\ (Plain => FarthestLeaves)
<1>1. count.ref < Len(Replayed) /\ v = Replayed[count.ref + 1]
  BY DEF OptAccess
<1>2. CASE (Hit(v, type) \/ Fill(v, type)) /\ opt_ref(in_frame, frame_number, pte'[v].frame)
  BY <1>1, <1>2, OptKept DEF FarthestLeaves
<1>3. CASE /\ FreeFrames = {}
           /\ Replace(v, Tables(v), opt_evict, type)
           /\ opt_ref(Tail(in_frame), [frame_number EXCEPT ![Head(in_frame)] = -1], pte'[v].frame)
  BY <1>1, <1>3, OptReplaced
<1>4. CASE FreeFrames = {} /\ SwapExhausted(v, Tables(v), opt_evict)
  <2>1. opt_evict \in Frame
    BY <1>4, HeadIsFarthest
  <2> QED
    BY <1>4, <2>1, OwnTables, ExitFacts DEF FarthestLeaves
<1> QED
  BY <1>2, <1>3, <1>4 DEF OptAccess

\* opt_init establishes the invariant.
LEMMA OptInit == SimInit => OptInv
<1> SUFFICES ASSUME SimInit, evict_fcn = "opt" PROVE PagingInv /\ OptLists
  BY DEF OptInv
<1>1. PagingInv
  BY PagingInit DEF SimInit
<1>2. /\ trace \in Traces /\ position = 1 /\ in_frame = <<>>
      /\ \E a \in Address : reference_string = ReferenceString(trace, a)
      /\ frame_number = [a \in Address |-> -1]
      /\ occurances = [a \in Address |-> vaddr_record(reference_string, a)]
  BY DEF SimInit, opt_init
<1>3. count.ref = 0 /\ InUse = {} /\ Resident = {}
  BY DEF SimInit, Init, InUse, FreeFrames, Resident, FreshEntry
<1>4. trace \in Seq(Page \cup {Banner})
  BY <1>2, TracesAssumption
<1>5. PICK a \in Address : reference_string = ReferenceString(trace, a)
  BY <1>2
<1>6. /\ reference_string \in Seq(Address) /\ Len(reference_string) = Len(trace)
      /\ Plain => \A i \in 1 .. Len(trace) : reference_string[i] = trace[i] /\ trace[i] \in Page
  BY <1>4, <1>5, StringFacts DEF Plain
<1>7. DOMAIN reference_string = 1 .. Len(trace) /\ Len(trace) \in Nat
  BY <1>4, <1>6, LenProperties
<1>8. \A x \in Address : occurances[x] = {i \in 1 .. Len(trace) : reference_string[i] = x}
  BY <1>2, <1>7 DEF vaddr_record
<1>9. occurances \in [Address -> SUBSET Nat]
  <2>1. \A x \in Address : vaddr_record(reference_string, x) \in SUBSET Nat
    BY <1>7 DEF vaddr_record
  <2> QED
    BY <1>2, <2>1
<1>10. /\ in_frame \in Seq(Address) /\ Len(in_frame) = 0 /\ Nodes(in_frame) = {}
       /\ Distinct(in_frame) /\ Ordered(in_frame, occurances)
  BY <1>2, EmptySeq DEF Nodes, Distinct, Ordered
<1>11. Listed(in_frame, frame_number)
  BY <1>2, <1>10 DEF Listed
<1>12. Plain => Follows
  <2> SUFFICES ASSUME Plain PROVE Follows
    OBVIOUS
  <2>1. \A w \in Page : occurances[w] = {i \in position .. Len(trace) : trace[i] = w}
    BY <1>2, <1>6, <1>8 DEF Address
  <2> QED
    BY <1>3, <1>6, <1>10, <2>1 DEF Follows
<1> QED
  BY <1>1, <1>2, <1>3, <1>4, <1>6, <1>9, <1>10, <1>11, <1>12 DEF OptLists

\* The invariant is inductive, and a page that leaves is the farthest.
LEMMA OptNext ==
  OptInv /\ [SimNext]_sim_vars =>
    OptInv' /\ [evict_fcn = "opt" /\ Plain => FarthestLeaves]_sim_vars
<1> SUFFICES ASSUME OptInv, [SimNext]_sim_vars, evict_fcn = "opt"
             PROVE  OptInv' /\ ((Plain => FarthestLeaves) \/ UNCHANGED sim_vars)
  BY DEF SimNext, sim_vars, OptInv
<1>1. CASE SimNext
  <2>1. PICK v \in Page, type \in Type : OptAccess(v, type)
    BY <1>1 DEF SimNext, Access
  <2>2. status = "running"
    BY <2>1 DEF OptAccess, Hit, Fill, Replace, SwapExhausted, Fault, Reference
  <2> QED
    BY <2>1, <2>2, OptStep DEF OptInv
<1>2. CASE UNCHANGED sim_vars
  <2>1. UNCHANGED vars /\ UNCHANGED opt_vars /\ UNCHANGED evict_fcn
    BY <1>2 DEF sim_vars
  <2>2. PagingInv'
    BY <2>1, PagingStep DEF OptInv
  <2>3. /\ UNCHANGED <<trace, reference_string, position, frame_number, occurances, in_frame>>
        /\ UNCHANGED <<pte, coremap, count, status>>
    BY <2>1 DEF opt_vars, vars
  <2>4. status = "running" => OptLists'
    BY <2>3 DEF OptInv, OptLists, Follows, Plain, InUse, FreeFrames, Resident
  <2> QED
    BY <1>2, <2>1, <2>2, <2>3, <2>4 DEF OptInv
<1> QED
  BY <1>1, <1>2

\* The page that opt_evict takes from the head of its list is needed no sooner
\* than any other in memory, for any trace without a line that is skipped and any
\* number of frames: the list is in the order of next use although only the node of
\* the current line is ever moved.
THEOREM OptEvictsFarthest == SimSpec => EvictsFarthest
<1> QED
  BY OptInit, OptNext, PTL DEF SimSpec, EvictsFarthest


-----------------------------------------------------------------------------
(* No choice of victims misses less often than opt.c's.  First what Least is:  *)
(* a recursive function of the references left, so there is one.               *)

\* L[k][R], from the L[k - 1].
LeastFrom(L, r, k, R) ==
  IF k = 0 THEN 0
  ELSE LET v == r[Len(r) + 1 - k] IN
       IF v \in R THEN L[k - 1][R]
       ELSE IF Cardinality(R) < MemSize THEN 1 + L[k - 1][R \cup {v}]
       ELSE 1 + Min({L[k - 1][(R \ {u}) \cup {v}] : u \in R})
Leasts(L, r, n) == L = [k \in 0 .. n |-> [R \in SUBSET Page |-> LeastFrom(L, r, k, R)]]

\* The costs exist for traces of any length: no length is the least without them.
LEMMA LeastsUpTo ==
  ASSUME NEW r, NEW m \in Nat
  PROVE  \E L : Leasts(L, r, m)
<1> DEFINE Bad == {k \in Nat : ~ \E L : Leasts(L, r, k)}
<1> SUFFICES ASSUME Bad # {} PROVE FALSE
  OBVIOUS
<1>1. PICK k \in Bad : \A j \in Nat : j < k => j \notin Bad
  BY Smallest
<1>2. CASE k = 0
  <2> DEFINE L == [j \in 0 .. 0 |-> [R \in SUBSET Page |-> 0]]
  <2>1. Leasts(L, r, 0)
    BY DEF Leasts, LeastFrom
  <2> QED
    BY <1>2, <2>1
<1>3. CASE k # 0
  <2>1. k - 1 \in Nat /\ k - 1 < k
    BY <1>3
  <2>2. PICK L : Leasts(L, r, k - 1)
    BY <1>1, <2>1
  <2> DEFINE V == [j \in 0 .. k |-> IF j = k THEN [R \in SUBSET Page |-> LeastFrom(L, r, k, R)] ELSE L[j]]
  <2>3. \A j \in 0 .. k - 1 : V[j] = L[j]
    BY <2>1
  <2>4. V[k] = [R \in SUBSET Page |-> LeastFrom(L, r, k, R)]
    BY <2>1
  <2>5. V = [j \in 0 .. k |-> V[j]]
    OBVIOUS
  <2> HIDE DEF V
  <2>6. ASSUME NEW j \in 0 .. k, NEW R PROVE LeastFrom(V, r, j, R) = LeastFrom(L, r, j, R)
    <3>1. j = 0 \/ j - 1 \in 0 .. k - 1
      BY <2>1
    <3>2. j = 0 \/ V[j - 1] = L[j - 1]
      BY <2>3, <3>1
    <3> QED
      BY <3>2 DEF LeastFrom
  <2>7. ASSUME NEW j \in 0 .. k PROVE V[j] = [R \in SUBSET Page |-> LeastFrom(V, r, j, R)]
    <3>1. V[j] = [R \in SUBSET Page |-> LeastFrom(L, r, j, R)]
      <4>1. CASE j = k
        BY <2>4, <4>1
      <4>2. CASE j # k
        <5>1. j \in 0 .. k - 1
          BY <2>1, <4>2
        <5> QED
          BY <2>2, <2>3, <5>1 DEF Leasts
      <4> QED
        BY <4>1, <4>2
    <3> QED
      BY <2>6, <3>1
  <2>8. Leasts(V, r, k)
    BY <2>5, <2>7 DEF Leasts
  <2> QED
    BY <2>8
<1> QED
  BY <1>2, <1>3

LeastOf(r) == CHOOSE L : Leasts(L, r, Len(r))

\* The costs of the model are those of the trace that is replayed.
LEMMA LeastIs == Least = LeastOf(Replayed)
BY DEF Least, LeastOf, Leasts, LeastFrom

\* The rules that L follows: a hit, a free frame, a victim.
Follow(L, r) ==
  /\ \A k \in 0 .. Len(r), R \in SUBSET Page : L[k][R] \in Nat
  /\ \A R \in SUBSET Page : L[0][R] = 0
  /\ \A k \in 1 .. Len(r), R \in SUBSET Page : LET v == r[Len(r) + 1 - k] IN
       /\ v \in R => L[k][R] = L[k - 1][R]
       /\ v \notin R /\ Cardinality(R) < MemSize => L[k][R] = 1 + L[k - 1][R \cup {v}]
       /\ v \notin R /\ ~ (Cardinality(R) < MemSize) =>
            /\ \E u \in R : L[k][R] = 1 + L[k - 1][(R \ {u}) \cup {v}]
            /\ \A u \in R : L[k][R] <= 1 + L[k - 1][(R \ {u}) \cup {v}]

\* The least of the misses that each victim leads to.
LEMMA LeastVictim ==
  ASSUME NEW l, \A R \in SUBSET Page : l[R] \in Nat, NEW R \in SUBSET Page, NEW v \in Page,
         ~ (Cardinality(R) < MemSize)
  PROVE  LET m == Min({l[(R \ {u}) \cup {v}] : u \in R}) IN
         /\ m \in Nat
         /\ \E u \in R : m = l[(R \ {u}) \cup {v}]
         /\ \A u \in R : m <= l[(R \ {u}) \cup {v}]
<1> DEFINE S == {l[(R \ {u}) \cup {v}] : u \in R}
<1>1. \A u \in R : (R \ {u}) \cup {v} \in SUBSET Page
  OBVIOUS
<1>2. S \in SUBSET Nat
  BY <1>1
<1>3. R # {}
  <2> SUFFICES ASSUME R = {} PROVE FALSE
    OBVIOUS
  <2>1. Cardinality(R) = 0
    BY FS_EmptySet
  <2> QED
    BY <2>1
<1>4. S # {}
  <2>1. PICK u \in R : TRUE
    BY <1>3
  <2>2. l[(R \ {u}) \cup {v}] \in S
    OBVIOUS
  <2> QED
    BY <2>2
<1> HIDE DEF S
<1>5. Min(S) \in S /\ \A y \in S : Min(S) <= y
  BY <1>2, <1>4, MinOfNaturals
<1> QED
  BY <1>2, <1>5 DEF S

\* The costs follow the rules, whatever the trace.
LEMMA LeastFollows ==
  ASSUME NEW r \in Seq(Page)
  PROVE  Follow(LeastOf(r), r)
<1> DEFINE n == Len(r)
           L == LeastOf(r)
           at(k) == r[n + 1 - k]
<1>1. n \in Nat /\ \A k \in 1 .. n : at(k) \in Page
  BY LenProperties, ElementOfSeq
<1>2. Leasts(L, r, n)
  BY <1>1, LeastsUpTo DEF LeastOf
<1> HIDE DEF L
<1>3. \A k \in 0 .. n : \A R \in SUBSET Page : L[k][R] = LeastFrom(L, r, k, R)
  <2> SUFFICES ASSUME NEW k \in 0 .. n, NEW R \in SUBSET Page PROVE L[k][R] = LeastFrom(L, r, k, R)
    OBVIOUS
  <2> DEFINE A(j) == [Q \in SUBSET Page |-> LeastFrom(L, r, j, Q)]
  <2>1. L = [j \in 0 .. n |-> A(j)]
    BY <1>2 DEF Leasts
  <2> HIDE DEF A
  <2>2. L[k] = A(k)
    BY <2>1
  <2> QED
    BY <2>2 DEF A
<1>4. \A R \in SUBSET Page : L[0][R] = 0
  <2>1. 0 \in 0 .. n
    BY <1>1
  <2>2. \A R : LeastFrom(L, r, 0, R) = 0
    BY DEF LeastFrom
  <2> QED
    BY <1>3, <2>1, <2>2
<1>5. \A k \in 1 .. n : \A R \in SUBSET Page :
        L[k][R] = IF at(k) \in R THEN L[k - 1][R]
                  ELSE IF Cardinality(R) < MemSize THEN 1 + L[k - 1][R \cup {at(k)}]
                  ELSE 1 + Min({L[k - 1][(R \ {u}) \cup {at(k)}] : u \in R})
  <2> SUFFICES ASSUME NEW k \in 1 .. n, NEW R \in SUBSET Page
               PROVE  L[k][R] = IF at(k) \in R THEN L[k - 1][R]
                                ELSE IF Cardinality(R) < MemSize THEN 1 + L[k - 1][R \cup {at(k)}]
                                ELSE 1 + Min({L[k - 1][(R \ {u}) \cup {at(k)}] : u \in R})
    OBVIOUS
  <2>1. k \in 0 .. n /\ k # 0
    BY <1>1
  <2>2. L[k][R] = LeastFrom(L, r, k, R)
    BY <1>3, <2>1
  <2> QED
    BY <2>1, <2>2 DEF LeastFrom
<1> HIDE DEF n, at
<1> DEFINE Typed(k) == \A R \in SUBSET Page : L[k][R] \in Nat
           Bad == {k \in 0 .. n : ~ Typed(k)}
<1>6. Bad = {}
  <2> SUFFICES ASSUME Bad # {} PROVE FALSE
    OBVIOUS
  <2>1. PICK k \in Bad : \A j \in Nat : j < k => j \notin Bad
    <3>1. Bad \in SUBSET Nat
      BY <1>1
    <3> HIDE DEF Bad
    <3> QED
      BY <3>1, Smallest
  <2>2. k # 0
    BY <1>4
  <2>3. k \in 1 .. n /\ k - 1 \in 0 .. n /\ k - 1 \in Nat /\ k - 1 < k
    BY <1>1, <2>2
  <2>4. Typed(k - 1) /\ at(k) \in Page
    BY <1>1, <2>1, <2>3
  <2>5. ASSUME NEW R \in SUBSET Page PROVE L[k][R] \in Nat
    <3>1. R \cup {at(k)} \in SUBSET Page
      BY <2>4
    <3>2. ~ (Cardinality(R) < MemSize) => Min({L[k - 1][(R \ {u}) \cup {at(k)}] : u \in R}) \in Nat
      <4> DEFINE l == L[k - 1]
                 w == at(k)
      <4>1. (\A Q \in SUBSET Page : l[Q] \in Nat) /\ w \in Page
        BY <2>4
      <4> HIDE DEF l, w
      <4>2. ~ (Cardinality(R) < MemSize) => Min({l[(R \ {u}) \cup {w}] : u \in R}) \in Nat
        BY <4>1, LeastVictim, ZenonT(40)
      <4> QED
        BY <4>2 DEF l, w
    <3> DEFINE m == Min({L[k - 1][(R \ {u}) \cup {at(k)}] : u \in R})
    <3>3. L[k][R] = IF at(k) \in R THEN L[k - 1][R]
                    ELSE IF Cardinality(R) < MemSize THEN 1 + L[k - 1][R \cup {at(k)}] ELSE 1 + m
      BY <1>5, <2>3
    <3>4. L[k - 1][R] \in Nat /\ L[k - 1][R \cup {at(k)}] \in Nat
      BY <2>4, <3>1
    <3> HIDE DEF m
    <3> QED
      BY <3>2, <3>3, <3>4 DEF m
  <2> QED
    BY <2>5
<1>7. \A k \in 0 .. n : Typed(k)
  BY <1>6
<1>8. ASSUME NEW k \in 1 .. n, NEW R \in SUBSET Page, at(k) \notin R, ~ (Cardinality(R) < MemSize)
      PROVE  /\ \E u \in R : L[k][R] = 1 + L[k - 1][(R \ {u}) \cup {at(k)}]
             /\ \A u \in R : L[k][R] <= 1 + L[k - 1][(R \ {u}) \cup {at(k)}]
  <2> DEFINE m == Min({L[k - 1][(R \ {u}) \cup {at(k)}] : u \in R})
  <2>1. k - 1 \in 0 .. n
    BY <1>1
  <2>2. Typed(k - 1) /\ at(k) \in Page
    BY <1>1, <1>7, <2>1
  <2>3. /\ m \in Nat
        /\ \E u \in R : m = L[k - 1][(R \ {u}) \cup {at(k)}]
        /\ \A u \in R : m <= L[k - 1][(R \ {u}) \cup {at(k)}]
    BY <1>8, <2>2, LeastVictim
  <2>4. L[k][R] = 1 + m
    BY <1>5, <1>8
  <2> DEFINE c(u) == L[k - 1][(R \ {u}) \cup {at(k)}]
  <2>5. \A u \in R : c(u) \in Nat
    <3> SUFFICES ASSUME NEW u \in R PROVE c(u) \in Nat
      OBVIOUS
    <3>1. (R \ {u}) \cup {at(k)} \in SUBSET Page
      BY <2>2
    <3> QED
      BY <2>2, <3>1
  <2>6. m \in Nat /\ (\E u \in R : m = c(u)) /\ (\A u \in R : m <= c(u))
    BY <2>3
  <2> HIDE DEF m, c
  <2>7. (\E u \in R : L[k][R] = 1 + c(u)) /\ (\A u \in R : L[k][R] <= 1 + c(u))
    BY <2>4, <2>5, <2>6
  <2> QED
    BY <2>7 DEF c
<1>9. \A k \in 0 .. n, R \in SUBSET Page : L[k][R] \in Nat
  BY <1>7
<1> HIDE DEF Typed, Bad
<1> QED
  BY <1>4, <1>5, <1>8, <1>9 DEF Follow, L, n, at

-----------------------------------------------------------------------------
(* The exchange argument.  A memory that lacks one page of another costs at    *)
(* most one miss more, and one that has the page needed sooner costs no more.  *)

\* A page comes in, one for another or into a free frame.
LEMMA Exchanged ==
  ASSUME NEW Z, IsFiniteSet(Z), NEW x, x \notin Z
  PROVE  /\ Cardinality(Z) \in Nat
         /\ IsFiniteSet(Z \cup {x}) /\ Cardinality(Z \cup {x}) = Cardinality(Z) + 1
         /\ \A w \in Z : /\ IsFiniteSet((Z \ {w}) \cup {x})
                         /\ Cardinality((Z \ {w}) \cup {x}) = Cardinality(Z)
<1>1. Cardinality(Z) \in Nat
  BY FS_CardinalityType
<1>2. ASSUME NEW w \in Z
      PROVE  /\ IsFiniteSet((Z \ {w}) \cup {x})
             /\ Cardinality((Z \ {w}) \cup {x}) = Cardinality(Z)
  <2>1. IsFiniteSet(Z \ {w}) /\ Cardinality(Z \ {w}) = Cardinality(Z) - 1
    BY FS_RemoveElement
  <2>2. IsFiniteSet((Z \ {w}) \cup {x}) /\ Cardinality((Z \ {w}) \cup {x}) = Cardinality(Z \ {w}) + 1
    BY <2>1, FS_AddElement
  <2> QED
    BY <1>1, <2>1, <2>2
<1> QED
  BY <1>1, <1>2, FS_AddElement

\* l being the least misses for what is in memory: the page b, besides those in Z,
\* saves one miss at most; and so does b instead of u when memory is full.
SavesOne(l) ==
  \A Z \in SUBSET Page : IsFiniteSet(Z) /\ Cardinality(Z) + 1 <= MemSize =>
    \A b \in Page \ Z :
      /\ l[Z] <= 1 + l[Z \cup {b}]
      /\ Cardinality(Z) + 1 = MemSize => \A u \in Page \ Z : l[Z \cup {u}] <= 1 + l[Z \cup {b}]

\* The rules for one step, as the exchange uses them: x is the page referenced, and
\* l and m the costs after and before the reference.
Rules(l, m, x) ==
  /\ \A R \in SUBSET Page : l[R] \in Nat /\ m[R] \in Nat
  /\ \A R \in SUBSET Page :
       /\ x \in R => m[R] = l[R]
       /\ x \notin R /\ Cardinality(R) < MemSize => m[R] = 1 + l[R \cup {x}]
       /\ x \notin R /\ ~ (Cardinality(R) < MemSize) =>
            /\ \E u \in R : m[R] = 1 + l[(R \ {u}) \cup {x}]
            /\ \A u \in R : m[R] <= 1 + l[(R \ {u}) \cup {x}]

\* The rules for the k-th reference from the end.
LEMMA RulesOf ==
  ASSUME NEW r \in Seq(Page), NEW L, Follow(L, r), NEW k \in 1 .. Len(r)
  PROVE  /\ r[Len(r) + 1 - k] \in Page
         /\ Rules(L[k - 1], L[k], r[Len(r) + 1 - k])
<1>1. Len(r) \in Nat
  BY LenProperties
<1>2. k - 1 \in 0 .. Len(r) /\ k \in 0 .. Len(r) /\ Len(r) + 1 - k \in 1 .. Len(r)
  BY <1>1
<1>3. r[Len(r) + 1 - k] \in Page
  BY <1>2, ElementOfSeq
<1>4. \A R \in SUBSET Page : L[k - 1][R] \in Nat /\ L[k][R] \in Nat
  BY <1>2 DEF Follow
<1> QED
  BY <1>3, <1>4 DEF Follow, Rules

\* A step of the induction for one page more,
LEMMA OneMore ==
  ASSUME NEW l, NEW m, NEW x \in Page, Rules(l, m, x),
         NEW Z \in SUBSET Page, IsFiniteSet(Z), Cardinality(Z) + 1 <= MemSize, NEW b \in Page \ Z, NEW S, S = Z \cup {b}, SavesOne(l)
  PROVE  m[Z] <= 1 + m[S]
<1>1. /\ Cardinality(Z) \in Nat /\ Cardinality(Z) < MemSize
      /\ Cardinality(S) = Cardinality(Z) + 1 /\ S \in SUBSET Page
  <2>1. Cardinality(Z) \in Nat /\ Cardinality(S) = Cardinality(Z) + 1
    BY Exchanged
  <2>2. Cardinality(Z) < MemSize
    BY <2>1
  <2> QED
    BY <2>1, <2>2
<1>2. l[Z] \in Nat /\ l[S] \in Nat /\ m[Z] \in Nat /\ m[S] \in Nat
  BY <1>1 DEF Rules
<1>3. CASE x \in Z
  <2>1. m[Z] = l[Z] /\ m[S] = l[S]
    BY <1>1, <1>3 DEF Rules
  <2>2. l[Z] <= 1 + l[S]
    BY DEF SavesOne
  <2> QED
    BY <2>1, <2>2
<1>4. CASE x = b
  <2>1. m[Z] = 1 + l[S] /\ m[S] = l[S]
    BY <1>1, <1>4 DEF Rules
  <2> QED
    BY <1>2, <2>1
<1>5. CASE x \notin S
  <2> DEFINE Y == Z \cup {x}
  <2>1. m[Z] = 1 + l[Y] /\ Y \in SUBSET Page /\ l[Y] \in Nat
    BY <1>1, <1>5 DEF Rules
  <2>2. IsFiniteSet(Y) /\ Cardinality(Y) = Cardinality(Z) + 1 /\ b \in Page \ Y
    BY <1>5, Exchanged
  <2>3. CASE Cardinality(S) < MemSize
    <3>1. m[S] = 1 + l[S \cup {x}]
      BY <1>1, <1>5, <2>3 DEF Rules
    <3>2. S \cup {x} = Y \cup {b}
      OBVIOUS
    <3>3. l[Y] <= 1 + l[Y \cup {b}] /\ l[Y \cup {b}] \in Nat
      <4>1. Cardinality(Y) + 1 <= MemSize
        BY <1>1, <2>2, <2>3
      <4>2. Y \cup {b} \in SUBSET Page
        BY <2>1
      <4> QED
        BY <2>1, <2>2, <4>1, <4>2 DEF Rules, SavesOne
    <3>4. m[S] = 1 + l[Y \cup {b}]
      BY <3>1, <3>2
    <3> HIDE DEF Y
    <3> QED
      BY <1>2, <2>1, <3>3, <3>4
  <2>4. CASE ~ (Cardinality(S) < MemSize)
    <3>1. PICK w \in S : m[S] = 1 + l[(S \ {w}) \cup {x}]
      BY <1>1, <1>5, <2>4 DEF Rules
    <3>2. CASE w = b
      <4>1. (S \ {w}) \cup {x} = Y
        BY <3>2
      <4>2. m[S] = 1 + l[Y]
        BY <3>1, <4>1
      <4> HIDE DEF Y
      <4> QED
        BY <1>2, <2>1, <4>2
    <3>3. CASE w \in Z
      <4> DEFINE V == (Z \ {w}) \cup {x}
      <4>1. /\ V \in SUBSET Page /\ IsFiniteSet(V) /\ Cardinality(V) = Cardinality(Z)
            /\ b \in Page \ V /\ w \in Page \ V
        BY <1>5, <3>3, Exchanged
      <4>2. (S \ {w}) \cup {x} = V \cup {b} /\ Y = V \cup {w} /\ V \cup {b} \in SUBSET Page
        BY <3>3, <4>1
      <4>3. Cardinality(V) + 1 = MemSize
        BY <1>1, <2>4, <4>1
      <4> HIDE DEF V
      <4>4. l[V \cup {w}] <= 1 + l[V \cup {b}] /\ l[V \cup {b}] \in Nat
        BY <4>1, <4>2, <4>3 DEF Rules, SavesOne
      <4>5. m[S] = 1 + l[V \cup {b}] /\ m[Z] = 1 + l[V \cup {w}] /\ l[V \cup {w}] \in Nat
        BY <2>1, <3>1, <4>2
      <4> QED
        BY <1>2, <4>4, <4>5
    <3> QED
      BY <3>2, <3>3
  <2> QED
    BY <2>3, <2>4
<1> QED
  BY <1>3, <1>4, <1>5

\* and for one page instead of another.
LEMMA OneInstead ==
  ASSUME NEW l, NEW m, NEW x \in Page, Rules(l, m, x),
         NEW Z \in SUBSET Page, IsFiniteSet(Z), Cardinality(Z) + 1 = MemSize,
         NEW b \in Page \ Z, NEW u \in Page \ Z,
         NEW S, S = Z \cup {b}, NEW R, R = Z \cup {u}, SavesOne(l)
  PROVE  m[R] <= 1 + m[S]
<1>1. /\ Cardinality(Z) \in Nat /\ S \in SUBSET Page /\ R \in SUBSET Page
      /\ Cardinality(S) = MemSize /\ Cardinality(R) = MemSize
  BY Exchanged
<1>2. ~ (Cardinality(S) < MemSize) /\ ~ (Cardinality(R) < MemSize)
  BY <1>1
<1>3. l[R] \in Nat /\ l[S] \in Nat /\ m[R] \in Nat /\ m[S] \in Nat
  BY <1>1 DEF Rules
<1>4. l[R] <= 1 + l[S]
  BY DEF SavesOne
<1>5. CASE u = b
  <2>1. m[R] = m[S]
    BY <1>5
  <2> QED
    BY <1>3, <2>1
<1>6. CASE x \in Z
  <2>1. m[R] = l[R] /\ m[S] = l[S]
    BY <1>1, <1>6 DEF Rules
  <2> QED
    BY <1>4, <2>1
<1>7. CASE x = b /\ u # b
  <2>1. x \notin R /\ u \in R /\ (R \ {u}) \cup {x} = S
    BY <1>7
  <2>2. m[R] <= 1 + l[(R \ {u}) \cup {x}] /\ m[S] = l[S]
    BY <1>1, <1>2, <1>7, <2>1 DEF Rules
  <2> QED
    BY <1>3, <2>1, <2>2
<1>8. CASE x \notin Z /\ x # b /\ u # b
  <2>1. x \notin S
    BY <1>8
  <2>2. PICK w \in S : m[S] = 1 + l[(S \ {w}) \cup {x}]
    BY <1>1, <1>2, <2>1 DEF Rules
  <2>3. CASE w = b
    <3> DEFINE Y == Z \cup {x}
    <3>1. (S \ {w}) \cup {x} = Y /\ Y \in SUBSET Page
      BY <2>3
    <3>2. m[S] = 1 + l[Y] /\ l[Y] \in Nat
      BY <2>2, <3>1 DEF Rules
    <3>3. m[R] <= 1 + l[Y]
      <4>1. CASE x = u
        <5>1. Y = R
          BY <4>1
        <5>2. m[R] = l[R]
          BY <1>1, <4>1 DEF Rules
        <5>3. l[Y] = l[R]
          BY <5>1
        <5> HIDE DEF Y
        <5> QED
          BY <1>3, <5>2, <5>3
      <4>2. CASE x # u
        <5>1. x \notin R /\ u \in R /\ (R \ {u}) \cup {x} = Y
          BY <1>8, <4>2
        <5>2. m[R] <= 1 + l[(R \ {u}) \cup {x}]
          BY <1>1, <1>2, <5>1 DEF Rules
        <5> HIDE DEF Y
        <5> QED
          BY <5>1, <5>2, Zenon
      <4> QED
        BY <4>1, <4>2
    <3> HIDE DEF Y
    <3> QED
      BY <1>3, <3>2, <3>3
  <2>4. CASE w \in Z
    <3> DEFINE Y == (Z \ {w}) \cup {x}
    <3>1. /\ Y \in SUBSET Page /\ IsFiniteSet(Y) /\ Cardinality(Y) = Cardinality(Z)
          /\ b \in Page \ Y /\ w \in Page \ Y
      BY <1>8, <2>4, Exchanged
    <3>2. (S \ {w}) \cup {x} = Y \cup {b}
      BY <2>4
    <3>3. m[S] = 1 + l[Y \cup {b}]
      BY <2>2, <3>2
    <3>4. l[Y \cup {b}] \in Nat
      <4>1. Y \cup {b} \in SUBSET Page
        BY <3>1
      <4> QED
        BY <4>1 DEF Rules
    <3>5. CASE x = u
      <4>1. R = Y \cup {w}
        BY <2>4, <3>5
      <4>2. m[R] = l[R]
        BY <1>1, <3>5 DEF Rules
      <4> HIDE DEF Y
      <4>3. l[Y \cup {w}] <= 1 + l[Y \cup {b}]
        <5>1. Cardinality(Y) + 1 = MemSize /\ Cardinality(Y) + 1 <= MemSize
          BY <3>1
        <5> QED
          BY <3>1, <5>1 DEF SavesOne
      <4>4. m[R] <= 1 + l[Y \cup {b}]
        BY <4>1, <4>2, <4>3
      <4> QED
        BY <1>3, <3>3, <3>4, <4>4
    <3>6. CASE x # u
      <4>1. x \notin R /\ w \in R /\ (R \ {w}) \cup {x} = Y \cup {u} /\ u \in Page \ Y
        BY <1>8, <2>4, <3>6
      <4>2. m[R] <= 1 + l[(R \ {w}) \cup {x}]
        BY <1>1, <1>2, <4>1 DEF Rules
      <4>3. m[R] <= 1 + l[Y \cup {u}]
        BY <4>1, <4>2
      <4> HIDE DEF Y
      <4>4. l[Y \cup {u}] <= 1 + l[Y \cup {b}]
        BY <3>1, <4>1 DEF SavesOne
      <4>5. l[Y \cup {u}] \in Nat
        <5>1. Y \cup {u} \in SUBSET Page
          BY <3>1
        <5> QED
          BY <5>1 DEF Rules
      <4> QED
        BY <1>3, <3>3, <3>4, <4>3, <4>4, <4>5
    <3> QED
      BY <3>5, <3>6
  <2> QED
    BY <2>3, <2>4
<1> QED
  BY <1>5, <1>6, <1>7, <1>8

\* One page more in memory saves at most one miss, with any number of references to
\* come: none is the least at which it saves more.
LEMMA SavesOneAlways ==
  ASSUME NEW r \in Seq(Page), NEW L, Follow(L, r), NEW k \in 0 .. Len(r)
  PROVE  SavesOne(L[k])
<1> DEFINE Bad == {j \in 0 .. Len(r) : ~ SavesOne(L[j])}
<1>1. Len(r) \in Nat
  BY LenProperties
<1> SUFFICES ASSUME Bad # {} PROVE FALSE
  OBVIOUS
<1>2. PICK j \in Bad : \A i \in Nat : i < j => i \notin Bad
  <2>1. Bad \in SUBSET Nat
    BY <1>1
  <2> HIDE DEF Bad
  <2> QED
    BY <2>1, Smallest
<1>3. CASE j = 0
  <2>1. \A R \in SUBSET Page : L[0][R] = 0
    BY DEF Follow
  <2>2. SavesOne(L[0])
    <3> SUFFICES ASSUME NEW Z \in SUBSET Page, NEW b \in Page \ Z
                 PROVE  /\ L[0][Z] <= 1 + L[0][Z \cup {b}]
                        /\ \A u \in Page \ Z : L[0][Z \cup {u}] <= 1 + L[0][Z \cup {b}]
      BY DEF SavesOne
    <3>1. \A u \in Page : Z \cup {u} \in SUBSET Page
      OBVIOUS
    <3>2. \A u \in Page : L[0][Z \cup {u}] = 0
      BY <2>1, <3>1
    <3>3. L[0][Z] = 0 /\ L[0][Z \cup {b}] = 0
      BY <2>1, <3>2
    <3>4. L[0][Z] <= 1 + L[0][Z \cup {b}]
      BY <3>3
    <3>5. ASSUME NEW u \in Page \ Z PROVE L[0][Z \cup {u}] <= 1 + L[0][Z \cup {b}]
      <4>1. L[0][Z \cup {u}] = 0
        BY <3>2
      <4> QED
        BY <3>3, <4>1
    <3> QED
      BY <3>4, <3>5
  <2> QED
    BY <1>3, <2>2
<1>4. CASE j # 0
  <2>1. j \in 1 .. Len(r) /\ j - 1 \in 0 .. Len(r) /\ j - 1 \in Nat /\ j - 1 < j
    BY <1>1, <1>4
  <2>2. SavesOne(L[j - 1])
    BY <1>2, <2>1
  <2>3. /\ r[Len(r) + 1 - j] \in Page
        /\ Rules(L[j - 1], L[j], r[Len(r) + 1 - j])
    BY <2>1, RulesOf
  <2>4. ASSUME NEW Z \in SUBSET Page, IsFiniteSet(Z), Cardinality(Z) + 1 <= MemSize, NEW b \in Page \ Z
        PROVE  L[j][Z] <= 1 + L[j][Z \cup {b}]
    BY <2>2, <2>3, <2>4, OneMore
  <2>5. ASSUME NEW Z \in SUBSET Page, IsFiniteSet(Z), Cardinality(Z) + 1 = MemSize,
               NEW b \in Page \ Z, NEW u \in Page \ Z
        PROVE  L[j][Z \cup {u}] <= 1 + L[j][Z \cup {b}]
    BY <2>2, <2>3, <2>5, OneInstead
  <2>6. SavesOne(L[j])
    BY <2>4, <2>5 DEF SavesOne
  <2> QED
    BY <2>6
<1> QED
  BY <1>3, <1>4

\* With k references left, a is needed no later than b.
NoLater(r, k, a, b) ==
  \A j \in Len(r) + 1 - k .. Len(r) : r[j] = b => \E i \in Len(r) + 1 - k .. j : r[i] = a

\* What is needed no later still is after a reference to another page.
LEMMA NoLaterNext ==
  ASSUME NEW r \in Seq(Page), NEW k \in 1 .. Len(r), NEW a, NEW b, NoLater(r, k, a, b)
  PROVE  LET x == r[Len(r) + 1 - k] IN
         /\ x = b => a = b
         /\ x # a => NoLater(r, k - 1, a, b)
<1> DEFINE n == Len(r)
<1>1. n \in Nat
  BY LenProperties
<1> HIDE DEF n
<1>2. \A j \in n + 1 - k .. n : r[j] = b => \E i \in n + 1 - k .. j : r[i] = a
  BY DEF NoLater, n
<1>3. ASSUME r[n + 1 - k] = b PROVE a = b
  <2>1. n + 1 - k \in n + 1 - k .. n
    BY <1>1 DEF n
  <2>2. PICK i \in n + 1 - k .. n + 1 - k : r[i] = a
    BY <1>2, <1>3, <2>1
  <2>3. i = n + 1 - k
    BY <1>1 DEF n
  <2> QED
    BY <1>3, <2>2, <2>3
<1>4. ASSUME r[n + 1 - k] # a, NEW j \in n + 1 - (k - 1) .. n, r[j] = b
      PROVE  \E i \in n + 1 - (k - 1) .. j : r[i] = a
  <2>1. j \in n + 1 - k .. n
    BY <1>1 DEF n
  <2>2. PICK i \in n + 1 - k .. j : r[i] = a
    BY <1>2, <1>4, <2>1
  <2>3. i # n + 1 - k
    BY <1>4, <2>2
  <2>4. i \in n + 1 - (k - 1) .. j
    BY <1>1, <2>1, <2>3 DEF n
  <2> QED
    BY <2>2, <2>4
<1> QED
  BY <1>3, <1>4 DEF NoLater, n

\* The page needed no later is worth no less; one step of that induction.
LEMMA SoonerStep ==
  ASSUME NEW l, NEW m, NEW x \in Page, Rules(l, m, x), SavesOne(l),
         NEW Z \in SUBSET Page, IsFiniteSet(Z), Cardinality(Z) + 1 <= MemSize,
         NEW a \in Page \ Z, NEW b \in Page \ Z, a # b, x # b,
         NEW R, R = Z \cup {a}, NEW S, S = Z \cup {b},
         x # a => \A Y \in SUBSET Page : IsFiniteSet(Y) /\ Cardinality(Y) + 1 <= MemSize =>
                    (a \notin Y /\ b \notin Y => l[Y \cup {a}] <= l[Y \cup {b}])
  PROVE  m[R] <= m[S]
<1>1. /\ Cardinality(Z) \in Nat /\ S \in SUBSET Page /\ R \in SUBSET Page
      /\ Cardinality(S) = Cardinality(Z) + 1 /\ Cardinality(R) = Cardinality(Z) + 1
      /\ IsFiniteSet(R)
  BY Exchanged
<1>2. l[R] \in Nat /\ l[S] \in Nat /\ m[R] \in Nat /\ m[S] \in Nat
  BY <1>1 DEF Rules
<1>3. CASE x \in Z
  <2>1. m[R] = l[R] /\ m[S] = l[S]
    BY <1>1, <1>3 DEF Rules
  <2>2. l[Z \cup {a}] <= l[Z \cup {b}]
    BY <1>3
  <2> QED
    BY <2>1, <2>2
<1>4. CASE x = a
  <2>1. m[R] = l[R] /\ x \notin S
    BY <1>1, <1>4 DEF Rules
  <2>2. CASE Cardinality(S) < MemSize
    <3> DEFINE Y == R \cup {b}
    <3>1. S \cup {x} = Y /\ Y \in SUBSET Page /\ b \in Page \ R
      BY <1>4
    <3>2. m[S] = 1 + l[S \cup {x}]
      BY <1>1, <2>1, <2>2 DEF Rules
    <3>3. m[S] = 1 + l[Y]
      BY <3>1, <3>2
    <3>4. l[R] <= 1 + l[Y]
      <4>1. Cardinality(R) + 1 <= MemSize
        BY <1>1, <2>2
      <4> QED
        BY <1>1, <3>1, <4>1 DEF SavesOne
    <3> HIDE DEF Y
    <3> QED
      BY <2>1, <3>3, <3>4
  <2>3. CASE ~ (Cardinality(S) < MemSize)
    <3>1. PICK w \in S : m[S] = 1 + l[(S \ {w}) \cup {x}]
      BY <1>1, <2>1, <2>3 DEF Rules
    <3>2. CASE w = b
      <4>1. (S \ {w}) \cup {x} = R
        BY <1>4, <3>2
      <4>2. m[S] = 1 + l[R]
        BY <3>1, <4>1
      <4> QED
        BY <1>2, <2>1, <4>2
    <3>3. CASE w \in Z
      <4> DEFINE Y == (Z \ {w}) \cup {a}
      <4>1. /\ Y \in SUBSET Page /\ IsFiniteSet(Y) /\ Cardinality(Y) = Cardinality(Z)
            /\ b \in Page \ Y /\ w \in Page \ Y
        BY <3>3, Exchanged
      <4>2. (S \ {w}) \cup {x} = Y \cup {b} /\ R = Y \cup {w} /\ Y \cup {b} \in SUBSET Page
        BY <1>4, <3>3, <4>1
      <4>3. Cardinality(Y) + 1 = MemSize /\ Cardinality(Y) + 1 <= MemSize
        BY <1>1, <2>3, <4>1
      <4> HIDE DEF Y
      <4>4. l[Y \cup {w}] <= 1 + l[Y \cup {b}]
        BY <4>1, <4>3 DEF SavesOne
      <4>5. m[S] = 1 + l[Y \cup {b}] /\ m[R] = l[Y \cup {w}]
        BY <2>1, <3>1, <4>2
      <4> QED
        BY <4>4, <4>5
    <3> QED
      BY <3>2, <3>3
  <2> QED
    BY <2>2, <2>3
<1>5. CASE x \notin Z /\ x # a
  <2>1. x \notin R /\ x \notin S /\ a \in R
    BY <1>5
  <2>2. CASE Cardinality(S) < MemSize
    <3> DEFINE Y == Z \cup {x}
    <3>1. /\ Y \in SUBSET Page /\ IsFiniteSet(Y) /\ Cardinality(Y) = Cardinality(Z) + 1
          /\ a \notin Y /\ b \notin Y
          /\ R \cup {x} = Y \cup {a} /\ S \cup {x} = Y \cup {b}
      BY <1>5, Exchanged
    <3>2. Cardinality(Y) + 1 <= MemSize /\ Cardinality(R) < MemSize
      BY <1>1, <2>2, <3>1
    <3>3. m[R] = 1 + l[R \cup {x}] /\ m[S] = 1 + l[S \cup {x}]
      BY <1>1, <2>1, <2>2, <3>2 DEF Rules
    <3>4. m[R] = 1 + l[Y \cup {a}] /\ m[S] = 1 + l[Y \cup {b}]
      BY <3>1, <3>3
    <3>5. l[Y \cup {a}] \in Nat /\ l[Y \cup {b}] \in Nat
      <4>1. Y \cup {a} \in SUBSET Page /\ Y \cup {b} \in SUBSET Page
        BY <3>1
      <4> QED
        BY <4>1 DEF Rules
    <3> HIDE DEF Y
    <3>6. l[Y \cup {a}] <= l[Y \cup {b}]
      BY <1>5, <3>1, <3>2
    <3> QED
      BY <3>4, <3>5, <3>6
  <2>3. CASE ~ (Cardinality(S) < MemSize)
    <3>1. ~ (Cardinality(R) < MemSize)
      BY <1>1, <2>3
    <3>2. PICK w \in S : m[S] = 1 + l[(S \ {w}) \cup {x}]
      BY <1>1, <2>1, <2>3 DEF Rules
    <3>3. \A u \in R : m[R] <= 1 + l[(R \ {u}) \cup {x}]
      BY <1>1, <2>1, <3>1 DEF Rules
    <3>4. CASE w = b
      <4> DEFINE Y == Z \cup {x}
      <4>1. (S \ {w}) \cup {x} = Y /\ (R \ {a}) \cup {x} = Y
        BY <3>4
      <4>2. m[R] <= 1 + l[(R \ {a}) \cup {x}]
        BY <2>1, <3>3
      <4> HIDE DEF Y
      <4>3. m[S] = 1 + l[Y]
        BY <3>2, <4>1, Zenon
      <4>4. m[R] <= 1 + l[Y]
        BY <4>1, <4>2, Zenon
      <4> QED
        BY <4>3, <4>4
    <3>5. CASE w \in Z
      <4> DEFINE Y == (Z \ {w}) \cup {x}
      <4>1. /\ Y \in SUBSET Page /\ IsFiniteSet(Y) /\ Cardinality(Y) = Cardinality(Z)
            /\ a \notin Y /\ b \notin Y
        BY <1>5, <3>5, Exchanged
      <4>2. (S \ {w}) \cup {x} = Y \cup {b} /\ (R \ {w}) \cup {x} = Y \cup {a} /\ w \in R
        BY <3>5
      <4>3. m[R] <= 1 + l[(R \ {w}) \cup {x}]
        BY <3>3, <4>2
      <4>4. l[Y \cup {a}] \in Nat /\ l[Y \cup {b}] \in Nat
        <5>1. Y \cup {a} \in SUBSET Page /\ Y \cup {b} \in SUBSET Page
          BY <4>1
        <5> QED
          BY <5>1 DEF Rules
      <4> HIDE DEF Y
      <4>5. m[S] = 1 + l[Y \cup {b}]
        BY <3>2, <4>2, Zenon
      <4>6. m[R] <= 1 + l[Y \cup {a}]
        BY <4>2, <4>3, Zenon
      <4>7. l[Y \cup {a}] <= l[Y \cup {b}]
        BY <1>5, <4>1
      <4> QED
        BY <1>2, <4>4, <4>5, <4>6, <4>7
    <3> QED
      BY <3>4, <3>5
  <2> QED
    BY <2>2, <2>3
<1> QED
  BY <1>3, <1>4, <1>5

\* Of two pages to keep, the one that is needed no later costs no more: no number of
\* references to come is the least at which it does.
LEMMA SoonerCostsLess ==
  ASSUME NEW r \in Seq(Page), NEW L, Follow(L, r), NEW a \in Page, NEW b \in Page, a # b,
         NEW k \in 0 .. Len(r), NoLater(r, k, a, b),
         NEW Z \in SUBSET Page, IsFiniteSet(Z), Cardinality(Z) + 1 <= MemSize, a \notin Z, b \notin Z
  PROVE  L[k][Z \cup {a}] <= L[k][Z \cup {b}]
<1> DEFINE Less(j) == \A Y \in SUBSET Page : IsFiniteSet(Y) /\ Cardinality(Y) + 1 <= MemSize =>
                        (a \notin Y /\ b \notin Y => L[j][Y \cup {a}] <= L[j][Y \cup {b}])
           Bad == {j \in 0 .. Len(r) : NoLater(r, j, a, b) /\ ~ Less(j)}
<1>1. Len(r) \in Nat
  BY LenProperties
<1> SUFFICES ASSUME Bad # {} PROVE FALSE
  OBVIOUS
<1>2. PICK j \in Bad : \A i \in Nat : i < j => i \notin Bad
  <2>1. Bad \in SUBSET Nat
    BY <1>1
  <2> HIDE DEF Bad
  <2> QED
    BY <2>1, Smallest
<1>3. CASE j = 0
  <2>1. \A R \in SUBSET Page : L[0][R] = 0
    BY DEF Follow
  <2>2. ASSUME NEW Y \in SUBSET Page PROVE L[0][Y \cup {a}] <= L[0][Y \cup {b}]
    <3>1. Y \cup {a} \in SUBSET Page /\ Y \cup {b} \in SUBSET Page
      OBVIOUS
    <3>2. L[0][Y \cup {a}] = 0 /\ L[0][Y \cup {b}] = 0
      BY <2>1, <3>1
    <3> QED
      BY <3>2
  <2> QED
    BY <1>3, <2>2
<1>4. CASE j # 0
  <2> DEFINE x == r[Len(r) + 1 - j]
  <2>1. j \in 1 .. Len(r) /\ j - 1 \in 0 .. Len(r) /\ j - 1 \in Nat /\ j - 1 < j
    BY <1>1, <1>4
  <2>2. x # b /\ (x # a => NoLater(r, j - 1, a, b))
    BY <2>1, NoLaterNext
  <2>3. x # a => Less(j - 1)
    BY <1>2, <2>1, <2>2
  <2>4. SavesOne(L[j - 1])
    BY <2>1, SavesOneAlways
  <2>5. x \in Page /\ Rules(L[j - 1], L[j], x)
    BY <2>1, RulesOf
  <2> HIDE DEF x
  <2>6. ASSUME NEW Y \in SUBSET Page, IsFiniteSet(Y), Cardinality(Y) + 1 <= MemSize, a \notin Y, b \notin Y
        PROVE  L[j][Y \cup {a}] <= L[j][Y \cup {b}]
    BY <2>2, <2>3, <2>4, <2>5, <2>6, SoonerStep
  <2> QED
    BY <2>6
<1> QED
  BY <1>3, <1>4

-----------------------------------------------------------------------------
(* opt.c never gives up what Least still allows: misses made and least misses  *)
(* to come add up to the least from the start.                                 *)

NoneLost ==
  Plain => /\ count.ref <= Len(trace)
           /\ count.miss + LeastOf(trace)[Len(trace) - count.ref][Resident] = LeastOf(trace)[Len(trace)][{}]

\* A trace with no line that is skipped is replayed as it is.
LEMMA PlainTrace ==
  ASSUME trace \in Seq(Page \cup {Banner}), Plain
  PROVE  trace \in Seq(Page) /\ Replayed = trace /\ Len(trace) \in Nat
<1>1. /\ Len(trace) \in Nat /\ DOMAIN trace = 1 .. Len(trace) /\ trace \in [1 .. Len(trace) -> Page \cup {Banner}]
  BY LenProperties
<1>2. Len(Replayed) = Len(trace) /\ \A i \in 1 .. Len(trace) : Replayed[i] = trace[i]
  BY ReplayedLines
<1>3. \A i \in 1 .. Len(trace) : trace[i] \in Page
  BY <1>1 DEF Plain
<1>4. trace \in [1 .. Len(trace) -> Page]
  BY <1>1, <1>3
<1>5. trace \in Seq(Page)
  BY <1>1, <1>4, SeqDef
<1>6. Replayed = trace
  <2> DEFINE e(k) == trace[CHOOSE i \in Lines : Cardinality({j \in Lines : j <= i}) = k]
             n    == Cardinality(Lines)
  <2>1. Replayed = [k \in 1 .. n |-> e(k)]
    BY DEF Replayed
  <2>2. n \in Nat
    <3>1. Lines \in SUBSET (1 .. Len(trace)) /\ IsFiniteSet(1 .. Len(trace))
      BY <1>1, FS_Interval DEF Lines
    <3> QED
      BY <3>1, FS_Subset, FS_CardinalityType
  <2> HIDE DEF e, n
  <2>3. Len(Replayed) = n
    BY <2>1, <2>2
  <2>4. DOMAIN Replayed = 1 .. Len(trace) /\ Replayed = [k \in 1 .. Len(trace) |-> Replayed[k]]
    BY <1>2, <2>1, <2>3
  <2> QED
    BY <1>1, <1>2, <2>4
<1> QED
  BY <1>1, <1>5, <1>6

\* A page whose NextUse comes no later is needed no later.
LEMMA NextUseMeans ==
  ASSUME trace \in Seq(Page \cup {Banner}), Plain, count.ref \in Nat, count.ref < Len(trace),
         NEW u, NEW h, u # trace[count.ref + 1], NextUse(u) <= NextUse(h)
  PROVE  NoLater(trace, Len(trace) - count.ref - 1, u, h)
<1> DEFINE n == Len(trace)
           S(w) == {i \in count.ref + 1 .. n : trace[i] = w} \cup {n + 1}
<1>1. n \in Nat /\ Replayed = trace
  BY PlainTrace
<1> HIDE DEF n
<1>2. ASSUME NEW w
      PROVE  /\ NextUse(w) = Min(S(w)) /\ S(w) \in SUBSET Nat
             /\ Min(S(w)) \in S(w) /\ \A i \in S(w) : Min(S(w)) <= i
  <2>1. NextUse(w) = Min(S(w))
    BY <1>1 DEF NextUse, n
  <2>2. S(w) \in SUBSET Nat /\ S(w) # {}
    BY <1>1
  <2> HIDE DEF S
  <2> QED
    BY <2>1, <2>2, MinOfNaturals
<1> SUFFICES ASSUME NEW j \in n + 1 - (n - count.ref - 1) .. n, trace[j] = h
             PROVE  \E i \in n + 1 - (n - count.ref - 1) .. j : trace[i] = u
  BY DEF NoLater, n
<1>3. n + 1 - (n - count.ref - 1) = count.ref + 2 /\ j \in Nat /\ j <= n
  BY <1>1
<1>4. j \in S(h)
  BY <1>1, <1>3
<1>5. NextUse(u) <= j
  <2>1. NextUse(h) <= j
    BY <1>2, <1>4
  <2>2. NextUse(h) \in Nat /\ NextUse(u) \in Nat
    <3> HIDE DEF S
    <3>1. NextUse(h) \in S(h) /\ S(h) \in SUBSET Nat /\ NextUse(u) \in S(u) /\ S(u) \in SUBSET Nat
      BY <1>2
    <3> QED
      BY <3>1
  <2> QED
    BY <1>3, <2>1, <2>2
<1>6. NextUse(u) \in S(u)
  BY <1>2
<1>7. NextUse(u) \in count.ref + 1 .. n /\ trace[NextUse(u)] = u
  BY <1>1, <1>3, <1>5, <1>6
<1>8. NextUse(u) # count.ref + 1
  BY <1>7
<1>9. NextUse(u) \in count.ref + 2 .. j
  <2> DEFINE t == NextUse(u)
             r == count.ref
  <2>1. t \in r + 1 .. n /\ t # r + 1 /\ t <= j /\ j \in Nat /\ r \in Nat /\ n \in Nat
    BY <1>1, <1>3, <1>5, <1>7, <1>8
  <2> HIDE DEF t, r, n
  <2>2. t \in r + 2 .. j
    BY <2>1
  <2> QED
    BY <2>2 DEF t, r
<1> QED
  BY <1>3, <1>7, <1>9

\* Whatever the victim, the least misses to come are at least what is left after
\* the eviction of the page that is needed last.
LEMMA FarthestIsBest ==
  ASSUME NEW r \in Seq(Page), NEW L, Follow(L, r), NEW k \in 1 .. Len(r),
         NEW R \in SUBSET Page, IsFiniteSet(R), Cardinality(R) = MemSize,
         NEW v \in Page, v = r[Len(r) + 1 - k], v \notin R, NEW h \in R,
         \A u \in R : NoLater(r, k - 1, u, h)
  PROVE  L[k][R] = 1 + L[k - 1][(R \ {h}) \cup {v}]
<1> DEFINE c(u) == L[k - 1][(R \ {u}) \cup {v}]
<1>1. Len(r) \in Nat /\ k - 1 \in 0 .. Len(r)
  BY LenProperties
<1>2. Rules(L[k - 1], L[k], v)
  BY RulesOf
<1>3. ~ (Cardinality(R) < MemSize)
  OBVIOUS
<1>4. (\E u \in R : L[k][R] = 1 + c(u)) /\ (\A u \in R : L[k][R] <= 1 + c(u))
  BY <1>2, <1>3 DEF Rules
<1>5. L[k][R] \in Nat /\ \A u \in R : c(u) \in Nat
  <2>1. \A u \in R : (R \ {u}) \cup {v} \in SUBSET Page
    OBVIOUS
  <2> QED
    BY <1>2, <2>1 DEF Rules
<1>6. ASSUME NEW u \in R, u # h PROVE c(h) <= c(u)
  <2> DEFINE Z == ((R \ {u}) \ {h}) \cup {v}
  <2>1. IsFiniteSet(R \ {u}) /\ Cardinality(R \ {u}) = MemSize - 1
    BY FS_RemoveElement
  <2>2. IsFiniteSet(Z) /\ Cardinality(Z) = MemSize - 1
    BY <1>6, <2>1, Exchanged
  <2>3. /\ Z \in SUBSET Page /\ u \notin Z /\ h \notin Z /\ u \in Page /\ h \in Page
        /\ Z \cup {u} = (R \ {h}) \cup {v} /\ Z \cup {h} = (R \ {u}) \cup {v}
    BY <1>6
  <2>4. Cardinality(Z) + 1 <= MemSize /\ NoLater(r, k - 1, u, h)
    BY <2>2
  <2> HIDE DEF Z
  <2>5. L[k - 1][Z \cup {u}] <= L[k - 1][Z \cup {h}]
    BY <1>1, <1>6, <2>2, <2>3, <2>4, SoonerCostsLess
  <2>6. c(h) = L[k - 1][Z \cup {u}] /\ c(u) = L[k - 1][Z \cup {h}]
    BY <2>3
  <2> HIDE DEF c
  <2> QED
    BY <2>5, <2>6
<1> HIDE DEF c
<1>7. L[k][R] = 1 + c(h)
  BY <1>4, <1>5, <1>6
<1> QED
  BY <1>7 DEF c

\* One reference of a Plain trace: a hit or a fill costs what it must, and so does
\* the eviction of the farthest page.
LEMMA MissesStep ==
  ASSUME PagingInv, OptLists, NoneLost, NEW v \in Page, NEW type \in Type, OptAccess(v, type)
  PROVE  status' = "running" => NoneLost'
<1> SUFFICES ASSUME Plain', status' = "running" PROVE NoneLost'
  BY DEF NoneLost
<1> DEFINE n == Len(trace)
           L == LeastOf(trace)
           k == n - count.ref
<1>1. trace' = trace /\ Plain
  BY DEF OptAccess, opt_ref, Plain
<1>2. trace \in Seq(Page) /\ Replayed = trace /\ n \in Nat
  BY <1>1, PlainTrace DEF OptLists
<1>3. Follow(L, trace)
  BY <1>2, LeastFollows
<1>4. count.ref < n /\ v = trace[count.ref + 1] /\ count.ref \in Nat /\ count.miss \in Nat
  BY <1>2 DEF OptAccess, PagingInv, TypeOK
<1>5. k \in 1 .. n /\ n + 1 - k = count.ref + 1 /\ k - 1 \in 0 .. n
  BY <1>2, <1>4
<1> HIDE DEF L
<1>6. Rules(L[k - 1], L[k], v) /\ v = trace[Len(trace) + 1 - k] /\ k \in 1 .. Len(trace)
  BY <1>2, <1>3, <1>4, <1>5, RulesOf
<1>7. /\ Resident \in SUBSET Page /\ IsFiniteSet(Resident)
      /\ FreeFrames = {} => Cardinality(Resident) = MemSize
      /\ FreeFrames # {} => Cardinality(Resident) < MemSize
  BY MemoryFull DEF Resident
<1>8. count.miss + L[k][Resident] = L[n][{}]
  BY <1>1 DEF NoneLost, L
<1>9. SUFFICES /\ count'.ref = count.ref + 1
               /\ count'.miss + L[k - 1][Resident'] = count.miss + L[k][Resident]
  <2>1. Len(trace) - (count.ref + 1) = k - 1
    BY <1>2, <1>4
  <2>2. count.ref + 1 <= Len(trace)
    BY <1>2, <1>4
  <2> QED
    BY <1>1, <1>8, <1>9, <2>1, <2>2 DEF NoneLost, L
<1>14. k - 1 = Len(trace) - count.ref - 1
  BY <1>2, <1>4
<1> HIDE DEF k
<1>10. CASE Hit(v, type)
  <2>1. /\ count'.ref = count.ref + 1 /\ count'.miss = count.miss
        /\ Resident' = Resident \cup {v}
    BY <1>10, HitFacts, KeptFacts
  <2>2. v \in Resident
    BY <1>10, OwnTables DEF Hit, Resident
  <2>3. Resident' = Resident
    BY <2>1, <2>2
  <2>4. L[k][Resident] = L[k - 1][Resident]
    BY <1>6, <1>7, <2>2 DEF Rules
  <2>5. L[k - 1][Resident'] = L[k][Resident]
    BY <2>3, <2>4
  <2> QED
    BY <2>1, <2>5
<1>11. CASE Fill(v, type)
  <2>1. /\ count'.ref = count.ref + 1 /\ count'.miss = count.miss + 1
        /\ Resident' = Resident \cup {v} /\ v \notin Resident
    BY <1>11, FillFacts, KeptFacts
  <2>2. Cardinality(Resident) < MemSize
    BY <1>7, <1>11 DEF Fill
  <2>3. L[k][Resident] = 1 + L[k - 1][Resident'] /\ L[k - 1][Resident'] \in Nat
    <3>1. Resident \cup {v} \in SUBSET Page
      BY <1>7
    <3> QED
      BY <1>6, <1>7, <2>1, <2>2, <3>1 DEF Rules
  <2>4. count'.ref = count.ref + 1 /\ count'.miss = count.miss + 1 /\ count.miss \in Nat
    BY <1>4, <2>1
  <2> DEFINE later == L[k - 1][Resident']
             now   == L[k][Resident]
  <2>5. now = 1 + later /\ later \in Nat
    BY <2>3
  <2> HIDE DEF later, now
  <2>6. count'.miss + later = count.miss + now
    BY <2>4, <2>5
  <2> QED
    BY <2>4, <2>6 DEF later, now
<1>12. CASE FreeFrames = {} /\ Replace(v, Tables(v), opt_evict, type)
  <2> DEFINE h == Head(in_frame)
  <2>1. /\ opt_evict \in Frame /\ coremap[opt_evict].pte = h
        /\ \A w \in Resident : NextUse(w) <= NextUse(h)
    BY <1>1, <1>12, HeadIsFarthest
  <2> HIDE DEF h
  <2>2. /\ count'.ref = count.ref + 1 /\ count'.miss = count.miss + 1
        /\ v \notin Resident /\ h \in Resident
        /\ Resident' = (Resident \ {h}) \cup {v}
    BY <1>12, <2>1, ReplacedFacts
  <2>3. \A u \in Resident : NoLater(trace, k - 1, u, h)
    <3> SUFFICES ASSUME NEW u \in Resident PROVE NoLater(trace, k - 1, u, h)
      OBVIOUS
    <3>1. u # trace[count.ref + 1] /\ NextUse(u) <= NextUse(h)
      BY <1>4, <2>1, <2>2
    <3>2. NoLater(trace, Len(trace) - count.ref - 1, u, h)
      BY <1>1, <1>4, <3>1, NextUseMeans DEF OptLists
    <3> QED
      BY <1>14, <3>2
  <2>4. L[k][Resident] = 1 + L[k - 1][(Resident \ {h}) \cup {v}]
    BY <1>2, <1>3, <1>6, <1>7, <1>12, <2>2, <2>3, FarthestIsBest
  <2>5. L[k][Resident] = 1 + L[k - 1][Resident'] /\ L[k - 1][Resident'] \in Nat
    <3>1. Resident' \in SUBSET Page
      BY <1>7, <2>2
    <3>2. L[k - 1][Resident'] \in Nat
      BY <1>6, <3>1 DEF Rules
    <3>3. L[k - 1][(Resident \ {h}) \cup {v}] = L[k - 1][Resident']
      BY <2>2
    <3> QED
      BY <2>4, <3>2, <3>3
  <2>6. count'.ref = count.ref + 1 /\ count'.miss = count.miss + 1 /\ count.miss \in Nat
    BY <1>4, <2>2
  <2> DEFINE later == L[k - 1][Resident']
             now   == L[k][Resident]
  <2>7. now = 1 + later /\ later \in Nat
    BY <2>5
  <2> HIDE DEF later, now
  <2>8. count'.miss + later = count.miss + now
    BY <2>6, <2>7
  <2> QED
    BY <2>6, <2>8 DEF later, now
<1>13. CASE SwapExhausted(v, Tables(v), opt_evict)
  BY <1>13 DEF SwapExhausted
<1> QED
  BY <1>10, <1>11, <1>12, <1>13 DEF OptAccess

MissInv == OptInv /\ (evict_fcn = "opt" /\ status = "running" => NoneLost)

\* opt.c line 43 calls it "the optimal (aka MIN) algorithm", and it is: at the end of
\* any trace without a line that is skipped, no other choice of victims would have
\* missed less often, for any number of frames.
THEOREM OptIsOptimal == SimSpec => []MissesLeast
<1>1. SimInit => MissInv
  <2> SUFFICES ASSUME SimInit, evict_fcn = "opt", Plain PROVE NoneLost
    BY OptInit DEF MissInv, NoneLost
  <2>1. OptLists
    BY OptInit DEF OptInv, SimInit, Init
  <2>2. trace \in Seq(Page) /\ Len(trace) \in Nat
    BY <2>1, PlainTrace DEF OptLists
  <2>3. count.ref = 0 /\ count.miss = 0 /\ Resident = {}
    BY DEF SimInit, Init, Resident, FreshEntry
  <2>4. LeastOf(trace)[Len(trace)][{}] \in Nat
    <3>1. Len(trace) \in 0 .. Len(trace) /\ {} \in SUBSET Page
      BY <2>2
    <3> QED
      BY <2>2, <3>1, LeastFollows DEF Follow
  <2> QED
    BY <2>2, <2>3, <2>4 DEF NoneLost
<1>2. MissInv /\ [SimNext]_sim_vars => MissInv'
  <2> SUFFICES ASSUME MissInv, [SimNext]_sim_vars, evict_fcn = "opt", status' = "running"
               PROVE  NoneLost'
    BY OptNext DEF MissInv, SimNext, sim_vars
  <2>1. CASE SimNext
    <3>1. PICK v \in Page, type \in Type : OptAccess(v, type)
      BY <2>1 DEF SimNext, Access
    <3>2. status = "running"
      BY <3>1, AccessRuns DEF OptAccess, Evict
    <3> QED
      BY <3>1, <3>2, MissesStep DEF MissInv, OptInv
  <2>2. CASE UNCHANGED sim_vars
    <3>1. UNCHANGED <<count, status, trace, pte>>
      BY <2>2 DEF sim_vars, vars, opt_vars
    <3>2. NoneLost
      BY <3>1 DEF MissInv
    <3> QED
      BY <3>1, <3>2 DEF NoneLost, Plain, Resident
  <2> QED
    BY <2>1, <2>2
<1>3. MissInv => MissesLeast
  <2> SUFFICES ASSUME MissInv, evict_fcn = "opt", Plain, status = "running", count.ref = Len(trace)
               PROVE  count.miss = LeastMisses
    BY DEF MissesLeast
  <2>1. OptLists /\ NoneLost /\ PagingInv
    BY DEF MissInv, OptInv
  <2>2. trace \in Seq(Page) /\ Len(trace) \in Nat /\ Replayed = trace
    BY <2>1, PlainTrace DEF OptLists
  <2>3. Len(trace) - count.ref = 0 /\ count.miss \in Nat
    BY <2>1, <2>2 DEF PagingInv, TypeOK
  <2>4. LeastOf(trace)[0][Resident] = 0
    <3>1. Resident \in SUBSET Page
      BY DEF Resident
    <3> QED
      BY <2>2, <3>1, LeastFollows DEF Follow
  <2>5. count.miss = LeastOf(trace)[Len(trace)][{}]
    BY <2>1, <2>3, <2>4 DEF NoneLost
  <2> QED
    BY <2>2, <2>5, LeastIs DEF LeastMisses
<1> QED
  BY <1>1, <1>2, <1>3, PTL DEF SimSpec

-----------------------------------------------------------------------------
(* Every policy's steps are steps of PageTable, which knows no policy: the    *)
(* frame returned is one, and only reference bits change on the way to it.    *)

PolicyInv == PagingInv /\ FifoInv /\ LruInv /\ ClockInv /\ OptInv

\* A victim found without looking at the tables.
LEMMA PlainEviction ==
  ASSUME PagingInv, NEW v \in Page, NEW type \in Type, NEW f \in Frame,
         Evict(v, Tables(v), f, type)
  PROVE  Next
<1>1. Tables(v) = pte /\ pte \in [Page -> EntryType]
  BY OwnTables DEF PagingInv, TypeOK
<1>2. Unreferenced(pte, {}) = pte
  BY <1>1 DEF Unreferenced
<1>3. Evict(v, Unreferenced(Tables(v), {}), f, type)
  BY <1>1, <1>2
<1>4. {} \in SUBSET Resident
  OBVIOUS
<1> QED
  BY <1>3, <1>4 DEF Next

\* The victim of clock_evict, and the bits it clears on the way.
LEMMA ClockEviction ==
  ASSUME PagingInv, BitsTellUse, NEW v \in Page, NEW type \in Type, clock_evict(v, type)
  PROVE  Next
<1> DEFINE s == Swept(pte)
           R == {coremap[f].pte : f \in s.cleared}
<1>1. Tables(v) = pte
  BY OwnTables
<1>2. FreeFrames = {} /\ Evict(v, Unreferenced(pte, R), s.hand, type)
  BY <1>1 DEF clock_evict, Passed
<1>3. s.hand \in Frame /\ s.cleared \subseteq Frame
  BY SweepStops DEF BitsTellUse, Referenced
<1>4. InUse = Frame
  BY <1>2 DEF InUse
<1> HIDE DEF s
<1>5. R \in SUBSET Resident
  BY <1>3, <1>4, PageOfFrame
<1> QED
  BY <1>1, <1>2, <1>3, <1>5 DEF Next

\* One case for each policy of algs.
LEMMA AnyPolicyStep ==
  ASSUME PolicyInv, NEW v \in Page, NEW type \in Type, Access(v, type)
  PROVE  Next
<1>1. CASE Hit(v, type) \/ Fill(v, type)
  BY <1>1 DEF Next
<1>2. CASE evict_fcn = "rand" /\ \E f \in Frame : Evict(v, Tables(v), f, type)
  BY <1>2, PlainEviction DEF PolicyInv
<1>3. CASE evict_fcn = "fifo" /\ Evict(v, Tables(v), fifo_evict, type)
  <2>1. fifo_evict \in Frame
    BY <1>3, AccessRuns, FifoEvict DEF PolicyInv, FifoInv, FramesInTurn
  <2> QED
    BY <1>3, <2>1, PlainEviction DEF PolicyInv
<1>4. CASE evict_fcn = "lru" /\ FreeFrames = {} /\ Evict(v, Tables(v), Victim, type)
  <2>1. Victim \in Frame
    BY <1>4, AccessRuns, VictimIsHead DEF PolicyInv, LruInv
  <2> QED
    BY <1>4, <2>1, PlainEviction DEF PolicyInv
<1>5. CASE evict_fcn = "clock" /\ clock_evict(v, type)
  <2>1. status = "running"
    BY <1>5, AccessRuns DEF clock_evict
  <2> QED
    BY <1>5, <2>1, ClockEviction DEF PolicyInv, ClockInv
<1>6. CASE evict_fcn = "opt" /\ FreeFrames = {} /\ Evict(v, Tables(v), opt_evict, type)
  <2>1. opt_evict \in Frame
    BY <1>6, AccessRuns, HeadIsFarthest DEF PolicyInv, OptInv
  <2> QED
    BY <1>6, <2>1, PlainEviction DEF PolicyInv
<1> QED
  BY <1>1, <1>2, <1>3, <1>4, <1>5, <1>6
  DEF Access, RandAccess, rand_evict, FifoAccess, LruAccess, ClockAccess, OptAccess, Evict

\* The simulator of sim.c, with whatever policy the command line names, is the
\* simulator that PageTable, and every theorem about it, is about: a policy's
\* frame is a frame of memory in every state its own data can reach.
THEOREM PoliciesConform == SimSpec => AnyPolicy
<1>1. SimInit => Init /\ PolicyInv
  BY PagingInit, FifoInit, LruInit, ClockInit, OptInit DEF SimInit, PolicyInv
<1>2. PolicyInv /\ [SimNext]_sim_vars => [Next]_vars /\ PolicyInv'
  <2> SUFFICES ASSUME PolicyInv, [SimNext]_sim_vars PROVE [Next]_vars /\ PolicyInv'
    OBVIOUS
  <2>1. [Next]_vars
    <3>1. CASE SimNext
      BY <3>1, AnyPolicyStep DEF SimNext
    <3>2. CASE UNCHANGED sim_vars
      BY <3>2 DEF sim_vars
    <3> QED
      BY <3>1, <3>2
  <2>2. PagingInv'
    BY <2>1, PagingStep DEF PolicyInv
  <2> QED
    BY <2>1, <2>2, FifoNext, LruNext, ClockNext, OptNext DEF PolicyInv
<1> QED
  BY <1>1, <1>2, PTL DEF SimSpec, AnyPolicy, Spec
================================================================================
