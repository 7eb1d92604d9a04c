---------------------------- MODULE PageTable_proofs ----------------------------
(* Proofs about PageTable, and that it implements DemandPaging, for any        *)
(* addresses, memory and swap sizes, traces and replacement policies.          *)
EXTENDS Paging, TLAPS, FiniteSetTheorems, FunctionTheorems, WellFoundedInduction

USE PagingAssumption DEF INVALID_SWAP, Frame, Slot

-----------------------------------------------------------------------------
(* The inductive invariant: besides the invariants that TLC checks, no entry  *)
(* is ever marked PG_ONSWAP, so every eviction writes, and a second-level     *)
(* table that is still to be allocated would hold what pte already has.       *)

NeverOnSwap == \A v \in Page : ~ pte[v].onswap
NewTablesFresh == \A v \in Page : v[1] \notin pgdir => pte[v] = FreshEntry

PagingInv ==
  /\ TypeOK
  /\ FrameOwnership
  /\ SlotsPrivate
  /\ AddressChecks
  /\ NeverOnSwap
  /\ NewTablesFresh

-----------------------------------------------------------------------------
(* What the actions are built from. *)

\* The first free frame, or slot, is one, and comes before every other.
LEMMA MinOfNaturals ==
  ASSUME NEW S \in SUBSET Nat, S # {}
  PROVE  Min(S) \in S /\ \A y \in S : Min(S) <= y
<1>1. \E x \in S : \A y \in S : ~ (<<y, x>> \in OpToRel(<, Nat))
  BY WFMin, NatLessThanWellFounded
<1>2. PICK x \in S : \A y \in S : ~ (<<y, x>> \in OpToRel(<, Nat))
  BY <1>1
<1>3. ASSUME NEW y \in S PROVE x <= y
  <2>1. ~ (y < x)
    BY <1>2, x \in Nat, y \in Nat DEF OpToRel
  <2> QED
    BY <2>1, x \in Nat, y \in Nat
<1> QED
  BY <1>3 DEF Min

\* No table is ever lost: a reference finds every entry as it was left.
LEMMA TablesKept ==
  ASSUME NEW v \in Page, NewTablesFresh, pte \in [Page -> EntryType]
  PROVE  Tables(v) = pte
<1>1. \A w \in Page : w[1] = v[1] /\ v[1] \notin pgdir => FreshEntry = pte[w]
  BY DEF NewTablesFresh
<1> QED
  BY <1>1 DEF Tables

\* The tables after evict_fcn: they agree with pte but for reference bits of
\* pages in memory.
SameButRef(t) ==
  /\ t \in [Page -> EntryType]
  /\ \A w \in Page :
       /\ t[w].valid = pte[w].valid
       /\ t[w].frame = pte[w].frame
       /\ t[w].onswap = pte[w].onswap
       /\ t[w].swap_off = pte[w].swap_off
       /\ w \notin Resident => t[w] = pte[w]

\* Clearing reference bits leaves everything else.
LEMMA UnreferencedSame ==
  ASSUME NEW R, R \subseteq Resident, pte \in [Page -> EntryType]
  PROVE  SameButRef(Unreferenced(pte, R))
<1> DEFINE t == Unreferenced(pte, R)
<1>1. ASSUME NEW w \in Page, NEW e \in EntryType, e = [pte[w] EXCEPT !.ref = FALSE]
      PROVE  /\ e.valid = pte[w].valid /\ e.frame = pte[w].frame
             /\ e.onswap = pte[w].onswap /\ e.swap_off = pte[w].swap_off
  BY <1>1 DEF EntryType
<1>2. \A w \in Page : [pte[w] EXCEPT !.ref = FALSE] \in EntryType
  BY DEF EntryType
<1>3. \A w \in Page : t[w] = IF w \in R THEN [pte[w] EXCEPT !.ref = FALSE] ELSE pte[w]
  BY DEF Unreferenced
<1>4. t \in [Page -> EntryType]
  BY <1>2 DEF Unreferenced
<1>5. ASSUME NEW w \in Page
      PROVE  /\ t[w].valid = pte[w].valid /\ t[w].frame = pte[w].frame
             /\ t[w].onswap = pte[w].onswap /\ t[w].swap_off = pte[w].swap_off
             /\ w \notin Resident => t[w] = pte[w]
  <2> HIDE DEF t
  <2>1. CASE w \in R
    BY <1>1, <1>2, <1>3, <2>1
  <2>2. CASE w \notin R
    BY <1>3, <2>2
  <2> QED
    BY <2>1, <2>2
<1> QED
  BY <1>4, <1>5 DEF SameButRef

\* What a write leaves in a frame still names the frame's address.
LEMMA AccessedKeeps ==
  ASSUME NEW c \in Contents, NEW type
  PROVE  Accessed(c, type) \in Contents /\ Accessed(c, type).vaddr = c.vaddr
BY DEF Accessed, Contents

\* The status bits set at the end of find_physpage leave frame and offset.
LEMMA TouchedKeeps ==
  ASSUME NEW e \in EntryType, NEW type
  PROVE  LET n == Touched(e, type) IN
         /\ n \in EntryType
         /\ n.valid
         /\ n.frame = e.frame /\ n.onswap = e.onswap /\ n.swap_off = e.swap_off
<1>1. (e.dirty \/ Writes(type)) \in BOOLEAN
  OBVIOUS
<1>2. Touched(e, type) \in EntryType
  BY <1>1 DEF EntryType, Touched
<1>3. Touched(e, type).valid = TRUE
  BY DEF EntryType, Touched
<1>4. /\ Touched(e, type).frame = e.frame
      /\ Touched(e, type).onswap = e.onswap
      /\ Touched(e, type).swap_off = e.swap_off
  BY DEF EntryType, Touched
<1> QED
  BY <1>2, <1>3, <1>4

\* What find_physpage makes of a page that is not marked PG_ONSWAP: n is its
\* entry, c what is in its frame.
Placed(v, t, f, n, c) ==
  /\ n.valid /\ n.frame = f /\ ~ n.onswap /\ n.swap_off = t[v].swap_off
  /\ c.vaddr = v
  /\ pte' = [t EXCEPT ![v] = n]
  /\ coremap' = [coremap EXCEPT ![f] = [in_use |-> TRUE, pte |-> v]]
  /\ physmem' = [physmem EXCEPT ![f] = c]

\* The rest of find_physpage does that for a page not marked PG_ONSWAP.
LEMMA PlaceResult ==
  ASSUME NEW v \in Page, NEW f \in Frame, NEW type, NEW t \in [Page -> EntryType],
         ~ t[v].onswap, Place(v, t, f, type)
  PROVE  \E n \in EntryType, c \in Contents : Placed(v, t, f, n, c)
<1> DEFINE e == [FreshEntry EXCEPT !.frame = f, !.dirty = TRUE, !.swap_off = t[v].swap_off]
           z == [vaddr |-> v, version |-> 0]
<1>1. e \in EntryType
  BY DEF FreshEntry, EntryType
<1>2. e.frame = f /\ e.swap_off = t[v].swap_off
  BY DEF FreshEntry
<1>3. e.onswap = FALSE
  BY DEF FreshEntry
<1>4. z \in Contents /\ z.vaddr = v
  BY DEF Contents
<1>5. /\ coremap' = [coremap EXCEPT ![f] = [in_use |-> TRUE, pte |-> v]]
      /\ physmem' = [physmem EXCEPT ![f] = Accessed(z, type)]
      /\ pte' = [t EXCEPT ![v] = Touched(e, type)]
  BY DEF Place
<1> HIDE DEF e, z
<1>6. /\ Touched(e, type) \in EntryType
      /\ Touched(e, type).valid
      /\ Touched(e, type).frame = f
      /\ ~ Touched(e, type).onswap
      /\ Touched(e, type).swap_off = t[v].swap_off
  BY <1>1, <1>2, <1>3, TouchedKeeps
<1>7. Accessed(z, type) \in Contents /\ Accessed(z, type).vaddr = v
  BY <1>4, AccessedKeeps
<1> QED
  BY <1>5, <1>6, <1>7 DEF Placed

-----------------------------------------------------------------------------
(* The invariant holds at the start and every step keeps it. *)

\* The simulator starts with no page in memory or on swap.
LEMMA PagingInit == Init => PagingInv
<1> SUFFICES ASSUME Init PROVE PagingInv
  OBVIOUS
<1> USE DEF Init
<1>1. TypeOK
  BY DEF TypeOK, EntryType, Contents, FreshEntry, Nothing
<1>2. FrameOwnership /\ AddressChecks
  BY DEF FrameOwnership, AddressChecks, Resident, FreshEntry
<1>3. SlotsPrivate
  BY DEF SlotsPrivate, Swapped, FreshEntry
<1>4. NeverOnSwap /\ NewTablesFresh
  BY DEF NeverOnSwap, NewTablesFresh, FreshEntry
<1> QED
  BY <1>1, <1>2, <1>3, <1>4 DEF PagingInv

\* A step that leaves frames, validity and swap offsets alone keeps what relates
\* them.
LEMMA Undisturbed ==
  ASSUME PagingInv,
         pgdir \subseteq pgdir',
         coremap' = coremap, swapmap' = swapmap,
         \A w \in Page :
           /\ pte'[w].valid <=> pte[w].valid
           /\ pte'[w].onswap <=> pte[w].onswap
           /\ pte'[w].frame = pte[w].frame
           /\ pte'[w].swap_off = pte[w].swap_off
           /\ ~ pte[w].valid => pte'[w] = pte[w],
         \A f \in Frame : physmem'[f].vaddr = physmem[f].vaddr
  PROVE  (FrameOwnership /\ SlotsPrivate /\ AddressChecks /\ NeverOnSwap /\ NewTablesFresh)'
<1> USE DEF PagingInv
<1>1. Resident' = Resident /\ Swapped' = Swapped
  BY DEF Resident, Swapped
<1>2. \A w \in Resident : pte[w].frame \in Frame /\ w \in Page
  BY DEF TypeOK, EntryType, Resident
<1>3. FrameOwnership'
  <2>1. ASSUME NEW w \in Resident
        PROVE  w[1] \in pgdir' /\ coremap'[pte'[w].frame] = [in_use |-> TRUE, pte |-> w]
    BY <1>2 DEF FrameOwnership
  <2>2. ASSUME NEW f \in Frame, coremap'[f].in_use
        PROVE  coremap'[f].pte \in Resident /\ pte'[coremap'[f].pte].frame = f
    BY <2>2, <1>2 DEF FrameOwnership
  <2> QED
    BY <1>1, <2>1, <2>2 DEF FrameOwnership
<1>4. SlotsPrivate'
  <2>1. {pte[w].swap_off : w \in Swapped} = {pte'[w].swap_off : w \in Swapped}
    BY DEF Swapped
  <2>2. \A w \in Swapped : w \in Page
    BY DEF Swapped
  <2> QED
    BY <1>1, <2>1, <2>2 DEF SlotsPrivate
<1>5. AddressChecks'
  BY <1>1, <1>2 DEF AddressChecks
<1>6. NeverOnSwap'
  BY DEF NeverOnSwap
<1>7. NewTablesFresh'
  <2> SUFFICES ASSUME NEW w \in Page, w[1] \notin pgdir' PROVE pte'[w] = FreshEntry
    BY DEF NewTablesFresh
  <2>1. w \notin Resident
    BY DEF FrameOwnership
  <2> QED
    BY <2>1 DEF NewTablesFresh, Resident
<1> QED
  BY <1>3, <1>4, <1>5, <1>6, <1>7

\* Putting v into frame f keeps them too, if t is pte without the page that was
\* in f, and swapmap' the slots that t has.
LEMMA PlacedKeeps ==
  ASSUME PagingInv,
         NEW v \in Page, ~ pte[v].valid, NEW f \in Frame,
         NEW t \in [Page -> EntryType], NEW n \in EntryType, NEW c \in Contents,
         Placed(v, t, f, n, c),
         pgdir' = pgdir \cup {v[1]},
         \A w \in Page : t[w].valid <=> pte[w].valid /\ pte[w].frame # f,
         \A w \in Page : t[w].valid => t[w].frame = pte[w].frame,
         \A w \in Page : ~ t[w].onswap,
         \A w \in Page : w[1] \notin pgdir => t[w] = FreshEntry,
         swapmap' = {t[w].swap_off : w \in {x \in Page : t[x].swap_off # INVALID_SWAP}},
         \A w, x \in Page : t[w].swap_off # INVALID_SWAP /\ t[w].swap_off = t[x].swap_off => w = x
  PROVE  (FrameOwnership /\ SlotsPrivate /\ AddressChecks /\ NeverOnSwap /\ NewTablesFresh)'
<1> USE DEF PagingInv
<1>1. /\ \A w \in Page \ {v} : pte'[w] = t[w]
      /\ pte'[v] = n
      /\ \A g \in Frame \ {f} : coremap'[g] = coremap[g] /\ physmem'[g] = physmem[g]
      /\ coremap'[f] = [in_use |-> TRUE, pte |-> v] /\ physmem'[f] = c
  BY DEF Placed, TypeOK
<1>2. n.valid /\ n.frame = f /\ ~ n.onswap /\ n.swap_off = t[v].swap_off /\ c.vaddr = v
  BY DEF Placed
<1>3. \A w \in Page : pte'[w].swap_off = t[w].swap_off
  BY <1>1, <1>2
<1>4. \A w \in Page \ {v} : w \in Resident' =>
        /\ pte[w].valid /\ pte'[w].frame = pte[w].frame
        /\ pte[w].frame \in Frame \ {f}
  BY <1>1 DEF Resident, TypeOK, EntryType
<1>5. FrameOwnership'
  <2>1. ASSUME NEW w \in Resident'
        PROVE  w[1] \in pgdir' /\ coremap'[pte'[w].frame] = [in_use |-> TRUE, pte |-> w]
    <3>1. CASE w = v
      BY <1>1, <1>2, <3>1
    <3>2. CASE w # v
      BY <1>1, <1>4, <3>2 DEF FrameOwnership, Resident
    <3> QED
      BY <3>1, <3>2
  <2>2. ASSUME NEW g \in Frame, coremap'[g].in_use
        PROVE  coremap'[g].pte \in Resident' /\ pte'[coremap'[g].pte].frame = g
    <3>1. CASE g = f
      BY <1>1, <1>2, <3>1 DEF Resident
    <3>2. CASE g # f
      <4>1. coremap[g].pte \in Resident /\ pte[coremap[g].pte].frame = g
        BY <1>1, <2>2, <3>2 DEF FrameOwnership
      <4> QED
        BY <1>1, <3>2, <4>1 DEF Resident
    <3> QED
      BY <3>1, <3>2
  <2> QED
    BY <2>1, <2>2 DEF FrameOwnership
<1>6. SlotsPrivate'
  <2>1. Swapped' = {x \in Page : t[x].swap_off # INVALID_SWAP}
    BY <1>3 DEF Swapped
  <2> QED
    BY <1>3, <2>1 DEF SlotsPrivate
<1>7. AddressChecks'
  <2> SUFFICES ASSUME NEW w \in Resident' PROVE physmem'[pte'[w].frame].vaddr = w
    BY DEF AddressChecks
  <2>1. CASE w = v
    BY <1>1, <1>2, <2>1
  <2>2. CASE w # v
    BY <1>1, <1>4, <2>2 DEF AddressChecks, Resident
  <2> QED
    BY <2>1, <2>2
<1>8. NeverOnSwap'
  BY <1>1, <1>2 DEF NeverOnSwap
<1>9. NewTablesFresh'
  BY <1>1 DEF NewTablesFresh
<1> QED
  BY <1>5, <1>6, <1>7, <1>8, <1>9

\* A page in memory has a frame in use, which knows it.
LEMMA ResidentInUse ==
  ASSUME TypeOK, FrameOwnership, NEW w \in Page, pte[w].valid
  PROVE  pte[w].frame \in Frame /\ coremap[pte[w].frame].in_use /\ coremap[pte[w].frame].pte = w
<1>1. coremap[pte[w].frame] = [in_use |-> TRUE, pte |-> w]
  BY DEF FrameOwnership, Resident
<1>2. pte[w].frame \in Frame
  BY DEF TypeOK, EntryType
<1> QED
  BY <1>1, <1>2

CountType == [hit : Nat, miss : Nat, ref : Nat, evict_clean : Nat, evict_dirty : Nat]

\* Counting a hit, a miss or an eviction leaves natural numbers.
LEMMA Counting ==
  ASSUME NEW c \in CountType
  PROVE  /\ [c EXCEPT !.hit = @ + 1, !.ref = @ + 1] \in CountType
         /\ [c EXCEPT !.miss = @ + 1, !.ref = @ + 1] \in CountType
         /\ [c EXCEPT !.evict_clean = @ + 1] \in CountType
         /\ [c EXCEPT !.evict_dirty = @ + 1] \in CountType
<1>1. c.hit + 1 \in Nat /\ c.miss + 1 \in Nat /\ c.ref + 1 \in Nat
      /\ c.evict_clean + 1 \in Nat /\ c.evict_dirty + 1 \in Nat
  BY DEF CountType
<1> QED
  BY <1>1 DEF CountType

\* Clean or dirty, an eviction is counted once.
LEMMA EvictionsAdd ==
  ASSUME count \in CountType, NEW e
  PROVE  LET c == EvictionCounted(e) IN
         /\ c \in CountType
         /\ c.hit = count.hit /\ c.miss = count.miss /\ c.ref = count.ref
         /\ c.evict_clean + c.evict_dirty = count.evict_clean + count.evict_dirty + 1
<1>1. CASE Clean(e)
  BY <1>1 DEF EvictionCounted, CountType
<1>2. CASE ~ Clean(e)
  BY <1>2 DEF EvictionCounted, CountType
<1> QED
  BY <1>1, <1>2

\* A step that evicts nothing: pages stay in memory and what is on swap stays.
SwapKept ==
  /\ Resident \subseteq Resident'
  /\ \A w \in Page : pte'[w].swap_off = pte[w].swap_off
  /\ UNCHANGED <<swapmap, swapfile>>

\* A reference to a page in memory.
LEMMA HitKeeps ==
  ASSUME PagingInv, NEW v \in Page, NEW type \in Type, Hit(v, type)
  PROVE  PagingInv' /\ SwapKept
<1> USE DEF PagingInv
<1>1. Tables(v) = pte
  BY TablesKept DEF TypeOK
<1> DEFINE f == pte[v].frame
<1>2. /\ pte[v].valid
      /\ pgdir' = pgdir \cup {v[1]}
      /\ pte' = [pte EXCEPT ![v] = Touched(pte[v], type)]
      /\ physmem' = [physmem EXCEPT ![f] = Accessed(physmem[f], type)]
      /\ count' = [count EXCEPT !.hit = @ + 1, !.ref = @ + 1]
      /\ UNCHANGED <<coremap, swapmap, swapfile, status>>
  BY <1>1 DEF Hit, Reference
<1>3. pte[v] \in EntryType /\ f \in Frame /\ physmem[f] \in Contents
  BY DEF TypeOK, EntryType
<1>4. /\ Touched(pte[v], type) \in EntryType
      /\ Touched(pte[v], type).valid
      /\ Touched(pte[v], type).frame = pte[v].frame
      /\ Touched(pte[v], type).onswap = pte[v].onswap
      /\ Touched(pte[v], type).swap_off = pte[v].swap_off
  BY <1>3, TouchedKeeps
<1>5. Accessed(physmem[f], type) \in Contents
      /\ Accessed(physmem[f], type).vaddr = physmem[f].vaddr
  BY <1>3, AccessedKeeps
<1>6. TypeOK'
  <2>1. pgdir' \subseteq Dir
    BY <1>2 DEF TypeOK, Page
  <2>2. pte' \in [Page -> EntryType] /\ physmem' \in [Frame -> Contents]
    BY <1>2, <1>3, <1>4, <1>5 DEF TypeOK
  <2>3. count' \in CountType
    BY <1>2, Counting DEF TypeOK, CountType
  <2> QED
    BY <1>2, <2>1, <2>2, <2>3 DEF TypeOK, CountType
<1>7. \A w \in Page :
        /\ pte'[w].valid <=> pte[w].valid
        /\ pte'[w].onswap <=> pte[w].onswap
        /\ pte'[w].frame = pte[w].frame
        /\ pte'[w].swap_off = pte[w].swap_off
        /\ ~ pte[w].valid => pte'[w] = pte[w]
  BY <1>2, <1>4 DEF TypeOK
<1>8. \A g \in Frame : physmem'[g].vaddr = physmem[g].vaddr
  BY <1>2, <1>5 DEF TypeOK
<1>9. pgdir \subseteq pgdir' /\ coremap' = coremap /\ swapmap' = swapmap
  BY <1>2
<1> HIDE DEF PagingInv
<1>10. (FrameOwnership /\ SlotsPrivate /\ AddressChecks /\ NeverOnSwap /\ NewTablesFresh)'
  BY <1>7, <1>8, <1>9, Undisturbed
<1>11. SwapKept
  BY <1>2, <1>7 DEF SwapKept, Resident
<1> QED
  BY <1>6, <1>10, <1>11 DEF PagingInv

\* What Placed leaves is well typed.
LEMMA PlacedType ==
  ASSUME TypeOK,
         NEW v \in Page, NEW f \in Frame, NEW t \in [Page -> EntryType],
         NEW n \in EntryType, NEW c \in Contents, Placed(v, t, f, n, c)
  PROVE  /\ pte' \in [Page -> EntryType]
         /\ coremap' \in [Frame -> [in_use : BOOLEAN, pte : Page \cup {NoPage}]]
         /\ physmem' \in [Frame -> Contents]
BY DEF Placed, TypeOK

\* A miss while frames are free.
LEMMA FillKeeps ==
  ASSUME PagingInv, NEW v \in Page, NEW type \in Type, Fill(v, type)
  PROVE  PagingInv' /\ SwapKept
<1> USE DEF PagingInv
<1>1. Tables(v) = pte
  BY TablesKept DEF TypeOK
<1> DEFINE f == Min(FreeFrames)
<1>2. /\ ~ pte[v].valid
      /\ pgdir' = pgdir \cup {v[1]}
      /\ FreeFrames # {}
      /\ Place(v, pte, f, type)
      /\ count' = [count EXCEPT !.miss = @ + 1, !.ref = @ + 1]
      /\ UNCHANGED <<swapmap, swapfile, status>>
  BY <1>1 DEF Fill, Fault, Reference
<1>3. f \in FreeFrames
  BY <1>2, MinOfNaturals DEF FreeFrames
<1>4. f \in Frame /\ ~ coremap[f].in_use
  BY <1>3 DEF FreeFrames
<1> HIDE DEF f
<1>5. PICK n \in EntryType, c \in Contents : Placed(v, pte, f, n, c)
  BY <1>2, <1>4, PlaceResult DEF TypeOK, NeverOnSwap
<1>6. TypeOK'
  <2>1. pgdir' \subseteq Dir
    BY <1>2 DEF TypeOK, Page
  <2>2. count' \in CountType
    BY <1>2, Counting DEF TypeOK, CountType
  <2>3. pte \in [Page -> EntryType]
    BY DEF TypeOK
  <2>4. /\ pte' \in [Page -> EntryType]
        /\ coremap' \in [Frame -> [in_use : BOOLEAN, pte : Page \cup {NoPage}]]
        /\ physmem' \in [Frame -> Contents]
    BY <1>4, <1>5, <2>3, PlacedType
  <2> QED
    BY <1>2, <2>1, <2>2, <2>4 DEF TypeOK, CountType
<1>7. \A w \in Page : pte[w].valid => pte[w].frame # f
  BY <1>4, ResidentInUse
<1>8. /\ swapmap' = {pte[w].swap_off : w \in {x \in Page : pte[x].swap_off # INVALID_SWAP}}
      /\ \A w, x \in Page : pte[w].swap_off # INVALID_SWAP /\ pte[w].swap_off = pte[x].swap_off
                          => w = x
  BY <1>2 DEF SlotsPrivate, Swapped
<1>9. (\A w \in Page : ~ pte[w].onswap) /\ pte \in [Page -> EntryType]
      /\ \A w \in Page : w[1] \notin pgdir => pte[w] = FreshEntry
  BY DEF NeverOnSwap, NewTablesFresh, TypeOK
<1> HIDE DEF PagingInv
<1>10. (FrameOwnership /\ SlotsPrivate /\ AddressChecks /\ NeverOnSwap /\ NewTablesFresh)'
  BY <1>2, <1>4, <1>5, <1>7, <1>8, <1>9, PlacedKeeps
<1>11. SwapKept
  BY <1>2, <1>5, <1>9 DEF SwapKept, Placed, Resident
<1> QED
  BY <1>6, <1>10, <1>11 DEF PagingInv

\* A miss that finds memory full, once the policy has named frame f.
LEMMA VictimFacts ==
  ASSUME PagingInv, NEW t, SameButRef(t), NEW f \in Frame, FreeFrames = {}
  PROVE  LET u == coremap[f].pte IN
         /\ u \in Page /\ u[1] \in pgdir
         /\ pte[u].valid /\ pte[u].frame = f
         /\ t[u] \in EntryType /\ ~ t[u].onswap /\ t[u].swap_off = pte[u].swap_off
         /\ ~ Clean(t[u])
         /\ \A w \in Page : pte[w].valid /\ pte[w].frame = f => w = u
<1> DEFINE u == coremap[f].pte
<1>1. coremap[f].in_use
  BY DEF FreeFrames
<1>2. u \in Resident /\ pte[u].frame = f
  BY <1>1 DEF PagingInv, FrameOwnership
<1>3. u \in Page /\ pte[u].valid /\ u[1] \in pgdir
  BY <1>2 DEF Resident, PagingInv, FrameOwnership
<1>4. \A w \in Page : pte[w].valid /\ pte[w].frame = f => w = u
  BY ResidentInUse DEF PagingInv
<1> HIDE DEF u
<1>5. t[u] \in EntryType /\ t[u].onswap = pte[u].onswap /\ t[u].swap_off = pte[u].swap_off
  BY <1>3 DEF SameButRef
<1>6. ~ pte[u].onswap
  BY <1>3 DEF PagingInv, NeverOnSwap
<1> QED
  BY <1>2, <1>3, <1>4, <1>5, <1>6 DEF u, Clean

\* swap_pageout writes the victim's frame to the slot the victim has, or to a
\* free one.
LEMMA VictimSaved ==
  ASSUME PagingInv, NEW v \in Page, NEW type \in Type, NEW f \in Frame,
         NEW t, SameButRef(t), Replace(v, t, f, type)
  PROVE  LET u == coremap[f].pte  s == SlotOf(t[u]) IN
         /\ swapmap' = swapmap \cup {s}
         /\ swapfile' = [swapfile EXCEPT ![s] = physmem[f]]
         /\ s \in Slot
         /\ t[u].swap_off # INVALID_SWAP => s = t[u].swap_off
         /\ t[u].swap_off = INVALID_SWAP => s \notin swapmap
<1> DEFINE u == coremap[f].pte
           s == SlotOf(t[u])
<1>1. /\ FreeFrames = {}
      /\ ~ NoSlot(t[u])
      /\ IF Clean(t[u]) THEN UNCHANGED <<swapmap, swapfile>> ELSE PageOut(f, t[u])
  BY DEF Replace
<1>2. t[u] \in EntryType /\ ~ Clean(t[u])
  BY <1>1, VictimFacts
<1>3. /\ swapmap' = swapmap \cup {s}
      /\ swapfile' = [swapfile EXCEPT ![s] = physmem[f]]
  BY <1>1, <1>2 DEF PageOut
<1>4. /\ s \in Slot
      /\ t[u].swap_off # INVALID_SWAP => s = t[u].swap_off
      /\ t[u].swap_off = INVALID_SWAP => s \notin swapmap
  <2>1. CASE t[u].swap_off = INVALID_SWAP
    <3>1. FreeSlots # {}
      BY <1>1, <1>2, <2>1 DEF NoSlot
    <3>2. Min(FreeSlots) \in FreeSlots
      BY <3>1, MinOfNaturals DEF FreeSlots
    <3> QED
      BY <2>1, <3>2 DEF SlotOf, FreeSlots
  <2>2. CASE t[u].swap_off # INVALID_SWAP
    BY <1>2, <2>2 DEF SlotOf, EntryType
  <2> QED
    BY <2>1, <2>2
<1> QED
  BY <1>3, <1>4

\* A miss that evicts: the victim's entry, slot and contents change, then the new
\* page's entry and frame.
LEMMA ReplaceKeeps ==
  ASSUME PagingInv, NEW v \in Page, NEW type \in Type, NEW f \in Frame,
         NEW t, SameButRef(t), Replace(v, t, f, type)
  PROVE  LET u == coremap[f].pte IN
         /\ PagingInv'
         /\ Resident \ {u} \subseteq Resident'
         /\ \A w \in Page : pte'[w].swap_off = IF w = u THEN SlotOf(t[u]) ELSE pte[w].swap_off
<1> DEFINE u == coremap[f].pte
           s == SlotOf(t[u])
           e == Evicted(t[u])
           t1 == [t EXCEPT ![u] = e]
<1>1. /\ ~ t[v].valid
      /\ pgdir' = pgdir \cup {v[1]}
      /\ FreeFrames = {}
      /\ ~ NoSlot(t[u])
      /\ IF Clean(t[u]) THEN UNCHANGED <<swapmap, swapfile>> ELSE PageOut(f, t[u])
      /\ Place(v, t1, f, type)
      /\ count' = [EvictionCounted(t[u]) EXCEPT !.miss = @ + 1, !.ref = @ + 1]
      /\ UNCHANGED status
  BY DEF Replace, Fault, Reference
<1>2. /\ u \in Page /\ u[1] \in pgdir
      /\ pte[u].valid /\ pte[u].frame = f
      /\ t[u] \in EntryType /\ ~ t[u].onswap /\ t[u].swap_off = pte[u].swap_off
      /\ ~ Clean(t[u])
      /\ \A w \in Page : pte[w].valid /\ pte[w].frame = f => w = u
  BY <1>1, VictimFacts
<1>3. /\ swapmap' = swapmap \cup {s}
      /\ swapfile' = [swapfile EXCEPT ![s] = physmem[f]]
      /\ s \in Slot
      /\ t[u].swap_off # INVALID_SWAP => s = t[u].swap_off
      /\ t[u].swap_off = INVALID_SWAP => s \notin swapmap
  BY VictimSaved
<1>4. /\ e \in EntryType
      /\ ~ e.valid
      /\ ~ e.onswap
      /\ e.swap_off = s
  <2> HIDE DEF s
  <2>1. e = [t[u] EXCEPT !.valid = FALSE, !.dirty = FALSE, !.swap_off = s]
    BY <1>2 DEF Evicted, s
  <2>2. e \in EntryType
    BY <1>2, <1>3, <2>1 DEF EntryType
  <2>3. e.valid = FALSE
    BY <1>2, <2>1 DEF EntryType
  <2>4. e.onswap = t[u].onswap
    BY <1>2, <2>1 DEF EntryType
  <2>5. e.swap_off = s
    BY <1>2, <2>1 DEF EntryType
  <2> QED
    BY <1>2, <2>2, <2>3, <2>4, <2>5
<1>5. t \in [Page -> EntryType]
  BY DEF SameButRef
<1> HIDE DEF u, s, e
<1>6. t1 \in [Page -> EntryType] /\ t1[u] = e /\ \A w \in Page \ {u} : t1[w] = t[w]
  BY <1>2, <1>4, <1>5
<1>7. /\ \A w \in Page : t[w].valid = pte[w].valid
      /\ \A w \in Page : t[w].frame = pte[w].frame
      /\ \A w \in Page : t[w].onswap = pte[w].onswap
      /\ \A w \in Page : t[w].swap_off = pte[w].swap_off
      /\ \A w \in Page : w \notin Resident => t[w] = pte[w]
  BY DEF SameButRef
<1> HIDE DEF t1
<1>8. \A w \in Page : ~ t1[w].onswap
  BY <1>4, <1>6, <1>7 DEF PagingInv, NeverOnSwap
<1>9. PICK n \in EntryType, c \in Contents : Placed(v, t1, f, n, c)
  BY <1>1, <1>6, <1>8, PlaceResult
<1>10. TypeOK'
  <2>1. pgdir' \subseteq Dir
    BY <1>1 DEF PagingInv, TypeOK, Page
  <2>2. EvictionCounted(t[u]) \in CountType
    BY Counting DEF PagingInv, TypeOK, CountType, EvictionCounted
  <2>3. count' \in CountType
    BY <1>1, <2>2, Counting
  <2>4. /\ pte' \in [Page -> EntryType]
        /\ coremap' \in [Frame -> [in_use : BOOLEAN, pte : Page \cup {NoPage}]]
        /\ physmem' \in [Frame -> Contents]
    BY <1>6, <1>9, PlacedType DEF PagingInv
  <2>5. swapmap' \subseteq Slot /\ swapfile' \in [Slot -> Contents]
    BY <1>3 DEF PagingInv, TypeOK
  <2>6. status' \in {"running", "exited"}
    BY <1>1 DEF PagingInv, TypeOK
  <2> QED
    BY <2>1, <2>3, <2>4, <2>5, <2>6 DEF TypeOK, CountType
<1>11. ~ pte[v].valid
  BY <1>1, <1>7
<1>12. \A w \in Page : t1[w].valid <=> pte[w].valid /\ pte[w].frame # f
  BY <1>2, <1>4, <1>6, <1>7
<1>13. \A w \in Page : t1[w].valid => t1[w].frame = pte[w].frame
  BY <1>4, <1>6, <1>7
<1>14. \A w \in Page : w[1] \notin pgdir => t1[w] = FreshEntry
  BY <1>2, <1>6, <1>7 DEF PagingInv, FrameOwnership, NewTablesFresh
<1>15. \A w \in Page : t1[w].swap_off = IF w = u THEN s ELSE pte[w].swap_off
  BY <1>4, <1>6, <1>7
<1>16. s # INVALID_SWAP
  BY <1>3
<1>17. /\ \A w \in Page : pte[w].swap_off # INVALID_SWAP => pte[w].swap_off \in swapmap
       /\ \A r \in swapmap : \E w \in Page : pte[w].swap_off # INVALID_SWAP /\ r = pte[w].swap_off
       /\ \A w, x \in Page : pte[w].swap_off # INVALID_SWAP /\ pte[w].swap_off = pte[x].swap_off
                           => w = x
  BY DEF PagingInv, SlotsPrivate, Swapped
<1>18. \A w, x \in Page : t1[w].swap_off # INVALID_SWAP /\ t1[w].swap_off = t1[x].swap_off => w = x
  BY <1>2, <1>3, <1>15, <1>16, <1>17
<1>19. swapmap' = {t1[w].swap_off : w \in {x \in Page : t1[x].swap_off # INVALID_SWAP}}
  BY <1>2, <1>3, <1>15, <1>16, <1>17
<1>20. (FrameOwnership /\ SlotsPrivate /\ AddressChecks /\ NeverOnSwap /\ NewTablesFresh)'
  BY <1>1, <1>6, <1>8, <1>9, <1>11, <1>12, <1>13, <1>14, <1>18, <1>19, PlacedKeeps
<1>21. Resident \ {u} \subseteq Resident'
  BY <1>2, <1>6, <1>9, <1>12 DEF Placed, Resident
<1>22. \A w \in Page : pte'[w].swap_off = IF w = u THEN s ELSE pte[w].swap_off
  BY <1>6, <1>9, <1>15 DEF Placed
<1> QED
  BY <1>10, <1>20, <1>21, <1>22 DEF PagingInv, u, s

\* The swap file is full.
LEMMA ExitKeeps ==
  ASSUME PagingInv, NEW v \in Page, NEW f \in Frame, NEW t, SameButRef(t),
         SwapExhausted(v, t, f)
  PROVE  PagingInv'
<1> DEFINE u == coremap[f].pte
<1>1. /\ pgdir' = pgdir \cup {v[1]}
      /\ FreeFrames = {}
      /\ status' = "exited"
      /\ pte' = [t EXCEPT ![u] = [t[u] EXCEPT !.dirty = FALSE]]
      /\ count' = EvictionCounted(t[u])
      /\ UNCHANGED <<coremap, physmem, swapmap, swapfile>>
  BY DEF SwapExhausted, Fault, Reference
<1>2. u \in Page /\ pte[u].valid /\ t[u] \in EntryType
  BY <1>1, VictimFacts
<1> HIDE DEF u
<1> DEFINE e == [t[u] EXCEPT !.dirty = FALSE]
<1>3. /\ e \in EntryType
      /\ e.valid = t[u].valid /\ e.frame = t[u].frame
      /\ e.onswap = t[u].onswap /\ e.swap_off = t[u].swap_off
  BY <1>2 DEF EntryType
<1> HIDE DEF e
<1>4. t \in [Page -> EntryType]
  BY DEF SameButRef
<1>5. pte' \in [Page -> EntryType] /\ pte'[u] = e /\ \A w \in Page \ {u} : pte'[w] = t[w]
  BY <1>1, <1>2, <1>3, <1>4 DEF e
<1>6. TypeOK'
  <2>1. pgdir' \subseteq Dir
    BY <1>1 DEF PagingInv, TypeOK, Page
  <2>2. count' \in CountType
    BY <1>1, Counting DEF PagingInv, TypeOK, CountType, EvictionCounted
  <2> QED
    BY <1>1, <1>5, <2>1, <2>2 DEF PagingInv, TypeOK, CountType
<1>7. \A w \in Page :
        /\ pte'[w].valid <=> pte[w].valid
        /\ pte'[w].onswap <=> pte[w].onswap
        /\ pte'[w].frame = pte[w].frame
        /\ pte'[w].swap_off = pte[w].swap_off
        /\ ~ pte[w].valid => pte'[w] = pte[w]
  BY <1>2, <1>3, <1>5 DEF SameButRef, Resident
<1>8. /\ pgdir \subseteq pgdir' /\ coremap' = coremap /\ swapmap' = swapmap
      /\ \A g \in Frame : physmem'[g].vaddr = physmem[g].vaddr
  BY <1>1
<1>9. (FrameOwnership /\ SlotsPrivate /\ AddressChecks /\ NeverOnSwap /\ NewTablesFresh)'
  BY <1>7, <1>8, Undisturbed
<1> QED
  BY <1>6, <1>9 DEF PagingInv

\* Every trace line, with whatever policy.
LEMMA PagingStep == PagingInv /\ [Next]_vars => PagingInv'
<1> SUFFICES ASSUME PagingInv, [Next]_vars PROVE PagingInv'
  OBVIOUS
<1>1. ASSUME NEW v \in Page, NEW type \in Type, Hit(v, type) PROVE PagingInv'
  BY <1>1, HitKeeps
<1>2. ASSUME NEW v \in Page, NEW type \in Type, Fill(v, type) PROVE PagingInv'
  BY <1>2, FillKeeps
<1>3. ASSUME NEW v \in Page, NEW type \in Type, NEW f \in Frame, NEW R \in SUBSET Resident,
             Evict(v, Unreferenced(Tables(v), R), f, type)
      PROVE  PagingInv'
  <2>1. Tables(v) = pte /\ pte \in [Page -> EntryType]
    BY TablesKept DEF PagingInv, TypeOK
  <2>2. SameButRef(Unreferenced(Tables(v), R))
    BY <2>1, UnreferencedSame
  <2> QED
    BY <1>3, <2>2, ReplaceKeeps, ExitKeeps DEF Evict
<1>4. CASE UNCHANGED vars
  BY <1>4 DEF vars, PagingInv, TypeOK, FrameOwnership, SlotsPrivate, AddressChecks,
              NeverOnSwap, NewTablesFresh, Resident, Swapped
<1> QED
  BY <1>1, <1>2, <1>3, <1>4 DEF Next

-----------------------------------------------------------------------------
(* What holds of every run of the simulator. *)

\* The inductive invariant holds throughout.
THEOREM PagingCorrect == Spec => []PagingInv
BY PagingInit, PagingStep, PTL DEF Spec

\* swap.c hands out no slot beyond the swap file and pagetable.c keeps no other
\* offset, for any swap size and any trace.
THEOREM TypesCorrect == Spec => []TypeOK
<1>1. PagingInv => TypeOK
  BY DEF PagingInv
<1> QED
  BY <1>1, PagingCorrect, PTL

\* allocate_frame and find_physpage keep coremap and page tables inverse to each
\* other: a frame serves one page and a page has one frame.
THEOREM FramesOwned == Spec => []FrameOwnership
<1>1. PagingInv => FrameOwnership
  BY DEF PagingInv
<1> QED
  BY <1>1, PagingCorrect, PTL

\* The offset an entry keeps across evictions stays its own: swap_pageout never
\* overwrites what another page saved.
THEOREM SlotsStayPrivate == Spec => []SlotsPrivate
<1>1. PagingInv => SlotsPrivate
  BY DEF PagingInv
<1> QED
  BY <1>1, PagingCorrect, PTL

\* access_mem never prints its error: the frame that find_physpage returns
\* records the address that was asked for.
THEOREM AddressesCheck == Spec => []AddressChecks
<1>1. PagingInv => AddressChecks
  BY DEF PagingInv
<1> QED
  BY <1>1, PagingCorrect, PTL

\* PG_ONSWAP is never set: the branch of find_physpage that calls swap_pagein is
\* dead, and so is the one of allocate_frame that counts a clean eviction.
THEOREM NeverMarked == Spec => []NeverOnSwap
<1>1. PagingInv => NeverOnSwap
  BY DEF PagingInv
<1> QED
  BY <1>1, PagingCorrect, PTL

-----------------------------------------------------------------------------
(* The swap file. *)

\* Set bits are slots of pages, and different pages have different ones.
LEMMA SlotOwners ==
  ASSUME PagingInv
  PROVE  /\ \A w \in Swapped : w \in Page /\ pte[w].swap_off \in swapmap
         /\ \A w, x \in Swapped : pte[w].swap_off = pte[x].swap_off => w = x
BY DEF PagingInv, SlotsPrivate, Swapped

\* What EvictionSaves says of a step.
SavedByStep ==
  \A v \in Page : LET s == pte'[v].swap_off IN
    status' = "running" /\ v \notin Resident' /\ (v \in Resident \/ v \in Swapped) =>
      /\ s \in swapmap'
      /\ v \in Resident => swapfile'[s] = physmem[pte[v].frame]
      /\ v \notin Resident => s = pte[v].swap_off /\ swapfile'[s] = swapfile[s]

\* A step without an eviction leaves what is on swap.
LEMMA KeptIsSaved == PagingInv /\ SwapKept => SavedByStep
BY SlotOwners DEF SwapKept, SavedByStep, Swapped

\* An eviction saves its victim and overwrites no other page's slot.
LEMMA ReplaceSaves ==
  ASSUME PagingInv, NEW v \in Page, NEW type \in Type, NEW f \in Frame,
         NEW t, SameButRef(t), Replace(v, t, f, type)
  PROVE  SavedByStep
<1> DEFINE u == coremap[f].pte
           s == SlotOf(t[u])
<1>1. FreeFrames = {}
  BY DEF Replace
<1>2. u \in Page /\ pte[u].frame = f /\ pte[u].valid /\ t[u].swap_off = pte[u].swap_off
  BY <1>1, VictimFacts
<1>3. /\ swapmap' = swapmap \cup {s}
      /\ swapfile' = [swapfile EXCEPT ![s] = physmem[f]]
      /\ s \in Slot
      /\ t[u].swap_off # INVALID_SWAP => s = t[u].swap_off
      /\ t[u].swap_off = INVALID_SWAP => s \notin swapmap
  BY VictimSaved
<1>4. /\ Resident \ {u} \subseteq Resident'
      /\ \A w \in Page : pte'[w].swap_off = IF w = u THEN s ELSE pte[w].swap_off
  BY ReplaceKeeps
<1>5. swapfile \in [Slot -> Contents] /\ swapmap \subseteq Slot
  BY DEF PagingInv, TypeOK
<1> HIDE DEF u, s
<1> SUFFICES ASSUME NEW w \in Page, w \notin Resident', w \in Resident \/ w \in Swapped
             PROVE  /\ pte'[w].swap_off \in swapmap'
                    /\ w \in Resident => swapfile'[pte'[w].swap_off] = physmem[pte[w].frame]
                    /\ w \notin Resident => /\ pte'[w].swap_off = pte[w].swap_off
                                            /\ swapfile'[pte'[w].swap_off] = swapfile[pte'[w].swap_off]
  BY DEF SavedByStep
<1>6. CASE w = u
  <2>1. w \in Resident
    BY <1>2, <1>6 DEF Resident
  <2> QED
    BY <1>2, <1>3, <1>4, <1>5, <1>6, <2>1
<1>7. CASE w # u
  <2>1. w \notin Resident /\ w \in Swapped
    BY <1>4, <1>7
  <2>2. pte'[w].swap_off = pte[w].swap_off /\ pte[w].swap_off \in swapmap
    BY <1>4, <1>7, <2>1, SlotOwners
  <2>3. pte[w].swap_off # s
    <3>1. CASE u \in Swapped
      BY <1>2, <1>3, <1>7, <2>1, <3>1, SlotOwners DEF Swapped
    <3>2. CASE u \notin Swapped
      BY <1>2, <1>3, <2>2, <3>2 DEF Swapped
    <3> QED
      BY <3>1, <3>2
  <2> QED
    BY <1>3, <1>5, <2>1, <2>2, <2>3
<1> QED
  BY <1>6, <1>7

\* swap_pageout saves what the victim held, and no later eviction writes over it
\* while the page is out of memory.
THEOREM EvictionsSave == Spec => EvictionSaves
<1>1. PagingInv /\ [Next]_vars => [SavedByStep]_vars
  <2> SUFFICES ASSUME PagingInv, Next PROVE SavedByStep
    OBVIOUS
  <2>1. ASSUME NEW v \in Page, NEW type \in Type, Hit(v, type) PROVE SavedByStep
    BY <2>1, HitKeeps, KeptIsSaved
  <2>2. ASSUME NEW v \in Page, NEW type \in Type, Fill(v, type) PROVE SavedByStep
    BY <2>2, FillKeeps, KeptIsSaved
  <2>3. ASSUME NEW v \in Page, NEW type \in Type, NEW f \in Frame, NEW R \in SUBSET Resident,
               Evict(v, Unreferenced(Tables(v), R), f, type)
        PROVE  SavedByStep
    <3> DEFINE t == Unreferenced(Tables(v), R)
    <3>1. SameButRef(t)
      BY TablesKept, UnreferencedSame DEF PagingInv, TypeOK
    <3>2. CASE Replace(v, t, f, type)
      BY <3>1, <3>2, ReplaceSaves
    <3>3. CASE SwapExhausted(v, t, f)
      BY <3>3 DEF SwapExhausted, SavedByStep
    <3> QED
      BY <2>3, <3>2, <3>3 DEF Evict
  <2> QED
    BY <2>1, <2>2, <2>3 DEF Next
<1>2. [SavedByStep]_vars <=>
        [\A v \in Page : LET s == pte'[v].swap_off IN
           status' = "running" /\ v \notin Resident' /\ (v \in Resident \/ v \in Swapped) =>
             /\ s \in swapmap'
             /\ v \in Resident => swapfile'[s] = physmem[pte[v].frame]
             /\ v \notin Resident => s = pte[v].swap_off /\ swapfile'[s] = swapfile[s]]_vars
  BY DEF SavedByStep
<1> QED
  BY <1>1, <1>2, PagingCorrect, PTL DEF Spec, EvictionSaves

\* When the last bit is set, as many pages own slots as there are slots.
LEMMA FullSwap ==
  ASSUME PagingInv, FreeSlots = {}
  PROVE  Cardinality(Swapped) = SwapSize
<1> DEFINE g == [w \in Swapped |-> pte[w].swap_off]
<1>1. swapmap = Slot
  BY DEF FreeSlots, PagingInv, TypeOK
<1>2. \A w, x \in Swapped : g[w] = g[x] => w = x
  BY SlotOwners
<1>3. \A r \in Slot : \E w \in Swapped : g[w] = r
  BY <1>1 DEF PagingInv, SlotsPrivate
<1>4. g \in [Swapped -> Slot]
  BY <1>1, SlotOwners
<1> DEFINE h == [r \in Slot |-> CHOOSE w \in Swapped : g[w] = r]
<1>5. \A r \in Slot : h[r] \in Swapped /\ g[h[r]] = r
  BY <1>3
<1> HIDE DEF g, h
<1>6. h \in [Slot -> Swapped]
  BY <1>5 DEF h
<1>7. \A w \in Swapped : h[g[w]] = w
  BY <1>2, <1>4, <1>5
<1>8. h \in Bijection(Slot, Swapped)
  BY <1>4, <1>5, <1>6, <1>7, Fun_IsBij
<1>9. IsFiniteSet(Slot) /\ Cardinality(Slot) = SwapSize
  BY FS_Interval DEF Slot
<1> QED
  BY <1>8, <1>9, FS_Bijection DEF ExistsBijection

\* The simulator exits with every slot owned, and a page in memory without one.
LEMMA GivesUpFull ==
  ASSUME PagingInv, NEW v \in Page, NEW f \in Frame, NEW t, SameButRef(t),
         SwapExhausted(v, t, f)
  PROVE  ExitsWhenSwapIsFull'
<1> DEFINE u == coremap[f].pte
<1>1. /\ FreeFrames = {}
      /\ NoSlot(t[u])
      /\ pte' = [t EXCEPT ![u] = [t[u] EXCEPT !.dirty = FALSE]]
  BY DEF SwapExhausted
<1>2. u \in Page /\ pte[u].valid /\ t[u] \in EntryType /\ t[u].swap_off = pte[u].swap_off
  BY <1>1, VictimFacts
<1> HIDE DEF u
<1> DEFINE e == [t[u] EXCEPT !.dirty = FALSE]
<1>3. e.valid = t[u].valid /\ e.swap_off = t[u].swap_off
  BY <1>2 DEF EntryType
<1> HIDE DEF e
<1>4. \A w \in Page : pte'[w].swap_off = pte[w].swap_off /\ pte'[w].valid = pte[w].valid
  BY <1>1, <1>2, <1>3 DEF SameButRef, e
<1>5. Swapped' = Swapped /\ Resident' = Resident
  BY <1>4 DEF Swapped, Resident
<1>6. FreeSlots = {} /\ u \in Resident /\ u \notin Swapped
  BY <1>1, <1>2 DEF NoSlot, Resident, Swapped
<1>7. Cardinality(Swapped) = SwapSize
  BY <1>6, FullSwap
<1> QED
  BY <1>5, <1>6, <1>7 DEF ExitsWhenSwapIsFull

\* swap_pageout gives up, and allocate_frame exits, only when every slot of the
\* swap file belongs to a page and more pages than that have been referenced.
THEOREM ExitsOnlyWhenFull == Spec => []ExitsWhenSwapIsFull
<1>1. Init => ExitsWhenSwapIsFull
  BY DEF Init, ExitsWhenSwapIsFull
<1>2. PagingInv /\ ExitsWhenSwapIsFull /\ [Next]_vars => ExitsWhenSwapIsFull'
  <2> SUFFICES ASSUME PagingInv, ExitsWhenSwapIsFull, [Next]_vars
               PROVE  ExitsWhenSwapIsFull'
    OBVIOUS
  <2>1. ASSUME NEW v \in Page, NEW type \in Type, Hit(v, type) \/ Fill(v, type)
        PROVE  ExitsWhenSwapIsFull'
    BY <2>1 DEF Hit, Fill, Fault, Reference, ExitsWhenSwapIsFull
  <2>2. ASSUME NEW v \in Page, NEW type \in Type, NEW f \in Frame, NEW R \in SUBSET Resident,
               Evict(v, Unreferenced(Tables(v), R), f, type)
        PROVE  ExitsWhenSwapIsFull'
    <3> DEFINE t == Unreferenced(Tables(v), R)
    <3>1. SameButRef(t)
      BY TablesKept, UnreferencedSame DEF PagingInv, TypeOK
    <3>2. CASE Replace(v, t, f, type)
      BY <3>2 DEF Replace, Fault, Reference, ExitsWhenSwapIsFull
    <3>3. CASE SwapExhausted(v, t, f)
      BY <3>1, <3>3, GivesUpFull
    <3> QED
      BY <2>2, <3>2, <3>3 DEF Evict
  <2>3. CASE UNCHANGED vars
    BY <2>3 DEF vars, ExitsWhenSwapIsFull, Swapped, Resident
  <2> QED
    BY <2>1, <2>2, <2>3 DEF Next
<1> QED
  BY <1>1, <1>2, PagingCorrect, PTL DEF Spec

-----------------------------------------------------------------------------
(* What memory holds, and when it is full. *)

\* A page in memory has a frame of its own, so MemSize pages fit, and they do
\* exactly when no frame is free.
LEMMA MemoryFull ==
  ASSUME PagingInv
  PROVE  /\ FreeFrames = {} => Cardinality(Resident) = MemSize
         /\ FreeFrames # {} => Cardinality(Resident) < MemSize
         /\ IsFiniteSet(Resident)
<1> DEFINE g == [w \in Resident |-> pte[w].frame]
<1>1. \A w \in Resident : w \in Page /\ pte[w].valid
  BY DEF Resident
<1>2. \A w \in Resident : /\ pte[w].frame \in Frame
                          /\ coremap[pte[w].frame].in_use
                          /\ coremap[pte[w].frame].pte = w
  BY <1>1, ResidentInUse DEF PagingInv
<1>3. g \in Injection(Resident, Frame)
  <2>1. g \in [Resident -> Frame]
    BY <1>2
  <2>2. \A w, x \in Resident : g[w] = g[x] => w = x
    BY <1>2
  <2> HIDE DEF g
  <2> QED
    BY <2>1, <2>2, Fun_IsInj
<1>4. IsFiniteSet(Frame) /\ Cardinality(Frame) = MemSize
  BY FS_Interval
<1>5. g \in Surjection(Resident, Frame) <=> FreeFrames = {}
  <2>1. ASSUME FreeFrames = {}, NEW f \in Frame PROVE \E w \in Resident : g[w] = f
    <3>1. coremap[f].in_use
      BY <2>1 DEF FreeFrames
    <3> QED
      BY <3>1 DEF PagingInv, FrameOwnership
  <2>2. ASSUME g \in Surjection(Resident, Frame), NEW f \in Frame PROVE coremap[f].in_use
    <3>1. PICK w \in Resident : g[w] = f
      BY <2>2 DEF Surjection
    <3> QED
      BY <1>2, <3>1
  <2>3. g \in [Resident -> Frame]
    BY <1>2
  <2> HIDE DEF g
  <2>4. FreeFrames = {} => g \in Surjection(Resident, Frame)
    BY <2>1, <2>3, Fun_IsSurj
  <2> QED
    BY <2>2, <2>4 DEF FreeFrames
<1> HIDE DEF g
<1>6. /\ IsFiniteSet(Resident)
      /\ Cardinality(Resident) <= MemSize
      /\ Cardinality(Resident) = MemSize <=> FreeFrames = {}
  BY <1>3, <1>4, <1>5, FS_Injection
<1>7. Cardinality(Resident) \in Nat
  BY <1>6, FS_CardinalityType
<1> QED
  BY <1>6, <1>7

\* The instance counts as FiniteSets does.
LEMMA SameCardinality == Abstract!Cardinality(Resident) = Cardinality(Resident)
BY DEF Abstract!Cardinality, Cardinality, Abstract!IsFiniteSet, IsFiniteSet

\* find_physpage changes one entry of the tables it was given, which is valid
\* when it returns.
LEMMA PlacedResident ==
  ASSUME NEW v \in Page, NEW f \in Frame, NEW t \in [Page -> EntryType], ~ t[v].onswap,
         NEW type, Place(v, t, f, type)
  PROVE  Resident' = {w \in Page : t[w].valid} \cup {v}
<1>1. PICK n \in EntryType, c \in Contents : Placed(v, t, f, n, c)
  BY PlaceResult
<1>2. n.valid /\ pte' = [t EXCEPT ![v] = n]
  BY <1>1 DEF Placed
<1> QED
  BY <1>2 DEF Resident

-----------------------------------------------------------------------------
(* Each action of the simulator is one of demand paging. *)

\* A reference to a page in memory is a hit.
LEMMA HitCounts ==
  ASSUME PagingInv, NEW v \in Page, NEW type \in Type, Hit(v, type)
  PROVE  Abstract!Next
<1>1. Tables(v) = pte
  BY TablesKept DEF PagingInv, TypeOK
<1>2. /\ status = "running" /\ status' = status
      /\ pte[v].valid
      /\ pte' = [pte EXCEPT ![v] = Touched(pte[v], type)]
      /\ count' = [count EXCEPT !.hit = @ + 1, !.ref = @ + 1]
  BY <1>1 DEF Hit, Reference
<1>3. pte \in [Page -> EntryType] /\ count \in CountType
  BY DEF PagingInv, TypeOK, CountType
<1>4. Touched(pte[v], type).valid
  BY <1>3, TouchedKeeps
<1>5. Resident' = Resident /\ v \in Resident
  BY <1>2, <1>3, <1>4 DEF Resident
<1>6. /\ count'.hit = count.hit + 1 /\ count'.miss = count.miss
      /\ count'.evict_clean = count.evict_clean /\ count'.evict_dirty = count.evict_dirty
  BY <1>2, <1>3 DEF CountType
<1>7. Abstract!Hit(v)
  BY <1>2, <1>5, <1>6 DEF Abstract!Hit
<1> QED
  BY <1>2, <1>7 DEF Abstract!Next

\* A miss while a frame is free loads the page and evicts nothing.
LEMMA FillCounts ==
  ASSUME PagingInv, NEW v \in Page, NEW type \in Type, Fill(v, type)
  PROVE  Abstract!Next
<1>1. Tables(v) = pte
  BY TablesKept DEF PagingInv, TypeOK
<1> DEFINE f == Min(FreeFrames)
<1>2. /\ status = "running" /\ status' = status
      /\ ~ pte[v].valid
      /\ FreeFrames # {}
      /\ Place(v, pte, f, type)
      /\ count' = [count EXCEPT !.miss = @ + 1, !.ref = @ + 1]
  BY <1>1 DEF Fill, Fault, Reference
<1>3. f \in Frame
  BY <1>2, MinOfNaturals DEF FreeFrames
<1> HIDE DEF f
<1>4. pte \in [Page -> EntryType] /\ ~ pte[v].onswap /\ count \in CountType
  BY DEF PagingInv, TypeOK, NeverOnSwap, CountType
<1>5. Resident' = Resident \cup {v} /\ v \notin Resident
  BY <1>2, <1>3, <1>4, PlacedResident DEF Resident
<1>6. /\ count'.miss = count.miss + 1 /\ count'.hit = count.hit
      /\ count'.evict_clean = count.evict_clean /\ count'.evict_dirty = count.evict_dirty
  BY <1>2, <1>4 DEF CountType
<1>7. Abstract!Load(v)
  BY <1>2, <1>5, <1>6, MemoryFull, SameCardinality DEF Abstract!Load
<1> QED
  BY <1>2, <1>7 DEF Abstract!Next

\* A miss that finds memory full takes one page out and puts one in.
LEMMA ReplaceCounts ==
  ASSUME PagingInv, NEW v \in Page, NEW type \in Type, NEW f \in Frame,
         NEW t, SameButRef(t), Replace(v, t, f, type)
  PROVE  Abstract!Next
<1> DEFINE u == coremap[f].pte
           e == Evicted(t[u])
           t1 == [t EXCEPT ![u] = e]
<1>1. /\ status = "running" /\ status' = status
      /\ ~ t[v].valid
      /\ FreeFrames = {}
      /\ Place(v, t1, f, type)
      /\ count' = [EvictionCounted(t[u]) EXCEPT !.miss = @ + 1, !.ref = @ + 1]
  BY DEF Replace, Fault, Reference
<1>2. /\ u \in Page /\ pte[u].valid
      /\ t[u] \in EntryType /\ ~ t[u].onswap /\ ~ Clean(t[u])
  BY <1>1, VictimFacts
<1>3. SlotOf(t[u]) \in Slot
  BY VictimSaved
<1> HIDE DEF u
<1>4. e \in EntryType /\ ~ e.valid /\ ~ e.onswap
  <2> DEFINE s == SlotOf(t[u])
  <2>1. e = [t[u] EXCEPT !.valid = FALSE, !.dirty = FALSE, !.swap_off = s]
    BY <1>2 DEF Evicted
  <2> HIDE DEF e, s
  <2>2. s \in Slot
    BY <1>3 DEF s
  <2>3. e \in EntryType
    BY <1>2, <2>1, <2>2 DEF EntryType
  <2>4. e.valid = FALSE /\ e.onswap = t[u].onswap
    BY <1>2, <2>1 DEF EntryType
  <2> QED
    BY <1>2, <2>3, <2>4
<1> HIDE DEF e
<1>5. /\ t \in [Page -> EntryType]
      /\ \A w \in Page : t[w].valid = pte[w].valid /\ t[w].onswap = pte[w].onswap
  BY DEF SameButRef
<1>6. /\ t1 \in [Page -> EntryType]
      /\ \A w \in Page : t1[w] = IF w = u THEN e ELSE t[w]
  BY <1>2, <1>4, <1>5
<1> HIDE DEF t1
<1>7. ~ t1[v].onswap
  BY <1>4, <1>5, <1>6 DEF PagingInv, NeverOnSwap
<1>8. {w \in Page : t1[w].valid} = Resident \ {u}
  BY <1>4, <1>5, <1>6 DEF Resident
<1>9. /\ Resident' = (Resident \ {u}) \cup {v}
      /\ v \notin Resident /\ u \in Resident
  BY <1>1, <1>2, <1>5, <1>6, <1>7, <1>8, PlacedResident DEF Resident
<1>10. /\ count'.miss = count.miss + 1 /\ count'.hit = count.hit
       /\ count'.evict_clean + count'.evict_dirty = count.evict_clean + count.evict_dirty + 1
  <2> DEFINE c == EvictionCounted(t[u])
  <2>1. /\ c \in CountType
        /\ c.hit = count.hit /\ c.miss = count.miss
        /\ c.evict_clean + c.evict_dirty = count.evict_clean + count.evict_dirty + 1
    BY EvictionsAdd DEF PagingInv, TypeOK, CountType
  <2> HIDE DEF c
  <2>2. count' = [c EXCEPT !.miss = c.miss + 1, !.ref = c.ref + 1]
    BY <1>1 DEF c
  <2> QED
    BY <2>1, <2>2 DEF CountType
<1>11. Abstract!Replace(v, u)
  BY <1>1, <1>9, <1>10, MemoryFull, SameCardinality DEF Abstract!Replace
<1> QED
  BY <1>1, <1>9, <1>11 DEF Abstract!Next

\* When swap has no room the victim stays and the simulator stops.
LEMMA ExitCounts ==
  ASSUME PagingInv, NEW v \in Page, NEW f \in Frame, NEW t, SameButRef(t),
         SwapExhausted(v, t, f)
  PROVE  Abstract!Next
<1> DEFINE u == coremap[f].pte
<1>1. /\ status = "running" /\ status' = "exited"
      /\ FreeFrames = {}
      /\ pte' = [t EXCEPT ![u] = [t[u] EXCEPT !.dirty = FALSE]]
      /\ count' = EvictionCounted(t[u])
  BY DEF SwapExhausted, Fault, Reference
<1>2. u \in Page /\ t[u] \in EntryType
  BY <1>1, VictimFacts
<1> HIDE DEF u
<1> DEFINE e == [t[u] EXCEPT !.dirty = FALSE]
<1>3. e.valid = t[u].valid
  BY <1>2 DEF EntryType
<1> HIDE DEF e
<1>4. \A w \in Page : pte'[w].valid = pte[w].valid
  BY <1>1, <1>2, <1>3 DEF SameButRef, e
<1>5. Resident' = Resident
  BY <1>4 DEF Resident
<1>6. /\ count'.hit = count.hit /\ count'.miss = count.miss
      /\ count'.evict_clean + count'.evict_dirty = count.evict_clean + count.evict_dirty + 1
  BY <1>1, EvictionsAdd DEF PagingInv, TypeOK, CountType
<1>7. Abstract!GiveUp
  BY <1>1, <1>5, <1>6, MemoryFull, SameCardinality DEF Abstract!GiveUp
<1> QED
  BY <1>1, <1>7 DEF Abstract!Next

-----------------------------------------------------------------------------
\* Whatever the policy, the counters that sim.c prints are those of demand
\* paging: a page counts as hit exactly when it is in memory, and a victim is
\* taken exactly when memory is full.
THEOREM DemandPagingImplemented == Spec => ImplementsDemandPaging
<1>1. Init => Abstract!Init
  <2> SUFFICES ASSUME Init PROVE Abstract!Init
    OBVIOUS
  <2>1. Resident = {}
    BY DEF Init, Resident, FreshEntry
  <2> QED
    BY <2>1 DEF Init, Abstract!Init
<1>2. PagingInv /\ [Next]_vars => [Abstract!Next]_(Abstract!vars)
  <2> SUFFICES ASSUME PagingInv, [Next]_vars PROVE Abstract!Next \/ UNCHANGED Abstract!vars
    OBVIOUS
  <2>1. ASSUME NEW v \in Page, NEW type \in Type, Hit(v, type) PROVE Abstract!Next
    BY <2>1, HitCounts
  <2>2. ASSUME NEW v \in Page, NEW type \in Type, Fill(v, type) PROVE Abstract!Next
    BY <2>2, FillCounts
  <2>3. ASSUME NEW v \in Page, NEW type \in Type, NEW f \in Frame, NEW R \in SUBSET Resident,
               Evict(v, Unreferenced(Tables(v), R), f, type)
        PROVE  Abstract!Next
    <3>1. SameButRef(Unreferenced(Tables(v), R))
      BY TablesKept, UnreferencedSame DEF PagingInv, TypeOK
    <3> QED
      BY <2>3, <3>1, ReplaceCounts, ExitCounts DEF Evict
  <2>4. CASE UNCHANGED vars
    BY <2>4 DEF vars, Abstract!vars, Resident
  <2> QED
    BY <2>1, <2>2, <2>3, <2>4 DEF Next
<1> QED
  BY <1>1, <1>2, PagingCorrect, PTL DEF Spec, ImplementsDemandPaging, Abstract!Spec
=============================================================================
