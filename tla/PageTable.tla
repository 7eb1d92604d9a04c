------------------------------- MODULE PageTable -------------------------------
(***************************************************************************)
(* The memory simulator's demand paging (pagetable.c, swap.c, and          *)
(* access_mem of sim.c).  One step is one line of the trace: access_mem    *)
(* with everything it calls.  The replacement policy is a parameter of the *)
(* actions: the frame its evict_fcn returns, and the page tables after     *)
(* that call.                                                              *)
(***************************************************************************)
EXTENDS Integers, FiniteSets, FiniteSetsExt

CONSTANTS
  Dir,       \* indices into the page directory
  Entry,     \* indices into a second-level table
  MemSize,   \* memsize: frames of simulated memory
  SwapSize,  \* swapsize: pages the swap file can hold
  Type,      \* reference types that occur in the trace
  MaxRefs    \* bound: the length of the trace

INVALID_SWAP == -1

Page  == Dir \X Entry           \* a virtual address, page-aligned as in the traces
Frame == 0 .. MemSize - 1
Slot  == 0 .. SwapSize - 1      \* a swap offset is a slot times SIMPAGESIZE
NoPage == <<>>                  \* a NULL pointer to a page table entry

ASSUME PagingAssumption ==
  /\ NoPage \notin Page
  /\ MemSize \in Nat \ {0}
  /\ SwapSize \in Nat
  /\ Type \subseteq {"I", "L", "S", "M"}
  /\ MaxRefs \in Nat

VARIABLES
  pgdir,     \* the directory entries that are valid
  pte,       \* the page table entries; those of an invalid directory do not exist yet
  coremap,   \* for each frame: in_use and pte, as a page
  physmem,   \* for each frame: the address recorded in it and the version counter
  swapmap,   \* the bits set in the bitmap
  swapfile,  \* for each slot: the frame's contents written there
  count,     \* the event counters
  status     \* "running", or "exited" after exit(1)

vars == <<pgdir, pte, coremap, physmem, swapmap, swapfile, count, status>>

FreshEntry == [frame |-> 0, valid |-> FALSE, dirty |-> FALSE, ref |-> FALSE,
               onswap |-> FALSE, swap_off |-> INVALID_SWAP]
Nothing == [vaddr |-> NoPage, version |-> 0]    \* memory not written yet

Init ==
  /\ pgdir = {}
  /\ pte = [v \in Page |-> FreshEntry]
  /\ coremap = [f \in Frame |-> [in_use |-> FALSE, pte |-> NoPage]]
  /\ physmem = [f \in Frame |-> Nothing]
  /\ swapmap = {}
  /\ swapfile = [s \in Slot |-> Nothing]
  /\ count = [hit |-> 0, miss |-> 0, ref |-> 0, evict_clean |-> 0, evict_dirty |-> 0]
  /\ status = "running"

-----------------------------------------------------------------------------
(* Page tables as a reference to v finds them. *)

\* Variant: a second-level table is allocated on every reference.
Tables_Always(v) == [w \in Page |-> IF w[1] = v[1] THEN FreshEntry ELSE pte[w]]

Tables(v) ==                                            \* init_second_level
  [w \in Page |-> IF w[1] = v[1] /\ v[1] \notin pgdir THEN FreshEntry ELSE pte[w]]

Writes(type) == type \in {"S", "M"}
FreeFrames   == {f \in Frame : ~ coremap[f].in_use}

\* The entry's status bits after any reference.
Touched(e, type) ==
  [e EXCEPT !.valid = TRUE, !.ref = TRUE, !.dirty = @ \/ Writes(type)]

\* access_mem increments the version of what it writes.
Accessed(c, type) == IF Writes(type) THEN [c EXCEPT !.version = @ + 1] ELSE c

Reference(v) ==
  /\ status = "running"
  /\ count.ref < MaxRefs
  /\ pgdir' = pgdir \cup {v[1]}

Hit(v, type) == LET t == Tables(v)  f == t[v].frame IN
  /\ Reference(v)
  /\ t[v].valid
  /\ pte' = [t EXCEPT ![v] = Touched(@, type)]
  /\ physmem' = [physmem EXCEPT ![f] = Accessed(@, type)]
  /\ count' = [count EXCEPT !.hit = @ + 1, !.ref = @ + 1]
  /\ UNCHANGED <<coremap, swapmap, swapfile, status>>

-----------------------------------------------------------------------------
(* A miss.  t is the page tables when allocate_frame returns frame f. *)

\* The rest of find_physpage.  A first reference gets a zeroed frame that
\* records the address (init_frame) and a dirty entry, which keeps its old
\* swap_off.  An entry marked PG_ONSWAP is read from swap, into the frame it
\* had before; swap_pagein's 0 becomes its swap_off.
Place_Unfilled(v, t, f, type) ==          \* variant: init_frame is not called
  /\ coremap' = [coremap EXCEPT ![f] = [in_use |-> TRUE, pte |-> v]]
  /\ physmem' = [physmem EXCEPT ![f] = Accessed(@, type)]
  /\ pte' = [t EXCEPT ![v] = Touched([t[v] EXCEPT !.frame = f, !.dirty = TRUE], type)]

Place_DropsSlot(v, t, f, type) ==         \* variant: the entry is initialised anew
  /\ coremap' = [coremap EXCEPT ![f] = [in_use |-> TRUE, pte |-> v]]
  /\ physmem' = [physmem EXCEPT ![f] = Accessed([vaddr |-> v, version |-> 0], type)]
  /\ pte' = [t EXCEPT ![v] = Touched([FreshEntry EXCEPT !.frame = f, !.dirty = TRUE], type)]

Place(v, t, f, type) ==
  /\ coremap' = [coremap EXCEPT ![f] = [in_use |-> TRUE, pte |-> v]]
  /\ IF t[v].onswap
     THEN /\ physmem' = [physmem EXCEPT ![t[v].frame] = swapfile'[t[v].swap_off],
                                        ![f] = Accessed(@, type)]
          /\ pte' = [t EXCEPT ![v] = Touched([FreshEntry EXCEPT !.frame = f, !.onswap = TRUE,
                                                                !.swap_off = 0], type)]
     ELSE /\ physmem' = [physmem EXCEPT ![f] = Accessed([vaddr |-> v, version |-> 0], type)]
          /\ pte' = [t EXCEPT ![v] = Touched([FreshEntry EXCEPT !.frame = f, !.dirty = TRUE,
                                                                !.swap_off = t[v].swap_off], type)]

Fault(v, t) ==
  /\ Reference(v)
  /\ ~ t[v].valid

\* A frame is free: allocate_frame takes the first.
Fill(v, type) == LET t == Tables(v) IN
  /\ Fault(v, t)
  /\ FreeFrames # {}
  /\ Place(v, t, Min(FreeFrames), type)
  /\ count' = [count EXCEPT !.miss = @ + 1, !.ref = @ + 1]
  /\ UNCHANGED <<swapmap, swapfile, status>>

\* A victim on swap and not written since needs no write.
Clean(e) == e.onswap /\ ~ e.dirty

\* Variant: bitmap_create leaves the bits after the last slot unset.
FreeSlots_Leftover == (0 .. SwapSize) \ swapmap

FreeSlots  == Slot \ swapmap                            \* bitmap_alloc
SlotOf(e)  == IF e.swap_off # INVALID_SWAP THEN e.swap_off ELSE Min(FreeSlots)
NoSlot(e)  == ~ Clean(e) /\ e.swap_off = INVALID_SWAP /\ FreeSlots = {}

\* Variant: without line 59.
Evicted_Forgets(e) == [e EXCEPT !.valid = FALSE, !.dirty = FALSE]

\* Variant: without line 62.
Evicted_StaysValid(e) == [e EXCEPT !.dirty = FALSE, !.swap_off = SlotOf(e)]

\* The victim's entry when it is out of memory.
Evicted(e) ==
  IF Clean(e) THEN [e EXCEPT !.valid = FALSE]
  ELSE [e EXCEPT !.valid = FALSE, !.dirty = FALSE, !.swap_off = SlotOf(e)]

\* Variant: bitmap_alloc does not set the bit.
PageOut_Unmarked(f, e) ==
  /\ swapfile' = [swapfile EXCEPT ![SlotOf(e)] = physmem[f]]
  /\ UNCHANGED swapmap

PageOut(f, e) ==                                        \* swap_pageout
  /\ swapmap' = swapmap \cup {SlotOf(e)}
  /\ swapfile' = [swapfile EXCEPT ![SlotOf(e)] = physmem[f]]

EvictionCounted(e) ==
  IF Clean(e) THEN [count EXCEPT !.evict_clean = @ + 1] ELSE [count EXCEPT !.evict_dirty = @ + 1]

\* No frame is free: evict_fcn, whose effect on the tables is already in t,
\* names the frame to be emptied.
Replace(v, t, f, type) == LET u == coremap[f].pte  e == t[u] IN
  /\ Fault(v, t)
  /\ FreeFrames = {}
  /\ ~ NoSlot(e)
  /\ IF Clean(e) THEN UNCHANGED <<swapmap, swapfile>> ELSE PageOut(f, e)
  /\ Place(v, [t EXCEPT ![u] = Evicted(e)], f, type)
  /\ count' = [EvictionCounted(e) EXCEPT !.miss = @ + 1, !.ref = @ + 1]
  /\ UNCHANGED status

\* The swap file is full: exit(1).
SwapExhausted(v, t, f) == LET u == coremap[f].pte  e == t[u] IN
  /\ Fault(v, t)
  /\ FreeFrames = {}
  /\ NoSlot(e)
  /\ status' = "exited"
  /\ pte' = [t EXCEPT ![u].dirty = FALSE]
  /\ count' = EvictionCounted(e)
  /\ UNCHANGED <<coremap, physmem, swapmap, swapfile>>

Evict(v, t, f, type) == Replace(v, t, f, type) \/ SwapExhausted(v, t, f)

-----------------------------------------------------------------------------
\* The tables after evict_fcn has cleared the reference bits of the pages in R.
Unreferenced(t, R) == [w \in Page |-> IF w \in R THEN [t[w] EXCEPT !.ref = FALSE] ELSE t[w]]

Resident == {v \in Page : pte[v].valid}

\* The simulator with any policy: one that returns a frame and clears at most
\* reference bits of pages in memory.
Next ==
  \E v \in Page, type \in Type :
    \/ Hit(v, type)
    \/ Fill(v, type)
    \/ \E f \in Frame, R \in SUBSET Resident : Evict(v, Unreferenced(Tables(v), R), f, type)

Spec     == Init /\ [][Next]_vars
FairSpec == Spec /\ WF_vars(Next)

-----------------------------------------------------------------------------
(* Properties. *)

EntryType == [frame : Frame, valid : BOOLEAN, dirty : BOOLEAN, ref : BOOLEAN,
              onswap : BOOLEAN, swap_off : Slot \cup {INVALID_SWAP}]
Contents  == [vaddr : Page \cup {NoPage}, version : Nat]

\* Types: in particular every swap offset and every set bit is a slot of the
\* swap file, however often pages are moved out and referenced again.
TypeOK ==
  /\ pgdir \subseteq Dir
  /\ pte \in [Page -> EntryType]
  /\ coremap \in [Frame -> [in_use : BOOLEAN, pte : Page \cup {NoPage}]]
  /\ physmem \in [Frame -> Contents]
  /\ swapmap \subseteq Slot
  /\ swapfile \in [Slot -> Contents]
  /\ count \in [hit : Nat, miss : Nat, ref : Nat, evict_clean : Nat, evict_dirty : Nat]
  /\ status \in {"running", "exited"}

\* The page tables and the coremap, which allocate_frame and find_physpage
\* update apart, are inverse to each other: no frame serves two pages, no page
\* has two frames, and a frame in use has a page.
FrameOwnership ==
  /\ \A v \in Resident : v[1] \in pgdir /\ coremap[pte[v].frame] = [in_use |-> TRUE, pte |-> v]
  /\ \A f \in Frame : coremap[f].in_use =>
       coremap[f].pte \in Resident /\ pte[coremap[f].pte].frame = f

\* Swap slots are private: a bit is set exactly when a page owns the slot, and
\* no two pages own the same one, although slots are never given back and are
\* used again each time their page is evicted.
Swapped == {v \in Page : pte[v].swap_off # INVALID_SWAP}
SlotsPrivate ==
  /\ swapmap = {pte[v].swap_off : v \in Swapped}
  /\ \A v, w \in Swapped : pte[v].swap_off = pte[w].swap_off => v = w

\* The error of sim.c line 55 is never printed: the frame a page is found in
\* records that page's address.
AddressChecks == \A v \in Resident : physmem[pte[v].frame].vaddr = v

\* What a page held when it was evicted is in its slot of the swap file, and
\* stays there, whatever else is paged in and out, until the page comes back.
EvictionSaves ==
  [][\A v \in Page : LET s == pte'[v].swap_off IN
       status' = "running" /\ v \notin Resident' /\ (v \in Resident \/ v \in Swapped) =>
         /\ s \in swapmap'
         /\ v \in Resident => swapfile'[s] = physmem[pte[v].frame]
         /\ v \notin Resident => s = pte[v].swap_off /\ swapfile'[s] = swapfile[s]]_vars

\* The simulator gives up only when it must: SwapSize pages own a slot, and the
\* frames hold at least one page without; a swap file as large as the number
\* of pages in the trace, as README.md recommends, is never exhausted.
ExitsWhenSwapIsFull ==
  status = "exited" => Cardinality(Swapped) = SwapSize /\ ~ (Resident \subseteq Swapped)
=============================================================================
