-------------------------------- MODULE Paging --------------------------------
(* The simulator with any policy implements DemandPaging, and what a comment  *)
(* of pagetable.c says that the code does not do.                             *)
EXTENDS PageTable

\* Every policy sees hits, misses and evictions counted as they happen: the
\* counters of find_physpage and allocate_frame against the set of valid
\* entries.
Abstract == INSTANCE DemandPaging WITH
  Page      <- Page,
  MemSize   <- MemSize,
  resident  <- Resident,
  hits      <- count.hit,
  misses    <- count.miss,
  evictions <- count.evict_clean + count.evict_dirty,
  running   <- status = "running"
ImplementsDemandPaging == Abstract!Spec

\* pagetable.c lines 146-147: an invalid page on swap "should be allocated and
\* filled by reading the page data from swap".
SwapIsReadBack ==
  [][\A v \in Swapped : v \notin Resident /\ v \in Resident' =>
       \E type \in Type : physmem'[pte'[v].frame] = Accessed(swapfile[pte[v].swap_off], type)]_vars
=============================================================================
