--------------------------------- MODULE Fifo ---------------------------------
(* The simulator with fifo.c.                                                 *)
EXTENDS History

VARIABLE evict   \* the frame evicted last

fifo_init == evict = -1

\* Variant: the first victim is frame 1.
fifo_evict_Skips == (evict + 2) % MemSize

fifo_evict == (evict + 1) % MemSize

FifoAccess(v, type) ==
  \/ Hit(v, type) /\ UNCHANGED evict
  \/ Fill(v, type) /\ UNCHANGED evict
  \/ Evict(v, Tables(v), fifo_evict, type) /\ evict' = fifo_evict

\* The page that leaves has been in memory the longest.
OldestLeaves ==
  \A v \in Resident \ Resident', w \in Resident : since[pte[v].frame] <= since[pte[w].frame]
=============================================================================
