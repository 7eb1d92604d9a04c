----------------------------- MODULE DemandPaging -----------------------------
(* What the memory simulator counts, whatever its policy: a reference to a    *)
(* resident page is a hit, any other a miss, and a page is evicted when and   *)
(* only when a miss finds memory full.                                        *)
EXTENDS Integers, FiniteSets

CONSTANTS Page, MemSize

VARIABLES
  resident,   \* the pages in memory
  hits, misses, evictions,
  running     \* FALSE once the victim had no place to go

vars == <<resident, hits, misses, evictions, running>>

Init == resident = {} /\ hits = 0 /\ misses = 0 /\ evictions = 0 /\ running = TRUE

Hit(v) ==
  /\ v \in resident
  /\ hits' = hits + 1
  /\ UNCHANGED <<resident, misses, evictions, running>>

Load(v) ==
  /\ v \notin resident
  /\ Cardinality(resident) < MemSize
  /\ resident' = resident \cup {v}
  /\ misses' = misses + 1
  /\ UNCHANGED <<hits, evictions, running>>

Replace(v, u) ==
  /\ v \notin resident
  /\ Cardinality(resident) = MemSize
  /\ u \in resident
  /\ resident' = (resident \ {u}) \cup {v}
  /\ misses' = misses + 1
  /\ evictions' = evictions + 1
  /\ UNCHANGED <<hits, running>>

GiveUp ==
  /\ Cardinality(resident) = MemSize
  /\ evictions' = evictions + 1
  /\ running' = FALSE
  /\ UNCHANGED <<resident, hits, misses>>

Next == running /\ (GiveUp \/ \E v \in Page : Hit(v) \/ Load(v) \/ \E u \in resident : Replace(v, u))

Spec == Init /\ [][Next]_vars
=============================================================================
