--------------------------------- MODULE Rand ---------------------------------
(* The simulator with rand.c: any frame may be the victim.                    *)
EXTENDS PageTable

rand_evict == Frame

RandAccess(v, type) ==
  \/ Hit(v, type)
  \/ Fill(v, type)
  \/ \E f \in rand_evict : Evict(v, Tables(v), f, type)
=============================================================================
