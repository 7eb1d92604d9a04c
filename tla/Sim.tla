---------------------------------- MODULE Sim ---------------------------------
(* The simulator as main of sim.c puts it together: the policy named on the   *)
(* command line replaces pages for the whole trace.                           *)
EXTENDS Rand, Fifo, Clock, Lru, Opt

VARIABLE evict_fcn   \* the policy's entry in algs

sim_vars == <<vars, history_vars, evict, clock_vars, list, opt_vars, evict_fcn>>

algs == {"rand", "lru", "fifo", "clock", "opt"}

\* main calls the chosen policy's init; nothing reads what the others keep.
SimInit ==
  /\ evict_fcn \in algs
  /\ Init
  /\ HistoryInit
  /\ fifo_init
  /\ clock_init
  /\ lru_init
  /\ opt_init(evict_fcn = "opt")

Access(v, type) ==
  \/ evict_fcn = "rand" /\ RandAccess(v, type) /\ UNCHANGED <<evict, clock_vars, list, opt_vars>>
  \/ evict_fcn = "lru" /\ LruAccess(v, type) /\ UNCHANGED <<evict, clock_vars, opt_vars>>
  \/ evict_fcn = "fifo" /\ FifoAccess(v, type) /\ UNCHANGED <<clock_vars, list, opt_vars>>
  \/ evict_fcn = "clock" /\ ClockAccess(v, type) /\ UNCHANGED <<evict, list, opt_vars>>
  \/ evict_fcn = "opt" /\ OptAccess(v, type) /\ UNCHANGED <<evict, clock_vars, list>>

SimNext ==                                              \* replay_trace
  /\ \E v \in Page, type \in Type : Access(v, type) /\ Recorded(v)
  /\ UNCHANGED evict_fcn

SimSpec == SimInit /\ [][SimNext]_sim_vars

-----------------------------------------------------------------------------
(* Properties. *)

\* First in, first out, although fifo.c only counts frames and never looks when
\* they were filled (lines 20-23).
EvictsOldest == [][evict_fcn = "fifo" => OldestLeaves]_sim_vars

\* A second chance: find_physpage sets the reference bits on its paths,
\* clock_evict (lines 24-33) clears them, and page tables keep them in between.
SecondChance == [][evict_fcn = "clock" => UnusedLeaves]_sim_vars

\* Five cases of pointer surgery in lru_ref (lines 44-80) and two in lru_evict
\* keep the list the order of last reference, the first frame's link to itself
\* notwithstanding.
ListIsRecency == evict_fcn = "lru" /\ status = "running" => ListInOrder

\* The head of that list is the victim (line 24), found through the page table.
EvictsLeastRecent == [][evict_fcn = "lru" => LeastRecentLeaves]_sim_vars

\* The trace names no line that replay_trace skips: fastslim.py writes none.
Plain == Banner \notin {trace[i] : i \in DOMAIN trace}

\* The page opt_evict takes from the head of its list (line 48) is the one needed
\* last, though the list is sorted by insertion only and the next uses were
\* recorded before the first reference, as long as the trace is Plain.
EvictsFarthest == [][evict_fcn = "opt" /\ Plain => FarthestLeaves]_sim_vars

\* opt.c line 43: "the optimal (aka MIN) algorithm".  At the end of a Plain trace
\* no other choice of victims would have missed less often.
MissesLeast ==
  evict_fcn = "opt" /\ Plain /\ status = "running" /\ count.ref = Len(trace) =>
    count.miss = LeastMisses

\* Whatever the policy, its steps are steps of the simulator with some policy:
\* the frame it returns is a frame, and it changes no more than reference bits.
AnyPolicy == Spec
=============================================================================
