---------------------------------- MODULE Opt ---------------------------------
(* The simulator with opt.c: opt_init reads the trace before it is replayed,  *)
(* and opt_evict takes the head of a list of the pages in memory, sorted by   *)
(* next use.  The nodes of the list (struct vaddr) are told apart by address. *)
EXTENDS History, SequencesExt

CONSTANT Traces   \* the trace files: sequences of pages and Banners

Banner  == <<"=">>                \* a line that replay_trace skips
Address == Page \cup {NoPage}     \* what opt_init may record; NoPage: an address of no line

ASSUME TracesAssumption == Traces \subseteq Seq(Page \cup {Banner})

VARIABLES
  trace,             \* the file
  reference_string,  \* for each line, the node recorded
  position,          \* the line opt_ref takes the next reference to be on
  frame_number,      \* for each node its frame, or -1
  occurances,        \* for each node the lines still to come that it was recorded for;
                     \* occurance_head is the first of them
  in_frame,          \* the nodes from coremap_head along next_in_frame
  wild               \* a pointer read from freed memory was overwritten by then

opt_vars == <<trace, reference_string, position, frame_number, occurances, in_frame, wild>>

\* sscanf leaves the address alone on a Banner, which is recorded as another
\* reference to the line before it; on the first line the address is uninitialised.
ReferenceString(t, uninitialised) == [i \in 1 .. Len(t) |->
  LET k == Max({j \in 1 .. i : t[j] # Banner} \cup {0}) IN IF k = 0 THEN uninitialised ELSE t[k]]

vaddr_record(r, a) == {i \in DOMAIN r : r[i] = a}

\* opt_init, or the state no other policy looks at.
opt_init(chosen) ==
  /\ trace \in IF chosen THEN Traces ELSE {<<>>}
  /\ \E a \in IF chosen THEN Address ELSE {NoPage} : reference_string = ReferenceString(trace, a)
  /\ position = 1
  /\ frame_number = [a \in Address |-> -1]
  /\ occurances = [a \in Address |-> vaddr_record(reference_string, a)]
  /\ in_frame = <<>>
  /\ wild = FALSE

\* Node w is not needed again, or later than a, which is.
Later(w, a, occ) == occ[w] = {} \/ Min(occ[w]) > Min(occ[a])

\* Variant: a is compared with the head only.
add_to_coremap_NoWalk(l, a, occ) ==
  IF l = <<>> \/ occ[a] = {} \/ ~ Later(Head(l), a, occ)
  THEN <<a>> \o l ELSE <<Head(l), a>> \o Tail(l)

\* Variant: a page that is not needed again goes to the end.
add_to_coremap_UnusedLast(l, a, occ) ==
  IF l = <<>> THEN <<a>> ELSE IF occ[a] = {} THEN Append(l, a)
  ELSE IF occ[Head(l)] # {} /\ Min(occ[a]) > Min(occ[Head(l)]) THEN <<a>> \o l
  ELSE InsertAt(l, 1 + Min({k \in 1 .. Len(l) : k = Len(l) \/ ~ Later(l[k + 1], a, occ)}), a)

\* a goes behind the head and behind everything after it that is later.
add_to_coremap(l, a, occ) ==
  IF l = <<>> \/ occ[a] = {} \/ (occ[Head(l)] # {} /\ Min(occ[a]) > Min(occ[Head(l)]))
  THEN <<a>> \o l
  ELSE InsertAt(l, 1 + Min({k \in 1 .. Len(l) : k = Len(l) \/ ~ Later(l[k + 1], a, occ)}), a)

Without(l, a) == RemoveAt(l, CHOOSE k \in DOMAIN l : l[k] = a)    \* remove_from_coremap

\* A reference that was given frame f, when the list is l and the frames are fn.
\* Line 104 reads the node it has just freed: the pointer may be overwritten.
opt_ref(l, fn, f) == LET a == reference_string[position] IN
  /\ position' = position + 1
  /\ occurances' = [occurances EXCEPT ![a] = IF @ = {} THEN @ ELSE @ \ {Min(@)}]
  /\ frame_number' = [fn EXCEPT ![a] = IF @ = -1 THEN f ELSE @]
  /\ in_frame' = add_to_coremap(IF fn[a] = -1 THEN l ELSE Without(l, a), a, occurances')
  /\ wild' \in IF occurances[a] = {} THEN {FALSE} ELSE BOOLEAN
  /\ UNCHANGED <<trace, reference_string>>

opt_evict == frame_number[Head(in_frame)]

\* replay_trace, which skips the Banners: what it replays k-th.
Lines == {i \in DOMAIN trace : trace[i] # Banner}
Replayed == [k \in 1 .. Cardinality(Lines) |->
               trace[CHOOSE i \in Lines : Cardinality({j \in Lines : j <= i}) = k]]

\* What the program does with an overwritten pointer is not modelled.
OptAccess(v, type) ==
  /\ ~ wild
  /\ count.ref < Len(Replayed) /\ v = Replayed[count.ref + 1]
  /\ \/ /\ Hit(v, type) \/ Fill(v, type)
        /\ opt_ref(in_frame, frame_number, pte'[v].frame)
     \/ /\ FreeFrames = {}
        /\ Replace(v, Tables(v), opt_evict, type)
        /\ opt_ref(Tail(in_frame), [frame_number EXCEPT ![Head(in_frame)] = -1], pte'[v].frame)
     \/ /\ FreeFrames = {}
        /\ SwapExhausted(v, Tables(v), opt_evict)
        /\ in_frame' = Tail(in_frame)
        /\ frame_number' = [frame_number EXCEPT ![Head(in_frame)] = -1]
        /\ UNCHANGED <<trace, reference_string, position, occurances, wild>>

-----------------------------------------------------------------------------
\* When the trace needs v next, counted in references.
NextUse(v) == Min({i \in count.ref + 1 .. Len(Replayed) : Replayed[i] = v} \cup {Len(Replayed) + 1})

\* The page that leaves is needed no sooner than any that stays.
FarthestLeaves == \A v \in Resident \ Resident', w \in Resident : NextUse(w) <= NextUse(v)

\* The misses that any choice of victims has in the last k references, pages R
\* being in memory before them, at the least.
Least[k \in 0 .. Len(Replayed)] == [R \in SUBSET Page |->
  IF k = 0 THEN 0
  ELSE LET v == Replayed[Len(Replayed) + 1 - k] IN
       IF v \in R THEN Least[k - 1][R]
       ELSE IF Cardinality(R) < MemSize THEN 1 + Least[k - 1][R \cup {v}]
       ELSE 1 + Min({Least[k - 1][(R \ {u}) \cup {v}] : u \in R})]

LeastMisses == Least[Len(Replayed)][{}]
=============================================================================
