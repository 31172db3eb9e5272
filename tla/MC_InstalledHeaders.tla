------------------------ MODULE MC_InstalledHeaders -------------------------
(***************************************************************************)
(* The parts of the library that only installed headers describe.  They    *)
(* share nothing, so one run goes through the states of each, while the    *)
(* others stay as they began.                                              *)
(***************************************************************************)
EXTENDS SpscRing, MemPool, Arena, GenericRingBuffer, RollingWindow, KahanSum, RandomStreams,
        BloomFilter, RoaringBitmap, Sorting, Figures, Transforms

VARIABLE part  \* the one that runs

MC_Times    == {-2, -1, 1}
MC_Sample   == {-1, 0, 2}
MC_Shapes   == {<<1, 1>>, <<1, 4>>, <<2, 2>>}
MC_Summands == {-16, -9, -2, -1, 1, 2, 3, 7, 9, 16}

sequential == <<arenaVars, ringVars, genericVars, rollingVars, welfordVars, momentsVars, kahanVars,
                streamVars, bloomVars, roaringVars, sortingVars, selectionVars, transformVars>>
partVars   == <<part, spscVars, poolVars, sequential>>

PartInit ==
    /\ part \in {"spsc", "pool", "arena", "ring", "generic", "rolling", "welford", "moments", "kahan",
                 "streams", "bloom", "roaring", "sorting", "selection", "transforms"}
    /\ SpscInit /\ PoolInit /\ ArenaInit /\ RingInit /\ GenericInit /\ RollingInit
    /\ WelfordInit /\ MomentsInit /\ KahanInit /\ StreamsInit /\ BloomInit /\ RoaringInit /\ SortingInit
    /\ SelectionInit /\ TransformsInit

Spsc(A) == part = "spsc" /\ A /\ UNCHANGED <<part, poolVars, sequential>>
Pool(A) == part = "pool" /\ A /\ UNCHANGED <<part, spscVars, sequential>>

PartNext ==
    \/ Spsc(SpscNext)
    \/ Pool(PoolNext)
    \/ /\ part \notin {"spsc", "pool"} /\ UNCHANGED <<part, spscVars, poolVars>>
       /\ IF part = "arena"   THEN ArenaNext   ELSE UNCHANGED arenaVars
       /\ IF part = "ring"    THEN RingNext    ELSE UNCHANGED ringVars
       /\ IF part = "generic" THEN GenericNext ELSE UNCHANGED genericVars
       /\ IF part = "rolling" THEN RollingNext ELSE UNCHANGED rollingVars
       /\ IF part = "welford" THEN WelfordNext ELSE UNCHANGED welfordVars
       /\ IF part = "moments" THEN MomentsNext ELSE UNCHANGED momentsVars
       /\ IF part = "kahan"   THEN KahanNext   ELSE UNCHANGED kahanVars
       /\ IF part = "streams" THEN StreamsNext ELSE UNCHANGED streamVars
       /\ IF part = "bloom"   THEN BloomNext   ELSE UNCHANGED bloomVars
       /\ IF part = "roaring" THEN RoaringNext ELSE UNCHANGED roaringVars
       /\ IF part = "sorting" THEN SortingNext ELSE UNCHANGED sortingVars
       /\ IF part = "selection" THEN SelectionNext ELSE UNCHANGED selectionVars
       /\ IF part = "transforms" THEN TransformsNext ELSE UNCHANGED transformVars

\* Only threads that share memory need fairness: a side of the ring that runs goes on
\* with its call, and of the threads of the pool some one does.
PartSpec ==
    /\ PartInit /\ [][PartNext]_partVars
    /\ WF_spscVars(Spsc(Producing)) /\ WF_spscVars(Spsc(Consuming))
    /\ \A s \in Side : WF_spscVars(Spsc(Initialising(s))) /\ WF_spscVars(Spsc(fc_spsc_attach(s)))
    /\ WF_poolVars(Pool(PoolStep))

\* Whatever the other threads and processes do, calls on shared memory come to an end.
CallsReturn == SpscReturns /\ PoolLockFree
=============================================================================
