------------------------------ MODULE MemPool -------------------------------
(***************************************************************************)
(* The fixed-size pool of mem_pool.h, used by several threads at once: a   *)
(* list of free blocks whose head is moved with the compare-and-swap of    *)
(* platform.h.  A step is one access to memory that threads share.  The    *)
(* header leaves the representation of the head open; here it carries a    *)
(* version that every swap changes, and the mutant without it shows that   *)
(* the block alone is not enough.                                          *)
(***************************************************************************)
EXTENDS Integers, FiniteSets, FiniteSetsExt, SequencesExt

CONSTANTS
    Thread,
    Block,
    null,
    MaxPoolCalls  \* bound: the calls of all threads

\* A pool of no blocks is not created.
ASSUME PoolAssumption ==
    /\ IsFiniteSet(Thread) /\ IsFiniteSet(Block)
    /\ Block # {} /\ null \notin Block
    /\ MaxPoolCalls \in Nat

VARIABLES
    top,    \* the head of the free list
    link,   \* the next free block, kept in the block itself
    stats,  \* the counters of fc_mem_pool_stats_t
    call,   \* what each thread is doing
    held,   \* the blocks each thread's program has
    calls,  \* (history) the calls begun
    ended,  \* (history) the blocks moved and the calls that found none
    most,   \* (history) the largest used_blocks
    reset   \* (history) whether the statistics were ever reset

poolVars == <<top, link, stats, call, held, calls, ended, most, reset>>

PoolHead == [block : Block \cup {null}, version : Nat]
NoCall == [at |-> "idle", seen |-> [block |-> null, version |-> 0], onward |-> null,
         block |-> null, used |-> 0, wants |-> 0, gives |-> {}]

PoolTypeOK ==
    /\ top \in PoolHead /\ link \in [Block -> Block \cup {null}]
    /\ stats \in [used : 0 .. Cardinality(Block), peak : 0 .. Cardinality(Block),
                  alloc_count : Nat, free_count : Nat]
    /\ \A t \in Thread :
          /\ call[t].at \in {"idle", "read", "link", "pop", "count", "peak", "join", "push", "uncount"}
          /\ call[t].seen \in PoolHead /\ call[t].onward \in Block \cup {null}
          /\ call[t].block \in Block \cup {null}
          /\ call[t].used \in 0 .. Cardinality(Block) /\ call[t].wants \in Nat
          /\ call[t].gives \subseteq Block /\ held[t] \subseteq Block

\* All blocks are in the list; in which order makes no difference.
fc_ds_mem_pool_create ==
    LET order == SetToSeq(Block)
        n     == Cardinality(Block)
    IN  /\ top = [block |-> order[1], version |-> 0]
        /\ link = [b \in Block |-> LET i == CHOOSE i \in 1 .. n : order[i] = b
                                   IN  IF i = n THEN null ELSE order[i + 1]]

PoolInit ==
    /\ fc_ds_mem_pool_create
    /\ stats = [used |-> 0, peak |-> 0, alloc_count |-> 0, free_count |-> 0]
    /\ call = [t \in Thread |-> NoCall] /\ held = [t \in Thread |-> {}]
    /\ calls = 0 /\ ended = 0 /\ most = 0 /\ reset = FALSE

\* mutant: on compilers without the builtin, a failure leaves the old value as it is
OldKept(t, new, success, failure) ==
    IF top = call[t].seen THEN top' = new /\ call' = [call EXCEPT ![t] = success]
    ELSE UNCHANGED <<top, call>>

\* A failure puts the head found in the place of the old one.
FC_ATOMIC_CAS(t, new, success, failure) ==
    IF top = call[t].seen THEN top' = new /\ call' = [call EXCEPT ![t] = success]
    ELSE call' = [call EXCEPT ![t] = [failure EXCEPT !.seen = top]] /\ UNCHANGED top

----------------------------------------------------------------------------
(* Allocation of one block, or of as many of a batch as there are.          *)

fc_ds_mem_pool_alloc_batch(t, n) ==
    /\ call[t].at = "idle" /\ calls < MaxPoolCalls
    /\ calls' = calls + 1
    /\ call' = [call EXCEPT ![t].wants = n, ![t].at = "read"]
    /\ UNCHANGED <<top, link, stats, held, ended, most, reset>>

ReadTop(t) ==
    /\ call[t].at = "read"
    /\ call' = [call EXCEPT ![t].seen = top,
                            ![t].at = IF call[t].wants > 0 THEN "link" ELSE "join"]
    /\ UNCHANGED <<top, link, stats, held, calls, ended, most, reset>>

ReadLink(t) ==
    /\ call[t].at = "link"
    /\ IF call[t].seen.block = null
       THEN call' = [call EXCEPT ![t] = NoCall] /\ ended' = ended + 1
       ELSE /\ call' = [call EXCEPT ![t].onward = link[call[t].seen.block], ![t].at = "pop"]
            /\ UNCHANGED ended
    /\ UNCHANGED <<top, link, stats, held, calls, most, reset>>

\* mutant: the head is the block alone
Unversioned(t) ==
    /\ call[t].at = "pop"
    /\ FC_ATOMIC_CAS(t, [block |-> call[t].onward, version |-> 0],
                     [call[t] EXCEPT !.block = call[t].seen.block, !.at = "count"],
                     [call[t] EXCEPT !.at = "link"])
    /\ UNCHANGED <<link, stats, held, calls, ended, most, reset>>

PopTop(t) ==
    /\ call[t].at = "pop"
    /\ FC_ATOMIC_CAS(t, [block |-> call[t].onward, version |-> top.version + 1],
                     [call[t] EXCEPT !.block = call[t].seen.block, !.at = "count"],
                     [call[t] EXCEPT !.at = "link"])
    /\ UNCHANGED <<link, stats, held, calls, ended, most, reset>>

CountAlloc(t) ==
    /\ call[t].at = "count"
    /\ stats' = [stats EXCEPT !.used = @ + 1, !.alloc_count = @ + 1]
    /\ call' = [call EXCEPT ![t].used = stats.used + 1, ![t].at = "peak"]
    /\ most' = Max({most, stats.used + 1})
    /\ UNCHANGED <<top, link, held, calls, ended, reset>>

\* The block is the program's when the call, or its part of a batch, is over.
Hand(t) ==
    /\ call' = [call EXCEPT ![t] = IF @.wants > 1
                                   THEN [NoCall EXCEPT !.wants = call[t].wants - 1, !.at = "read"]
                                   ELSE NoCall]
    /\ held' = [held EXCEPT ![t] = @ \cup {call[t].block}]
    /\ ended' = ended + 1
    /\ UNCHANGED <<top, link, calls, most, reset>>

\* mutant: the peak is compared with what used_blocks is by now
UsedReread(t) ==
    /\ call[t].at = "peak"
    /\ stats' = [stats EXCEPT !.peak = Max({@, stats.used})]
    /\ Hand(t)

RaisePeak(t) ==
    /\ call[t].at = "peak"
    /\ stats' = [stats EXCEPT !.peak = Max({@, call[t].used})]
    /\ Hand(t)

----------------------------------------------------------------------------
(* Freeing one block or a batch, one after the other.                       *)

fc_ds_mem_pool_free_batch(t, blocks) ==
    /\ call[t].at = "idle" /\ calls < MaxPoolCalls
    /\ calls' = calls + 1
    /\ held' = [held EXCEPT ![t] = @ \ blocks]
    /\ call' = [call EXCEPT ![t].gives = blocks, ![t].at = "uncount"]
    /\ UNCHANGED <<top, link, stats, ended, most, reset>>

\* used_blocks goes down before the block is back, and up after one is taken, so that
\* it never exceeds the number of blocks.
CountFree(t) ==
    /\ call[t].at = "uncount"
    /\ stats' = [stats EXCEPT !.used = @ - 1, !.free_count = @ + 1]
    /\ call' = [call EXCEPT ![t].at = "read"]
    /\ UNCHANGED <<top, link, held, calls, ended, most, reset>>

\* The link is written into the block while only this thread has it.
Join(t) ==
    /\ call[t].at = "join"
    /\ \E b \in call[t].gives :
          /\ call[t].block \in {b, null}
          /\ link' = [link EXCEPT ![b] = call[t].seen.block]
          /\ call' = [call EXCEPT ![t].block = b, ![t].at = "push"]
    /\ UNCHANGED <<top, stats, held, calls, ended, most, reset>>

PushTop(t) ==
    /\ call[t].at = "push"
    /\ LET left == call[t].gives \ {call[t].block}
       IN  FC_ATOMIC_CAS(t, [block |-> call[t].block, version |-> top.version + 1],
                         IF left = {} THEN NoCall ELSE [NoCall EXCEPT !.gives = left, !.at = "uncount"],
                         [call[t] EXCEPT !.at = "join"])
    /\ ended' = ended + (IF top = call[t].seen THEN 1 ELSE 0)
    /\ UNCHANGED <<link, stats, held, calls, most, reset>>

fc_ds_mem_pool_reset_stats ==
    /\ ~reset /\ calls < MaxPoolCalls
    /\ stats' = [stats EXCEPT !.peak = 0, !.alloc_count = 0, !.free_count = 0]
    /\ reset' = TRUE
    /\ UNCHANGED <<top, link, call, held, calls, ended, most>>

----------------------------------------------------------------------------

Step(t) ==
    \/ ReadTop(t) \/ ReadLink(t) \/ PopTop(t) \/ CountAlloc(t) \/ RaisePeak(t)
    \/ Join(t) \/ PushTop(t) \/ CountFree(t)

PoolStep == \E t \in Thread : Step(t)

PoolNext ==
    \/ \E t \in Thread, n \in 1 .. 2 : fc_ds_mem_pool_alloc_batch(t, n)
    \/ \E t \in Thread : \E blocks \in (SUBSET held[t]) \ {{}} : fc_ds_mem_pool_free_batch(t, blocks)
    \/ fc_ds_mem_pool_reset_stats
    \/ PoolStep

PoolSpec == PoolInit /\ [][PoolNext]_poolVars

----------------------------------------------------------------------------
(* Properties.                                                              *)

\* The blocks within n links of the head.
FreeWithin[n \in 0 .. Cardinality(Block)] ==
    IF n = 0 THEN {top.block} ELSE FreeWithin[n - 1] \cup {link[b] : b \in FreeWithin[n - 1] \ {null}}

Free == FreeWithin[Cardinality(Block)] \ {null}

\* What a thread has taken out of the list and not handed over, or not yet put back.
InHand(t) ==
    call[t].gives \cup (IF call[t].at \in {"count", "peak"} THEN {call[t].block} ELSE {})

\* Whatever the threads do between the reads and the swap of a call, a block is in one
\* place only and in no thread's twice: none is handed out while another has it,
\* and none is lost.
PoolOneOwner ==
    \A b \in Block :
        (IF b \in Free THEN 1 ELSE 0)
            + Cardinality({t \in Thread : b \in held[t]})
            + Cardinality({t \in Thread : b \in InHand(t)}) = 1

\* Between calls the counters are exact: used_blocks is what the programs have, the
\* peak was neither missed nor overshot, and allocations less frees is the use.
PoolStatsSettle ==
    (\A t \in Thread : call[t].at = "idle") =>
        /\ stats.used = Cardinality(UNION {held[t] : t \in Thread})
        /\ Cardinality(Free) = Cardinality(Block) - stats.used
        /\ ~reset => /\ stats.peak = most
                     /\ stats.alloc_count - stats.free_count = stats.used

\* Lock-free: as long as calls are in progress one after the other comes to an end,
\* whichever threads go on and even if the others have stopped in the middle.
PoolLockFree ==
    []<>(\A t \in Thread : call[t].at = "idle") \/ []<><<ended' > ended>>_ended

\* The pool under all interleavings of its callers: well typed, each block with one owner,
\* and counters that are true whenever nobody is inside.
PoolConsistent == PoolTypeOK /\ PoolOneOwner /\ PoolStatsSettle
=============================================================================
