--------------------------- MODULE RandomStreams ----------------------------
(***************************************************************************)
(* The generators of xoshiro256.h, set up for parallel computation as its  *)
(* examples do: a master is copied to every node and long-jumped, and each *)
(* node's generator is copied to every thread and jumped.  The states of   *)
(* the generator form one cycle; a state is its position there, and the    *)
(* value drawn at a position is the position itself.  The distances of the *)
(* header, 2^128 and 2^192 on a cycle of 2^256 - 1, are scaled down.       *)
(***************************************************************************)
EXTENDS Integers, FiniteSets

CONSTANTS
    Period,        \* the length of the cycle
    JumpDistance,
    LongJumpDistance,
    NodeCount,     \* nodes and threads are numbered from 0
    ThreadCount,
    Batches        \* the sizes of the batches drawn

ASSUME StreamsAssumption ==
    /\ {Period, JumpDistance, LongJumpDistance, NodeCount, ThreadCount} \cup Batches \subseteq Nat \ {0}
    /\ ThreadCount * JumpDistance <= LongJumpDistance
    /\ NodeCount * LongJumpDistance <= Period

VARIABLES
    master,     \* rng_master
    nodeRng,    \* rng_node: of the nodes set up so far
    threadRng,  \* rng_thread of each node: of the threads set up so far
    drawn,      \* (history) the positions each thread has drawn from
    taken       \* (history) how many values it drew

streamVars == <<master, nodeRng, threadRng, drawn, taken>>

Position == 0 .. Period - 1
NodeId   == 0 .. NodeCount - 1
StreamId == NodeId \X (0 .. ThreadCount - 1)
NotSetUp == -1

StreamsTypeOK ==
    /\ master \in Position \cup {NotSetUp}
    /\ nodeRng \in [NodeId -> Position \cup {NotSetUp}]
    /\ threadRng \in [StreamId -> Position \cup {NotSetUp}]
    /\ drawn \in [StreamId -> SUBSET Position] /\ taken \in [StreamId -> 0 .. JumpDistance]

StreamsInit ==
    /\ master = NotSetUp
    /\ nodeRng = [n \in NodeId |-> NotSetUp]
    /\ threadRng = [s \in StreamId |-> NotSetUp]
    /\ drawn = [s \in StreamId |-> {}] /\ taken = [s \in StreamId |-> 0]

\* Any seed will do: SplitMix64 never leaves the state at zero.
fc_xoshiro256_init ==
    /\ master = NotSetUp
    /\ master' \in {0, Period \div 2, Period - 1}
    /\ UNCHANGED <<nodeRng, threadRng, drawn, taken>>

Advanced(state, n) == (state + n) % Period

fc_xoshiro256_jump(state) == Advanced(state, JumpDistance)

\* mutant: the polynomial of the short jump
ShortPolynomial(state) == Advanced(state, JumpDistance)

fc_xoshiro256_long_jump(state) == Advanced(state, LongJumpDistance)

\* The node's own generator goes on from its copy with the threads.
SetUpNode(n) ==
    /\ master # NotSetUp
    /\ nodeRng[n] = NotSetUp /\ \A m \in 0 .. n - 1 : nodeRng[m] # NotSetUp
    /\ nodeRng' = [nodeRng EXCEPT ![n] = master]
    /\ master' = fc_xoshiro256_long_jump(master)
    /\ UNCHANGED <<threadRng, drawn, taken>>

SetUpThread(n, t) ==
    /\ nodeRng[n] # NotSetUp
    /\ threadRng[<<n, t>>] = NotSetUp /\ \A u \in 0 .. t - 1 : threadRng[<<n, u>>] # NotSetUp
    /\ threadRng' = [threadRng EXCEPT ![<<n, t>>] = nodeRng[n]]
    /\ nodeRng' = [nodeRng EXCEPT ![n] = fc_xoshiro256_jump(nodeRng[n])]
    /\ UNCHANGED <<master, drawn, taken>>

\* One value, fc_xoshiro256_next, is a batch of one.
fc_xoshiro256_batch(state, n) ==
    [values |-> {Advanced(state, i) : i \in 0 .. n - 1}, state |-> Advanced(state, n)]

\* Nobody can draw as many values as a jump skips.
Draw(s) ==
    /\ threadRng[s] # NotSetUp
    /\ \E n \in Batches :
          LET batch == fc_xoshiro256_batch(threadRng[s], n)
          IN  /\ taken[s] + n <= JumpDistance
              /\ drawn' = [drawn EXCEPT ![s] = @ \cup batch.values]
              /\ taken' = [taken EXCEPT ![s] = @ + n]
              /\ threadRng' = [threadRng EXCEPT ![s] = batch.state]
    /\ UNCHANGED <<master, nodeRng>>

StreamsNext ==
    \/ fc_xoshiro256_init
    \/ \E n \in NodeId : SetUpNode(n)
    \/ \E n \in NodeId, t \in 0 .. ThreadCount - 1 : SetUpThread(n, t)
    \/ \E s \in StreamId : Draw(s)

StreamsSpec == StreamsInit /\ [][StreamsNext]_streamVars

----------------------------------------------------------------------------
(* Properties.                                                              *)

\* No value of the cycle is drawn twice, by two threads or by one in two batches, in
\* whatever order nodes and threads are set up while others draw already.
StreamsApart ==
    /\ StreamsTypeOK
    /\ \A r, s \in StreamId : r = s \/ drawn[r] \cap drawn[s] = {}
    /\ \A s \in StreamId : Cardinality(drawn[s]) = taken[s]
=============================================================================
