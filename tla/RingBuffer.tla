----------------------------- MODULE RingBuffer -----------------------------
(***************************************************************************)
(* The ring buffer of ring_buffer.h as it is compiled by default, for one  *)
(* thread: a write position and a count, in an array whose size is a power *)
(* of two so that a position is an index once it is masked.  A push into a *)
(* full buffer overwrites the oldest element.  size_t has SizeBits bits,   *)
(* and the values pushed are numbered.                                     *)
(***************************************************************************)
EXTENDS Integers, Sequences, SequencesExt, FiniteSetsExt

CONSTANTS
    SizeBits,   \* the width of size_t
    RingSizes,  \* the capacities asked for
    MaxBatch,   \* bound: the elements of a batch
    MaxPushed   \* bound: the elements pushed

ASSUME RingAssumption ==
    /\ SizeBits \in Nat \ {0} /\ RingSizes \subseteq 0 .. 2 ^ SizeBits - 1
    /\ MaxBatch \in Nat /\ MaxPushed \in Nat
    \* What arithmetic says of powers of two, named for the proofs.
    /\ \A k \in 0 .. SizeBits : 2 ^ k \in Nat \ {0}
    /\ \A k \in 0 .. SizeBits - 1 :
          /\ 2 ^ k < 2 ^ SizeBits
          /\ \E d \in 1 .. 2 ^ SizeBits : 2 ^ SizeBits = 2 ^ k * d

VARIABLES
    rb,      \* fc_ring_buffer_t, with the capacity 0 when there is none
    pushed,  \* (history) the number of the newest element
    gone     \* (history) the number of the newest that was popped or cleared

ringVars == <<rb, pushed, gone>>

NoRing == [data |-> <<>>, capacity |-> 0, head |-> 0, count |-> 0]

RingTypeOK ==
    /\ rb.capacity \in {0} \cup {2 ^ k : k \in 0 .. SizeBits - 1}
    /\ rb.data \in [0 .. rb.capacity - 1 -> Nat]
    /\ rb.head \in 0 .. Max({0, rb.capacity - 1}) /\ rb.count \in 0 .. rb.capacity
    /\ pushed \in 0 .. MaxPushed /\ gone \in 0 .. pushed

Unsigned(n) == n % 2 ^ SizeBits

\* The bits below the highest one are set, between a decrement and an increment: 0 and
\* what is above the largest power of two come out as 0.
FC_ROUND_UP_TO_POW2(x) ==
    Unsigned(1 + Min({2 ^ k - 1 : k \in 0 .. SizeBits} \cap Unsigned(x - 1) .. 2 ^ SizeBits - 1))

\* mutant: the capacity is what was asked for
Unrounded(capacity) ==
    [data |-> [i \in 0 .. capacity - 1 |-> 0], capacity |-> capacity, head |-> 0, count |-> 0]

fc_ring_buffer_create(capacity) ==
    LET size == FC_ROUND_UP_TO_POW2(capacity)
    IN  IF size = 0 THEN NoRing
        ELSE [data |-> [i \in 0 .. size - 1 |-> 0], capacity |-> size, head |-> 0, count |-> 0]

\* What & (capacity - 1) is for a power of two; the subtractions below may wrap.
Index(r, position) == Unsigned(position) % r.capacity

\* mutant: the count is not capped when the oldest element is overwritten
Uncapped(r, value) ==
    [r EXCEPT !.data[r.head] = value,
              !.head = Index(r, r.head + 1),
              !.count = r.count + 1]

fc_ring_buffer_push(r, value) ==
    [r EXCEPT !.data[r.head] = value,
              !.head = Index(r, r.head + 1),
              !.count = Min({r.count + 1, r.capacity})]

fc_ring_buffer_push_batch(r, values) == FoldLeft(fc_ring_buffer_push, r, values)

fc_ring_buffer_get(r, index) == r.data[Index(r, r.head - r.count + index)]

fc_ring_buffer_get_all(r) == [i \in 1 .. r.count |-> fc_ring_buffer_get(r, i - 1)]

\* The oldest n elements go.
fc_ring_buffer_pop_batch(r, n) == [r EXCEPT !.count = @ - Min({n, @})]

fc_ring_buffer_clear(r) == [r EXCEPT !.head = 0, !.count = 0]

----------------------------------------------------------------------------

RingInit == rb = NoRing /\ pushed = 0 /\ gone = 0

RingCreate ==
    /\ rb.capacity = 0
    /\ \E capacity \in RingSizes : rb' = fc_ring_buffer_create(capacity)
    /\ UNCHANGED <<pushed, gone>>

RingDestroy ==
    /\ rb.capacity > 0
    /\ rb' = NoRing /\ gone' = pushed /\ UNCHANGED pushed

\* Of one element, fc_ring_buffer_push.
RingPush ==
    /\ rb.capacity > 0
    /\ \E n \in 1 .. MaxBatch :
          /\ pushed + n <= MaxPushed
          /\ rb' = fc_ring_buffer_push_batch(rb, [i \in 1 .. n |-> pushed + i])
          /\ pushed' = pushed + n
    /\ UNCHANGED gone

\* What is popped is read with fc_ring_buffer_get.
RingPop ==
    /\ rb.count > 0
    /\ \E n \in 1 .. MaxBatch :
          /\ gone' = Max({gone} \cup {fc_ring_buffer_get(rb, i) : i \in 0 .. Min({n, rb.count}) - 1})
          /\ rb' = fc_ring_buffer_pop_batch(rb, n)
    /\ UNCHANGED pushed

RingClear ==
    /\ rb.capacity > 0
    /\ rb' = fc_ring_buffer_clear(rb) /\ gone' = pushed /\ UNCHANGED pushed

RingNext == RingCreate \/ RingDestroy \/ RingPush \/ RingPop \/ RingClear

RingSpec == RingInit /\ [][RingNext]_ringVars

----------------------------------------------------------------------------
(* Properties.                                                              *)

\* The buffer holds the newest elements, without a gap, oldest first, and as many of
\* those that are not popped or cleared as there is room for, wherever the write
\* position stands and however often the subtractions wrap.
RingHoldsNewest ==
    /\ RingTypeOK
    /\ fc_ring_buffer_get_all(rb) = [i \in 1 .. rb.count |-> pushed - rb.count + i]
    /\ rb.count = Min({rb.capacity, pushed - gone})
=============================================================================
