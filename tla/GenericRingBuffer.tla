------------------------- MODULE GenericRingBuffer --------------------------
(***************************************************************************)
(* The ring buffer of generic_ring_buffer.h as it is compiled by default:  *)
(* the same buffer for elements of any size, which are copied byte by byte *)
(* in and out of an untyped array.  It implements RingBuffer.  A byte is   *)
(* known by the element it belongs to and its place there; 0 stands for    *)
(* the elements of a fresh array.                                          *)
(***************************************************************************)
EXTENDS RingBuffer

CONSTANT ElementSizes  \* in bytes

ASSUME GenericAssumption == ElementSizes \subseteq Nat \ {0}

VARIABLES
    generic,     \* fc_generic_ring_buffer_t, but for data
    bytes,       \* data
    lastPushed,  \* (history) as in RingBuffer
    lastGone     \* (history) as in RingBuffer

genericVars == <<generic, bytes, lastPushed, lastGone>>

NoGeneric == [capacity |-> 0, element_size |-> 0, head |-> 0, count |-> 0]

Element(e, size) == [b \in 0 .. size - 1 |-> <<e, b>>]

\* Where the element of an index begins.
ByteOffset(g, index) == (index % g.capacity) * g.element_size

\* memcpy of one element into the array, and out of it.
CopyIn(g, mem, index, element) ==
    [i \in DOMAIN mem |-> IF i - ByteOffset(g, index) \in 0 .. g.element_size - 1
                          THEN element[i - ByteOffset(g, index)] ELSE mem[i]]

CopyOut(g, mem, index) == [b \in 0 .. g.element_size - 1 |-> mem[ByteOffset(g, index) + b]]

\* The number of the element in a slot; -1 if its bytes are not those of one.
Decoded(slot) ==
    LET element == CopyOut(generic, bytes, slot)
    IN  IF element = Element(element[0][1], generic.element_size) THEN element[0][1] ELSE -1

Typed == INSTANCE RingBuffer WITH
    rb     <- [data |-> IF generic.capacity = 0 THEN <<>>
                        ELSE [i \in 0 .. generic.capacity - 1 |-> Decoded(i)],
               capacity |-> generic.capacity, head |-> generic.head, count |-> generic.count],
    pushed <- lastPushed,
    gone   <- lastGone

GenericInit == generic = NoGeneric /\ bytes = <<>> /\ lastPushed = 0 /\ lastGone = 0

fc_generic_ring_buffer_create ==
    /\ generic.capacity = 0
    /\ \E capacity \in RingSizes, size \in ElementSizes :
          LET rounded == FC_ROUND_UP_TO_POW2(capacity)
          IN  IF rounded = 0 THEN UNCHANGED <<generic, bytes>>
              ELSE /\ generic' = [capacity |-> rounded, element_size |-> size,
                                  head |-> 0, count |-> 0]
                   /\ bytes' = [i \in 0 .. rounded * size - 1 |-> <<0, i % size>>]
    /\ UNCHANGED <<lastPushed, lastGone>>

fc_generic_ring_buffer_destroy ==
    /\ generic.capacity > 0
    /\ generic' = NoGeneric /\ bytes' = <<>> /\ lastGone' = lastPushed
    /\ UNCHANGED lastPushed

\* mutant: a batch longer than the buffer wraps only once
WrapsOnce(n) ==
    /\ generic.capacity > 0
    /\ lastPushed + n <= MaxPushed
    /\ LET g    == generic
           kept == Min({n, g.capacity})
       IN  /\ bytes' = FoldLeft(LAMBDA mem, i :
                                    CopyIn(g, mem, g.head + i - 1, Element(lastPushed + i, g.element_size)),
                                bytes, [i \in 1 .. kept |-> i])
           /\ generic' = [g EXCEPT !.head = (@ + n) % g.capacity, !.count = Min({@ + n, g.capacity})]
    /\ lastPushed' = lastPushed + n
    /\ UNCHANGED lastGone

fc_generic_ring_buffer_push_batch(n) ==
    /\ generic.capacity > 0
    /\ lastPushed + n <= MaxPushed
    /\ LET g == generic
       IN  /\ bytes' = FoldLeft(LAMBDA mem, i :
                                    CopyIn(g, mem, g.head + i - 1, Element(lastPushed + i, g.element_size)),
                                bytes, [i \in 1 .. n |-> i])
           /\ generic' = [g EXCEPT !.head = (@ + n) % g.capacity, !.count = Min({@ + n, g.capacity})]
    /\ lastPushed' = lastPushed + n
    /\ UNCHANGED lastGone

fc_generic_ring_buffer_get(index) ==
    Decoded(generic.head + generic.capacity - generic.count + index)

fc_generic_ring_buffer_pop_batch(n) ==
    /\ generic.count > 0
    /\ lastGone' = Max({lastGone} \cup
                       {fc_generic_ring_buffer_get(i) : i \in 0 .. Min({n, generic.count}) - 1})
    /\ generic' = [generic EXCEPT !.count = @ - Min({n, @})]
    /\ UNCHANGED <<bytes, lastPushed>>

fc_generic_ring_buffer_clear ==
    /\ generic.capacity > 0
    /\ generic' = [generic EXCEPT !.head = 0, !.count = 0] /\ lastGone' = lastPushed
    /\ UNCHANGED <<bytes, lastPushed>>

GenericNext ==
    \/ fc_generic_ring_buffer_create \/ fc_generic_ring_buffer_destroy
    \/ fc_generic_ring_buffer_clear
    \/ \E n \in 1 .. MaxBatch :
          fc_generic_ring_buffer_push_batch(n) \/ fc_generic_ring_buffer_pop_batch(n)

GenericSpec == GenericInit /\ [][GenericNext]_genericVars

----------------------------------------------------------------------------

\* For every element size the copies of bytes do what the assignments of doubles do in
\* the typed buffer: no element is torn, and none is written over part of another.
GenericImplementsRing == Typed!RingSpec
=============================================================================
