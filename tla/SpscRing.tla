------------------------------ MODULE SpscRing ------------------------------
(***************************************************************************)
(* The single-producer single-consumer ring of spsc.h in the shared memory *)
(* of spsc_shm.h, laid out as in spsc_layout.h.  A step is one access to   *)
(* the shared memory.  tail and head only grow; the element of sequence    *)
(* number q lies in slot q & (capacity - 1).  Each side keeps a copy of    *)
(* the other's number and reads the shared one only when the copy says     *)
(* that the ring is full (empty).  Slots are written before tail is        *)
(* published with release, and read before head is, so in every execution  *)
(* the accesses can be taken one at a time, in this order, as long as no   *)
(* slot is written while it may be read (SpscNoSlotShared).                *)
(*                                                                         *)
(* A side closes the segment and attaches again as it likes, or dies in    *)
(* the middle of an operation: the segment stays.                          *)
(***************************************************************************)
EXTENDS Integers, Sequences

CONSTANTS
    CapacityArgs,   \* the capacities callers ask for
    SegmentSizes,   \* the sizes of segments they create
    ElemSize,       \* in bytes
    MaxBulk,        \* bound: the elements of one call
    MaxOffered      \* bound: the elements offered

ASSUME SpscAssumption ==
    /\ CapacityArgs \subseteq Nat /\ SegmentSizes \subseteq Nat \ {0}
    /\ ElemSize \in Nat \ {0} /\ MaxBulk \in Nat \ {0} /\ MaxOffered \in Nat

VARIABLES
    segment,  \* the size of the named segment; 0: there is none
    header,   \* cache line 0
    tail,     \* producer line: the number of elements published
    head,     \* consumer line: the number released
    dropped,  \* observer line
    slots,    \* the data region
    pc,       \* where each side is
    cached,   \* q->cached_remote of each side
    xfer,     \* the elements a call asked for, those it moves, those it has moved
    got,      \* elems_out of the consumer
    next,     \* (history) the number of the element the producer offers next
    reply     \* (history) what the last call of each side returned

spscVars == <<segment, header, tail, head, dropped, slots, pc, cached, xfer, got, next, reply>>
shared   == <<segment, header, tail, head, dropped, slots>>

Side  == {"producer", "consumer"}

\* FC_SPSC_BACKPRESSURE_DROP is "drop".  Of FC_SPSC_BACKPRESSURE_SPIN the header says both
\* that a push spins until there is space and that it returns FC_ERR_WOULD_BLOCK: "spin"
\* and "refuse" are the two readings, and a ring has either.
Policies == {"refuse", "spin", "drop"}

NoHdr == [magic |-> FALSE, capacity |-> 0, backpressure |-> "none", ready |-> FALSE]
NoXfer == [asked |-> 0, moves |-> 0, moved |-> 0]

SpscTypeOK ==
    /\ segment \in SegmentSizes \cup {0}
    /\ header \in [magic : BOOLEAN, capacity : CapacityArgs \cup {0},
                   backpressure : Policies \cup {"none"}, ready : BOOLEAN]
    /\ tail \in Nat /\ head \in Nat /\ dropped \in Nat /\ next \in Nat \ {0}
    /\ slots \in [0 .. header.capacity - 1 -> Nat]
    /\ pc \in [Side -> {"away", "created", "header", "sequences", "mapped", "idle",
                        "refresh", "copy", "publish"}]
    /\ cached \in [Side -> Nat]
    /\ xfer \in [Side -> [asked : Nat, moves : Nat, moved : Nat]]
    /\ got \in Seq(Nat)
    /\ reply \in [Side -> {"none", "pending", "ok", "full", "dropped", "empty"}]

SpscInit ==
    /\ segment = 0 /\ header = NoHdr
    /\ tail = 0 /\ head = 0 /\ dropped = 0 /\ slots = <<>>
    /\ pc = [s \in Side |-> "away"] /\ cached = [s \in Side |-> 0]
    /\ xfer = [s \in Side |-> NoXfer] /\ got = <<>>
    /\ next = 1 /\ reply = [s \in Side |-> "none"]

Goto(s, place) == pc' = [pc EXCEPT ![s] = place]

----------------------------------------------------------------------------
(* The layout.                                                              *)

CacheLine    == 64
PageSize     == 4096
ControlBlock == 256

\* The first byte of each field; the data begin on the first page after them.
Offset == [magic |-> 0, capacity |-> 8, flags |-> 16, ready |-> 20,
           tail |-> 64, head |-> 128, dropped |-> 192, highwater |-> 200]

DataOffset == ((ControlBlock + PageSize - 1) \div PageSize) * PageSize

IsPowerOf2(n) == \E k \in 0 .. n - 1 : n = 2 ^ k

\* mutant: the data are taken to begin right behind the control block
UnalignedSize(capacity, size) ==
    IF IsPowerOf2(capacity) /\ size > 0 THEN ControlBlock + capacity * size ELSE 0

fc_spsc_arena_size(capacity, size) ==
    IF IsPowerOf2(capacity) /\ size > 0 THEN DataOffset + capacity * size ELSE 0

----------------------------------------------------------------------------
(* The segment, and its initialisation by the side that created it.         *)

fc_spsc_shm_create(s) ==
    /\ pc[s] = "away"
    /\ segment = 0 /\ segment' \in SegmentSizes
    /\ Goto(s, "created")
    /\ UNCHANGED <<header, tail, head, dropped, slots, cached, xfer, got, next, reply>>

fc_spsc_shm_open(s) ==
    /\ pc[s] = "away"
    /\ segment # 0
    /\ Goto(s, "mapped")
    /\ UNCHANGED <<shared, cached, xfer, got, next, reply>>

\* Anything but a power of two that fits is FC_ERR_INVALID_ARG.
InitHeader(s) ==
    /\ pc[s] = "created"
    /\ \E capacity \in CapacityArgs, backpressure \in Policies :
          LET size == fc_spsc_arena_size(capacity, ElemSize)
          IN  /\ size > 0 /\ segment >= size
              /\ header' = [magic |-> TRUE, capacity |-> capacity,
                            backpressure |-> backpressure, ready |-> FALSE]
              /\ slots' = [i \in 0 .. capacity - 1 |-> 0]
    /\ Goto(s, "header")
    /\ UNCHANGED <<segment, tail, head, dropped, cached, xfer, got, next, reply>>

InitSequences(s) ==
    /\ pc[s] = "header"
    /\ tail' = 0 /\ head' = 0 /\ dropped' = 0
    /\ Goto(s, "sequences")
    /\ UNCHANGED <<segment, header, slots, cached, xfer, got, next, reply>>

SetReady(s) ==
    /\ pc[s] = "sequences"
    /\ header' = [header EXCEPT !.ready = TRUE]
    /\ cached' = [cached EXCEPT ![s] = 0]
    /\ Goto(s, "idle")
    /\ UNCHANGED <<segment, tail, head, dropped, slots, xfer, got, next, reply>>

Remote(s) == IF s = "producer" THEN head ELSE tail

\* Waits for the ready flag; without the magic number it is FC_ERR_INVALID_ARG and
\* the caller may try again.
fc_spsc_attach(s) ==
    /\ pc[s] = "mapped"
    /\ header.magic /\ header.ready
    /\ cached' = [cached EXCEPT ![s] = Remote(s)]
    /\ Goto(s, "idle")
    /\ UNCHANGED <<shared, xfer, got, next, reply>>

Leave(s) ==
    /\ Goto(s, "away")
    /\ cached' = [cached EXCEPT ![s] = 0]
    /\ xfer' = [xfer EXCEPT ![s] = NoXfer]
    /\ got' = IF s = "consumer" THEN <<>> ELSE got
    /\ reply' = [reply EXCEPT ![s] = "none"]
    /\ UNCHANGED <<shared, next>>

fc_spsc_shm_close(s) == pc[s] = "idle" /\ Leave(s)

Dies(s) == pc[s] \in {"refresh", "copy", "publish"} /\ Leave(s)

----------------------------------------------------------------------------
(* Transfers.  A call asks for one element (push, pop) or more (the bulk    *)
(* calls, which move what they can).                                        *)

\* uint64 subtraction: a difference below zero is a huge number.
Wrapped        == 2 ^ 30
Distance(a, b) == IF b <= a THEN a - b ELSE Wrapped + a - b

\* mutant: one slot more than there is
OneSlotMore(remote) == header.capacity + 1 - Distance(tail, remote)

Room(remote) == header.capacity - Distance(tail, remote)

Available(remote) == Distance(remote, head)

Least(a, b) == IF a <= b THEN a ELSE b

Begin(s, n, possible) ==
    /\ xfer' = [xfer EXCEPT ![s] = [asked |-> n, moves |-> IF possible >= n THEN n ELSE 0, moved |-> 0]]
    /\ Goto(s, IF possible >= n THEN "copy" ELSE "refresh")
    /\ got' = IF s = "consumer" THEN <<>> ELSE got
    /\ reply' = [reply EXCEPT ![s] = "pending"]
    /\ UNCHANGED <<shared, cached, next>>

Proceed(s, n) ==
    /\ xfer' = [xfer EXCEPT ![s] = [asked |-> xfer[s].asked, moves |-> n, moved |-> 0]]
    /\ Goto(s, "copy")
    /\ UNCHANGED <<dropped, next, reply>>

Return(s, r) ==
    /\ xfer' = [xfer EXCEPT ![s] = NoXfer]
    /\ reply' = [reply EXCEPT ![s] = r]
    /\ Goto(s, "idle")

\* Steps 1 and 2 of push read only what the producer owns.
fc_spsc_push(n) ==
    /\ pc["producer"] = "idle"
    /\ next + n - 1 <= MaxOffered
    /\ Begin("producer", n, Room(cached["producer"]))

\* mutant: the bulk calls spin as well
BulkSpins == header.backpressure

\* What a full ring does to the call: the bulk calls move what they can, here nothing.
Backpressure == IF xfer["producer"].asked = 1 THEN header.backpressure ELSE "refuse"

OnFull ==
    \/ /\ Backpressure = "drop"
       /\ dropped' = dropped + 1 /\ next' = next + 1
       /\ Return("producer", "dropped")
    \/ /\ Backpressure = "refuse"
       /\ Return("producer", "full") /\ UNCHANGED <<dropped, next>>
    \/ /\ Backpressure = "spin"
       /\ UNCHANGED <<pc, xfer, reply, dropped, next>>

\* mutant: full is decided on the copy of head, not on head
DropsUnrefreshed ==
    /\ pc["producer"] = "refresh"
    /\ cached' = [cached EXCEPT !["producer"] = head]
    /\ LET room == Room(cached["producer"])
       IN  \/ room > 0 /\ Proceed("producer", Least(xfer["producer"].asked, room))
           \/ room <= 0 /\ OnFull
    /\ UNCHANGED <<segment, header, tail, head, slots, got>>

\* Steps 3 and 4: the one read of head, and backpressure on a ring that is full.
RefreshHead ==
    /\ pc["producer"] = "refresh"
    /\ cached' = [cached EXCEPT !["producer"] = head]
    /\ LET room == Room(head)
       IN  \/ room > 0 /\ Proceed("producer", Least(xfer["producer"].asked, room))
           \/ room <= 0 /\ OnFull
    /\ UNCHANGED <<segment, header, tail, head, slots, got>>

Slot(q) == q % header.capacity

Moved(s) ==
    LET x == xfer[s]
    IN  /\ xfer' = [xfer EXCEPT ![s] = [asked |-> x.asked, moves |-> x.moves, moved |-> x.moved + 1]]
        /\ Goto(s, IF x.moved + 1 = x.moves THEN "publish" ELSE "copy")

\* Step 5, for one element.
WriteSlot ==
    /\ pc["producer"] = "copy"
    /\ LET i == xfer["producer"].moved
       IN  slots' = [slots EXCEPT ![Slot(tail + i)] = next + i]
    /\ Moved("producer")
    /\ UNCHANGED <<segment, header, tail, head, dropped, cached, got, next, reply>>

\* Step 6.
PublishTail ==
    /\ pc["producer"] = "publish"
    /\ tail' = tail + xfer["producer"].moves
    /\ next' = next + xfer["producer"].moves
    /\ Return("producer", "ok")
    /\ UNCHANGED <<segment, header, head, dropped, slots, cached, got>>

fc_spsc_pop(n) ==
    /\ pc["consumer"] = "idle"
    /\ Begin("consumer", n, Available(cached["consumer"]))

RefreshTail ==
    /\ pc["consumer"] = "refresh"
    /\ cached' = [cached EXCEPT !["consumer"] = tail]
    /\ \/ Available(tail) > 0 /\ Proceed("consumer", Least(xfer["consumer"].asked, Available(tail)))
       \/ Available(tail) = 0 /\ Return("consumer", "empty") /\ UNCHANGED <<dropped, next>>
    /\ UNCHANGED <<segment, header, tail, head, slots, got>>

ReadSlot ==
    /\ pc["consumer"] = "copy"
    /\ got' = Append(got, slots[Slot(head + xfer["consumer"].moved)])
    /\ Moved("consumer")
    /\ UNCHANGED <<shared, cached, next, reply>>

ReleaseHead ==
    /\ pc["consumer"] = "publish"
    /\ head' = head + xfer["consumer"].moves
    /\ Return("consumer", "ok")
    /\ UNCHANGED <<segment, header, tail, dropped, slots, cached, got, next>>

----------------------------------------------------------------------------

Initialising(s) == InitSequences(s) \/ SetReady(s)
Producing       == RefreshHead \/ WriteSlot \/ PublishTail
Consuming       == RefreshTail \/ ReadSlot \/ ReleaseHead

SpscNext ==
    \/ \E s \in Side :
          \/ fc_spsc_shm_create(s) \/ fc_spsc_shm_open(s) \/ InitHeader(s)
          \/ Initialising(s) \/ fc_spsc_attach(s) \/ fc_spsc_shm_close(s) \/ Dies(s)
    \/ \E n \in 1 .. MaxBulk : fc_spsc_push(n) \/ fc_spsc_pop(n)
    \/ Producing \/ Consuming

SpscSpec == SpscInit /\ [][SpscNext]_spscVars

----------------------------------------------------------------------------
(* Properties.                                                              *)

\* The slots a side is moving elements to or from.
Touched(s) ==
    IF pc[s] \in {"copy", "publish"}
    THEN {Slot((IF s = "producer" THEN tail ELSE head) + i) : i \in 0 .. xfer[s].moves - 1}
    ELSE {}

\* No data race: the producer never writes a slot the consumer is reading or has yet
\* to read, although each decides on an old copy of the other's number, across
\* closing, dying and attaching again.
SpscNoSlotShared ==
    /\ Touched("producer") \cap Touched("consumer") = {}
    /\ \A q \in head .. tail - 1 : Slot(q) \notin Touched("producer")

\* Every slot lies in the segment, whose size the caller took from arena_size.
SpscSlotsMapped ==
    /\ SpscTypeOK
    /\ \A s \in Side :
          pc[s] \in {"idle", "refresh", "copy", "publish"} =>
              DataOffset + header.capacity * ElemSize <= segment

\* What the sides see of the ring: nothing before it is ready, and of the copied
\* elements those a call has returned.
OpenCapacity == IF header.ready THEN header.capacity ELSE 0
Policy       == IF header.ready THEN header.backpressure ELSE "none"
Held         == [i \in 1 .. tail - head |-> slots[Slot(head + i - 1)]]
Taken        == IF reply["consumer"] = "ok" THEN got ELSE <<>>

SpscQueue == INSTANCE BoundedQueue WITH
    capacity <- OpenCapacity, onFull <- Policy, queue <- Held, lost <- dropped, out <- Taken

\* To its two sides the ring is a bounded queue: elements arrive in order and once,
\* "full" and "empty" are answered only of a ring that is full or empty when head
\* or tail is read, and a side that dies loses nothing that was published and
\* takes nothing that it had not released.
SpscImplementsQueue == SpscQueue!QueueSpec

\* A push that spins on a full ring.
Spinning(s) ==
    /\ s = "producer" /\ pc[s] = "refresh"
    /\ header.backpressure = "spin" /\ xfer[s].asked = 1 /\ tail - head = header.capacity

\* "Lock-free wait-free operations": a call returns if its own side keeps running,
\* and an attach to a ring that is being initialised returns.  The only call that waits
\* for the other side is a push that spins, for one element on a ring that is full, and
\* it returns once the consumer has released a slot.
SpscReturns ==
    \A s \in Side :
        (\/ pc[s] \in {"refresh", "copy", "publish"} /\ ~Spinning(s)
         \/ pc[s] = "mapped" /\ header.magic)
            ~> pc[s] \in {"idle", "away"}
=============================================================================
