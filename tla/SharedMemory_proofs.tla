------------------------ MODULE SharedMemory_proofs ------------------------
(***************************************************************************)
(* Proofs about the two structures that sides work on at the same time.    *)
(* The ring of SpscRing, for every capacity, element size and number of    *)
(* elements: no slot is shared, and it implements a bounded queue.  The    *)
(* pool of MemPool, for any numbers of threads and blocks: the list behind *)
(* the head is a chain without repetition, and each block is in it, in a   *)
(* program's possession or in one call, because a swap succeeds only on    *)
(* the very head that was read; and the counters settle to the truth.      *)
(***************************************************************************)
EXTENDS SpscRing, MemPool, SequenceTheorems, FiniteSetTheorems, WellFoundedInduction, TLAPS

----------------------------------------------------------------------------
(* The ring.                                                                *)

Starting == {"created", "header", "sequences"}
Working  == {"idle", "refresh", "copy", "publish"}
Moving   == {"copy", "publish"}

----------------------------------------------------------------------------
(* The strengthening.                                                       *)

\* One side initialises, and no side works before that is done.
Phases ==
    /\ segment = 0 => header.capacity = 0 /\ \A s \in Side : pc[s] = "away"
    /\ \A s \in Side : pc[s] \in Starting =>
          ~ header.ready /\ \A r \in Side \ {s} : pc[r] \in {"away", "mapped"}
    /\ \A s \in Side : pc[s] \in Working => header.ready
    /\ \A s \in Side : pc[s] \in {"header", "sequences"} => header.capacity > 0
    /\ header.ready => header.capacity > 0
    /\ header.capacity > 0 => DataOffset + header.capacity * ElemSize <= segment

\* The copies are old, but on the safe side: what the producer has published and is
\* about to publish fits the head it has seen, and what the consumer is about to
\* release is below the tail it has seen.
Window ==
    /\ head <= tail
    /\ pc["producer"] \in Working =>
          cached["producer"] <= head /\ tail <= cached["producer"] + header.capacity
    /\ pc["consumer"] \in Working => head <= cached["consumer"] /\ cached["consumer"] <= tail
    /\ tail <= head + header.capacity
    /\ pc["producer"] \in Moving =>
          tail + xfer["producer"].moves <= cached["producer"] + header.capacity
    /\ pc["consumer"] \in Moving => head + xfer["consumer"].moves <= cached["consumer"]
    /\ ~ header.ready => tail = 0 /\ head = 0

\* What a call still has to move.
Calls ==
    /\ \A s \in Side :
          /\ pc[s] = "refresh" => xfer[s].asked > 0
          /\ pc[s] \in Moving => xfer[s].moves > 0 /\ xfer[s].moved <= xfer[s].moves
          /\ pc[s] = "copy" => xfer[s].moved < xfer[s].moves
          /\ pc[s] = "publish" => xfer[s].moved = xfer[s].moves

SpscInv == SpscTypeOK /\ Phases /\ Window /\ Calls

\* What is in the slots the producer has written, what the consumer has read, and who
\* waits for an answer.
Contents ==
    /\ pc["producer"] \in Moving =>
          \A i \in 0 .. xfer["producer"].moved - 1 : slots[Slot(tail + i)] = next + i
    /\ pc["consumer"] \in Moving =>
          /\ Len(got) = xfer["consumer"].moved
          /\ \A i \in 1 .. xfer["consumer"].moved : got[i] = slots[Slot(head + i - 1)]
    /\ pc["consumer"] = "refresh" => got = <<>>
    /\ \A s \in Side : pc[s] \in {"refresh", "copy", "publish"} => reply[s] = "pending"
    /\ ~ header.ready => dropped = 0

\* The parts of the records, one fact each.
LEMMA Fields ==
    ASSUME SpscTypeOK
    PROVE  /\ header.capacity \in Nat
           /\ \A s \in Side : xfer[s].asked \in Nat /\ xfer[s].moves \in Nat /\ xfer[s].moved \in Nat
           /\ \A s \in Side : cached[s] \in Nat
<1>1. header.capacity \in CapacityArgs \cup {0}
  BY DEF SpscTypeOK
<1>2. \A c \in CapacityArgs : c \in Nat
  BY SpscAssumption
<1>4. header.capacity \in Nat
  BY <1>1, <1>2
<1>3. \A s \in Side : xfer[s] \in [asked : Nat, moves : Nat, moved : Nat]
  BY DEF SpscTypeOK
<1> QED BY <1>3, <1>4 DEF SpscTypeOK

\* A side that is attached works on a ring of at least one slot.
LEMMA WorkingOpen ==
    ASSUME SpscInv, NEW s \in Side, pc[s] \in Working
    PROVE  header.ready /\ header.capacity \in Nat \ {0}
<1>1. header.ready
  BY DEF SpscInv, Phases
<1>2. header.capacity > 0
  BY <1>1 DEF SpscInv, Phases
<1> QED BY <1>1, <1>2, Fields DEF SpscInv

----------------------------------------------------------------------------
(* The index invariant, one lemma per action.                              *)

LEMMA Inv_Init ==
    SpscInit => SpscInv
<1> SUFFICES ASSUME SpscInit PROVE SpscInv
  OBVIOUS
<1> USE SpscAssumption DEF SpscInit, Side
<1>1. SpscTypeOK BY DEF SpscTypeOK, NoXfer, NoHdr
<1>2. Phases BY DEF NoHdr, Phases, Starting, Working
<1>3. Window BY DEF NoHdr, Window, Working, Moving
<1>4. Calls BY DEF Calls, Moving
<1> QED BY <1>1, <1>2, <1>3, <1>4 DEF SpscInv

LEMMA Inv_fc_spsc_shm_create ==
    ASSUME NEW s \in Side, SpscInv, fc_spsc_shm_create(s) PROVE SpscInv'
<1> USE SpscAssumption DEF SpscAssumption, SpscInv, fc_spsc_shm_create, Goto, Side
<1>1. SpscTypeOK' BY DEF SpscTypeOK, NoXfer, NoHdr, Phases, Window, Working, Moving, Starting
<1>2. Phases' BY DEF SpscTypeOK, Phases, Starting, Working
<1>4. Calls' BY DEF SpscTypeOK, Calls, NoXfer, Phases, Window, Working, Moving, Starting
<1>3. Window' BY DEF SpscTypeOK, NoXfer, Phases, Window, Working, Moving, Starting
<1> QED BY <1>1, <1>2, <1>3, <1>4

LEMMA Inv_fc_spsc_shm_open ==
    ASSUME NEW s \in Side, SpscInv, fc_spsc_shm_open(s) PROVE SpscInv'
<1> USE SpscAssumption DEF SpscInv, fc_spsc_shm_open, Goto, shared, Side
<1>1. SpscTypeOK' BY DEF SpscTypeOK, NoXfer, NoHdr, Phases, Window, Working, Moving, Starting
<1>2. Phases' BY DEF SpscTypeOK, Phases, Starting, Working
<1>3. Window' BY Fields DEF SpscTypeOK, Phases, Window, Working, Moving, Starting
<1>4. Calls' BY DEF SpscTypeOK, NoXfer, Calls, Working, Moving, Starting
<1> QED BY <1>1, <1>2, <1>3, <1>4

LEMMA Inv_InitHeader ==
    ASSUME NEW s \in Side, SpscInv, InitHeader(s) PROVE SpscInv'
<1> USE SpscAssumption DEF SpscAssumption, SpscInv, InitHeader, Goto, Side, Policies
<1>1. SpscTypeOK' BY DEF SpscTypeOK, NoXfer, NoHdr, Phases, Window, Working, Moving, Starting
<1>2. Phases'
  <2>1. PICK capacity \in CapacityArgs, backpressure \in Policies :
          LET size == fc_spsc_arena_size(capacity, ElemSize)
          IN  /\ size > 0 /\ segment >= size
              /\ header' = [magic |-> TRUE, capacity |-> capacity,
                            backpressure |-> backpressure, ready |-> FALSE]
    OBVIOUS
  <2>2. IsPowerOf2(capacity)
    BY <2>1 DEF fc_spsc_arena_size
  <2>3. capacity > 0
    BY <2>2 DEF IsPowerOf2
  <2>4. DataOffset + capacity * ElemSize <= segment
    BY <2>1, <2>2, <2>3 DEF fc_spsc_arena_size, SpscTypeOK
  <2> QED BY <2>1, <2>3, <2>4 DEF SpscTypeOK, Phases, Starting, Working
<1>4. Calls' BY DEF SpscTypeOK, Calls, NoXfer, Phases, Window, Working, Moving, Starting
<1>3. Window' BY DEF SpscTypeOK, NoXfer, Phases, Window, Working, Moving, Starting
<1> QED BY <1>1, <1>2, <1>3, <1>4

LEMMA Inv_InitSequences ==
    ASSUME NEW s \in Side, SpscInv, InitSequences(s) PROVE SpscInv'
<1> USE SpscAssumption DEF SpscInv, InitSequences, Goto, Side
<1>1. SpscTypeOK' BY DEF SpscTypeOK, NoXfer, NoHdr, Phases, Window, Working, Moving, Starting
<1>2. Phases' BY DEF SpscTypeOK, Phases, Starting, Working
<1>3. Window' BY Fields DEF SpscTypeOK, Phases, Window, Working, Moving, Starting
<1>4. Calls' BY DEF SpscTypeOK, NoXfer, Calls, Working, Moving, Starting
<1> QED BY <1>1, <1>2, <1>3, <1>4

LEMMA Inv_SetReady ==
    ASSUME NEW s \in Side, SpscInv, SetReady(s) PROVE SpscInv'
<1> USE SpscAssumption DEF SpscInv, SetReady, Goto, Side
<1>1. SpscTypeOK' BY DEF SpscTypeOK, NoXfer, NoHdr, Phases, Window, Working, Moving, Starting
<1>2. Phases' BY DEF SpscTypeOK, Phases, Starting, Working
<1>3. Window' BY Fields DEF SpscTypeOK, Phases, Window, Working, Moving, Starting
<1>4. Calls' BY DEF SpscTypeOK, NoXfer, Calls, Working, Moving, Starting
<1> QED BY <1>1, <1>2, <1>3, <1>4

LEMMA Inv_fc_spsc_attach ==
    ASSUME NEW s \in Side, SpscInv, fc_spsc_attach(s) PROVE SpscInv'
<1> USE SpscAssumption DEF SpscInv, fc_spsc_attach, Goto, shared, Remote, Side
<1>1. SpscTypeOK' BY DEF SpscTypeOK, NoXfer, NoHdr, Phases, Window, Working, Moving, Starting
<1>2. Phases' BY DEF SpscTypeOK, Phases, Starting, Working
<1>3. Window' BY DEF SpscTypeOK, NoXfer, Phases, Window, Working, Moving, Starting
<1>4. Calls' BY DEF SpscTypeOK, NoXfer, Calls, Working, Moving, Starting
<1> QED BY <1>1, <1>2, <1>3, <1>4

LEMMA Inv_fc_spsc_shm_close ==
    ASSUME NEW s \in Side, SpscInv, fc_spsc_shm_close(s) PROVE SpscInv'
<1> USE SpscAssumption DEF SpscInv, fc_spsc_shm_close, Goto, Leave, shared, Side
<1>1. SpscTypeOK' BY DEF SpscTypeOK, NoXfer, NoHdr, Phases, Window, Working, Moving, Starting
<1>2. Phases' BY DEF SpscTypeOK, Phases, Starting, Working
<1>3. Window' BY Fields DEF SpscTypeOK, Phases, Window, Working, Moving, Starting
<1>4. Calls' BY DEF SpscTypeOK, NoXfer, Calls, Working, Moving, Starting
<1> QED BY <1>1, <1>2, <1>3, <1>4

LEMMA Inv_Dies ==
    ASSUME NEW s \in Side, SpscInv, Dies(s) PROVE SpscInv'
<1> USE SpscAssumption DEF SpscInv, Dies, Goto, Leave, shared, Side
<1>1. SpscTypeOK' BY DEF SpscTypeOK, NoXfer, NoHdr, Phases, Window, Working, Moving, Starting
<1>2. Phases' BY DEF SpscTypeOK, Phases, Starting, Working
<1>3. Window' BY Fields DEF SpscTypeOK, Phases, Window, Working, Moving, Starting
<1>4. Calls' BY DEF SpscTypeOK, NoXfer, Calls, Working, Moving, Starting
<1> QED BY <1>1, <1>2, <1>3, <1>4

LEMMA Inv_fc_spsc_push ==
    ASSUME NEW n \in 1 .. MaxBulk, SpscInv, fc_spsc_push(n) PROVE SpscInv'
<1> USE SpscAssumption DEF SpscAssumption, SpscInv, fc_spsc_push, Goto, Side, Begin, shared
<1>1. SpscTypeOK' BY DEF SpscTypeOK, NoXfer, NoHdr, Phases, Window, Working, Moving, Starting
<1>2. Phases' BY DEF SpscTypeOK, Phases, Starting, Working
<1>4. Calls' BY Fields DEF SpscTypeOK, Calls, Working, Moving, NoXfer
<1>3. Window'
  <2>1. /\ header.capacity \in Nat /\ tail \in Nat /\ cached["producer"] \in Nat
        /\ cached["producer"] <= tail
    BY Fields DEF SpscTypeOK, Window, Working
  <2>2. Room(cached["producer"]) = header.capacity - (tail - cached["producer"])
    BY <2>1 DEF Room, Distance
  <2>3. CASE Room(cached["producer"]) >= n
    BY <2>1, <2>2, <2>3 DEF SpscTypeOK, Window, Working, Moving, Starting
  <2>4. CASE ~ Room(cached["producer"]) >= n
    BY <2>1, <2>2, <2>4 DEF SpscTypeOK, Window, Working, Moving, Starting
  <2> QED BY <2>3, <2>4
<1> QED BY <1>1, <1>2, <1>3, <1>4

LEMMA Inv_RefreshHead ==
    ASSUME SpscInv, RefreshHead PROVE SpscInv'
<1> USE SpscAssumption DEF SpscAssumption, SpscInv, RefreshHead, Goto, Side
<1> DEFINE asked == xfer["producer"].asked
           room  == Room(head)
<1>1. /\ header.ready /\ header.capacity \in Nat \ {0} /\ tail \in Nat /\ head \in Nat
      /\ asked \in Nat \ {0} /\ room = header.capacity - (tail - head)
  <2>1. header.ready /\ header.capacity \in Nat \ {0}
    BY WorkingOpen DEF Working
  <2>2. tail \in Nat /\ head \in Nat /\ head <= tail
    BY DEF SpscTypeOK, Window
  <2>3. asked \in Nat \ {0}
    BY Fields DEF Calls
  <2> QED BY <2>1, <2>2, <2>3 DEF Room, Distance
<1>2. CASE room > 0 /\ Proceed("producer", Least(asked, room))
  <2>1. Least(asked, room) \in Nat \ {0} /\ Least(asked, room) <= room
    BY <1>1, <1>2 DEF Least
  <2> HIDE DEF asked, room
  <2>2. SpscTypeOK' BY <1>1, <1>2, <2>1 DEF SpscTypeOK, Proceed, Phases
  <2>3. Phases' BY <1>2 DEF Proceed, SpscTypeOK, Phases, Starting, Working
  <2>5. Calls' BY <1>1, <1>2, <2>1, Fields, SMTT(30) DEF Proceed, SpscTypeOK, Calls, Moving
  <2>4. Window'
    <3>1. /\ pc'["producer"] = "copy" /\ pc'["consumer"] = pc["consumer"] /\ pc["producer"] = "refresh"
          /\ cached'["producer"] = head
          /\ xfer'["producer"].moves = Least(asked, room) /\ xfer'["producer"].moved = 0
          /\ xfer'["consumer"] = xfer["consumer"] /\ cached'["consumer"] = cached["consumer"]
          /\ UNCHANGED <<head, tail, header>>
      BY <1>2 DEF Proceed, SpscTypeOK
    <3> QED BY <1>1, <2>1, <3>1, Fields, SMTT(30) DEF SpscTypeOK, Window, Working, Moving
  <2> QED BY <2>2, <2>3, <2>4, <2>5
<1>3. CASE (\E r \in {"full", "dropped"} : Return("producer", r)) /\ dropped' \in Nat /\ next' \in Nat \ {0}
  <2> HIDE DEF asked, room
  <2>2. SpscTypeOK' BY <1>1, <1>3, SMTT(30) DEF SpscTypeOK, Return, NoXfer
  <2>3. Phases' BY <1>3 DEF Return, SpscTypeOK, Phases, Starting, Working
  <2>5. Calls' BY <1>1, <1>3 DEF Return, NoXfer, SpscTypeOK, Calls, Window, Phases, Working, Moving, Starting
  <2>4. Window' BY <1>1, <1>3 DEF Return, NoXfer, SpscTypeOK, Window, Phases, Working, Moving, Starting
  <2> QED BY <2>2, <2>3, <2>4, <2>5
<1>4. CASE UNCHANGED <<pc, xfer, reply, dropped, next>>
  <2> HIDE DEF asked, room
  <2>1. SpscTypeOK' BY <1>1, <1>4 DEF SpscTypeOK
  <2>2. Phases' BY <1>4 DEF SpscTypeOK, Phases, Starting, Working
  <2>3. Calls' BY <1>4 DEF Calls, Moving
  <2>4. Window' BY <1>1, <1>4 DEF SpscTypeOK, Window, Working, Moving
  <2> QED BY <2>1, <2>2, <2>3, <2>4
<1>5. \/ room > 0 /\ Proceed("producer", Least(asked, room))
      \/ (\E r \in {"full", "dropped"} : Return("producer", r)) /\ dropped' \in Nat /\ next' \in Nat \ {0}
      \/ UNCHANGED <<pc, xfer, reply, dropped, next>>
  <2>1. dropped \in Nat /\ next \in Nat \ {0}
    BY DEF SpscTypeOK
  <2> HIDE DEF SpscInv
  <2> QED BY <2>1, RefreshHead DEF OnFull
<1> HIDE DEF SpscInv, RefreshHead, asked, room
<1> QED BY <1>2, <1>3, <1>4, <1>5

LEMMA Inv_WriteSlot ==
    ASSUME SpscInv, WriteSlot PROVE SpscInv'
<1> USE SpscAssumption DEF SpscAssumption, SpscInv, WriteSlot, Goto, Side, Moved
<1>1. SpscTypeOK'
  <2>1. slots' \in [0 .. header.capacity - 1 -> Nat]
    <3>1. next + xfer["producer"].moved \in Nat
      BY Fields DEF SpscTypeOK
    <3> QED BY <3>1 DEF SpscTypeOK
  <2>2. xfer' \in [Side -> [asked : Nat, moves : Nat, moved : Nat]]
    BY Fields DEF SpscTypeOK
  <2> QED BY <2>1, <2>2 DEF SpscTypeOK
<1>2. Phases' BY DEF SpscTypeOK, Phases, Starting, Working
<1>4. Calls' BY DEF SpscTypeOK, Calls, NoXfer, Phases, Window, Working, Moving, Starting
<1>3. Window' BY DEF SpscTypeOK, NoXfer, Phases, Window, Working, Moving, Starting
<1> QED BY <1>1, <1>2, <1>3, <1>4

LEMMA Inv_PublishTail ==
    ASSUME SpscInv, PublishTail PROVE SpscInv'
<1> USE SpscAssumption DEF SpscAssumption, SpscInv, PublishTail, Goto, Side, Return
<1>1. SpscTypeOK' BY DEF SpscTypeOK, NoXfer, NoHdr, Phases, Window, Working, Moving, Starting
<1>2. Phases' BY DEF SpscTypeOK, Phases, Starting, Working
<1>4. Calls' BY Fields DEF SpscTypeOK, Calls, Working, Moving, NoXfer
<1>3. Window'
  <2>1. xfer["producer"].moves \in Nat /\ tail' = tail + xfer["producer"].moves /\ tail \in Nat /\ header.ready
    BY Fields DEF SpscTypeOK, Phases, Working
  <2>2. tail' <= cached["producer"] + header.capacity /\ cached["producer"] <= head
    BY <2>1 DEF Window, Calls, Moving, Working
  <2> QED BY <2>1, <2>2, Fields, SMTT(30) DEF SpscTypeOK, Window, Calls, NoXfer, Working, Moving, Starting
<1> QED BY <1>1, <1>2, <1>3, <1>4

LEMMA Inv_fc_spsc_pop ==
    ASSUME NEW n \in 1 .. MaxBulk, SpscInv, fc_spsc_pop(n) PROVE SpscInv'
<1> USE SpscAssumption DEF SpscInv, fc_spsc_pop, Goto, Begin, shared, Available, Distance, Side
<1>1. SpscTypeOK' BY DEF SpscTypeOK, NoXfer, NoHdr, Phases, Window, Working, Moving, Starting
<1>2. Phases' BY DEF SpscTypeOK, Phases, Starting, Working
<1>3. Window' BY Fields DEF SpscTypeOK, Phases, Window, Working, Moving, Starting
<1>4. Calls' BY DEF SpscTypeOK, NoXfer, Calls, Working, Moving, Starting
<1> QED BY <1>1, <1>2, <1>3, <1>4

LEMMA Inv_RefreshTail ==
    ASSUME SpscInv, RefreshTail PROVE SpscInv'
<1> USE SpscAssumption DEF SpscAssumption, SpscInv, RefreshTail, Goto, Side
<1> DEFINE asked == xfer["consumer"].asked
<1>1. /\ header.ready /\ tail \in Nat /\ head \in Nat
      /\ asked \in Nat \ {0} /\ Available(tail) = tail - head
  <2>1. header.ready
    BY WorkingOpen DEF Working
  <2>2. tail \in Nat /\ head \in Nat /\ head <= tail
    BY DEF SpscTypeOK, Window
  <2>3. asked \in Nat \ {0}
    BY Fields DEF Calls
  <2> QED BY <2>1, <2>2, <2>3 DEF Available, Distance
<1>2. CASE Available(tail) > 0 /\ Proceed("consumer", Least(asked, Available(tail)))
  <2>1. Least(asked, Available(tail)) \in Nat \ {0} /\ Least(asked, Available(tail)) <= tail - head
    BY <1>1, <1>2 DEF Least
  <2> HIDE DEF asked
  <2>2. SpscTypeOK' BY <1>1, <1>2, <2>1 DEF SpscTypeOK, Proceed, Phases
  <2>3. Phases' BY <1>2 DEF Proceed, SpscTypeOK, Phases, Starting, Working
  <2>5. Calls' BY <1>1, <1>2, <2>1, Fields DEF Proceed, SpscTypeOK, Calls, Moving
  <2>4. Window'
    <3>1. /\ pc'["consumer"] = "copy" /\ pc'["producer"] = pc["producer"] /\ pc["consumer"] = "refresh"
          /\ cached'["consumer"] = tail
          /\ xfer'["consumer"].moves = Least(asked, Available(tail)) /\ xfer'["consumer"].moved = 0
          /\ xfer'["producer"] = xfer["producer"] /\ cached'["producer"] = cached["producer"]
          /\ UNCHANGED <<head, tail, header>>
      BY <1>2 DEF Proceed, SpscTypeOK
    <3> QED BY <1>1, <2>1, <3>1, Fields DEF SpscTypeOK, Window, Working, Moving
  <2> QED BY <2>2, <2>3, <2>4, <2>5
<1>3. CASE Return("consumer", "empty") /\ UNCHANGED <<dropped, next>>
  <2> HIDE DEF asked
  <2>2. SpscTypeOK' BY <1>1, <1>3, SMTT(30) DEF SpscTypeOK, Return, NoXfer
  <2>3. Phases' BY <1>3 DEF Return, SpscTypeOK, Phases, Starting, Working
  <2>5. Calls' BY <1>1, <1>3 DEF Return, NoXfer, SpscTypeOK, Calls, Window, Phases, Working, Moving, Starting
  <2>4. Window' BY <1>1, <1>3 DEF Return, NoXfer, SpscTypeOK, Window, Phases, Working, Moving, Starting
  <2> QED BY <2>2, <2>3, <2>4, <2>5
<1> QED BY <1>2, <1>3

LEMMA Inv_ReadSlot ==
    ASSUME SpscInv, ReadSlot PROVE SpscInv'
<1> USE SpscAssumption DEF SpscAssumption, SpscInv, ReadSlot, Goto, Side, Moved, shared
<1>1. SpscTypeOK'
  <2>1. got' \in Seq(Nat)
    <3>1. header.capacity \in Nat \ {0} /\ head + xfer["consumer"].moved \in Nat
      <4>1. header.capacity \in Nat \ {0}
        BY WorkingOpen DEF Working
      <4> QED BY <4>1, Fields DEF SpscTypeOK
    <3>2. Slot(head + xfer["consumer"].moved) \in 0 .. header.capacity - 1
      BY <3>1 DEF Slot
    <3>3. slots[Slot(head + xfer["consumer"].moved)] \in Nat
      BY <3>2 DEF SpscTypeOK
    <3> QED BY <3>3 DEF SpscTypeOK
  <2>2. xfer' \in [Side -> [asked : Nat, moves : Nat, moved : Nat]]
    BY Fields DEF SpscTypeOK
  <2> QED BY <2>1, <2>2 DEF SpscTypeOK
<1>2. Phases' BY DEF SpscTypeOK, Phases, Starting, Working
<1>4. Calls' BY DEF SpscTypeOK, Calls, NoXfer, Phases, Window, Working, Moving, Starting
<1>3. Window' BY DEF SpscTypeOK, NoXfer, Phases, Window, Working, Moving, Starting
<1> QED BY <1>1, <1>2, <1>3, <1>4

LEMMA Inv_ReleaseHead ==
    ASSUME SpscInv, ReleaseHead PROVE SpscInv'
<1> USE SpscAssumption DEF SpscAssumption, SpscInv, ReleaseHead, Goto, Side, Return
<1>1. SpscTypeOK' BY DEF SpscTypeOK, NoXfer, NoHdr, Phases, Window, Working, Moving, Starting
<1>2. Phases' BY DEF SpscTypeOK, Phases, Starting, Working
<1>4. Calls' BY Fields DEF SpscTypeOK, Calls, Working, Moving, NoXfer
<1>3. Window'
  <2>1. xfer["consumer"].moves \in Nat /\ head' = head + xfer["consumer"].moves /\ head \in Nat /\ header.ready
    BY Fields DEF SpscTypeOK, Phases, Working
  <2>2. head' <= cached["consumer"] /\ cached["consumer"] <= tail
    BY <2>1 DEF Window, Calls, Moving, Working
  <2> QED BY <2>1, <2>2, Fields, SMTT(30) DEF SpscTypeOK, Window, Calls, NoXfer, Working, Moving, Starting
<1> QED BY <1>1, <1>2, <1>3, <1>4

LEMMA Inv_Unchanged ==
    ASSUME SpscInv, UNCHANGED spscVars PROVE SpscInv'
BY DEF SpscInv, spscVars, SpscTypeOK, Phases, Window, Calls

LEMMA Inv_Next ==
    SpscInv /\ [SpscNext]_spscVars => SpscInv'
<1> SUFFICES ASSUME SpscInv, [SpscNext]_spscVars PROVE SpscInv'
  OBVIOUS
<1>1. CASE \E s \in Side :
          \/ fc_spsc_shm_create(s) \/ fc_spsc_shm_open(s) \/ InitHeader(s)
          \/ Initialising(s) \/ fc_spsc_attach(s) \/ fc_spsc_shm_close(s) \/ Dies(s)
  BY <1>1, Inv_fc_spsc_shm_create, Inv_fc_spsc_shm_open, Inv_InitHeader, Inv_InitSequences,
     Inv_SetReady, Inv_fc_spsc_attach, Inv_fc_spsc_shm_close, Inv_Dies DEF Initialising
<1>2. CASE \E n \in 1 .. MaxBulk : fc_spsc_push(n) \/ fc_spsc_pop(n)
  BY <1>2, Inv_fc_spsc_push, Inv_fc_spsc_pop
<1>3. CASE Producing
  BY <1>3, Inv_RefreshHead, Inv_WriteSlot, Inv_PublishTail DEF Producing
<1>4. CASE Consuming
  BY <1>4, Inv_RefreshTail, Inv_ReadSlot, Inv_ReleaseHead DEF Consuming
<1>5. CASE UNCHANGED spscVars
  BY <1>5, Inv_Unchanged
<1> QED BY <1>1, <1>2, <1>3, <1>4, <1>5 DEF SpscNext

\* What TLC checks of the types, and where the two sides stand to each other, holds for
\* every capacity, element size and number of elements.
THEOREM Invariant ==
    SpscSpec => []SpscInv
<1>1. SpscInit => SpscInv
  BY Inv_Init
<1>2. SpscInv /\ [SpscNext]_spscVars => SpscInv'
  BY Inv_Next
<1> QED BY <1>1, <1>2, PTL DEF SpscSpec

----------------------------------------------------------------------------
(* The slots.                                                               *)

\* spsc.h has the caller take the size of the segment from fc_spsc_arena_size: then every
\* slot of a ring that is in use lies in the segment.
THEOREM SlotsMapped ==
    SpscSpec => []SpscSlotsMapped
<1>1. SpscInv => SpscSlotsMapped
  <2> SUFFICES ASSUME SpscInv, NEW s \in Side, pc[s] \in Working
               PROVE  DataOffset + header.capacity * ElemSize <= segment
    BY DEF SpscSlotsMapped, Working, SpscInv
  <2>1. header.capacity > 0
    BY WorkingOpen
  <2> QED BY <2>1 DEF SpscInv, Phases
<1> QED BY <1>1, Invariant, PTL

\* Two numbers less than a capacity apart lie in different slots.
LEMMA SlotsApart ==
    ASSUME NEW a \in Nat, NEW b \in Nat, NEW c \in Nat \ {0}, a < b, b < a + c
    PROVE  a % c # b % c
<1> SUFFICES ASSUME a % c = b % c PROVE FALSE
  OBVIOUS
<1> DEFINE k == (b \div c) - (a \div c)
<1>1. a = (c * (a \div c)) + (a % c) /\ b = (c * (b \div c)) + (b % c) /\ (a \div c) \in Int /\ (b \div c) \in Int
  OBVIOUS
<1>2. b - a = c * k /\ k \in Int
  BY <1>1
<1> HIDE DEF k
<1>3. k >= 1 BY <1>2
<1>4. c * k >= c BY <1>3, <1>2
<1> QED BY <1>2, <1>4

\* The numbers of the slots the producer is writing are above, and less than a
\* capacity above, every number that is published and not released.
LEMMA Ahead ==
    ASSUME SpscInv, pc["producer"] \in Moving, NEW q \in head .. tail - 1,
           NEW i \in 0 .. xfer["producer"].moves - 1
    PROVE  Slot(q) # Slot(tail + i)
<1>1. header.capacity \in Nat \ {0}
  BY WorkingOpen DEF Moving, Working, Side
<1>2. head \in Nat /\ tail \in Nat /\ cached["producer"] \in Nat /\ xfer["producer"].moves \in Nat
  BY Fields DEF SpscInv, SpscTypeOK, Side
<1>3. /\ tail + xfer["producer"].moves <= cached["producer"] + header.capacity
      /\ cached["producer"] <= head
  BY DEF SpscInv, Window, Moving, Working
<1>4. q \in Nat /\ tail + i \in Nat /\ q < tail + i /\ tail + i < q + header.capacity
  BY <1>1, <1>2, <1>3
<1> QED BY <1>1, <1>4, SlotsApart DEF Slot

\* The producer never writes a slot the consumer reads or has yet to read, although each
\* side decides on an old copy of the other's number.
THEOREM NoSlotShared ==
    SpscSpec => []SpscNoSlotShared
<1>1. SpscInv => SpscNoSlotShared
  <2> SUFFICES ASSUME SpscInv PROVE SpscNoSlotShared
    OBVIOUS
  <2>1. ASSUME NEW q \in head .. tail - 1, Slot(q) \in Touched("producer") PROVE FALSE
    <3>1. PICK i \in 0 .. xfer["producer"].moves - 1 : Slot(q) = Slot(tail + i)
      BY <2>1 DEF Touched
    <3>2. pc["producer"] \in Moving
      BY <2>1 DEF Touched, Moving
    <3> QED BY <3>1, <3>2, Ahead
  <2>2. ASSUME NEW x, x \in Touched("consumer") PROVE \E q \in head .. tail - 1 : x = Slot(q)
    <3>1. pc["consumer"] \in Moving
      BY <2>2 DEF Touched, Moving
    <3>2. PICK j \in 0 .. xfer["consumer"].moves - 1 : x = Slot(head + j)
      BY <2>2 DEF Touched
    <3>3. /\ head \in Nat /\ tail \in Nat /\ cached["consumer"] \in Nat
          /\ xfer["consumer"].moves \in Nat
      BY Fields DEF SpscInv, SpscTypeOK, Side
    <3>4. head + xfer["consumer"].moves <= cached["consumer"] /\ cached["consumer"] <= tail
      BY <3>1 DEF SpscInv, Window, Moving, Working
    <3>5. head + j \in head .. tail - 1
      BY <3>3, <3>4
    <3> QED BY <3>2, <3>5
  <2> QED BY <2>1, <2>2 DEF SpscNoSlotShared
<1> QED BY <1>1, Invariant, PTL

----------------------------------------------------------------------------
(* Sequences.                                                               *)

\* A function on 1 .. n is a sequence of that length.
LEMMA SequenceOf ==
    ASSUME NEW n \in Nat, NEW f \in [1 .. n -> Nat]
    PROVE  f \in Seq(Nat) /\ Len(f) = n
<1>1. f \in Seq(Nat)
  BY SeqDef
<1>2. DOMAIN f = 1 .. Len(f) /\ Len(f) \in Nat
  BY <1>1, LenProperties
<1>3. 1 .. Len(f) = 1 .. n
  BY <1>2
<1>4. Len(f) = n
  BY <1>2, <1>3
<1> QED BY <1>1, <1>4

LEMMA NothingHeld ==
    ASSUME NEW f \in [1 .. 0 -> Nat]
    PROVE  f = <<>>
BY SequenceOf, EmptySeq

LEMMA Concatenation ==
    ASSUME NEW d \in Nat, NEW n \in Nat, NEW e \in [1 .. d -> Nat], NEW g \in [1 .. n -> Nat],
           NEW f \in [1 .. d + n -> Nat],
           \A i \in 1 .. d : f[i] = e[i], \A i \in 1 .. n : f[d + i] = g[i]
    PROVE  f = e \o g
<1>1. /\ e \in Seq(Nat) /\ Len(e) = d /\ g \in Seq(Nat) /\ Len(g) = n
      /\ f \in Seq(Nat) /\ Len(f) = d + n
  <2>1. d + n \in Nat
    OBVIOUS
  <2> QED BY <2>1, SequenceOf
<1>2. /\ e \o g \in Seq(Nat) /\ Len(e \o g) = Len(e) + Len(g)
      /\ \A i \in 1 .. Len(e) + Len(g) : (e \o g)[i] = IF i <= Len(e) THEN e[i] ELSE g[i - Len(e)]
  BY <1>1, ConcatProperties
<1>3. ASSUME NEW i \in 1 .. d + n PROVE f[i] = (e \o g)[i]
  <2>1. CASE i <= d
    BY <1>1, <1>2, <2>1
  <2>2. CASE i > d
    <3>1. i - d \in 1 .. n /\ d + (i - d) = i
      BY <2>2
    <3>2. f[i] = g[i - d]
      BY <3>1
    <3> QED BY <1>1, <1>2, <2>2, <3>2
  <2> QED BY <2>1, <2>2
<1> QED BY <1>1, <1>2, <1>3, SeqEqual

LEMMA FirstPart ==
    ASSUME NEW d \in Nat, NEW n \in 0 .. d, NEW e \in [1 .. d -> Nat],
           NEW g \in Seq(Nat), Len(g) = n, \A i \in 1 .. n : g[i] = e[i]
    PROVE  g = SubSeq(e, 1, n)
<1>1. /\ SubSeq(e, 1, n) \in Seq(Nat) /\ Len(SubSeq(e, 1, n)) = IF 1 <= n THEN n - 1 + 1 ELSE 0
      /\ \A i \in 1 .. n - 1 + 1 : SubSeq(e, 1, n)[i] = e[1 + i - 1]
  <2>1. \A i \in 1 .. n : e[i] \in Nat
    OBVIOUS
  <2> QED BY <2>1, SubSeqProperties
<1>2. Len(SubSeq(e, 1, n)) = n /\ \A i \in 1 .. n : SubSeq(e, 1, n)[i] = e[i]
  BY <1>1
<1> QED BY <1>1, <1>2, SeqEqual

LEMMA LastPart ==
    ASSUME NEW d \in Nat, NEW n \in 0 .. d, NEW e \in [1 .. d -> Nat],
           NEW f \in [1 .. d - n -> Nat], \A i \in 1 .. d - n : f[i] = e[n + i]
    PROVE  f = SubSeq(e, n + 1, d)
<1>1. /\ SubSeq(e, n + 1, d) \in Seq(Nat)
      /\ Len(SubSeq(e, n + 1, d)) = IF n + 1 <= d THEN d - (n + 1) + 1 ELSE 0
      /\ \A i \in 1 .. d - (n + 1) + 1 : SubSeq(e, n + 1, d)[i] = e[(n + 1) + i - 1]
  <2>1. \A i \in n + 1 .. d : e[i] \in Nat
    OBVIOUS
  <2> QED BY <2>1, SubSeqProperties
<1>2. /\ Len(SubSeq(e, n + 1, d)) = d - n
      /\ \A i \in 1 .. d - n : SubSeq(e, n + 1, d)[i] = e[n + i]
  BY <1>1
<1>3. f \in Seq(Nat) /\ Len(f) = d - n
  <2>1. PICK k \in Nat : k = d - n
    OBVIOUS
  <2>2. f \in [1 .. k -> Nat]
    BY <2>1
  <2>3. f \in Seq(Nat) /\ Len(f) = k
    BY ONLY k \in Nat, <2>2, SequenceOf
  <2> QED BY <2>1, <2>3
<1> QED BY <1>1, <1>2, <1>3, SeqEqual

----------------------------------------------------------------------------
(* The contents, one lemma per action that can disturb them.                *)

LEMMA Contents_Init ==
    SpscInit => Contents
BY DEF SpscInit, Contents, Moving, NoHdr, Side

LEMMA Contents_Segment ==
    ASSUME NEW s \in Side, SpscInv, Contents,
           \/ fc_spsc_shm_create(s) \/ fc_spsc_shm_open(s) \/ InitHeader(s)
           \/ Initialising(s) \/ fc_spsc_attach(s)
    PROVE  Contents'
<1> USE DEF Contents, Moving, Side, SpscInv, SpscTypeOK, Goto, Slot
<1>1. CASE fc_spsc_shm_create(s) BY <1>1 DEF fc_spsc_shm_create
<1>2. CASE fc_spsc_shm_open(s) BY <1>2 DEF fc_spsc_shm_open, shared
<1>3. CASE fc_spsc_attach(s) BY <1>3 DEF fc_spsc_attach, shared
<1>4. CASE InitHeader(s) \/ Initialising(s)
  <2>1. /\ pc'["producer"] \notin {"refresh", "copy", "publish"}
        /\ pc'["consumer"] \notin {"refresh", "copy", "publish"}
    BY <1>4 DEF InitHeader, Initialising, InitSequences, SetReady, Phases, Starting
  <2>2. ~ header'.ready => dropped' = 0
    BY <1>4 DEF InitHeader, Initialising, InitSequences, SetReady, Phases, Starting
  <2> QED BY <2>1, <2>2
<1> QED BY <1>1, <1>2, <1>3, <1>4

LEMMA Contents_Leave ==
    ASSUME NEW s \in Side, SpscInv, Contents, Leave(s)
    PROVE  Contents'
BY DEF Leave, shared, Contents, Moving, Side, SpscInv, SpscTypeOK, Goto, Slot, NoXfer

LEMMA Contents_push ==
    ASSUME NEW n \in 1 .. MaxBulk, SpscInv, Contents, fc_spsc_push(n)
    PROVE  Contents'
BY DEF fc_spsc_push, Begin, shared, Contents, Moving, Side, SpscInv, SpscTypeOK, Goto, Slot

LEMMA Contents_RefreshHead ==
    ASSUME SpscInv, Contents, RefreshHead
    PROVE  Contents'
BY WorkingOpen DEF RefreshHead, OnFull, Proceed, Return, Contents, Moving, Working, Side, SpscInv, SpscTypeOK, Goto, Slot

LEMMA Contents_WriteSlot ==
    ASSUME SpscInv, Contents, WriteSlot
    PROVE  Contents'
<1> USE DEF WriteSlot, Moved, Side
<1> DEFINE m == xfer["producer"].moved
<1>1. /\ m \in Nat /\ xfer["producer"].moves \in Nat /\ m < xfer["producer"].moves
      /\ head \in Nat /\ tail \in Nat /\ cached["producer"] \in Nat /\ head <= tail
  BY Fields DEF SpscInv, SpscTypeOK, Calls, Window
<1>2. /\ tail + xfer["producer"].moves <= cached["producer"] + header.capacity
      /\ cached["producer"] <= head
  BY DEF SpscInv, Window, Moving, Working
<1>3. header.capacity \in Nat \ {0} /\ header.ready
  BY WorkingOpen DEF Working
<1>4. \A q \in Nat : Slot(q) \in 0 .. header.capacity - 1
  BY <1>3 DEF Slot
<1>5. ASSUME NEW q \in Nat
      PROVE  slots'[Slot(q)] = IF Slot(q) = Slot(tail + m) THEN next + m ELSE slots[Slot(q)]
  BY <1>4 DEF SpscInv, SpscTypeOK
<1>6. /\ xfer'["producer"].moved = m + 1 /\ xfer'["consumer"] = xfer["consumer"]
      /\ pc'["consumer"] = pc["consumer"] /\ pc'["producer"] \in {"copy", "publish"}
  BY DEF Goto, SpscInv, SpscTypeOK
<1>7. ASSUME NEW i \in 0 .. m PROVE slots'[Slot(tail + i)] = next + i
  <2>1. CASE i = m
    BY <1>1, <1>5, <2>1
  <2>2. CASE i < m
    <3>1. tail + i \in Nat /\ tail + m \in Nat /\ tail + i < tail + m
          /\ tail + m < (tail + i) + header.capacity
      BY <1>1, <1>2, <1>3, <2>2
    <3>2. Slot(tail + i) # Slot(tail + m)
      BY <1>3, <3>1, SlotsApart DEF Slot
    <3>3. slots[Slot(tail + i)] = next + i
      BY <1>1, <2>2 DEF Contents, Moving
    <3> QED BY <1>5, <3>1, <3>2, <3>3
  <2> QED BY <1>1, <2>1, <2>2
<1>8. ASSUME pc["consumer"] \in Moving, NEW i \in 1 .. xfer["consumer"].moved
      PROVE  got[i] = slots'[Slot(head + i - 1)]
  <2>1. /\ xfer["consumer"].moved \in Nat /\ xfer["consumer"].moves \in Nat
        /\ cached["consumer"] \in Nat
    BY Fields DEF SpscInv
  <2>2. /\ xfer["consumer"].moved <= xfer["consumer"].moves
        /\ head + xfer["consumer"].moves <= cached["consumer"] /\ cached["consumer"] <= tail
    BY <1>8 DEF SpscInv, Window, Calls, Moving, Working
  <2>3. head + i - 1 \in head .. tail - 1 /\ head + i - 1 \in Nat
    BY <1>1, <2>1, <2>2
  <2>4. m \in 0 .. xfer["producer"].moves - 1 /\ pc["producer"] \in Moving
    BY <1>1 DEF Moving
  <2>5. Slot(head + i - 1) # Slot(tail + m)
    BY <2>3, <2>4, Ahead
  <2>6. got[i] = slots[Slot(head + i - 1)]
    BY <1>8 DEF Contents
  <2> QED BY <1>5, <2>3, <2>5, <2>6
<1>9. \A i \in 0 .. xfer'["producer"].moved - 1 : slots'[Slot(tail + i)] = next + i
  <2>1. (m + 1) - 1 = m
    BY <1>1
  <2> HIDE DEF m
  <2> QED BY <1>6, <1>7, <2>1
<1>10. pc'["consumer"] \in Moving =>
         /\ Len(got) = xfer'["consumer"].moved
         /\ \A i \in 1 .. xfer'["consumer"].moved : got[i] = slots'[Slot(head + i - 1)]
  BY <1>6, <1>8 DEF Contents
<1>11. /\ pc'["consumer"] = "refresh" => got = <<>>
       /\ \A s \in Side : pc'[s] \in {"refresh", "copy", "publish"} => reply[s] = "pending"
  BY <1>6 DEF Contents
<1>12. UNCHANGED <<tail, head, header, next, got, reply>> /\ \A q : Slot(q)' = Slot(q)
  BY DEF Slot
<1> HIDE DEF WriteSlot, Moved, m
<1> QED BY <1>3, <1>9, <1>10, <1>11, <1>12 DEF Contents, Slot

LEMMA Contents_PublishTail ==
    ASSUME SpscInv, Contents, PublishTail
    PROVE  Contents'
BY DEF PublishTail, Return, Contents, Moving, Side, SpscInv, SpscTypeOK, Goto, Slot

LEMMA Contents_pop ==
    ASSUME NEW n \in 1 .. MaxBulk, SpscInv, Contents, fc_spsc_pop(n)
    PROVE  Contents'
BY DEF fc_spsc_pop, Begin, shared, Contents, Moving, Side, SpscInv, SpscTypeOK, Goto, Slot

LEMMA Contents_RefreshTail ==
    ASSUME SpscInv, Contents, RefreshTail
    PROVE  Contents'
BY DEF RefreshTail, Proceed, Return, Contents, Moving, Side, SpscInv, SpscTypeOK, Goto, Slot

LEMMA Contents_ReadSlot ==
    ASSUME SpscInv, Contents, ReadSlot
    PROVE  Contents'
<1> USE DEF ReadSlot, Moved, Side, shared
<1> DEFINE m == xfer["consumer"].moved
           e == slots[Slot(head + m)]
<1>1. /\ m \in Nat /\ head \in Nat /\ got \in Seq(Nat) /\ Len(got) = m
      /\ header.capacity \in Nat \ {0} /\ header.ready
  BY Fields, WorkingOpen DEF SpscInv, SpscTypeOK, Contents, Moving, Working
<1>2. e \in Nat
  <2>1. Slot(head + m) \in 0 .. header.capacity - 1
    BY <1>1 DEF Slot
  <2> QED BY <2>1 DEF SpscInv, SpscTypeOK
<1>3. /\ xfer'["consumer"].moved = m + 1 /\ xfer'["producer"] = xfer["producer"]
      /\ pc'["producer"] = pc["producer"] /\ pc'["consumer"] \in {"copy", "publish"}
  BY DEF Goto, SpscInv, SpscTypeOK
<1>4. /\ Len(got') = m + 1 /\ got'[m + 1] = e
      /\ \A i \in 1 .. m : got'[i] = got[i]
  <2> HIDE DEF e
  <2>1. got' = Append(got, e)
    BY DEF e
  <2> QED BY <1>1, <1>2, <2>1, AppendProperties
<1>5. ASSUME NEW i \in 1 .. m + 1 PROVE got'[i] = slots[Slot(head + i - 1)]
  <2>1. CASE i = m + 1
    <3>1. head + i - 1 = head + m
      BY <1>1, <2>1
    <3> QED BY <1>4, <2>1, <3>1
  <2>2. CASE i \in 1 .. m
    BY <1>4, <2>2 DEF Contents, Moving
  <2> QED BY <1>1, <2>1, <2>2
<1>6. \A i \in 1 .. xfer'["consumer"].moved : got'[i] = slots[Slot(head + i - 1)]
  <2> HIDE DEF m
  <2> QED BY <1>3, <1>5
<1>7. pc'["producer"] \in Moving =>
         \A i \in 0 .. xfer'["producer"].moved - 1 : slots[Slot(tail + i)] = next + i
  BY <1>3 DEF Contents
<1>8. /\ pc'["consumer"] # "refresh"
      /\ \A s \in Side : pc'[s] \in {"refresh", "copy", "publish"} => reply[s] = "pending"
  BY <1>3 DEF Contents
<1>9. UNCHANGED <<tail, head, header, next, slots, reply>> /\ \A q : Slot(q)' = Slot(q)
  BY DEF Slot
<1> HIDE DEF ReadSlot, Moved, m, e
<1> QED BY <1>1, <1>3, <1>4, <1>6, <1>7, <1>8, <1>9 DEF Contents, Slot

LEMMA Contents_ReleaseHead ==
    ASSUME SpscInv, Contents, ReleaseHead
    PROVE  Contents'
BY DEF ReleaseHead, Return, Contents, Moving, Side, SpscInv, SpscTypeOK, Goto, Slot

LEMMA Contents_Unchanged ==
    ASSUME Contents, UNCHANGED spscVars PROVE Contents'
BY DEF spscVars, Contents, Slot

LEMMA Contents_Next ==
    SpscInv /\ Contents /\ [SpscNext]_spscVars => Contents'
<1> SUFFICES ASSUME SpscInv, Contents, [SpscNext]_spscVars PROVE Contents'
  OBVIOUS
<1>1. CASE \E s \in Side :
          \/ fc_spsc_shm_create(s) \/ fc_spsc_shm_open(s) \/ InitHeader(s)
          \/ Initialising(s) \/ fc_spsc_attach(s) \/ fc_spsc_shm_close(s) \/ Dies(s)
  BY <1>1, Contents_Segment, Contents_Leave DEF fc_spsc_shm_close, Dies
<1>2. CASE \E n \in 1 .. MaxBulk : fc_spsc_push(n) \/ fc_spsc_pop(n)
  BY <1>2, Contents_push, Contents_pop
<1>3. CASE Producing
  BY <1>3, Contents_RefreshHead, Contents_WriteSlot, Contents_PublishTail DEF Producing
<1>4. CASE Consuming
  BY <1>4, Contents_RefreshTail, Contents_ReadSlot, Contents_ReleaseHead DEF Consuming
<1>5. CASE UNCHANGED spscVars
  BY <1>5, Contents_Unchanged
<1> QED BY <1>1, <1>2, <1>3, <1>4, <1>5 DEF SpscNext

----------------------------------------------------------------------------
(* The refinement: every step is a step of the bounded queue or a stutter.  *)

\* What the ring holds is a sequence, oldest element first.
LEMMA HeldSeq ==
    ASSUME SpscInv
    PROVE  /\ tail - head \in Nat /\ head \in Nat /\ tail \in Nat
           /\ Held \in Seq(Nat) /\ Len(Held) = tail - head
           /\ \A i \in 1 .. tail - head : Held[i] = slots[Slot(head + i - 1)]
<1>1. tail - head \in Nat /\ head \in Nat /\ tail \in Nat
  BY DEF SpscInv, SpscTypeOK, Window
<1>2. ASSUME NEW i \in 1 .. tail - head PROVE slots[Slot(head + i - 1)] \in Nat
  <2>1. header.capacity \in Nat \ {0}
    BY <1>1, Fields DEF SpscInv, Window
  <2>2. Slot(head + i - 1) \in 0 .. header.capacity - 1
    BY <1>1, <2>1 DEF Slot
  <2> QED BY <2>2 DEF SpscInv, SpscTypeOK
<1>3. Held \in [1 .. tail - head -> Nat]
  BY <1>2 DEF Held
<1> QED BY <1>1, <1>3, SequenceOf DEF Held

\* Before the ring is ready the queue is empty whatever the slots hold.
LEMMA HeldUnready ==
    ASSUME SpscInv, ~ header.ready, UNCHANGED <<head, tail>>
    PROVE  Held = <<>> /\ Held' = <<>>
<1>1. tail - head = 0 /\ tail' - head' = 0
  BY DEF SpscInv, Window
<1>2. Held \in [1 .. 0 -> Nat] /\ Held' \in [1 .. 0 -> Nat]
  BY <1>1 DEF Held
<1> QED BY <1>2, NothingHeld

LEMMA Step_Init ==
    SpscInit => SpscQueue!QueueInit
<1> SUFFICES ASSUME SpscInit PROVE SpscQueue!QueueInit
  OBVIOUS
<1>1. Held \in [1 .. 0 -> Nat]
  BY DEF SpscInit, Held
<1>2. Held = <<>>
  BY <1>1, NothingHeld
<1> QED BY <1>2 DEF SpscInit, NoHdr, Side, OpenCapacity, Policy, Taken,
                     SpscQueue!QueueInit, SpscQueue!QueueSide

LEMMA Step_create ==
    ASSUME NEW s \in Side, SpscInv, Contents, fc_spsc_shm_create(s)
    PROVE  UNCHANGED SpscQueue!queueVars
BY DEF fc_spsc_shm_create, SpscQueue!queueVars, OpenCapacity, Policy, Held, Taken, Slot

LEMMA Step_open ==
    ASSUME NEW s \in Side, SpscInv, Contents, fc_spsc_shm_open(s)
    PROVE  UNCHANGED SpscQueue!queueVars
BY DEF fc_spsc_shm_open, shared, SpscQueue!queueVars, OpenCapacity, Policy, Held, Taken, Slot

LEMMA Step_InitHeader ==
    ASSUME NEW s \in Side, SpscInv, Contents, InitHeader(s)
    PROVE  UNCHANGED SpscQueue!queueVars
<1>1. ~ header.ready /\ ~ header'.ready
  BY DEF InitHeader, SpscInv, Phases, Starting, SpscTypeOK
<1>2. Held' = Held
  BY <1>1, HeldUnready DEF InitHeader
<1> QED BY <1>1, <1>2 DEF InitHeader, SpscQueue!queueVars, OpenCapacity, Policy, Taken

LEMMA Step_InitSequences ==
    ASSUME NEW s \in Side, SpscInv, Contents, InitSequences(s)
    PROVE  UNCHANGED SpscQueue!queueVars
<1>1. ~ header.ready
  BY DEF InitSequences, SpscInv, Phases, Starting
<1>2. UNCHANGED <<tail, head, dropped>>
  BY <1>1 DEF InitSequences, SpscInv, Window, Contents
<1> QED BY <1>1, <1>2 DEF InitSequences, SpscQueue!queueVars, OpenCapacity, Policy, Held, Taken, Slot

LEMMA Step_SetReady ==
    ASSUME NEW s \in Side, SpscInv, Contents, SetReady(s)
    PROVE  SpscQueue!Open
<1>1. ~ header.ready /\ header.capacity > 0
  BY DEF SetReady, SpscInv, Phases, Starting
<1>2. header'.ready /\ header'.capacity = header.capacity
  BY DEF SetReady, SpscInv, SpscTypeOK
<1>3. Held' = Held
  BY <1>1, HeldUnready DEF SetReady
<1> QED BY <1>1, <1>2, <1>3 DEF SetReady, SpscQueue!Open, OpenCapacity, Taken

LEMMA Step_attach ==
    ASSUME NEW s \in Side, SpscInv, Contents, fc_spsc_attach(s)
    PROVE  UNCHANGED SpscQueue!queueVars
BY DEF fc_spsc_attach, shared, SpscQueue!queueVars, OpenCapacity, Policy, Held, Taken, Slot

LEMMA Step_Leave ==
    ASSUME NEW s \in Side, SpscInv, Contents, Leave(s)
    PROVE  SpscQueue!Abandon(s)
<1>1. UNCHANGED <<OpenCapacity, Policy, Held, next, dropped>>
  BY DEF Leave, shared, OpenCapacity, Policy, Held, Slot
<1>2. Taken' = IF s = "consumer" THEN <<>> ELSE Taken
  BY DEF Leave, Taken, SpscInv, SpscTypeOK, Side
<1> QED BY <1>1, <1>2 DEF Leave, SpscQueue!Abandon

LEMMA Step_push ==
    ASSUME NEW n \in 1 .. MaxBulk, SpscInv, Contents, fc_spsc_push(n)
    PROVE  SpscQueue!Ask("producer")
BY WorkingOpen DEF fc_spsc_push, Begin, shared, SpscQueue!Ask, OpenCapacity, Policy, Held, Taken, Slot, SpscInv, SpscTypeOK, Side, Working

LEMMA Step_RefreshHead ==
    ASSUME SpscInv, Contents, RefreshHead
    PROVE  UNCHANGED SpscQueue!queueVars \/ SpscQueue!Refuse \/ SpscQueue!Drop
<1> USE DEF RefreshHead, Side
<1>1. /\ header.ready /\ header.capacity \in Nat \ {0} /\ reply["producer"] = "pending"
      /\ UNCHANGED <<OpenCapacity, Policy, Held>>
  BY WorkingOpen DEF Working, Contents, OpenCapacity, Policy, Held, Slot
<1>2. tail - head \in Nat /\ tail \in Nat /\ head \in Nat /\ tail - head <= header.capacity
      /\ Len(Held) = tail - head
  BY <1>1, HeldSeq DEF SpscInv, Window
<1>3. CASE Proceed("producer", Least(xfer["producer"].asked, Room(head)))
  BY <1>1, <1>3 DEF Proceed, SpscQueue!queueVars, Taken
<1>4. ASSUME NEW r \in {"full", "dropped"}, Room(head) <= 0, Return("producer", r)
      PROVE  SpscQueue!Replied("producer", r) /\ Len(Held) = OpenCapacity /\ Taken' = Taken
  <2>1. Room(head) = header.capacity - (tail - head)
    BY <1>2 DEF Room, Distance
  <2>2. Len(Held) = OpenCapacity
    BY <1>1, <1>2, <1>4, <2>1 DEF OpenCapacity
  <2> QED BY <1>1, <1>4, <2>2 DEF Return, SpscQueue!Replied, Taken, SpscInv, SpscTypeOK
<1>5. CASE /\ Room(head) <= 0 /\ Return("producer", "dropped")
           /\ header.backpressure = "drop" /\ next' = next + 1 /\ dropped' = dropped + 1
  BY <1>1, <1>4, <1>5 DEF SpscQueue!Drop, Policy
<1>6. CASE Room(head) <= 0 /\ Return("producer", "full") /\ UNCHANGED <<dropped, next>>
  BY <1>1, <1>4, <1>6 DEF SpscQueue!Refuse
<1>7. CASE UNCHANGED <<pc, xfer, reply, dropped, next>>
  BY <1>1, <1>7 DEF SpscQueue!queueVars, Taken
<1>8. \/ Proceed("producer", Least(xfer["producer"].asked, Room(head)))
      \/ /\ Room(head) <= 0 /\ Return("producer", "dropped")
         /\ header.backpressure = "drop" /\ next' = next + 1 /\ dropped' = dropped + 1
      \/ Room(head) <= 0 /\ Return("producer", "full") /\ UNCHANGED <<dropped, next>>
      \/ UNCHANGED <<pc, xfer, reply, dropped, next>>
  BY DEF OnFull, Backpressure
<1> QED BY <1>3, <1>5, <1>6, <1>7, <1>8

LEMMA Step_WriteSlot ==
    ASSUME SpscInv, Contents, WriteSlot
    PROVE  UNCHANGED SpscQueue!queueVars
<1> USE DEF WriteSlot, Side
<1> DEFINE m == xfer["producer"].moved
<1>1. m \in 0 .. xfer["producer"].moves - 1 /\ pc["producer"] \in Moving
  BY Fields DEF SpscInv, Calls, Moving
<1>2. \A q \in head .. tail - 1 : Slot(q) # Slot(tail + m)
  BY <1>1, Ahead
<1>3. \A i \in 1 .. tail - head : slots'[Slot(head + i - 1)] = slots[Slot(head + i - 1)]
  <2> SUFFICES ASSUME NEW i \in 1 .. tail - head
               PROVE  slots'[Slot(head + i - 1)] = slots[Slot(head + i - 1)]
    OBVIOUS
  <2>1. head + i - 1 \in head .. tail - 1
    BY HeldSeq
  <2>2. Slot(head + i - 1) # Slot(tail + m)
    BY <1>2, <2>1
  <2>3. Slot(head + i - 1) \in 0 .. header.capacity - 1
    <3>1. header.capacity \in Nat \ {0}
      BY WorkingOpen DEF Working
    <3>2. head + i - 1 \in Nat
      BY HeldSeq
    <3> QED BY <3>1, <3>2 DEF Slot
  <2> QED BY <2>2, <2>3 DEF SpscInv, SpscTypeOK
<1>4. Held' = [i \in 1 .. tail - head |-> slots'[Slot(head + i - 1)]]
  BY DEF Held, Slot
<1>5. Held' = Held
  BY <1>3, <1>4 DEF Held
<1> QED BY <1>5 DEF SpscQueue!queueVars, OpenCapacity, Policy, Taken

LEMMA Step_PublishTail ==
    ASSUME SpscInv, Contents, PublishTail
    PROVE  SpscQueue!Put
<1> USE DEF PublishTail, Return, Side
<1> DEFINE n   == xfer["producer"].moves
           New == [i \in 1 .. n |-> next + i - 1]
<1>1. header.ready /\ header.capacity \in Nat \ {0}
  BY WorkingOpen DEF Working
<1>2. /\ cached["producer"] \in Nat /\ tail \in Nat /\ head \in Nat /\ n \in Nat
      /\ tail - head \in Nat /\ Len(Held) = tail - head /\ next \in Nat \ {0}
  BY Fields, HeldSeq DEF SpscInv, SpscTypeOK
<1>3. /\ n > 0 /\ tail + n <= cached["producer"] + header.capacity
      /\ cached["producer"] <= head /\ xfer["producer"].moved = n
  BY DEF SpscInv, Window, Calls, Moving, Working
<1>4. \A i \in 0 .. n - 1 : slots[Slot(tail + i)] = next + i
  BY <1>3 DEF Contents, Moving
<1>5. Held' = [i \in 1 .. (tail - head) + n |-> slots[Slot(head + i - 1)]]
  <2>1. tail' - head' = (tail - head) + n
    BY <1>2
  <2> QED BY <2>1 DEF Held, Slot
<1> HIDE DEF n
<1>6. Held' = Held \o New
  <2>1. New \in [1 .. n -> Nat]
    BY <1>2
  <2>2. \A i \in 1 .. n : Held'[(tail - head) + i] = New[i]
    <3> SUFFICES ASSUME NEW i \in 1 .. n PROVE Held'[(tail - head) + i] = New[i]
      OBVIOUS
    <3>1. (tail - head) + i \in 1 .. (tail - head) + n /\ head + ((tail - head) + i) - 1 = tail + (i - 1)
      BY <1>2
    <3>2. i - 1 \in 0 .. n - 1 /\ next + i - 1 = next + (i - 1)
      BY <1>2
    <3>3. Held'[(tail - head) + i] = slots[Slot(tail + (i - 1))]
      BY <1>5, <3>1
    <3> QED BY <1>4, <3>2, <3>3
  <2>3. Held \in [1 .. tail - head -> Nat]
    BY <1>2, HeldSeq, LenProperties
  <2>4. \A i \in 1 .. tail - head : Held'[i] = Held[i]
    BY <1>2, <1>5, HeldSeq
  <2>5. Held' \in [1 .. (tail - head) + n -> Nat]
    <3> SUFFICES ASSUME NEW i \in 1 .. (tail - head) + n PROVE Held'[i] \in Nat
      BY <1>5
    <3>1. CASE i <= tail - head
      BY <1>2, <2>3, <2>4, <3>1
    <3>2. CASE i > tail - head
      <4>1. i - (tail - head) \in 1 .. n /\ (tail - head) + (i - (tail - head)) = i
        BY <1>2, <3>2
      <4> QED BY <2>1, <2>2, <4>1
    <3> QED BY <1>2, <3>1, <3>2
  <2> DEFINE d == tail - head
             e == Held
             f == Held'
  <2>6. /\ d \in Nat /\ n \in Nat /\ e \in [1 .. d -> Nat] /\ New \in [1 .. n -> Nat]
        /\ f \in [1 .. d + n -> Nat]
    BY <1>2, <2>1, <2>3, <2>5
  <2>7. (\A i \in 1 .. d : f[i] = e[i]) /\ (\A i \in 1 .. n : f[d + i] = New[i])
    BY <2>2, <2>4
  <2> HIDE DEF New, d, e, f
  <2>8. f = e \o New
    BY <2>6, <2>7, Concatenation
  <2> QED BY <2>8 DEF e, f
<1>7. n \in 1 .. OpenCapacity - Len(Held)
  BY <1>1, <1>2, <1>3 DEF OpenCapacity
<1>8. SpscQueue!Replied("producer", "ok") /\ UNCHANGED <<OpenCapacity, Policy, dropped, Taken>>
  BY DEF SpscQueue!Replied, Contents, OpenCapacity, Policy, Taken, SpscInv, SpscTypeOK
<1>9. next' = next + n
  BY DEF n
<1> QED BY <1>6, <1>7, <1>8, <1>9 DEF SpscQueue!Put

LEMMA Step_pop ==
    ASSUME NEW n \in 1 .. MaxBulk, SpscInv, Contents, fc_spsc_pop(n)
    PROVE  SpscQueue!Ask("consumer")
BY WorkingOpen DEF fc_spsc_pop, Begin, shared, SpscQueue!Ask, OpenCapacity, Policy, Held, Taken, Slot, SpscInv, SpscTypeOK, Side, Working

LEMMA Step_RefreshTail ==
    ASSUME SpscInv, Contents, RefreshTail
    PROVE  UNCHANGED SpscQueue!queueVars \/ SpscQueue!Empty
<1> USE DEF RefreshTail, Side
<1>1. reply["consumer"] = "pending" /\ UNCHANGED <<OpenCapacity, Policy, Held>>
  BY DEF Contents, OpenCapacity, Policy, Held, Slot
<1>2. CASE Proceed("consumer", Least(xfer["consumer"].asked, Available(tail)))
  BY <1>1, <1>2 DEF Proceed, SpscQueue!queueVars, Taken
<1>3. CASE Available(tail) = 0 /\ Return("consumer", "empty") /\ UNCHANGED <<dropped, next>>
  <2>1. tail - head = 0
    BY <1>3, HeldSeq DEF Available, Distance
  <2>2. Held = <<>>
    BY <2>1, HeldSeq, EmptySeq
  <2> QED BY <1>1, <1>3, <2>2 DEF Return, SpscQueue!Empty, SpscQueue!Replied, Taken, SpscInv, SpscTypeOK
<1> QED BY <1>2, <1>3

LEMMA Step_ReadSlot ==
    ASSUME SpscInv, Contents, ReadSlot
    PROVE  UNCHANGED SpscQueue!queueVars
BY DEF ReadSlot, Contents, shared, SpscQueue!queueVars, OpenCapacity, Policy, Held, Taken, Slot, Side

LEMMA Step_ReleaseHead ==
    ASSUME SpscInv, Contents, ReleaseHead
    PROVE  SpscQueue!Take
<1> USE DEF ReleaseHead, Return, Side
<1> DEFINE n == xfer["consumer"].moves
           d == tail - head
<1>1. /\ n \in Nat \ {0} /\ d \in Nat /\ n <= d /\ head \in Nat /\ tail \in Nat
      /\ xfer["consumer"].moved = n /\ Len(Held) = d
  <2>1. /\ n \in Nat /\ cached["consumer"] \in Nat /\ head \in Nat /\ tail \in Nat
        /\ d \in Nat /\ Len(Held) = d
    BY Fields, HeldSeq DEF SpscInv
  <2>2. /\ n > 0 /\ head + n <= cached["consumer"] /\ cached["consumer"] <= tail
        /\ xfer["consumer"].moved = n
    BY DEF SpscInv, Window, Calls, Moving, Working
  <2> QED BY <2>1, <2>2
<1>2. Held \in [1 .. d -> Nat]
  BY <1>1, HeldSeq, LenProperties
<1>3. got = SubSeq(Held, 1, n)
  <2>1. got \in Seq(Nat) /\ Len(got) = n /\ \A i \in 1 .. n : got[i] = slots[Slot(head + i - 1)]
    BY <1>1 DEF Contents, Moving, SpscInv, SpscTypeOK
  <2>2. \A i \in 1 .. n : got[i] = Held[i]
    <3> SUFFICES ASSUME NEW i \in 1 .. n PROVE got[i] = Held[i]
      OBVIOUS
    <3>1. i \in 1 .. d
      <4> HIDE DEF n, d
      <4> QED BY <1>1
    <3>2. Held[i] = slots[Slot(head + i - 1)]
      BY <3>1, HeldSeq
    <3> QED BY <2>1, <3>2
  <2> HIDE DEF n, d
  <2> QED BY <1>1, <1>2, <2>1, <2>2, FirstPart
<1>4. Held' = SubSeq(Held, n + 1, d)
  <2>1. Held' = [i \in 1 .. d - n |-> slots[Slot(head + n + i - 1)]]
    <3>1. tail' - head' = d - n
      <4>1. tail' = tail /\ head' = head + n
        OBVIOUS
      <4> HIDE DEF n
      <4> QED BY <4>1, <1>1
    <3> QED BY <3>1 DEF Held, Slot
  <2>2. \A i \in 1 .. d - n : Held'[i] = Held[n + i]
    <3> SUFFICES ASSUME NEW i \in 1 .. d - n PROVE Held'[i] = Held[n + i]
      OBVIOUS
    <3>1. n + i \in 1 .. d /\ head + (n + i) - 1 = head + n + i - 1
      <4> HIDE DEF n, d
      <4> QED BY <1>1
    <3>2. Held[n + i] = slots[Slot(head + (n + i) - 1)]
      BY <3>1, HeldSeq
    <3> QED BY <2>1, <3>1, <3>2
  <2>3. Held' \in [1 .. d - n -> Nat]
    <3> SUFFICES ASSUME NEW i \in 1 .. d - n PROVE Held'[i] \in Nat
      BY <2>1
    <3>1. n + i \in 1 .. d
      <4> HIDE DEF n, d
      <4> QED BY <1>1
    <3> QED BY <1>2, <2>2, <3>1
  <2> DEFINE e == Held
             f == Held'
  <2>4. /\ d \in Nat /\ n \in 0 .. d /\ e \in [1 .. d -> Nat] /\ f \in [1 .. d - n -> Nat]
        /\ \A i \in 1 .. d - n : f[i] = e[n + i]
    BY <1>1, <1>2, <2>2, <2>3
  <2> HIDE DEF n, d, e, f
  <2>5. f = SubSeq(e, n + 1, d)
    BY <2>4, LastPart
  <2> QED BY <2>5 DEF e, f
<1>5. UNCHANGED <<OpenCapacity, Policy, next, dropped>> /\ Taken' = got
  BY DEF OpenCapacity, Policy, Taken, SpscInv, SpscTypeOK
<1>6. SpscQueue!Replied("consumer", "ok")
  BY DEF SpscQueue!Replied, Contents
<1>7. n \in 1 .. Len(Held) /\ Held' = SubSeq(Held, n + 1, Len(Held))
  BY <1>1, <1>4
<1> HIDE DEF n, d
<1> QED BY <1>3, <1>5, <1>6, <1>7 DEF SpscQueue!Take

LEMMA Step_Unchanged ==
    ASSUME UNCHANGED spscVars PROVE UNCHANGED SpscQueue!queueVars
BY DEF spscVars, SpscQueue!queueVars, OpenCapacity, Policy, Held, Taken, Slot

LEMMA Step_Next ==
    SpscInv /\ Contents /\ [SpscNext]_spscVars => [SpscQueue!QueueNext]_(SpscQueue!queueVars)
<1> SUFFICES ASSUME SpscInv, Contents, [SpscNext]_spscVars
             PROVE  SpscQueue!QueueNext \/ UNCHANGED SpscQueue!queueVars
  OBVIOUS
<1> USE DEF SpscQueue!QueueNext
<1>1. CASE \E s \in Side : Initialising(s)
  BY <1>1, Step_InitSequences, Step_SetReady DEF Initialising
<1>2. CASE \E s \in Side :
          fc_spsc_shm_create(s) \/ fc_spsc_shm_open(s) \/ InitHeader(s) \/ fc_spsc_attach(s)
  BY <1>2, Step_create, Step_open, Step_InitHeader, Step_attach
<1>3. CASE \E s \in Side : fc_spsc_shm_close(s) \/ Dies(s)
  BY <1>3, Step_Leave DEF fc_spsc_shm_close, Dies, Side, SpscQueue!QueueSide
<1>4. CASE \E n \in 1 .. MaxBulk : fc_spsc_push(n) \/ fc_spsc_pop(n)
  BY <1>4, Step_push, Step_pop DEF SpscQueue!QueueSide
<1>5. CASE Producing
  BY <1>5, Step_RefreshHead, Step_WriteSlot, Step_PublishTail DEF Producing
<1>6. CASE Consuming
  BY <1>6, Step_RefreshTail, Step_ReadSlot, Step_ReleaseHead DEF Consuming
<1>7. CASE UNCHANGED spscVars
  BY <1>7, Step_Unchanged
<1> QED BY <1>1, <1>2, <1>3, <1>4, <1>5, <1>6, <1>7 DEF SpscNext

\* The ring of spsc.h is a bounded queue for its two sides: order, nothing twice, nothing
\* lost but what a full queue drops, through closing, dying and attaching again.
THEOREM ImplementsQueue ==
    SpscSpec => SpscImplementsQueue
<1>1. SpscInit => SpscQueue!QueueInit
  BY Step_Init
<1>2. SpscInit => SpscInv /\ Contents
  BY Inv_Init, Contents_Init
<1>3. SpscInv /\ Contents /\ [SpscNext]_spscVars => (SpscInv /\ Contents)'
  BY Inv_Next, Contents_Next
<1>4. SpscInv /\ Contents /\ [SpscNext]_spscVars => [SpscQueue!QueueNext]_(SpscQueue!queueVars)
  BY Step_Next
<1> QED BY <1>1, <1>2, <1>3, <1>4, PTL DEF SpscSpec, SpscImplementsQueue, SpscQueue!QueueSpec

----------------------------------------------------------------------------
(* The pool.                                                                *)

PoolCall ==
    [at : {"idle", "read", "link", "pop", "count", "peak", "join", "push", "uncount"},
     seen : PoolHead, onward : Block \cup {null}, block : Block \cup {null},
     used : 0 .. Cardinality(Block), wants : Nat, gives : SUBSET Block]

Shapes ==
    /\ PoolTypeOK
    /\ call \in [Thread -> PoolCall]
    /\ held \in [Thread -> SUBSET Block]
    /\ most \in Nat

\* What a call has at each of its steps: an allocation wants blocks, a release gives some.
CallMakesSense(c) ==
    /\ c.at = "idle" => c.gives = {} /\ c.wants = 0
    /\ c.at \in {"idle", "read", "uncount"} => c.block = null
    /\ c.at \in {"link", "pop", "count", "peak"} => c.gives = {} /\ c.wants > 0
    /\ c.at = "read" => (c.gives = {} <=> c.wants > 0)
    /\ c.at \in {"join", "push", "uncount"} => c.gives # {} /\ c.wants = 0
    /\ c.at = "join" => c.block \in c.gives \cup {null}
    /\ c.at \in {"count", "peak"} => c.block \in Block

CallsMakeSense == \A t \in Thread : CallMakesSense(call[t])

\* The free list is d[0], ..., d[n - 1], and null ends it.
Linked(d, n) ==
    /\ d \in [0 .. n -> Block \cup {null}]
    /\ d[0] = top.block /\ d[n] = null
    /\ \A i \in 0 .. n - 1 : d[i] \in Block /\ link[d[i]] = d[i + 1]
    /\ \A i, j \in 0 .. n - 1 : d[i] = d[j] => i = j

Listed(d, n) == {d[i] : i \in 0 .. n - 1}

\* Every block is in F, with one program or in one call.
Parted(F) ==
    /\ \A t \in Thread : F \cap held[t] = {} /\ F \cap InHand(t) = {}
    /\ \A t, u \in Thread : held[t] \cap InHand(u) = {}
    /\ \A t, u \in Thread : t # u => held[t] \cap held[u] = {} /\ InHand(t) \cap InHand(u) = {}
    /\ \A b \in Block : b \in F \/ \E t \in Thread : b \in held[t] \cup InHand(t)

BlocksParted == \E n \in Nat : \E d : Linked(d, n) /\ Parted(Listed(d, n))

\* An old head of the present version is the head.
HeadSeen(c) ==
    c.at \in {"link", "pop", "join", "push"} =>
        /\ c.seen.version <= top.version
        /\ c.seen.version = top.version => c.seen.block = top.block

\* A swap that succeeds puts the right block, or the right link, in place.
Popping(c) ==
    c.at = "pop" => /\ c.seen.block \in Block
                    /\ c.seen = top => c.onward = link[c.seen.block]

Pushing(c) == c.at = "push" => c.block \in c.gives /\ link[c.block] = c.seen.block

SwapsSafe == \A t \in Thread : HeadSeen(call[t]) /\ Popping(call[t]) /\ Pushing(call[t])

\* used_blocks counts what the programs have, the blocks whose allocation was counted
\* and those still to be freed, but for one of each thread that is putting one back.
CountedBy(t) == held[t] \cup call[t].gives \cup (IF call[t].at = "peak" THEN {call[t].block} ELSE {})

Counted == UNION {CountedBy(t) : t \in Thread}

PuttingBack == {t \in Thread : call[t].at \in {"read", "join", "push"} /\ call[t].gives # {}}

UseCounted == stats.used + Cardinality(PuttingBack) = Cardinality(Counted)

\* The peak is recorded, or a thread is about to record it.
PeakKept ==
    ~reset => /\ stats.alloc_count = stats.free_count + stats.used
              /\ stats.peak <= most
              /\ \A t \in Thread : call[t].at = "peak" => call[t].used <= most
              /\ stats.peak = most \/ \E t \in Thread : call[t].at = "peak" /\ call[t].used = most

PoolInv == Shapes /\ CallsMakeSense /\ BlocksParted /\ SwapsSafe /\ UseCounted /\ PeakKept

----------------------------------------------------------------------------
(* Facts about numbers and sets.                                            *)

LEMMA LeastNumber ==
    ASSUME NEW S \in SUBSET Nat, S # {}
    PROVE  \E n \in S : \A m \in S : n <= m
  <1> DEFINE R == OpToRel(<, Nat)
  <1>1. IsWellFoundedOn(R, Nat)
    BY NatLessThanWellFounded
  <1>2. \A x, y \in Nat : <<y, x>> \in R <=> y < x
    BY DEF OpToRel
  <1> HIDE DEF R
  <1>3. PICK x \in S : \A y \in S : ~(<<y, x>> \in R)
    BY <1>1, WFMin
  <1>4. \A m \in S : ~(m < x)
    BY <1>2, <1>3
  <1> QED
    BY <1>4

\* Induction, for a set of numbers.
LEMMA NumbersBySteps ==
    ASSUME NEW S \in SUBSET Nat, 0 \in S, \A n \in S : n + 1 \in S
    PROVE  S = Nat
  <1> SUFFICES ASSUME Nat \ S # {} PROVE FALSE
    OBVIOUS
  <1>1. PICK n \in Nat \ S : \A m \in Nat \ S : n <= m
    BY LeastNumber
  <1>2. n - 1 \in Nat /\ n - 1 \notin Nat \ S
    BY <1>1
  <1> QED
    BY <1>2

LEMMA LargerOfTwo ==
    ASSUME NEW a \in Nat, NEW b \in Nat
    PROVE  Max({a, b}) = IF a >= b THEN a ELSE b
  <1> DEFINE m == IF a >= b THEN a ELSE b
  <1>1. m \in {a, b} /\ \A y \in {a, b} : m >= y
    OBVIOUS
  <1>2. \A x \in {a, b} : (\A y \in {a, b} : x >= y) => x = m
    OBVIOUS
  <1> QED
    BY <1>1, <1>2 DEF Max

LEMMA BlocksFinite ==
    /\ Cardinality(Block) \in Nat
    /\ \A S \in SUBSET Block : IsFiniteSet(S) /\ Cardinality(S) \in 0 .. Cardinality(Block)
  <1>1. \A S \in SUBSET Block : IsFiniteSet(S) /\ Cardinality(S) <= Cardinality(Block)
    BY PoolAssumption, FS_Subset
  <1> QED
    BY <1>1, PoolAssumption, FS_CardinalityType

----------------------------------------------------------------------------
(* What Free computes: the chain.                                           *)

LEMMA ChainShort ==
    ASSUME NEW n \in Nat, NEW d, Linked(d, n)
    PROVE  n <= Cardinality(Block)
  <1> DEFINE f == [i \in 0 .. n - 1 |-> d[i]]
  <1>1. f \in Injection(0 .. n - 1, Block)
    BY DEF Linked, Injection, IsInjective
  <1>2. Cardinality(0 .. n - 1) = n
    BY FS_Interval
  <1> HIDE DEF f
  <1> QED
    BY <1>1, <1>2, PoolAssumption, FS_Injection

LEMMA FreeIsListed ==
    ASSUME NEW n \in Nat, NEW d, Linked(d, n)
    PROVE  Free = Listed(d, n)
  <1> DEFINE N == Cardinality(Block)
             W(k) == {d[i] : i \in {j \in 0 .. n : j <= k}}
             Further(S) == S \cup {link[b] : b \in S \ {null}}
             F == [k \in 0 .. N |-> W(k)]
  <1>1. N \in Nat /\ n <= N
    BY BlocksFinite, ChainShort
  <1>2. W(0) = {top.block}
    BY DEF Linked
  <1>3. \A k \in Nat \ {0} : W(k) = Further(W(k - 1))
    <2> SUFFICES ASSUME NEW k \in Nat \ {0} PROVE W(k) = Further(W(k - 1))
      OBVIOUS
    <2>1. \A i \in 0 .. n : d[i] # null => i < n /\ link[d[i]] = d[i + 1]
      BY DEF Linked
    <2>2. \A i \in 0 .. n - 1 : d[i] # null
      BY PoolAssumption DEF Linked
    <2>3. \A x \in W(k) : x \in Further(W(k - 1))
      <3> SUFFICES ASSUME NEW i \in 0 .. n, i <= k PROVE d[i] \in Further(W(k - 1))
        OBVIOUS
      <3>1. CASE i <= k - 1
        BY <3>1
      <3>2. CASE i = k
        <4>1. i - 1 \in 0 .. n - 1 /\ i - 1 <= k - 1 /\ (i - 1) + 1 = i
          BY <3>2
        <4>2. d[i - 1] \in W(k - 1) \ {null} /\ link[d[i - 1]] = d[i]
          BY <2>1, <2>2, <4>1
        <4> QED
          BY <4>2
      <3> QED
        BY <3>1, <3>2
    <2>4. \A x \in Further(W(k - 1)) : x \in W(k)
      <3>1. \A i \in 0 .. n : i <= k - 1 => d[i] \in W(k)
        OBVIOUS
      <3>2. \A i \in 0 .. n : i <= k - 1 /\ d[i] # null => link[d[i]] \in W(k)
        BY <2>1
      <3> QED
        BY <3>1, <3>2
    <2> QED
      BY <2>3, <2>4
  <1>4. F = [k \in 0 .. N |-> IF k = 0 THEN {top.block} ELSE Further(F[k - 1])]
    <2> HIDE DEF W, Further
    <2>1. \A k \in 0 .. N : F[k] = W(k)
      OBVIOUS
    <2>2. ASSUME NEW k \in 0 .. N, k # 0
          PROVE  F[k] = Further(F[k - 1])
      <3>1. k \in Nat \ {0} /\ k - 1 \in 0 .. N
        BY <1>1, <2>2
      <3>2. F[k] = W(k) /\ F[k - 1] = W(k - 1) /\ W(k) = Further(W(k - 1))
        BY <1>3, <2>1, <3>1
      <3> QED
        BY <3>2
    <2>3. F[0] = {top.block}
      BY <1>1, <1>2, <2>1
    <2> QED
      BY <2>2, <2>3
  <1>5. FreeWithin = [k \in 0 .. N |-> IF k = 0 THEN {top.block} ELSE Further(FreeWithin[k - 1])]
    <2> HIDE DEF F
    <2> QED
      BY <1>4 DEF FreeWithin
  <1>6. \A k \in Nat : k <= N => FreeWithin[k] = W(k)
    <2> DEFINE S == {k \in Nat : k <= N => FreeWithin[k] = W(k)}
    <2> HIDE DEF W, Further
    <2>1. 0 \in S
      BY <1>1, <1>2, <1>5
    <2>2. ASSUME NEW k \in S PROVE k + 1 \in S
      <3>1. k \in Nat /\ k + 1 \in Nat \ {0} /\ (k + 1) - 1 = k
        OBVIOUS
      <3>2. W(k + 1) = Further(W(k))
        BY <1>3, <3>1
      <3>3. ASSUME k + 1 <= N
            PROVE  FreeWithin[k + 1] = W(k + 1)
        <4>1. k \in 0 .. N /\ k + 1 \in 0 .. N /\ FreeWithin[k] = W(k)
          BY <1>1, <3>1, <3>3
        <4>2. FreeWithin[k + 1] = Further(FreeWithin[(k + 1) - 1])
          BY <1>5, <3>1, <4>1
        <4> QED
          BY <3>1, <3>2, <4>1, <4>2
      <3> QED
        BY <3>1, <3>3
    <2> HIDE DEF S
    <2>3. S = Nat
      BY <2>1, <2>2, NumbersBySteps DEF S
    <2> QED
      BY <2>3 DEF S
  <1>7. W(N) \ {null} = Listed(d, n)
    BY <1>1, PoolAssumption DEF Linked, Listed
  <1> HIDE DEF W
  <1> QED
    BY <1>1, <1>6, <1>7 DEF Free

----------------------------------------------------------------------------
(* The pool as it is created.                                               *)

LEMMA BlocksInOrder ==
    LET order == SetToSeq(Block)
        N     == Cardinality(Block)
    IN  /\ order \in [1 .. N -> Block]
        /\ \A i, j \in 1 .. N : order[i] = order[j] => i = j
        /\ \A b \in Block : \E i \in 1 .. N : order[i] = b
  <1> DEFINE order == SetToSeq(Block)
             N == Cardinality(Block)
  <1>1. N \in Nat
    BY BlocksFinite
  <1>2. \E f \in [1 .. N -> Block] : IsInjective(f)
    BY PoolAssumption, FS_CardinalityType DEF ExistsBijection, Bijection, Injection
  <1>3. order \in [1 .. N -> Block] /\ IsInjective(order)
    BY <1>2 DEF SetToSeq
  <1>4. order \in Injection(1 .. N, Block)
    BY <1>3 DEF Injection
  <1>5. Cardinality(1 .. N) = Cardinality(Block)
    BY <1>1, FS_Interval
  <1>6. order \in Surjection(1 .. N, Block)
    <2> HIDE DEF order
    <2> QED
      BY <1>4, <1>5, PoolAssumption, FS_Injection
  <1> HIDE DEF order
  <1>7. /\ order \in [1 .. N -> Block]
        /\ \A i, j \in 1 .. N : order[i] = order[j] => i = j
        /\ \A b \in Block : \E i \in 1 .. N : order[i] = b
    BY <1>3, <1>6 DEF IsInjective, Surjection
  <1> QED
    BY <1>7 DEF order

LEMMA InitLinked ==
    ASSUME PoolInit
    PROVE  \E n \in Nat : \E d : Linked(d, n) /\ Listed(d, n) = Block
  <1> DEFINE N == Cardinality(Block)
             order == SetToSeq(Block)
             At(b) == CHOOSE j \in 1 .. N : order[j] = b
  <1>0. /\ top.block = order[1]
        /\ link = [b \in Block |-> IF At(b) = N THEN null ELSE order[At(b) + 1]]
    BY DEF PoolInit, fc_ds_mem_pool_create
  <1>1. N \in Nat
    BY BlocksFinite
  <1>2. /\ order \in [1 .. N -> Block]
        /\ \A i, j \in 1 .. N : order[i] = order[j] => i = j
        /\ \A b \in Block : \E i \in 1 .. N : order[i] = b
    BY BlocksInOrder
  <1> HIDE DEF N, order
  <1>3. N > 0
    BY <1>1, <1>2, PoolAssumption
  <1> DEFINE d == [i \in 0 .. N |-> IF i = N THEN null ELSE order[i + 1]]
  <1>5. \A i \in 1 .. N : link[order[i]] = IF i = N THEN null ELSE order[i + 1]
    <2> SUFFICES ASSUME NEW i \in 1 .. N
                 PROVE  link[order[i]] = IF i = N THEN null ELSE order[i + 1]
      OBVIOUS
    <2>1. At(order[i]) = i
      BY <1>2
    <2> HIDE DEF At
    <2> QED
      BY <1>0, <1>2, <2>1
  <1>6. Linked(d, N)
    <2>1. d \in [0 .. N -> Block \cup {null}] /\ d[0] = top.block /\ d[N] = null
      BY <1>0, <1>1, <1>2, <1>3
    <2>2. \A i \in 0 .. N - 1 : d[i] = order[i + 1] /\ i + 1 \in 1 .. N
      BY <1>1
    <2>3. \A i \in 0 .. N - 1 : d[i] \in Block /\ link[d[i]] = d[i + 1]
      BY <1>1, <1>2, <1>5, <2>2
    <2>4. \A i, j \in 0 .. N - 1 : d[i] = d[j] => i = j
      BY <1>2, <2>2
    <2> HIDE DEF d
    <2> QED
      BY <2>1, <2>3, <2>4 DEF Linked
  <1>7. Listed(d, N) = Block
    <2>1. \A b \in Block : \E i \in 0 .. N - 1 : d[i] = b
      <3> SUFFICES ASSUME NEW b \in Block PROVE \E i \in 0 .. N - 1 : d[i] = b
        OBVIOUS
      <3>1. PICK i \in 1 .. N : order[i] = b
        BY <1>2
      <3>2. i - 1 \in 0 .. N - 1 /\ d[i - 1] = b
        BY <1>1, <3>1
      <3> QED
        BY <3>2
    <2>2. \A i \in 0 .. N - 1 : d[i] \in Block
      BY <1>1, <1>2
    <2> HIDE DEF d
    <2> QED
      BY <2>1, <2>2 DEF Listed
  <1> HIDE DEF d
  <1> QED
    BY <1>1, <1>6, <1>7

LEMMA InitInv == PoolInit => PoolInv
  <1> SUFFICES ASSUME PoolInit PROVE PoolInv
    OBVIOUS
  <1>1. /\ call = [t \in Thread |-> NoCall] /\ held = [t \in Thread |-> {}]
        /\ stats = [used |-> 0, peak |-> 0, alloc_count |-> 0, free_count |-> 0]
        /\ most = 0 /\ reset = FALSE
    BY DEF PoolInit
  <1>2. NoCall \in PoolCall
    BY BlocksFinite DEF NoCall, PoolCall, PoolHead
  <1>3. Shapes
    <2>1. PICK N \in Nat : N = Cardinality(Block)
      BY BlocksFinite
    <2>2. N > 0 /\ SetToSeq(Block) \in [1 .. N -> Block]
      BY <2>1, BlocksInOrder, PoolAssumption
    <2>3. top \in PoolHead /\ link \in [Block -> Block \cup {null}]
      <3>1. PICK order \in [1 .. N -> Block] : order = SetToSeq(Block)
        BY <2>2
      <3>2. order[1] \in Block
        BY <2>1, <2>2
      <3>3. ASSUME NEW b \in Block
            PROVE  LET i == CHOOSE i \in 1 .. N : order[i] = b
                   IN  (IF i = N THEN null ELSE order[i + 1]) \in Block \cup {null}
        <4>1. PICK i \in 1 .. N : i = CHOOSE k \in 1 .. N : order[k] = b
          BY <2>1, <3>1, BlocksInOrder
        <4>2. i # N => order[i + 1] \in Block
          BY <2>1
        <4> QED
          BY <4>1, <4>2
      <3>4. top = [block |-> order[1], version |-> 0]
        BY <3>1 DEF PoolInit, fc_ds_mem_pool_create
      <3>5. link = [b \in Block |-> LET i == CHOOSE i \in 1 .. N : order[i] = b
                                    IN  IF i = N THEN null ELSE order[i + 1]]
        BY <2>1, <3>1 DEF PoolInit, fc_ds_mem_pool_create
      <3> QED
        BY <3>2, <3>3, <3>4, <3>5 DEF PoolHead
    <2> QED
      BY <1>1, <1>2, <2>1, <2>3 DEF Shapes, PoolTypeOK, PoolCall
  <1>4. CallsMakeSense /\ SwapsSafe
    BY <1>1 DEF CallsMakeSense, CallMakesSense, SwapsSafe, HeadSeen, Popping, Pushing, NoCall
  <1>5. BlocksParted
    <2>1. \A t \in Thread : held[t] = {} /\ InHand(t) = {}
      BY <1>1 DEF InHand, NoCall
    <2>2. Parted(Block)
      BY <2>1 DEF Parted
    <2> QED
      BY <2>2, InitLinked DEF BlocksParted
  <1>6. UseCounted
    <2>1. PuttingBack = {} /\ Counted = {}
      BY <1>1 DEF PuttingBack, Counted, CountedBy, NoCall
    <2> QED
      BY <1>1, <2>1, FS_EmptySet DEF UseCounted
  <1>7. PeakKept
    BY <1>1 DEF PeakKept, NoCall
  <1> QED
    BY <1>3, <1>4, <1>5, <1>6, <1>7 DEF PoolInv

----------------------------------------------------------------------------
(* A step of one thread.                                                    *)

LEMMA OneCall ==
    ASSUME Shapes, CallsMakeSense, NEW t \in Thread, NEW c \in PoolCall, CallMakesSense(c),
           call' = [call EXCEPT ![t] = c]
    PROVE  /\ call' \in [Thread -> PoolCall] /\ CallsMakeSense'
           /\ call'[t] = c /\ \A u \in Thread \ {t} : call'[u] = call[u]
           /\ \A u \in Thread \ {t} : InHand(u)' = InHand(u)
           /\ InHand(t)' = c.gives \cup (IF c.at \in {"count", "peak"} THEN {c.block} ELSE {})
  <1>1. /\ call' \in [Thread -> PoolCall]
        /\ call'[t] = c /\ \A u \in Thread \ {t} : call'[u] = call[u]
    BY DEF Shapes
  <1>2. CallsMakeSense'
    BY <1>1 DEF CallsMakeSense, CallMakesSense
  <1> QED
    BY <1>1, <1>2 DEF InHand

LEMMA TypesKept ==
    ASSUME Shapes, call' \in [Thread -> PoolCall], held' \in [Thread -> SUBSET Block],
           top' \in PoolHead, link' \in [Block -> Block \cup {null}], most' \in Nat,
           stats' \in [used : 0 .. Cardinality(Block), peak : 0 .. Cardinality(Block),
                       alloc_count : Nat, free_count : Nat]
    PROVE  Shapes'
  BY DEF Shapes, PoolTypeOK, PoolCall

LEMMA SwapsKept ==
    ASSUME Shapes, SwapsSafe, NEW t \in Thread, NEW c, call'[t] = c,
           \A u \in Thread \ {t} : call'[u] = call[u], UNCHANGED <<top, link>>,
           HeadSeen(c), Popping(c), Pushing(c)
    PROVE  SwapsSafe'
  BY DEF SwapsSafe, HeadSeen, Popping, Pushing

\* One thread moves blocks between the list, its program and its call.
LEMMA PartsShift ==
    ASSUME NEW t \in Thread, NEW F, NEW G, Parted(F),
           \A u \in Thread \ {t} : held'[u] = held[u] /\ InHand(u)' = InHand(u),
           G \cup held'[t] \cup InHand(t)' = F \cup held[t] \cup InHand(t),
           G \cap held'[t] = {}, G \cap InHand(t)' = {}, held'[t] \cap InHand(t)' = {}
    PROVE  Parted(G)'
  <1>1. \A u \in Thread \ {t} : /\ G \cap held[u] = {} /\ G \cap InHand(u) = {}
                               /\ held'[t] \cap held[u] = {} /\ held'[t] \cap InHand(u) = {}
                               /\ InHand(t)' \cap held[u] = {} /\ InHand(t)' \cap InHand(u) = {}
    BY DEF Parted
  <1>2. \A u \in Thread : G \cap held'[u] = {} /\ G \cap InHand(u)' = {}
    BY <1>1
  <1>3. \A u, v \in Thread : held'[u] \cap InHand(v)' = {}
    BY <1>1 DEF Parted
  <1>4. \A u, v \in Thread : u # v => held'[u] \cap held'[v] = {} /\ InHand(u)' \cap InHand(v)' = {}
    BY <1>1 DEF Parted
  <1>5. \A b \in Block : b \in G \/ \E u \in Thread : b \in held'[u] \cup InHand(u)'
    BY DEF Parted
  <1> QED
    BY <1>2, <1>3, <1>4, <1>5 DEF Parted

\* The list stays as it is.
LEMMA ListKept ==
    ASSUME BlocksParted, NEW t \in Thread, UNCHANGED <<top, link>>,
           \A u \in Thread \ {t} : held'[u] = held[u] /\ InHand(u)' = InHand(u),
           held'[t] \cup InHand(t)' = held[t] \cup InHand(t), held'[t] \cap InHand(t)' = {}
    PROVE  BlocksParted'
  <1>1. PICK n, d : n \in Nat /\ Linked(d, n) /\ Parted(Listed(d, n))
    BY DEF BlocksParted
  <1>2. Linked(d, n)'
    BY <1>1 DEF Linked
  <1>3. Listed(d, n) \cap held[t] = {} /\ Listed(d, n) \cap InHand(t) = {}
    BY <1>1 DEF Parted
  <1>4. Parted(Listed(d, n))'
    <2> DEFINE F == Listed(d, n)
    <2>1. Parted(F) /\ F \cap held[t] = {} /\ F \cap InHand(t) = {}
      BY <1>1, <1>3
    <2> HIDE DEF F
    <2>2. Parted(F)'
      BY <2>1, PartsShift
    <2> QED
      BY <2>2 DEF F
  <1> QED
    BY <1>1, <1>2, <1>4 DEF BlocksParted

----------------------------------------------------------------------------
(* The counters.                                                            *)

LEMMA CountsFinite ==
    ASSUME Shapes, CallsMakeSense
    PROVE  /\ Counted \subseteq Block /\ \A t \in Thread : CountedBy(t) \subseteq Block
           /\ IsFiniteSet(Counted) /\ Cardinality(Counted) \in 0 .. Cardinality(Block)
           /\ IsFiniteSet(PuttingBack) /\ Cardinality(PuttingBack) \in Nat
  <1>1. \A t \in Thread : CountedBy(t) \subseteq Block
    BY DEF CountedBy, Shapes, PoolCall, CallsMakeSense, CallMakesSense
  <1>2. Counted \subseteq Block
    BY <1>1 DEF Counted
  <1>3. PuttingBack \in SUBSET Thread
    BY DEF PuttingBack
  <1>4. IsFiniteSet(PuttingBack) /\ Cardinality(PuttingBack) \in Nat
    BY <1>3, PoolAssumption, FS_Subset, FS_CardinalityType
  <1> QED
    BY <1>1, <1>2, <1>4, BlocksFinite

\* A step that counts nothing.
LEMMA UseKept ==
    ASSUME UseCounted, NEW t \in Thread, stats'.used = stats.used,
           \A u \in Thread \ {t} : call'[u] = call[u] /\ held'[u] = held[u],
           CountedBy(t)' = CountedBy(t), t \in PuttingBack' <=> t \in PuttingBack
    PROVE  UseCounted'
  <1>1. \A u \in Thread : CountedBy(u)' = CountedBy(u)
    BY DEF CountedBy
  <1>2. Counted' = Counted
    BY <1>1 DEF Counted
  <1>3. PuttingBack' = PuttingBack
    BY DEF PuttingBack
  <1> QED
    BY <1>2, <1>3 DEF UseCounted

LEMMA PeakUnmoved ==
    ASSUME PeakKept, NEW t \in Thread, UNCHANGED <<stats, most, reset>>,
           \A u \in Thread \ {t} : call'[u] = call[u],
           call[t].at # "peak", call'[t].at # "peak"
    PROVE  PeakKept'
  BY DEF PeakKept

----------------------------------------------------------------------------
(* Each step preserves the invariant.                                       *)

\* A step of one thread that leaves the list, the programs' blocks and the counters alone.
LEMMA QuietStep ==
    ASSUME PoolInv, NEW t \in Thread, NEW c \in PoolCall, CallMakesSense(c),
           call' = [call EXCEPT ![t] = c], UNCHANGED <<top, link, stats, held, most, reset>>,
           call[t].at \notin {"count", "peak"}, c.at \notin {"count", "peak"},
           c.gives = call[t].gives,
           c.gives # {} => (c.at \in {"read", "join", "push"} <=> call[t].at \in {"read", "join", "push"}),
           HeadSeen(c), Popping(c), Pushing(c)
    PROVE  PoolInv'
  <1>1. /\ call' \in [Thread -> PoolCall] /\ CallsMakeSense'
        /\ call'[t] = c /\ \A u \in Thread \ {t} : call'[u] = call[u]
        /\ \A u \in Thread : InHand(u)' = InHand(u)
    BY OneCall DEF PoolInv, InHand
  <1>2. Shapes'
    BY <1>1 DEF PoolInv, Shapes, PoolTypeOK, PoolCall
  <1>3. SwapsSafe'
    BY <1>1, SwapsKept DEF PoolInv
  <1>4. BlocksParted'
    <2>1. held[t] \cap InHand(t) = {}
      BY DEF PoolInv, BlocksParted, Parted
    <2> QED
      BY <1>1, <2>1, ListKept DEF PoolInv
  <1>5. UseCounted'
    <2>1. CountedBy(t)' = CountedBy(t)
      BY <1>1 DEF CountedBy
    <2>2. t \in PuttingBack' <=> t \in PuttingBack
      BY <1>1 DEF PuttingBack
    <2> QED
      BY <1>1, <2>1, <2>2, UseKept DEF PoolInv
  <1>6. PeakKept'
    BY <1>1, PeakUnmoved DEF PoolInv
  <1> QED
    BY <1>1, <1>2, <1>3, <1>4, <1>5, <1>6 DEF PoolInv

LEMMA CallTyped ==
    ASSUME PoolInv, NEW t \in Thread
    PROVE  call[t] \in PoolCall /\ CallMakesSense(call[t]) /\ top \in PoolHead
           /\ HeadSeen(call[t]) /\ Popping(call[t]) /\ Pushing(call[t])
  BY DEF PoolInv, Shapes, PoolTypeOK, CallsMakeSense, SwapsSafe

LEMMA AllocInv ==
    ASSUME PoolInv, NEW t \in Thread, NEW n \in 1 .. 2, fc_ds_mem_pool_alloc_batch(t, n)
    PROVE  PoolInv'
  <1> DEFINE c == [call[t] EXCEPT !.wants = n, !.at = "read"]
  <1>1. /\ call[t].at = "idle" /\ call' = [call EXCEPT ![t] = c]
        /\ UNCHANGED <<top, link, stats, held, most, reset>>
    BY DEF fc_ds_mem_pool_alloc_batch
  <1>2. /\ c \in PoolCall /\ c.at = "read" /\ c.wants > 0 /\ c.gives = call[t].gives
        /\ c.gives = {} /\ c.block = null
    <2>1. call[t] \in PoolCall /\ call[t].gives = {} /\ call[t].block = null
      BY <1>1, CallTyped DEF CallMakesSense
    <2>2. n \in Nat /\ n > 0
      OBVIOUS
    <2> QED
      BY <2>1, <2>2 DEF PoolCall
  <1> HIDE DEF c
  <1>3. CallMakesSense(c) /\ HeadSeen(c) /\ Popping(c) /\ Pushing(c)
    BY <1>2 DEF CallMakesSense, HeadSeen, Popping, Pushing
  <1> QED
    BY <1>1, <1>2, <1>3, QuietStep

LEMMA ReadTopInv ==
    ASSUME PoolInv, NEW t \in Thread, ReadTop(t)
    PROVE  PoolInv'
  <1> DEFINE c == [call[t] EXCEPT !.seen = top, !.at = IF call[t].wants > 0 THEN "link" ELSE "join"]
  <1>1. /\ call[t].at = "read" /\ call' = [call EXCEPT ![t] = c]
        /\ UNCHANGED <<top, link, stats, held, most, reset>>
    BY DEF ReadTop
  <1>2. /\ c \in PoolCall /\ c.seen = top /\ c.gives = call[t].gives /\ c.wants = call[t].wants
        /\ c.at = (IF c.wants > 0 THEN "link" ELSE "join") /\ c.block = call[t].block
    BY <1>1, CallTyped DEF PoolCall
  <1>3. (c.gives = {} <=> c.wants > 0) /\ c.wants \in Nat /\ c.block = null
    BY <1>1, <1>2, CallTyped DEF CallMakesSense, PoolCall
  <1> HIDE DEF c
  <1>4. CallMakesSense(c) /\ HeadSeen(c) /\ Popping(c) /\ Pushing(c)
    BY <1>2, <1>3, CallTyped DEF CallMakesSense, HeadSeen, Popping, Pushing, PoolHead
  <1> QED
    BY <1>1, <1>2, <1>3, <1>4, QuietStep

LEMMA ReadLinkInv ==
    ASSUME PoolInv, NEW t \in Thread, ReadLink(t)
    PROVE  PoolInv'
  <1>1. /\ call[t].at = "link" /\ UNCHANGED <<top, link, stats, held, most, reset>>
        /\ call[t].gives = {} /\ call[t].wants > 0
    BY CallTyped DEF ReadLink, CallMakesSense
  <1>2. CASE call[t].seen.block = null
    <2>1. call' = [call EXCEPT ![t] = NoCall]
      BY <1>2 DEF ReadLink
    <2>2. NoCall \in PoolCall /\ NoCall.at = "idle" /\ NoCall.gives = {}
        /\ NoCall.block = null /\ NoCall.wants = 0
      BY BlocksFinite DEF NoCall, PoolCall, PoolHead
    <2>3. CallMakesSense(NoCall) /\ HeadSeen(NoCall) /\ Popping(NoCall) /\ Pushing(NoCall)
      BY <2>2 DEF CallMakesSense, HeadSeen, Popping, Pushing
    <2> QED
      BY <1>1, <2>1, <2>2, <2>3, QuietStep
  <1>3. CASE call[t].seen.block # null
    <2> DEFINE c == [call[t] EXCEPT !.onward = link[call[t].seen.block], !.at = "pop"]
    <2>1. call' = [call EXCEPT ![t] = c]
      BY <1>3 DEF ReadLink
    <2>2. call[t].seen.block \in Block /\ link[call[t].seen.block] \in Block \cup {null}
      BY <1>3, CallTyped DEF PoolCall, PoolHead, PoolInv, Shapes, PoolTypeOK
    <2>3. /\ c \in PoolCall /\ c.at = "pop" /\ c.gives = {} /\ c.wants > 0
          /\ c.seen = call[t].seen /\ c.onward = link[c.seen.block]
      BY <1>1, <2>2, CallTyped DEF PoolCall
    <2> HIDE DEF c
    <2>4. CallMakesSense(c) /\ HeadSeen(c) /\ Popping(c) /\ Pushing(c)
      BY <1>1, <2>2, <2>3, CallTyped DEF CallMakesSense, HeadSeen, Popping, Pushing
    <2> QED
      BY <1>1, <2>1, <2>3, <2>4, QuietStep
  <1> QED
    BY <1>2, <1>3

\* Counting an allocation: the block taken is one more.
LEMMA CountAllocInv ==
    ASSUME PoolInv, NEW t \in Thread, CountAlloc(t)
    PROVE  PoolInv'
  <1> DEFINE c == [call[t] EXCEPT !.used = stats.used + 1, !.at = "peak"]
             b == call[t].block
  <1>1. /\ call[t].at = "count" /\ call' = [call EXCEPT ![t] = c]
        /\ stats' = [stats EXCEPT !.used = @ + 1, !.alloc_count = @ + 1]
        /\ most' = Max({most, stats.used + 1})
        /\ UNCHANGED <<top, link, held, reset>>
    BY DEF CountAlloc
  <1>2. PICK N \in Nat : N = Cardinality(Block)
    BY BlocksFinite
  <1>3. /\ stats.used \in 0 .. N /\ stats.peak \in 0 .. N
        /\ stats.alloc_count \in Nat /\ stats.free_count \in Nat /\ most \in Nat
    BY <1>2 DEF PoolInv, Shapes, PoolTypeOK
  <1>4. call[t].gives = {} /\ call[t].wants > 0 /\ b \in Block /\ call[t] \in PoolCall
    BY <1>1, CallTyped DEF CallMakesSense
  <1>5. b \notin Counted
    <2>1. PICK n, d : n \in Nat /\ Parted(Listed(d, n))
      BY DEF PoolInv, BlocksParted
    <2>2. b \in InHand(t)
      BY <1>1 DEF InHand
    <2>3. \A u \in Thread : b \notin held[u]
      BY <2>1, <2>2 DEF Parted
    <2>4. \A u \in Thread \ {t} : b \notin InHand(u)
      BY <2>1, <2>2 DEF Parted
    <2>5. \A u \in Thread : b \notin CountedBy(u)
      BY <1>1, <1>4, <2>3, <2>4 DEF CountedBy, InHand
    <2> QED
      BY <2>5 DEF Counted
  <1>6. stats.used + 1 <= N
    <2>1. Counted \cup {b} \in SUBSET Block
      BY <1>4, CountsFinite DEF PoolInv
    <2>2. Cardinality(Counted \cup {b}) <= N /\ Cardinality(Counted \cup {b}) = Cardinality(Counted) + 1
      BY <1>2, <1>5, <2>1, CountsFinite, BlocksFinite, FS_AddElement DEF PoolInv
    <2>3. Cardinality(Counted) \in Nat /\ Cardinality(PuttingBack) \in Nat
          /\ stats.used + Cardinality(PuttingBack) = Cardinality(Counted)
      BY CountsFinite DEF PoolInv, UseCounted
    <2> QED
      BY <1>3, <2>2, <2>3
  <1>7. c \in PoolCall /\ c.at = "peak" /\ c.block = b /\ c.gives = {} /\ c.used = stats.used + 1 /\ c.wants > 0
    <2>1. stats.used + 1 \in 0 .. Cardinality(Block)
      BY <1>2, <1>3, <1>6
    <2> QED
      BY <1>4, <2>1 DEF PoolCall
  <1> HIDE DEF c, b
  <1>8. CallMakesSense(c) /\ HeadSeen(c) /\ Popping(c) /\ Pushing(c)
    BY <1>4, <1>7 DEF CallMakesSense, HeadSeen, Popping, Pushing
  <1>9. /\ call' \in [Thread -> PoolCall] /\ CallsMakeSense'
        /\ call'[t] = c /\ \A u \in Thread \ {t} : call'[u] = call[u]
        /\ \A u \in Thread \ {t} : InHand(u)' = InHand(u)
        /\ InHand(t)' = {b}
    BY <1>1, <1>7, <1>8, OneCall DEF PoolInv
  <1>10. /\ stats'.used = stats.used + 1 /\ stats'.peak = stats.peak
         /\ stats'.alloc_count = stats.alloc_count + 1 /\ stats'.free_count = stats.free_count
         /\ most' = (IF most >= stats.used + 1 THEN most ELSE stats.used + 1)
    <2>1. stats.used + 1 \in Nat
      BY <1>3
    <2>2. most' = (IF most >= stats.used + 1 THEN most ELSE stats.used + 1)
      BY <1>1, <1>3, <2>1, LargerOfTwo
    <2>3. stats \in [used : 0 .. N, peak : 0 .. N, alloc_count : Nat, free_count : Nat]
      BY <1>2 DEF PoolInv, Shapes, PoolTypeOK
    <2> QED
      BY <1>1, <2>2, <2>3
  <1>11. Shapes'
    <2>1. stats' \in [used : 0 .. Cardinality(Block), peak : 0 .. Cardinality(Block),
                      alloc_count : Nat, free_count : Nat]
      <3>1. stats.used + 1 \in 0 .. Cardinality(Block) /\ stats.alloc_count + 1 \in Nat
        BY <1>2, <1>3, <1>6
      <3>2. stats \in [used : 0 .. Cardinality(Block), peak : 0 .. Cardinality(Block),
                       alloc_count : Nat, free_count : Nat]
        BY DEF PoolInv, Shapes, PoolTypeOK
      <3> QED
        BY <1>1, <3>1, <3>2
    <2>2. most' \in Nat
      BY <1>3, <1>10
    <2>3. top' \in PoolHead /\ link' \in [Block -> Block \cup {null}] /\ held' \in [Thread -> SUBSET Block]
      BY <1>1 DEF PoolInv, Shapes, PoolTypeOK
    <2> QED
      BY <1>9, <2>1, <2>2, <2>3, TypesKept DEF PoolInv
  <1>12. SwapsSafe'
    BY <1>1, <1>8, <1>9, SwapsKept DEF PoolInv
  <1>13. BlocksParted'
    <2>0. held[t] \cap InHand(t) = {}
      BY DEF PoolInv, BlocksParted, Parted
    <2>1. InHand(t) = {b}
      BY <1>1, <1>4 DEF InHand, b
    <2> QED
      BY <1>1, <1>9, <2>0, <2>1, ListKept DEF PoolInv
  <1>14. UseCounted'
    <2>1. CountedBy(t)' = CountedBy(t) \cup {b} /\ \A u \in Thread \ {t} : CountedBy(u)' = CountedBy(u)
      BY <1>1, <1>4, <1>7, <1>9 DEF CountedBy
    <2>2. Counted' = Counted \cup {b}
      BY <2>1 DEF Counted
    <2>3. PuttingBack' = PuttingBack
      BY <1>1, <1>7, <1>9 DEF PuttingBack
    <2>4. Cardinality(Counted') = Cardinality(Counted) + 1
      BY <1>5, <2>2, CountsFinite, FS_AddElement DEF PoolInv
    <2>5. Cardinality(Counted) \in Nat /\ Cardinality(PuttingBack) \in Nat
      BY CountsFinite DEF PoolInv
    <2> QED
      BY <1>3, <1>10, <2>3, <2>4, <2>5 DEF PoolInv, UseCounted
  <1>15. PeakKept'
    <2> SUFFICES ASSUME ~reset PROVE PeakKept'
      BY <1>1 DEF PeakKept
    <2>1. stats.alloc_count = stats.free_count + stats.used /\ stats.peak <= most
      BY DEF PoolInv, PeakKept
    <2>2. \A u \in Thread : call[u].at = "peak" => call[u].used <= most /\ call[u].used \in Nat
      BY <1>2 DEF PoolInv, PeakKept, Shapes, PoolCall
    <2>3. \A u \in Thread : call'[u].at = "peak" => call'[u].used <= most'
      BY <1>3, <1>7, <1>9, <1>10, <2>2
    <2>4. stats'.peak = most' \/ \E u \in Thread : call'[u].at = "peak" /\ call'[u].used = most'
      <3>1. CASE most >= stats.used + 1
        <4>1. stats.peak = most \/ \E u \in Thread \ {t} : call[u].at = "peak" /\ call[u].used = most
          BY <1>1 DEF PoolInv, PeakKept
        <4> QED
          BY <1>9, <1>10, <3>1, <4>1
      <3>2. CASE ~(most >= stats.used + 1)
        BY <1>7, <1>9, <1>10, <3>2
      <3> QED
        BY <3>1, <3>2
    <2> QED
      BY <1>3, <1>10, <2>1, <2>3, <2>4 DEF PeakKept
  <1> QED
    BY <1>9, <1>11, <1>12, <1>13, <1>14, <1>15 DEF PoolInv

\* The block counted is handed to the program, and the peak is recorded.
LEMMA RaisePeakInv ==
    ASSUME PoolInv, NEW t \in Thread, RaisePeak(t)
    PROVE  PoolInv'
  <1> DEFINE c == IF call[t].wants > 1
                  THEN [NoCall EXCEPT !.wants = call[t].wants - 1, !.at = "read"] ELSE NoCall
             b == call[t].block
  <1>1. /\ call[t].at = "peak" /\ call' = [call EXCEPT ![t] = c]
        /\ stats' = [stats EXCEPT !.peak = Max({@, call[t].used})]
        /\ held' = [held EXCEPT ![t] = @ \cup {b}]
        /\ UNCHANGED <<top, link, most, reset>>
    BY DEF RaisePeak, Hand, Shapes
  <1>2. PICK N \in Nat : N = Cardinality(Block)
    BY BlocksFinite
  <1>3. /\ stats \in [used : 0 .. N, peak : 0 .. N, alloc_count : Nat, free_count : Nat]
        /\ most \in Nat /\ held \in [Thread -> SUBSET Block]
    BY <1>2 DEF PoolInv, Shapes, PoolTypeOK
  <1>4. /\ call[t].gives = {} /\ call[t].wants \in Nat /\ b \in Block
        /\ call[t].used \in 0 .. N /\ call[t] \in PoolCall
    BY <1>1, <1>2, CallTyped DEF CallMakesSense, PoolCall
  <1>5. NoCall \in PoolCall /\ NoCall.at = "idle" /\ NoCall.gives = {}
        /\ NoCall.block = null /\ NoCall.wants = 0
    BY BlocksFinite DEF NoCall, PoolCall, PoolHead
  <1>6. /\ c \in PoolCall /\ c.gives = {} /\ c.block = null
        /\ (c.at = "idle" /\ c.wants = 0) \/ (c.at = "read" /\ c.wants > 0)
    <2>1. CASE call[t].wants > 1
      <3>1. call[t].wants - 1 \in Nat /\ call[t].wants - 1 > 0
        BY <1>4, <2>1
      <3> QED
        BY <1>5, <2>1, <3>1 DEF PoolCall
    <2>2. CASE ~(call[t].wants > 1)
      BY <1>5, <2>2
    <2> QED
      BY <2>1, <2>2
  <1> HIDE DEF c
  <1>7. CallMakesSense(c) /\ HeadSeen(c) /\ Popping(c) /\ Pushing(c)
    BY <1>6 DEF CallMakesSense, HeadSeen, Popping, Pushing
  <1>8. /\ call' \in [Thread -> PoolCall] /\ CallsMakeSense'
        /\ call'[t] = c /\ \A u \in Thread \ {t} : call'[u] = call[u]
        /\ \A u \in Thread \ {t} : InHand(u)' = InHand(u)
        /\ InHand(t)' = {}
    BY <1>1, <1>6, <1>7, OneCall DEF PoolInv
  <1>9. held'[t] = held[t] \cup {b} /\ \A u \in Thread \ {t} : held'[u] = held[u]
    BY <1>1, <1>3
  <1>10. /\ stats'.used = stats.used /\ stats'.alloc_count = stats.alloc_count
         /\ stats'.free_count = stats.free_count
         /\ stats'.peak = IF stats.peak >= call[t].used THEN stats.peak ELSE call[t].used
    BY <1>1, <1>3, <1>4, LargerOfTwo
  <1>11. Shapes'
    <2>1. stats'.peak \in 0 .. N
      BY <1>3, <1>4, <1>10
    <2>2. stats' = [stats EXCEPT !.peak = stats'.peak]
      BY <1>1, <1>3
    <2>3. stats' \in [used : 0 .. Cardinality(Block), peak : 0 .. Cardinality(Block),
                      alloc_count : Nat, free_count : Nat]
      BY <1>2, <1>3, <2>1, <2>2
    <2>4. held' \in [Thread -> SUBSET Block]
      BY <1>1, <1>3, <1>4
    <2>5. top' \in PoolHead /\ link' \in [Block -> Block \cup {null}] /\ most' \in Nat
      BY <1>1 DEF PoolInv, Shapes, PoolTypeOK
    <2> QED
      BY <1>8, <2>3, <2>4, <2>5, TypesKept DEF PoolInv
  <1>12. SwapsSafe'
    BY <1>1, <1>7, <1>8, SwapsKept DEF PoolInv
  <1>13. BlocksParted'
    <2>1. InHand(t) = {b}
      BY <1>1, <1>4 DEF InHand
    <2> QED
      BY <1>1, <1>8, <1>9, <2>1, ListKept DEF PoolInv
  <1>14. UseCounted'
    <2>1. CountedBy(t)' = CountedBy(t)
      BY <1>1, <1>4, <1>6, <1>8, <1>9 DEF CountedBy
    <2>2. t \notin PuttingBack /\ t \notin PuttingBack'
      BY <1>1, <1>6, <1>8 DEF PuttingBack
    <2> QED
      BY <1>8, <1>9, <1>10, <2>1, <2>2, UseKept DEF PoolInv
  <1>15. PeakKept'
    <2> SUFFICES ASSUME ~reset PROVE PeakKept'
      BY <1>1 DEF PeakKept
    <2>1. /\ stats.alloc_count = stats.free_count + stats.used /\ stats.peak <= most
          /\ \A u \in Thread : call[u].at = "peak" => call[u].used <= most
          /\ stats.peak = most \/ \E u \in Thread : call[u].at = "peak" /\ call[u].used = most
      BY DEF PoolInv, PeakKept
    <2>2. call[t].used <= most /\ stats'.peak <= most
      BY <1>1, <1>10, <2>1
    <2>3. \A u \in Thread : call'[u].at = "peak" => call'[u].used <= most
      BY <1>6, <1>8, <2>1
    <2>4. stats'.peak = most \/ \E u \in Thread : call'[u].at = "peak" /\ call'[u].used = most
      <3>1. CASE stats.peak = most \/ call[t].used = most
        BY <1>3, <1>4, <1>10, <2>1, <2>2, <3>1
      <3>2. CASE \E u \in Thread \ {t} : call[u].at = "peak" /\ call[u].used = most
        BY <1>8, <3>2
      <3> QED
        BY <2>1, <3>1, <3>2
    <2> QED
      BY <1>1, <1>10, <2>1, <2>2, <2>3, <2>4 DEF PeakKept
  <1> QED
    BY <1>8, <1>11, <1>12, <1>13, <1>14, <1>15 DEF PoolInv

\* A successful swap takes the first block out of the chain.
LEMMA PopChain ==
    ASSUME Shapes, NEW n \in Nat, NEW d, Linked(d, n), top.block \in Block,
           top'.block = link[top.block], link' = link
    PROVE  \E m \in Nat : \E e : /\ Linked(e, m)'
                                /\ Listed(e, m) = Listed(d, n) \ {top.block}
                                /\ top.block \in Listed(d, n)
  <1> DEFINE e == [i \in 0 .. n - 1 |-> d[i + 1]]
  <1>1. n > 0
    BY PoolAssumption DEF Linked
  <1>2. \A i \in 0 .. n - 1 : e[i] = d[i + 1] /\ i + 1 \in 0 .. n
    OBVIOUS
  <1>3. e \in [0 .. n - 1 -> Block \cup {null}] /\ e[0] = top'.block /\ e[n - 1] = null
    BY <1>1, <1>2 DEF Linked
  <1>4. \A i \in 0 .. (n - 1) - 1 : e[i] \in Block /\ link[e[i]] = e[i + 1]
    BY <1>1, <1>2 DEF Linked
  <1>5. \A i, j \in 0 .. (n - 1) - 1 : e[i] = e[j] => i = j
    BY <1>1, <1>2 DEF Linked
  <1>6. n - 1 \in Nat /\ Linked(e, n - 1)'
    <2> HIDE DEF e
    <2> QED
      BY <1>1, <1>3, <1>4, <1>5 DEF Linked
  <1>7. top.block \in Listed(d, n)
    BY <1>1 DEF Linked, Listed
  <1>8. Listed(e, n - 1) = Listed(d, n) \ {top.block}
    <2>1. ASSUME NEW x \in Listed(e, n - 1)
          PROVE  x \in Listed(d, n) \ {top.block}
      <3>1. PICK i \in 0 .. (n - 1) - 1 : x = e[i]
        BY DEF Listed
      <3>2. i + 1 \in 0 .. n - 1 /\ x = d[i + 1] /\ i + 1 # 0 /\ 0 \in 0 .. n - 1
        BY <1>1, <1>2, <3>1
      <3> QED
        BY <3>2 DEF Linked, Listed
    <2>2. ASSUME NEW x \in Listed(d, n) \ {top.block}
          PROVE  x \in Listed(e, n - 1)
      <3>1. PICK i \in 0 .. n - 1 : x = d[i]
        BY DEF Listed
      <3>2. i # 0
        BY <3>1 DEF Linked
      <3>3. i - 1 \in 0 .. (n - 1) - 1 /\ e[i - 1] = x
        BY <3>1, <3>2
      <3> HIDE DEF e
      <3> QED
        BY <3>3 DEF Listed
    <2> QED
      BY <2>1, <2>2
  <1> HIDE DEF e
  <1> QED
    BY <1>6, <1>7, <1>8

\* A successful swap puts a block in front of the chain.
LEMMA PushChain ==
    ASSUME Shapes, NEW n \in Nat, NEW d, Linked(d, n), NEW b \in Block, b \notin Listed(d, n),
           link[b] = top.block, top'.block = b, link' = link
    PROVE  \E m \in Nat : \E e : Linked(e, m)' /\ Listed(e, m) = Listed(d, n) \cup {b}
  <1> DEFINE e == [i \in 0 .. n + 1 |-> IF i = 0 THEN b ELSE d[i - 1]]
  <1>1. e[0] = b /\ \A i \in 1 .. n + 1 : e[i] = d[i - 1] /\ i - 1 \in 0 .. n
    OBVIOUS
  <1>2. e \in [0 .. n + 1 -> Block \cup {null}] /\ e[n + 1] = null
    BY <1>1 DEF Linked
  <1>3. \A i \in 1 .. (n + 1) - 1 : e[i] = d[i - 1] /\ i - 1 \in 0 .. n - 1 /\ e[i + 1] = d[i]
                                  /\ e[i] \in Listed(d, n) /\ (i - 1) + 1 = i
    BY <1>1 DEF Listed
  <1>4. \A i \in 0 .. (n + 1) - 1 : e[i] \in Block /\ link[e[i]] = e[i + 1]
    <2>1. ASSUME NEW i \in 1 .. (n + 1) - 1 PROVE e[i] \in Block /\ link[e[i]] = e[i + 1]
      BY <1>3 DEF Linked
    <2>2. e[0] \in Block /\ link[e[0]] = e[1]
      BY <1>1 DEF Linked
    <2> HIDE DEF e
    <2> QED
      BY <2>1, <2>2
  <1>5. \A i, j \in 0 .. (n + 1) - 1 : e[i] = e[j] => i = j
    <2>1. \A i, j \in 1 .. (n + 1) - 1 : e[i] = e[j] => i = j
      BY <1>3 DEF Linked
    <2>2. \A i \in 1 .. (n + 1) - 1 : e[i] # e[0]
      BY <1>1, <1>3
    <2> HIDE DEF e
    <2> QED
      BY <2>1, <2>2
  <1>6. n + 1 \in Nat /\ Linked(e, n + 1)'
    <2> HIDE DEF e
    <2> QED
      BY <1>1, <1>2, <1>4, <1>5 DEF Linked
  <1>7. Listed(e, n + 1) = Listed(d, n) \cup {b}
    <2>1. \A i \in 0 .. n - 1 : i + 1 \in 1 .. (n + 1) - 1 /\ e[i + 1] = d[i]
      OBVIOUS
    <2> HIDE DEF e
    <2>2. \A x \in Listed(d, n) : x \in Listed(e, n + 1)
      BY <2>1 DEF Listed
    <2>3. b \in Listed(e, n + 1)
      BY <1>1 DEF Listed
    <2>4. \A x \in Listed(e, n + 1) : x \in Listed(d, n) \cup {b}
      BY <1>1, <1>3 DEF Listed
    <2> QED
      BY <2>2, <2>3, <2>4
  <1> HIDE DEF e
  <1> QED
    BY <1>6, <1>7

\* The swap of PopTop.
LEMMA PopTopInv ==
    ASSUME PoolInv, NEW t \in Thread, PopTop(t)
    PROVE  PoolInv'
  <1>1. /\ call[t].at = "pop" /\ UNCHANGED <<link, stats, held, most, reset>>
        /\ call[t].gives = {} /\ call[t].wants > 0 /\ call[t] \in PoolCall
        /\ call[t].seen.block \in Block
    BY CallTyped DEF PopTop, CallMakesSense, Popping
  <1>2. CASE top # call[t].seen
    <2> DEFINE c == [[call[t] EXCEPT !.at = "link"] EXCEPT !.seen = top]
    <2>1. call' = [call EXCEPT ![t] = c] /\ UNCHANGED top
      BY <1>2 DEF PopTop, FC_ATOMIC_CAS
    <2>2. c \in PoolCall /\ c.at = "link" /\ c.seen = top /\ c.gives = {} /\ c.wants > 0
      BY <1>1, CallTyped DEF PoolCall
    <2> HIDE DEF c
    <2>3. CallMakesSense(c) /\ HeadSeen(c) /\ Popping(c) /\ Pushing(c)
      BY <2>2, CallTyped DEF CallMakesSense, HeadSeen, Popping, Pushing, PoolHead
    <2> QED
      BY <1>1, <2>1, <2>2, <2>3, QuietStep
  <1>3. CASE top = call[t].seen
    <2> DEFINE c == [call[t] EXCEPT !.block = call[t].seen.block, !.at = "count"]
               b == call[t].seen.block
    <2>1. /\ call' = [call EXCEPT ![t] = c]
          /\ top' = [block |-> call[t].onward, version |-> top.version + 1]
      BY <1>3 DEF PopTop, FC_ATOMIC_CAS
    <2>2. /\ b \in Block /\ top.block = b /\ call[t].onward = link[b]
          /\ call[t].onward \in Block \cup {null} /\ top.version \in Nat
      BY <1>1, <1>3, CallTyped DEF Popping, PoolCall, PoolHead
    <2>3. c \in PoolCall /\ c.at = "count" /\ c.block = b /\ c.gives = {} /\ c.wants > 0
      BY <1>1, <2>2 DEF PoolCall
    <2> HIDE DEF c
    <2>4. CallMakesSense(c)
      BY <2>2, <2>3 DEF CallMakesSense
    <2>5. /\ call' \in [Thread -> PoolCall] /\ CallsMakeSense'
          /\ call'[t] = c /\ \A u \in Thread \ {t} : call'[u] = call[u]
          /\ \A u \in Thread \ {t} : InHand(u)' = InHand(u)
          /\ InHand(t)' = {b}
      BY <2>1, <2>3, <2>4, OneCall DEF PoolInv
    <2>6. top'.block = link[b] /\ top'.version = top.version + 1 /\ top' \in PoolHead
      BY <2>1, <2>2 DEF PoolHead
    <2>7. Shapes'
      BY <1>1, <2>5, <2>6 DEF PoolInv, Shapes, PoolTypeOK, PoolCall
    <2>8. SwapsSafe'
      <3> SUFFICES ASSUME NEW u \in Thread
                   PROVE  HeadSeen(call[u])' /\ Popping(call[u])' /\ Pushing(call[u])'
        BY DEF SwapsSafe
      <3>1. CASE u = t
        BY <2>3, <2>5, <3>1 DEF HeadSeen, Popping, Pushing
      <3>2. CASE u # t
        <4>1. call'[u] = call[u] /\ call[u] \in PoolCall
              /\ HeadSeen(call[u]) /\ Popping(call[u]) /\ Pushing(call[u])
          BY <2>5, <3>2, CallTyped
        <4>2. call[u].at \in {"link", "pop", "join", "push"} =>
                 call[u].seen.version \in Nat /\ call[u].seen.version < top'.version
          BY <2>2, <2>6, <4>1 DEF HeadSeen, PoolCall, PoolHead
        <4> QED
          BY <1>1, <2>2, <2>6, <4>1, <4>2 DEF HeadSeen, Popping, Pushing
      <3> QED
        BY <3>1, <3>2
    <2>9. BlocksParted'
      <3>1. PICK n, d : n \in Nat /\ Linked(d, n) /\ Parted(Listed(d, n))
        BY DEF PoolInv, BlocksParted
      <3>2. PICK m, e : /\ m \in Nat /\ Linked(e, m)' /\ Listed(e, m) = Listed(d, n) \ {b}
                                /\ b \in Listed(d, n)
        BY <1>1, <2>2, <2>6, <3>1, PopChain DEF PoolInv
      <3> DEFINE F == Listed(d, n)
                 G == Listed(e, m)
      <3>3. InHand(t) = {}
        BY <1>1 DEF InHand
      <3>4. Parted(F) /\ F \cap held[t] = {}
        BY <3>1 DEF Parted
      <3>5. G = F \ {b} /\ b \in F
        BY <3>2
      <3> HIDE DEF F, G
      <3>6. /\ G \cup held'[t] \cup InHand(t)' = F \cup held[t] \cup InHand(t)
            /\ G \cap held'[t] = {} /\ G \cap InHand(t)' = {} /\ held'[t] \cap InHand(t)' = {}
            /\ \A u \in Thread \ {t} : held'[u] = held[u]
        BY <1>1, <2>5, <3>3, <3>4, <3>5
      <3>7. Parted(G)'
        BY <2>5, <3>4, <3>6, PartsShift
      <3> QED
        BY <3>2, <3>7 DEF BlocksParted, G
    <2>10. UseCounted'
      <3>1. CountedBy(t)' = CountedBy(t)
        BY <1>1, <2>3, <2>5 DEF CountedBy
      <3>2. t \notin PuttingBack /\ t \notin PuttingBack'
        BY <1>1, <2>3, <2>5 DEF PuttingBack
      <3> QED
        BY <1>1, <2>5, <3>1, <3>2, UseKept DEF PoolInv
    <2>11. PeakKept'
      BY <1>1, <2>3, <2>5, PeakUnmoved DEF PoolInv
    <2> QED
      BY <2>5, <2>7, <2>8, <2>9, <2>10, <2>11 DEF PoolInv
  <1> QED
    BY <1>2, <1>3

\* A program gives blocks up to a call of its thread.
LEMMA FreeInv ==
    ASSUME PoolInv, NEW t \in Thread, NEW blocks \in SUBSET held[t], blocks # {},
           fc_ds_mem_pool_free_batch(t, blocks)
    PROVE  PoolInv'
  <1> DEFINE c == [call[t] EXCEPT !.gives = blocks, !.at = "uncount"]
  <1>1. /\ call[t].at = "idle" /\ call' = [call EXCEPT ![t] = c]
        /\ held' = [held EXCEPT ![t] = @ \ blocks]
        /\ UNCHANGED <<top, link, stats, most, reset>>
    BY DEF fc_ds_mem_pool_free_batch
  <1>2. /\ call[t] \in PoolCall /\ call[t].gives = {} /\ call[t].wants = 0 /\ call[t].block = null
        /\ held \in [Thread -> SUBSET Block]
    BY <1>1, CallTyped DEF CallMakesSense, PoolInv, Shapes
  <1>3. blocks \in SUBSET Block
    BY <1>2
  <1>4. /\ c \in PoolCall /\ c.at = "uncount" /\ c.gives = blocks
        /\ c.wants = 0 /\ c.block = null
    BY <1>2, <1>3 DEF PoolCall
  <1> HIDE DEF c
  <1>5. CallMakesSense(c) /\ HeadSeen(c) /\ Popping(c) /\ Pushing(c)
    BY <1>4 DEF CallMakesSense, HeadSeen, Popping, Pushing
  <1>6. /\ call' \in [Thread -> PoolCall] /\ CallsMakeSense'
        /\ call'[t] = c /\ \A u \in Thread \ {t} : call'[u] = call[u]
        /\ \A u \in Thread \ {t} : InHand(u)' = InHand(u)
        /\ InHand(t)' = blocks
    BY <1>1, <1>4, <1>5, OneCall DEF PoolInv
  <1>7. held'[t] = held[t] \ blocks /\ \A u \in Thread \ {t} : held'[u] = held[u]
    BY <1>1, <1>2
  <1>8. Shapes'
    <2>1. held' \in [Thread -> SUBSET Block]
      BY <1>1, <1>2
    <2> QED
      BY <1>1, <1>6, <2>1, TypesKept DEF PoolInv, Shapes, PoolTypeOK
  <1>9. SwapsSafe'
    BY <1>1, <1>5, <1>6, SwapsKept DEF PoolInv
  <1>10. BlocksParted'
    <2>1. InHand(t) = {}
      BY <1>1, <1>2 DEF InHand
    <2> QED
      BY <1>1, <1>6, <1>7, <2>1, ListKept DEF PoolInv
  <1>11. UseCounted'
    <2>1. CountedBy(t)' = CountedBy(t)
      BY <1>1, <1>2, <1>4, <1>6, <1>7 DEF CountedBy
    <2>2. t \notin PuttingBack /\ t \notin PuttingBack'
      BY <1>1, <1>4, <1>6 DEF PuttingBack
    <2> QED
      BY <1>1, <1>6, <1>7, <2>1, <2>2, UseKept DEF PoolInv
  <1>12. PeakKept'
    BY <1>1, <1>4, <1>6, PeakUnmoved DEF PoolInv
  <1> QED
    BY <1>6, <1>8, <1>9, <1>10, <1>11, <1>12 DEF PoolInv

\* Threads that are putting a block back have different ones, so that used_blocks has
\* one to count down for each of them.
LEMMA RoomToCountDown ==
    ASSUME PoolInv, NEW t \in Thread, call[t].at = "uncount"
    PROVE  Cardinality(PuttingBack) + 1 <= Cardinality(Counted)
  <1> DEFINE S == PuttingBack \cup {t}
             f == [u \in S |-> CHOOSE b \in Block : b \in call[u].gives]
  <1>1. \A u \in S : u \in Thread /\ call[u].gives # {} /\ call[u].gives \subseteq Block
    BY CallTyped DEF PuttingBack, CallMakesSense, PoolCall
  <1>2. \A u \in S : f[u] \in call[u].gives
    BY <1>1
  <1>3. \A u, v \in S : u # v => call[u].gives \cap call[v].gives = {}
    BY <1>1 DEF PoolInv, BlocksParted, Parted, InHand
  <1>4. \A u \in S : f[u] \in Counted
    BY <1>1, <1>2 DEF Counted, CountedBy
  <1>5. f \in Injection(S, Counted)
    <2>1. f \in [S -> Counted]
      BY <1>4
    <2> HIDE DEF f, S
    <2>2. \A u, v \in S : f[u] = f[v] => u = v
      BY <1>2, <1>3
    <2> QED
      BY <2>1, <2>2 DEF Injection, IsInjective
  <1>6. IsFiniteSet(Counted) /\ IsFiniteSet(PuttingBack)
    BY CountsFinite DEF PoolInv
  <1>7. Cardinality(S) <= Cardinality(Counted)
    <2> HIDE DEF f, S
    <2> QED
      BY <1>5, <1>6, FS_Injection
  <1>8. t \notin PuttingBack
    BY DEF PuttingBack
  <1> QED
    BY <1>6, <1>7, <1>8, FS_AddElement

\* Counting a release: the blocks are the same, and one of them is on its way back.
LEMMA CountFreeInv ==
    ASSUME PoolInv, NEW t \in Thread, CountFree(t)
    PROVE  PoolInv'
  <1> DEFINE c == [call[t] EXCEPT !.at = "read"]
  <1>1. /\ call[t].at = "uncount" /\ call' = [call EXCEPT ![t] = c]
        /\ stats' = [stats EXCEPT !.used = @ - 1, !.free_count = @ + 1]
        /\ UNCHANGED <<top, link, held, most, reset>>
    BY DEF CountFree
  <1>2. /\ call[t] \in PoolCall /\ call[t].gives # {} /\ call[t].wants = 0
        /\ call[t].block = null
    BY <1>1, CallTyped DEF CallMakesSense
  <1>3. /\ c \in PoolCall /\ c.at = "read" /\ c.gives = call[t].gives /\ c.wants = 0
        /\ c.block = null
    BY <1>2 DEF PoolCall
  <1> HIDE DEF c
  <1>4. CallMakesSense(c) /\ HeadSeen(c) /\ Popping(c) /\ Pushing(c)
    BY <1>2, <1>3 DEF CallMakesSense, HeadSeen, Popping, Pushing
  <1>5. /\ call' \in [Thread -> PoolCall] /\ CallsMakeSense'
        /\ call'[t] = c /\ \A u \in Thread \ {t} : call'[u] = call[u]
        /\ \A u \in Thread \ {t} : InHand(u)' = InHand(u)
        /\ InHand(t)' = InHand(t)
    BY <1>1, <1>3, <1>4, OneCall DEF PoolInv, InHand
  <1>6. PICK N \in Nat : N = Cardinality(Block)
    BY BlocksFinite
  <1>7. /\ stats.used \in 0 .. N /\ stats.free_count \in Nat /\ stats.alloc_count \in Nat
        /\ stats \in [used : 0 .. N, peak : 0 .. N, alloc_count : Nat, free_count : Nat]
    BY <1>6 DEF PoolInv, Shapes, PoolTypeOK
  <1>8. stats.used >= 1
    BY <1>1, <1>7, RoomToCountDown, CountsFinite DEF PoolInv, UseCounted
  <1>9. /\ stats'.used = stats.used - 1 /\ stats'.peak = stats.peak
        /\ stats'.alloc_count = stats.alloc_count /\ stats'.free_count = stats.free_count + 1
    BY <1>1, <1>7
  <1>10. Shapes'
    <2>1. stats.used - 1 \in 0 .. N /\ stats.free_count + 1 \in Nat
      BY <1>7, <1>8
    <2>2. stats' \in [used : 0 .. Cardinality(Block), peak : 0 .. Cardinality(Block),
                      alloc_count : Nat, free_count : Nat]
      BY <1>1, <1>6, <1>7, <2>1
    <2>3. /\ top' \in PoolHead /\ link' \in [Block -> Block \cup {null}] /\ most' \in Nat
          /\ held' \in [Thread -> SUBSET Block]
      BY <1>1 DEF PoolInv, Shapes, PoolTypeOK
    <2> QED
      BY <1>5, <2>2, <2>3, TypesKept DEF PoolInv
  <1>11. SwapsSafe'
    BY <1>1, <1>4, <1>5, SwapsKept DEF PoolInv
  <1>12. BlocksParted'
    <2>1. held[t] \cap InHand(t) = {}
      BY DEF PoolInv, BlocksParted, Parted
    <2> QED
      BY <1>1, <1>5, <2>1, ListKept DEF PoolInv
  <1>13. UseCounted'
    <2>1. \A u \in Thread : CountedBy(u)' = CountedBy(u)
      BY <1>1, <1>3, <1>5 DEF CountedBy
    <2>2. Counted' = Counted
      BY <2>1 DEF Counted
    <2>3. PuttingBack' = PuttingBack \cup {t} /\ t \notin PuttingBack
      BY <1>1, <1>2, <1>3, <1>5 DEF PuttingBack
    <2>4. Cardinality(PuttingBack') = Cardinality(PuttingBack) + 1
      BY <2>3, CountsFinite, FS_AddElement DEF PoolInv
    <2>5. Cardinality(PuttingBack) \in Nat /\ Cardinality(Counted) \in Nat
      BY CountsFinite DEF PoolInv
    <2> QED
      BY <1>7, <1>9, <2>2, <2>4, <2>5 DEF PoolInv, UseCounted
  <1>14. PeakKept'
    BY <1>1, <1>3, <1>5, <1>7, <1>9 DEF PoolInv, PeakKept
  <1> QED
    BY <1>5, <1>10, <1>11, <1>12, <1>13, <1>14 DEF PoolInv

\* The link is written into a block that is in no list.
LEMMA JoinInv ==
    ASSUME PoolInv, NEW t \in Thread, Join(t)
    PROVE  PoolInv'
  <1>1. PICK b \in call[t].gives :
            /\ link' = [link EXCEPT ![b] = call[t].seen.block]
            /\ call' = [call EXCEPT ![t].block = b, ![t].at = "push"]
    BY DEF Join
  <1> DEFINE c == [call[t] EXCEPT !.block = b, !.at = "push"]
  <1>2. /\ call[t].at = "join" /\ call' = [call EXCEPT ![t] = c]
        /\ UNCHANGED <<top, stats, held, most, reset>>
    BY <1>1 DEF Join
  <1>3. /\ call[t] \in PoolCall /\ call[t].gives # {} /\ call[t].wants = 0
        /\ b \in Block /\ call[t].seen.block \in Block \cup {null}
        /\ link \in [Block -> Block \cup {null}]
    BY <1>2, CallTyped DEF CallMakesSense, PoolCall, PoolHead, PoolInv, Shapes, PoolTypeOK
  <1>4. /\ c \in PoolCall /\ c.at = "push" /\ c.gives = call[t].gives /\ c.wants = 0
        /\ c.block = b /\ c.seen = call[t].seen
    BY <1>3 DEF PoolCall
  <1> HIDE DEF c
  <1>5. CallMakesSense(c)
    BY <1>3, <1>4 DEF CallMakesSense
  <1>6. /\ call' \in [Thread -> PoolCall] /\ CallsMakeSense'
        /\ call'[t] = c /\ \A u \in Thread \ {t} : call'[u] = call[u]
        /\ \A u \in Thread \ {t} : InHand(u)' = InHand(u)
        /\ InHand(t)' = InHand(t)
    BY <1>2, <1>4, <1>5, OneCall DEF PoolInv, InHand
  <1>7. link'[b] = call[t].seen.block /\ \A x \in Block \ {b} : link'[x] = link[x]
    BY <1>1, <1>3
  <1>8. b \in InHand(t)
    BY <1>1 DEF InHand
  <1>9. Shapes'
    <2>1. link' \in [Block -> Block \cup {null}]
      BY <1>1, <1>3
    <2> QED
      BY <1>2, <1>6, <2>1 DEF PoolInv, Shapes, PoolTypeOK, PoolCall
  <1>10. PICK n, d : n \in Nat /\ Linked(d, n) /\ Parted(Listed(d, n))
    BY DEF PoolInv, BlocksParted
  <1>11. b \notin Listed(d, n) /\ held[t] \cap InHand(t) = {}
         /\ \A u \in Thread \ {t} : b \notin InHand(u)
    BY <1>8, <1>10 DEF Parted
  <1>12. Linked(d, n)'
    <2>1. \A i \in 0 .. n - 1 : d[i] \in Block \ {b}
      BY <1>10, <1>11 DEF Linked, Listed
    <2>2. \A i \in 0 .. n - 1 : d[i] \in Block /\ link'[d[i]] = d[i + 1]
      BY <1>7, <1>10, <2>1 DEF Linked
    <2> QED
      BY <1>2, <1>10, <2>2 DEF Linked
  <1>13. BlocksParted'
    <2> DEFINE F == Listed(d, n)
    <2>1. Parted(F) /\ F \cap held[t] = {} /\ F \cap InHand(t) = {}
      BY <1>10 DEF Parted
    <2> HIDE DEF F
    <2>2. Parted(F)'
      BY <1>2, <1>6, <1>11, <2>1, PartsShift
    <2> QED
      BY <1>10, <1>12, <2>2 DEF BlocksParted, F
  <1>14. SwapsSafe'
    <2> SUFFICES ASSUME NEW u \in Thread
                 PROVE  HeadSeen(call[u])' /\ Popping(call[u])' /\ Pushing(call[u])'
      BY DEF SwapsSafe
    <2>1. CASE u = t
      <3>1. HeadSeen(call[t])
        BY CallTyped
      <3> QED
        BY <1>1, <1>2, <1>4, <1>6, <1>7, <2>1, <3>1 DEF HeadSeen, Popping, Pushing
    <2>2. CASE u # t
      <3>1. /\ call'[u] = call[u] /\ call[u] \in PoolCall /\ CallMakesSense(call[u])
            /\ HeadSeen(call[u]) /\ Popping(call[u]) /\ Pushing(call[u])
        BY <1>6, <2>2, CallTyped
      <3>2. HeadSeen(call[u])'
        BY <1>2, <3>1 DEF HeadSeen
      <3>3. Popping(call[u])'
        <4> SUFFICES ASSUME call[u].at = "pop" PROVE Popping(call[u])'
          BY <3>1 DEF Popping
        <4>1. call[u].seen = top => top.block \in Listed(d, n)
          <5> SUFFICES ASSUME call[u].seen = top PROVE top.block \in Listed(d, n)
            OBVIOUS
          <5>1. top.block \in Block
            BY <3>1 DEF Popping
          <5>2. n > 0 /\ d[0] = top.block
            BY <1>10, <5>1, PoolAssumption DEF Linked
          <5> QED
            BY <1>10, <5>2 DEF Listed
        <4>2. call[u].seen = top => link'[call[u].seen.block] = link[call[u].seen.block]
          BY <1>7, <1>11, <3>1, <4>1 DEF Popping
        <4> QED
          BY <1>2, <3>1, <4>2 DEF Popping
      <3>4. Pushing(call[u])'
        <4>1. call[u].at = "push" => call[u].block \in Block \ {b}
          BY <1>11, <2>2, <3>1 DEF Pushing, InHand, PoolCall
        <4> QED
          BY <1>7, <3>1, <4>1 DEF Pushing
      <3> QED
        BY <3>2, <3>3, <3>4
    <2> QED
      BY <2>1, <2>2
  <1>15. UseCounted'
    <2>1. CountedBy(t)' = CountedBy(t)
      BY <1>2, <1>4, <1>6 DEF CountedBy
    <2>2. t \in PuttingBack' <=> t \in PuttingBack
      BY <1>2, <1>4, <1>6 DEF PuttingBack
    <2> QED
      BY <1>2, <1>6, <2>1, <2>2, UseKept DEF PoolInv
  <1>16. PeakKept'
    BY <1>2, <1>4, <1>6, PeakUnmoved DEF PoolInv
  <1> QED
    BY <1>6, <1>9, <1>13, <1>14, <1>15, <1>16 DEF PoolInv

\* The swap of PushTop.
LEMMA PushTopInv ==
    ASSUME PoolInv, NEW t \in Thread, PushTop(t)
    PROVE  PoolInv'
  <1> DEFINE b == call[t].block
             left == call[t].gives \ {b}
  <1>1. /\ call[t].at = "push" /\ UNCHANGED <<link, stats, held, most, reset>>
        /\ call[t].gives # {} /\ call[t].wants = 0 /\ call[t] \in PoolCall
        /\ b \in call[t].gives /\ b \in Block /\ link[b] = call[t].seen.block
    BY CallTyped DEF PushTop, CallMakesSense, Pushing, PoolCall
  <1>2. CASE top # call[t].seen
    <2> DEFINE c == [[call[t] EXCEPT !.at = "join"] EXCEPT !.seen = top]
    <2>1. call' = [call EXCEPT ![t] = c] /\ UNCHANGED top
      BY <1>2 DEF PushTop, FC_ATOMIC_CAS
    <2>2. /\ c \in PoolCall /\ c.at = "join" /\ c.seen = top /\ c.gives = call[t].gives /\ c.wants = 0
          /\ c.block = b
      BY <1>1, CallTyped DEF PoolCall
    <2> HIDE DEF c
    <2>3. CallMakesSense(c) /\ HeadSeen(c) /\ Popping(c) /\ Pushing(c)
      BY <1>1, <2>2, CallTyped DEF CallMakesSense, HeadSeen, Popping, Pushing, PoolHead
    <2> QED
      BY <1>1, <2>1, <2>2, <2>3, QuietStep
  <1>3. CASE top = call[t].seen
    <2> DEFINE c == IF left = {} THEN NoCall ELSE [NoCall EXCEPT !.gives = left, !.at = "uncount"]
    <2>1. /\ call' = [call EXCEPT ![t] = c]
          /\ top' = [block |-> b, version |-> top.version + 1]
      BY <1>3 DEF PushTop, FC_ATOMIC_CAS
    <2>2. NoCall \in PoolCall /\ NoCall.at = "idle" /\ NoCall.gives = {}
          /\ NoCall.block = null /\ NoCall.wants = 0
      BY BlocksFinite DEF NoCall, PoolCall, PoolHead
    <2>3. /\ c \in PoolCall /\ c.gives = left /\ c.block = null /\ c.wants = 0
          /\ c.at = IF left = {} THEN "idle" ELSE "uncount"
      <3>1. left \in SUBSET Block
        BY <1>1 DEF PoolCall
      <3> QED
        BY <2>2, <3>1 DEF PoolCall
    <2> HIDE DEF c
    <2>4. CallMakesSense(c)
      BY <2>3 DEF CallMakesSense
    <2>5. /\ call' \in [Thread -> PoolCall] /\ CallsMakeSense'
          /\ call'[t] = c /\ \A u \in Thread \ {t} : call'[u] = call[u]
          /\ \A u \in Thread \ {t} : InHand(u)' = InHand(u)
          /\ InHand(t)' = left
      BY <2>1, <2>3, <2>4, OneCall DEF PoolInv
    <2>6. /\ top'.block = b /\ top'.version = top.version + 1 /\ top' \in PoolHead
          /\ top.version \in Nat /\ link[b] = top.block
      BY <1>1, <1>3, <2>1, CallTyped DEF PoolHead
    <2>7. Shapes'
      BY <1>1, <2>5, <2>6 DEF PoolInv, Shapes, PoolTypeOK, PoolCall
    <2>8. SwapsSafe'
      <3> SUFFICES ASSUME NEW u \in Thread
                   PROVE  HeadSeen(call[u])' /\ Popping(call[u])' /\ Pushing(call[u])'
        BY DEF SwapsSafe
      <3>1. CASE u = t
        BY <2>3, <2>5, <3>1 DEF HeadSeen, Popping, Pushing
      <3>2. CASE u # t
        <4>1. call'[u] = call[u] /\ call[u] \in PoolCall
              /\ HeadSeen(call[u]) /\ Popping(call[u]) /\ Pushing(call[u])
          BY <2>5, <3>2, CallTyped
        <4>2. call[u].at \in {"link", "pop", "join", "push"} =>
                 call[u].seen.version \in Nat /\ call[u].seen.version < top'.version
          BY <2>6, <4>1 DEF HeadSeen, PoolCall, PoolHead
        <4> QED
          BY <1>1, <2>6, <4>1, <4>2 DEF HeadSeen, Popping, Pushing
      <3> QED
        BY <3>1, <3>2
    <2>9. InHand(t) = call[t].gives
      BY <1>1 DEF InHand
    <2>10. PICK n, d : n \in Nat /\ Linked(d, n) /\ Parted(Listed(d, n))
      BY DEF PoolInv, BlocksParted
    <2>11. BlocksParted'
      <3> DEFINE F == Listed(d, n)
      <3>1. Parted(F) /\ F \cap held[t] = {} /\ F \cap InHand(t) = {} /\ held[t] \cap InHand(t) = {}
        BY <2>10 DEF Parted
      <3>2. PICK m, e : m \in Nat /\ Linked(e, m)' /\ Listed(e, m) = F \cup {b}
        <4>1. b \notin F
          BY <1>1, <2>9, <3>1
        <4> QED
          BY <1>1, <2>6, <2>10, <4>1, PushChain DEF PoolInv
      <3> DEFINE G == Listed(e, m)
      <3>3. G = F \cup {b}
        BY <3>2
      <3> HIDE DEF F, G
      <3>4. /\ G \cup held'[t] \cup InHand(t)' = F \cup held[t] \cup InHand(t)
            /\ G \cap held'[t] = {} /\ G \cap InHand(t)' = {} /\ held'[t] \cap InHand(t)' = {}
            /\ \A u \in Thread \ {t} : held'[u] = held[u]
        BY <1>1, <2>5, <2>9, <3>1, <3>3
      <3>5. Parted(G)'
        BY <2>5, <3>1, <3>4, PartsShift
      <3> QED
        BY <3>2, <3>5 DEF BlocksParted, G
    <2>12. UseCounted'
      <3>1. CountedBy(t)' = CountedBy(t) \ {b} /\ b \in CountedBy(t)
        <4>1. held[t] \cap InHand(t) = {}
          BY <2>10 DEF Parted
        <4> QED
          BY <1>1, <2>3, <2>5, <2>9, <4>1 DEF CountedBy
      <3>2. \A u \in Thread \ {t} : CountedBy(u)' = CountedBy(u) /\ b \notin CountedBy(u)
        <4>1. \A u \in Thread \ {t} : CountedBy(u)' = CountedBy(u) /\ CountedBy(u) \subseteq held[u] \cup InHand(u)
          BY <1>1, <2>5 DEF CountedBy, InHand
        <4>2. \A u \in Thread \ {t} : b \notin held[u] /\ b \notin InHand(u)
          BY <1>1, <2>9, <2>10 DEF Parted
        <4> QED
          BY <4>1, <4>2
      <3>3. Counted' = Counted \ {b} /\ b \in Counted
        BY <3>1, <3>2 DEF Counted
      <3>4. PuttingBack' = PuttingBack \ {t} /\ t \in PuttingBack
        BY <1>1, <2>3, <2>5 DEF PuttingBack
      <3>5. /\ Cardinality(Counted') = Cardinality(Counted) - 1
            /\ Cardinality(PuttingBack') = Cardinality(PuttingBack) - 1
        BY <3>3, <3>4, CountsFinite, FS_RemoveElement DEF PoolInv
      <3>6. /\ Cardinality(PuttingBack) \in Nat /\ Cardinality(Counted) \in Nat
            /\ stats.used \in Nat /\ stats'.used = stats.used
        BY <1>1, CountsFinite, BlocksFinite DEF PoolInv, Shapes, PoolTypeOK
      <3> QED
        BY <3>5, <3>6 DEF PoolInv, UseCounted
    <2>13. PeakKept'
      BY <1>1, <2>3, <2>5, PeakUnmoved DEF PoolInv
    <2> QED
      BY <2>5, <2>7, <2>8, <2>11, <2>12, <2>13 DEF PoolInv
  <1> QED
    BY <1>2, <1>3

LEMMA ResetInv ==
    ASSUME PoolInv, fc_ds_mem_pool_reset_stats
    PROVE  PoolInv'
  <1>1. /\ stats' = [stats EXCEPT !.peak = 0, !.alloc_count = 0, !.free_count = 0]
        /\ reset' = TRUE /\ UNCHANGED <<top, link, call, held, most>>
    BY DEF fc_ds_mem_pool_reset_stats
  <1>2. stats'.used = stats.used
    BY <1>1 DEF PoolInv, Shapes, PoolTypeOK
  <1>3. Shapes'
    <2>1. stats' \in [used : 0 .. Cardinality(Block), peak : 0 .. Cardinality(Block),
                      alloc_count : Nat, free_count : Nat]
      <3>1. stats \in [used : 0 .. Cardinality(Block), peak : 0 .. Cardinality(Block),
                       alloc_count : Nat, free_count : Nat]
        BY DEF PoolInv, Shapes, PoolTypeOK
      <3>2. 0 \in 0 .. Cardinality(Block)
        BY BlocksFinite
      <3> QED
        BY <1>1, <3>1, <3>2
    <2> QED
      BY <1>1, <2>1, TypesKept DEF PoolInv, Shapes, PoolTypeOK
  <1>4. CallsMakeSense' /\ SwapsSafe'
    BY <1>1 DEF PoolInv, CallsMakeSense, SwapsSafe, HeadSeen, Popping, Pushing
  <1>5. BlocksParted'
    BY <1>1 DEF PoolInv, BlocksParted, Linked, Parted, InHand
  <1>6. UseCounted'
    BY <1>1, <1>2 DEF PoolInv, UseCounted, Counted, CountedBy, PuttingBack
  <1>7. PeakKept'
    BY <1>1 DEF PeakKept
  <1> QED
    BY <1>3, <1>4, <1>5, <1>6, <1>7 DEF PoolInv

LEMMA NextInv ==
    ASSUME PoolInv, [PoolNext]_poolVars
    PROVE  PoolInv'
  <1>1. CASE UNCHANGED poolVars
    <2>1. UNCHANGED <<top, link, stats, call, held, most, reset>>
      BY <1>1 DEF poolVars
    <2>2. Shapes'
      BY <2>1 DEF PoolInv, Shapes, PoolTypeOK
    <2>3. CallsMakeSense' /\ SwapsSafe'
      BY <2>1 DEF PoolInv, CallsMakeSense, SwapsSafe, HeadSeen, Popping, Pushing
    <2>4. BlocksParted'
      <3>1. PICK n, d : n \in Nat /\ Linked(d, n) /\ Parted(Listed(d, n))
        BY DEF PoolInv, BlocksParted
      <3>2. Linked(d, n)' /\ Parted(Listed(d, n))'
        BY <2>1, <3>1 DEF Linked, Listed, Parted, InHand
      <3> QED
        BY <3>1, <3>2 DEF BlocksParted
    <2>5. UseCounted' /\ PeakKept'
      BY <2>1 DEF PoolInv, UseCounted, Counted, CountedBy, PuttingBack, PeakKept
    <2> QED
      BY <2>2, <2>3, <2>4, <2>5 DEF PoolInv
  <1>2. ASSUME NEW t \in Thread, Step(t)
        PROVE  PoolInv'
    BY <1>2, ReadTopInv, ReadLinkInv, PopTopInv, CountAllocInv, RaisePeakInv, JoinInv, PushTopInv,
       CountFreeInv DEF Step
  <1>3. ASSUME NEW t \in Thread, NEW blocks \in (SUBSET held[t]) \ {{}}, fc_ds_mem_pool_free_batch(t, blocks)
        PROVE  PoolInv'
    BY <1>3, FreeInv
  <1> QED
    BY <1>1, <1>2, <1>3, AllocInv, ResetInv DEF PoolNext, PoolStep

----------------------------------------------------------------------------
(* What the invariant says to the callers.                                  *)

LEMMA OneOwner == PoolInv => PoolOneOwner
  <1> SUFFICES ASSUME PoolInv, NEW b \in Block
               PROVE  (IF b \in Free THEN 1 ELSE 0)
                          + Cardinality({t \in Thread : b \in held[t]})
                          + Cardinality({t \in Thread : b \in InHand(t)}) = 1
    BY DEF PoolOneOwner
  <1>1. PICK n, d : n \in Nat /\ Linked(d, n) /\ Parted(Listed(d, n))
    BY DEF PoolInv, BlocksParted
  <1>2. Parted(Free)
    <2> DEFINE F == Listed(d, n)
    <2>1. Free = F
      BY <1>1, FreeIsListed
    <2>2. Parted(F)
      BY <1>1
    <2> HIDE DEF F
    <2> QED
      BY <2>1, <2>2
  <1> DEFINE H == {t \in Thread : b \in held[t]}
             I == {t \in Thread : b \in InHand(t)}
  <1>3. CASE b \in Free
    <2>1. H = {} /\ I = {}
      BY <1>2, <1>3 DEF Parted
    <2>2. Cardinality(H) = 0 /\ Cardinality(I) = 0
      BY <2>1, FS_EmptySet
    <2> QED
      BY <1>3, <2>2
  <1>4. ASSUME NEW t \in Thread, b \in held[t]
        PROVE  b \notin Free /\ Cardinality(H) = 1 /\ Cardinality(I) = 0
    <2>1. b \notin Free /\ H = {t} /\ I = {}
      BY <1>2, <1>4 DEF Parted
    <2> QED
      BY <2>1, FS_EmptySet, FS_Singleton
  <1>5. ASSUME NEW t \in Thread, b \in InHand(t)
        PROVE  b \notin Free /\ Cardinality(H) = 0 /\ Cardinality(I) = 1
    <2>1. b \notin Free /\ H = {} /\ I = {t}
      BY <1>2, <1>5 DEF Parted
    <2> QED
      BY <2>1, FS_EmptySet, FS_Singleton
  <1>6. b \in Free \/ \E t \in Thread : b \in held[t] \/ b \in InHand(t)
    BY <1>2 DEF Parted
  <1> QED
    BY <1>3, <1>4, <1>5, <1>6

LEMMA StatsSettle == PoolInv => PoolStatsSettle
  <1> SUFFICES ASSUME PoolInv, \A t \in Thread : call[t].at = "idle"
               PROVE  /\ stats.used = Cardinality(UNION {held[t] : t \in Thread})
                      /\ Cardinality(Free) = Cardinality(Block) - stats.used
                      /\ ~reset => /\ stats.peak = most
                                   /\ stats.alloc_count - stats.free_count = stats.used
    BY DEF PoolStatsSettle
  <1>1. \A t \in Thread : call[t].gives = {} /\ CountedBy(t) = held[t] /\ InHand(t) = {}
    BY DEF PoolInv, CallsMakeSense, CallMakesSense, CountedBy, InHand
  <1>2. Counted = UNION {held[t] : t \in Thread} /\ PuttingBack = {}
    BY <1>1 DEF Counted, PuttingBack
  <1>3. stats.used \in Nat /\ stats.alloc_count \in Nat /\ stats.free_count \in Nat
    BY BlocksFinite DEF PoolInv, Shapes, PoolTypeOK
  <1>4. stats.used = Cardinality(Counted)
    BY <1>2, <1>3, FS_EmptySet DEF PoolInv, UseCounted
  <1>5. PICK n, d : n \in Nat /\ Linked(d, n) /\ Parted(Listed(d, n))
    BY DEF PoolInv, BlocksParted
  <1>6. Parted(Free) /\ Free \subseteq Block
    <2>1. Free = Listed(d, n)
      BY <1>5, FreeIsListed
    <2>2. Listed(d, n) \subseteq Block
      BY <1>5 DEF Linked, Listed
    <2> QED
      BY <1>5, <2>1, <2>2
  <1>7. Free \cap Counted = {} /\ Free \cup Counted = Block
    <2>1. \A t \in Thread : Free \cap held[t] = {}
      BY <1>6 DEF Parted
    <2>2. \A b \in Block : b \in Free \/ \E t \in Thread : b \in held[t]
      BY <1>1, <1>6 DEF Parted
    <2>3. Counted \subseteq Block
      BY CountsFinite DEF PoolInv
    <2> QED
      BY <1>2, <1>6, <2>1, <2>2, <2>3
  <1>8. Free = Block \ Counted /\ Block \cap Counted = Counted
    BY <1>7
  <1>9. Cardinality(Free) = Cardinality(Block) - Cardinality(Counted)
    BY <1>8, PoolAssumption, FS_Difference
  <1>10. ~reset => stats.peak = most /\ stats.alloc_count - stats.free_count = stats.used
    BY <1>3 DEF PoolInv, PeakKept
  <1> QED
    BY <1>2, <1>4, <1>9, <1>10

\* PoolInv is an invariant, for any threads, blocks and interleaving.
THEOREM PoolInvariance == PoolSpec => []PoolInv
  <1>1. PoolInit => PoolInv
    BY InitInv
  <1>2. PoolInv /\ [PoolNext]_poolVars => PoolInv'
    BY NextInv
  <1> QED
    BY <1>1, <1>2, PTL DEF PoolSpec

\* However the threads' reads and swaps interleave, every variable keeps its type, a block
\* has one owner (none is handed out twice and none is lost), and whenever no call
\* is in progress the counters are exact.
THEOREM PoolSafe == PoolSpec => []PoolConsistent
  <1>1. PoolInv => PoolConsistent
    BY OneOwner, StatsSettle DEF PoolConsistent, PoolInv, Shapes
  <1> QED
    BY <1>1, PoolInvariance, PTL
=============================================================================
