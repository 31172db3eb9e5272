---------------------------- MODULE BoundedQueue ----------------------------
(***************************************************************************)
(* What a bounded queue promises the two sides that use it, whatever it is *)
(* built from: elements leave in the order they were offered, each once,   *)
(* and one is lost or refused only when the queue is full.                 *)
(* The elements are numbered as they are offered, so the queue always      *)
(* holds numbers; an element that is refused stays with its producer and   *)
(* keeps its number.                                                       *)
(***************************************************************************)
EXTENDS Integers, Sequences

VARIABLES
    capacity,  \* 0 before the queue is opened
    onFull,    \* "refuse", "spin" or "drop" when the queue is open
    queue,     \* the elements, oldest first
    next,      \* the number of the next element offered
    lost,      \* how many were dropped
    out,       \* what the last completed read took
    reply      \* for either side, "none", "pending" or the outcome of its last call

queueVars == <<capacity, onFull, queue, next, lost, out, reply>>

QueueSide == {"producer", "consumer"}

Replied(s, r) == reply[s] = "pending" /\ reply' = [reply EXCEPT ![s] = r]

QueueInit ==
    /\ capacity = 0 /\ onFull = "none"
    /\ queue = <<>> /\ next = 1 /\ lost = 0 /\ out = <<>>
    /\ reply = [s \in QueueSide |-> "none"]

Open ==
    /\ capacity = 0 /\ capacity' > 0
    /\ UNCHANGED <<queue, next, lost, out, reply>>

Ask(s) ==
    /\ capacity > 0
    /\ reply' = [reply EXCEPT ![s] = "pending"]
    /\ out' = IF s = "consumer" THEN <<>> ELSE out
    /\ UNCHANGED <<capacity, onFull, queue, next, lost>>

\* A side that closes the queue or dies gives up its call; what it had not finished
\* has no effect.
Abandon(s) ==
    /\ reply' = [reply EXCEPT ![s] = "none"]
    /\ out' = IF s = "consumer" THEN <<>> ELSE out
    /\ UNCHANGED <<capacity, onFull, queue, next, lost>>

Put ==
    /\ \E n \in 1 .. capacity - Len(queue) :
          /\ queue' = queue \o [i \in 1 .. n |-> next + i - 1]
          /\ next' = next + n
    /\ Replied("producer", "ok")
    /\ UNCHANGED <<capacity, onFull, lost, out>>

Refuse ==
    /\ Len(queue) = capacity
    /\ Replied("producer", "full")
    /\ UNCHANGED <<capacity, onFull, queue, next, lost, out>>

Drop ==
    /\ onFull = "drop" /\ Len(queue) = capacity
    /\ next' = next + 1 /\ lost' = lost + 1
    /\ Replied("producer", "dropped")
    /\ UNCHANGED <<capacity, onFull, queue, out>>

Take ==
    /\ \E n \in 1 .. Len(queue) :
          /\ out' = SubSeq(queue, 1, n)
          /\ queue' = SubSeq(queue, n + 1, Len(queue))
    /\ Replied("consumer", "ok")
    /\ UNCHANGED <<capacity, onFull, next, lost>>

Empty ==
    /\ queue = <<>>
    /\ Replied("consumer", "empty")
    /\ UNCHANGED <<capacity, onFull, queue, next, lost, out>>

QueueNext ==
    \/ Open \/ Put \/ Refuse \/ Drop \/ Take \/ Empty
    \/ \E s \in QueueSide : Ask(s) \/ Abandon(s)

QueueSpec == QueueInit /\ [][QueueNext]_queueVars
=============================================================================
