------------------------- MODULE Structures_proofs --------------------------
(***************************************************************************)
(* Proofs about the structures of the installed headers that one thread    *)
(* uses at a time.  They share no state: each has an invariant of its own, *)
(* and the lemmas about remainders that come first.                        *)
(***************************************************************************)
EXTENDS Arena, GenericRingBuffer, RandomStreams, BloomFilter, FiniteSetTheorems,
        WellFoundedInduction, NaturalsInduction, TLAPS

----------------------------------------------------------------------------
(* Remainders.                                                              *)

\* A number has one quotient and one remainder.
LEMMA OneRemainder ==
    ASSUME NEW m \in Nat \ {0}, NEW q \in Int, NEW r \in 0 .. m - 1, NEW p \in Int, NEW s \in 0 .. m - 1,
           m * q + r = m * p + s
    PROVE  q = p /\ r = s
  <1>1. CASE q = p
    BY <1>1
  <1>2. CASE q > p
    <2>1. PICK d \in Nat \ {0} : q = p + d
      BY <1>2
    <2>2. m * q = m * p + m * d /\ m * d >= m
      BY <2>1
    <2> QED
      BY <2>2
  <1>3. CASE p > q
    <2>1. PICK d \in Nat \ {0} : p = q + d
      BY <1>3
    <2>2. m * p = m * q + m * d /\ m * d >= m
      BY <2>1
    <2> QED
      BY <2>2
  <1> QED
    BY <1>1, <1>2, <1>3

LEMMA Remainder ==
    ASSUME NEW m \in Nat \ {0}, NEW n \in Int
    PROVE  /\ n % m \in 0 .. m - 1
           /\ n \div m \in Int
           /\ n = m * (n \div m) + (n % m)
  OBVIOUS

\* What is below the modulus is its own remainder.
LEMMA SmallRemainder ==
    ASSUME NEW m \in Nat \ {0}, NEW n \in 0 .. m - 1
    PROVE  n % m = n
  OBVIOUS

\* Taking the remainder before adding changes nothing.
LEMMA RemainderOfSum ==
    ASSUME NEW m \in Nat \ {0}, NEW a \in Int, NEW b \in Int
    PROVE  ((a % m) + b) % m = (a + b) % m
  <1> DEFINE x == a \div m
             y == ((a % m) + b) \div m
             z == (a + b) \div m
             r == ((a % m) + b) % m
             s == (a + b) % m
  <1>0. a % m \in Int /\ (a % m) + b \in Int /\ a + b \in Int
    BY Remainder
  <1>1. /\ x \in Int /\ y \in Int /\ z \in Int
        /\ r \in 0 .. m - 1 /\ s \in 0 .. m - 1
        /\ a = m * x + (a % m)
        /\ (a % m) + b = m * y + r
        /\ a + b = m * z + s
    <2>1. x \in Int /\ a = m * x + (a % m)
      BY Remainder
    <2>2. y \in Int /\ r \in 0 .. m - 1 /\ (a % m) + b = m * y + r
      BY <1>0, Remainder
    <2>3. z \in Int /\ s \in 0 .. m - 1 /\ a + b = m * z + s
      BY <1>0, Remainder
    <2> QED
      BY <2>1, <2>2, <2>3
  <1>2. m * (x + y) = m * x + m * y /\ m * x \in Int /\ m * y \in Int /\ m * z \in Int
    BY <1>1
  <1>3. m * (x + y) + r = m * z + s
    BY <1>0, <1>1, <1>2
  <1> HIDE DEF x, y, z, r, s
  <1>4. x + y \in Int
    BY <1>1
  <1>5. r = s
    BY <1>1, <1>3, <1>4, OneRemainder
  <1> QED
    BY <1>5 DEF r, s

LEMMA RemainderOfSlot ==
    ASSUME NEW m \in Nat \ {0}, NEW q \in Int, NEW r \in 0 .. m - 1
    PROVE  (q * m + r) % m = r
  <1>1. PICK n \in Int : n = q * m + r
    OBVIOUS
  <1>2. PICK p \in Int, s \in 0 .. m - 1 : s = n % m /\ n = m * p + s
    <2>1. n % m \in 0 .. m - 1 /\ n \div m \in Int /\ n = m * (n \div m) + (n % m)
      BY Remainder
    <2> QED
      BY <2>1
  <1>3. m * q + r = m * p + s
    BY <1>1, <1>2
  <1>4. r = s
    BY <1>3, OneRemainder
  <1> QED
    BY <1>1, <1>2, <1>4

\* Adding the modulus changes nothing.
LEMMA OnceAround ==
    ASSUME NEW m \in Nat \ {0}, NEW n \in Int
    PROVE  (n + m) % m = n % m
  <1>1. PICK q \in Int, r \in 0 .. m - 1 : r = n % m /\ n = m * q + r
    <2>1. n % m \in 0 .. m - 1 /\ n \div m \in Int /\ n = m * (n \div m) + (n % m)
      BY Remainder
    <2> QED
      BY <2>1
  <1>2. PICK p \in Int : p = q + 1 /\ p * m + r = n + m
    BY <1>1
  <1>3. (p * m + r) % m = r
    BY RemainderOfSlot
  <1> QED
    BY <1>1, <1>2, <1>3

\* Numbers less than the modulus apart have different remainders.
LEMMA RemaindersApart ==
    ASSUME NEW m \in Nat \ {0}, NEW c \in Int, NEW a \in 0 .. m - 1, NEW b \in 0 .. m - 1,
           (c + a) % m = (c + b) % m
    PROVE  a = b
  <1> DEFINE x == (c + a) \div m
             y == (c + b) \div m
             r == (c + a) % m
  <1>1. /\ x \in Int /\ y \in Int /\ r \in Int
        /\ c + a = m * x + r /\ c + b = m * y + r
    BY Remainder
  <1> HIDE DEF x, y, r
  <1>2. x - y \in Int /\ m * (x - y) = m * x - m * y /\ m * x \in Int /\ m * y \in Int
    BY <1>1
  <1>3. a - b = m * (x - y)
    BY <1>1, <1>2
  <1>4. m * (x - y) + b = m * 0 + a /\ b \in 0 .. m - 1 /\ a \in 0 .. m - 1
    BY <1>2, <1>3
  <1> QED
    BY <1>2, <1>4, OneRemainder

----------------------------------------------------------------------------
(* The streams of RandomStreams.                                            *)

Assigned == 0 .. NodeCount
Started  == [NodeId -> 0 .. ThreadCount]

\* How far from the seed the stream of a thread begins.
StartOf(s) == s[1] * LongJumpDistance + s[2] * JumpDistance

\* Where everybody stands when so many nodes, and threads of each, are set up.
StandsFrom(seed, nodes, threads) ==
    /\ master = Advanced(seed, nodes * LongJumpDistance)
    /\ \A n \in NodeId :
          /\ n >= nodes => threads[n] = 0
          /\ nodeRng[n] = IF n < nodes
                          THEN Advanced(seed, n * LongJumpDistance + threads[n] * JumpDistance)
                          ELSE NotSetUp
    /\ \A s \in StreamId :
          threadRng[s] = IF s[2] < threads[s[1]] THEN Advanced(seed, StartOf(s) + taken[s])
                         ELSE NotSetUp

\* A thread drew the first positions of its stream, and none before it was set up.
DrewInOrder(seed, threads) ==
    \A s \in StreamId :
       /\ s[2] >= threads[s[1]] => taken[s] = 0
       /\ drawn[s] = {Advanced(seed, StartOf(s) + i) : i \in 0 .. taken[s] - 1}

NothingSetUp ==
    /\ master = NotSetUp
    /\ \A n \in NodeId : nodeRng[n] = NotSetUp
    /\ \A s \in StreamId : threadRng[s] = NotSetUp /\ taken[s] = 0 /\ drawn[s] = {}

StreamsInv ==
    /\ StreamsTypeOK
    /\ \/ NothingSetUp
       \/ \E seed \in Position, nodes \in Assigned, threads \in Started :
             StandsFrom(seed, nodes, threads) /\ DrewInOrder(seed, threads)

LEMMA StreamConstants ==
    /\ Period \in Nat \ {0} /\ JumpDistance \in Nat \ {0} /\ LongJumpDistance \in Nat \ {0}
    /\ NodeCount \in Nat \ {0} /\ ThreadCount \in Nat \ {0} /\ Batches \subseteq Nat \ {0}
  BY StreamsAssumption

LEMMA StartType ==
    ASSUME NEW s \in StreamId
    PROVE  s[1] \in NodeId /\ s[2] \in 0 .. ThreadCount - 1 /\ StartOf(s) \in Nat
  <1>1. s[1] \in NodeId /\ s[2] \in 0 .. ThreadCount - 1
    BY DEF StreamId
  <1> QED
    BY <1>1, StreamConstants DEF StartOf, NodeId

\* Positions advance by sums.
LEMMA AdvancedTwice ==
    ASSUME NEW seed \in Position, NEW a \in Nat, NEW b \in Nat
    PROVE  /\ Advanced(Advanced(seed, a), b) = Advanced(seed, a + b)
           /\ Advanced(seed, a) \in Position /\ Advanced(seed, a) # NotSetUp
  <1>1. (((seed + a) % Period) + b) % Period = ((seed + a) + b) % Period
    <2>1. seed + a \in Int /\ b \in Int
      BY StreamConstants DEF Position
    <2> QED
      BY <2>1, StreamConstants, RemainderOfSum
  <1>2. (seed + a) % Period \in 0 .. Period - 1
    BY StreamConstants, Remainder DEF Position
  <1>3. (seed + a) + b = seed + (a + b)
    BY DEF Position
  <1> QED
    BY <1>1, <1>2, <1>3, StreamConstants DEF Advanced, Position, NotSetUp

\* The streams fit into the period side by side: a place in one of them lies before its end
\* and has one stream and one number there.
LEMMA StreamsFit ==
    ASSUME NEW s \in StreamId, NEW i \in 0 .. JumpDistance - 1
    PROVE  StartOf(s) + i \in 0 .. Period - 1
  <1>1. PICK n \in 0 .. NodeCount - 1, t \in 0 .. ThreadCount - 1 : n = s[1] /\ t = s[2]
    BY StartType DEF NodeId
  <1>2. PICK J \in Nat, L \in Nat, T \in Nat, N \in Nat :
           J = JumpDistance /\ L = LongJumpDistance /\ T = ThreadCount /\ N = NodeCount
    BY StreamConstants
  <1>3. t * J + J <= T * J
    <2> DEFINE d == T - (t + 1)
    <2>1. d \in Nat /\ T = t + 1 + d
      BY <1>1, <1>2
    <2> HIDE DEF d
    <2>2. T * J = t * J + J + d * J /\ d * J >= 0 /\ t * J \in Nat /\ d * J \in Nat
      BY <2>1
    <2> QED
      BY <2>2
  <1>4. n * L + L <= N * L
    <2> DEFINE d == N - (n + 1)
    <2>1. d \in Nat /\ N = n + 1 + d
      BY <1>1, <1>2
    <2> HIDE DEF d
    <2>2. N * L = n * L + L + d * L /\ d * L >= 0 /\ n * L \in Nat /\ d * L \in Nat
      BY <2>1
    <2> QED
      BY <2>2
  <1>5. T * J <= L /\ N * L <= Period /\ n * L \in Nat /\ t * J \in Nat /\ T * J \in Nat /\ N * L \in Nat
    BY <1>2, StreamsAssumption
  <1> QED
    BY <1>1, <1>2, <1>3, <1>4, <1>5, StreamConstants DEF StartOf

LEMMA OneStream ==
    ASSUME NEW r \in StreamId, NEW s \in StreamId,
           NEW i \in 0 .. JumpDistance - 1, NEW j \in 0 .. JumpDistance - 1,
           StartOf(r) + i = StartOf(s) + j
    PROVE  r = s /\ i = j
  <1>1. PICK n \in Nat, t \in 0 .. ThreadCount - 1 : n = r[1] /\ t = r[2]
    BY StartType DEF NodeId
  <1>2. PICK m \in Nat, u \in 0 .. ThreadCount - 1 : m = s[1] /\ u = s[2]
    BY StartType DEF NodeId
  <1>3. PICK J \in Nat \ {0}, L \in Nat \ {0}, T \in Nat :
           J = JumpDistance /\ L = LongJumpDistance /\ T = ThreadCount
    BY StreamConstants
  <1>4. ASSUME NEW v \in 0 .. T - 1, NEW k \in 0 .. J - 1 PROVE v * J + k \in 0 .. L - 1
    <2>1. PICK d \in Nat : T = v + 1 + d
      BY <1>4
    <2>2. T * J = v * J + J + d * J /\ d * J \in Nat /\ v * J \in Nat
      BY <2>1
    <2>3. T * J <= L
      BY <1>3, StreamsAssumption
    <2> QED
      BY <2>2, <2>3
  <1>5. t * J + i \in 0 .. L - 1 /\ u * J + j \in 0 .. L - 1
    BY <1>1, <1>2, <1>3, <1>4
  <1>6. L * n + (t * J + i) = L * m + (u * J + j)
    BY <1>1, <1>2, <1>3 DEF StartOf
  <1>7. n = m /\ t * J + i = u * J + j
    BY <1>5, <1>6, OneRemainder
  <1>8. J * t + i = J * u + j /\ i \in 0 .. J - 1 /\ j \in 0 .. J - 1
    BY <1>3, <1>7
  <1>9. t = u /\ i = j
    BY <1>8, OneRemainder
  <1>10. r = <<r[1], r[2]>> /\ s = <<s[1], s[2]>>
    BY DEF StreamId
  <1> QED
    BY <1>1, <1>2, <1>7, <1>9, <1>10

\* Different places of the streams are different positions.
LEMMA PositionsApart ==
    ASSUME NEW seed \in Position, NEW r \in StreamId, NEW s \in StreamId,
           NEW i \in 0 .. JumpDistance - 1, NEW j \in 0 .. JumpDistance - 1,
           Advanced(seed, StartOf(r) + i) = Advanced(seed, StartOf(s) + j)
    PROVE  r = s /\ i = j
  <1>1. StartOf(r) + i \in 0 .. Period - 1 /\ StartOf(s) + j \in 0 .. Period - 1
    BY StreamsFit
  <1>2. seed \in Int
    BY StreamConstants DEF Position
  <1>3. (seed + (StartOf(r) + i)) % Period = (seed + (StartOf(s) + j)) % Period
    BY DEF Advanced
  <1>4. StartOf(r) + i = StartOf(s) + j
    BY <1>1, <1>2, <1>3, StreamConstants, RemaindersApart
  <1> QED
    BY <1>4, OneStream

LEMMA StreamsInitInv == StreamsInit => StreamsInv
  BY StreamConstants DEF StreamsInit, StreamsInv, StreamsTypeOK, NothingSetUp

\* A thread gets no further than the room of its stream.
LEMMA DrawInv ==
    ASSUME StreamsInv, NEW s \in StreamId, Draw(s)
    PROVE  StreamsInv'
  <1>1. PICK k \in Batches :
           /\ taken[s] + k <= JumpDistance
           /\ drawn' = [drawn EXCEPT ![s] = @ \cup {Advanced(threadRng[s], i) : i \in 0 .. k - 1}]
           /\ taken' = [taken EXCEPT ![s] = @ + k]
           /\ threadRng' = [threadRng EXCEPT ![s] = Advanced(threadRng[s], k)]
    BY DEF Draw, fc_xoshiro256_batch
  <1>2. PICK n \in Nat \ {0}, had \in 0 .. JumpDistance : n = k /\ had = taken[s]
    BY StreamConstants DEF StreamsInv, StreamsTypeOK
  <1>3. PICK seed \in Position, nodes \in Assigned, threads \in Started :
           StandsFrom(seed, nodes, threads) /\ DrewInOrder(seed, threads)
    BY DEF StreamsInv, Draw, NothingSetUp
  <1>4. /\ s[2] < threads[s[1]] /\ threadRng[s] = Advanced(seed, StartOf(s) + had)
        /\ s[1] \in NodeId /\ s[2] \in 0 .. ThreadCount - 1 /\ StartOf(s) \in Nat
        /\ threads[s[1]] \in 0 .. ThreadCount
    BY <1>2, <1>3, StartType DEF StandsFrom, Draw, Started
  <1>5. \A i \in Nat : /\ Advanced(threadRng[s], i) = Advanced(seed, StartOf(s) + (had + i))
                       /\ Advanced(threadRng[s], i) \in Position
    <2> SUFFICES ASSUME NEW i \in Nat
                 PROVE  /\ Advanced(threadRng[s], i) = Advanced(seed, StartOf(s) + (had + i))
                        /\ Advanced(threadRng[s], i) \in Position
      OBVIOUS
    <2>1. had \in Nat /\ StartOf(s) + had \in Nat /\ (StartOf(s) + had) + i = StartOf(s) + (had + i)
      BY <1>2, <1>4, StreamConstants
    <2> QED
      BY <1>4, <2>1, AdvancedTwice
  <1>6. had + n \in 0 .. JumpDistance
    BY <1>1, <1>2, StreamConstants
  <1>7. drawn[s] = {Advanced(seed, StartOf(s) + i) : i \in 0 .. had - 1}
    BY <1>2, <1>3 DEF DrewInOrder
  <1>8. {Advanced(threadRng[s], i) : i \in 0 .. n - 1} =
           {Advanced(seed, StartOf(s) + i) : i \in had .. had + n - 1}
    <2>1. ASSUME NEW i \in 0 .. n - 1
          PROVE  \E j \in had .. had + n - 1 :
                    Advanced(threadRng[s], i) = Advanced(seed, StartOf(s) + j)
      <3>1. had + i \in had .. had + n - 1
        BY <1>2, StreamConstants
      <3> QED
        BY <1>5, <3>1
    <2>2. ASSUME NEW j \in had .. had + n - 1
          PROVE  \E i \in 0 .. n - 1 :
                    Advanced(threadRng[s], i) = Advanced(seed, StartOf(s) + j)
      <3>1. j - had \in 0 .. n - 1 /\ had + (j - had) = j
        BY <1>2, StreamConstants
      <3> QED
        BY <1>5, <3>1
    <2> QED
      BY <2>1, <2>2
  <1>9. drawn'[s] = {Advanced(seed, StartOf(s) + i) : i \in 0 .. had + n - 1}
    <2>1. 0 .. had + n - 1 = (0 .. had - 1) \cup (had .. had + n - 1)
      BY <1>2, StreamConstants
    <2>2. drawn'[s] = drawn[s] \cup {Advanced(threadRng[s], i) : i \in 0 .. n - 1}
      BY <1>1, <1>2 DEF StreamsInv, StreamsTypeOK
    <2> QED
      BY <1>7, <1>8, <2>1, <2>2
  <1>10. \A r \in StreamId : r # s => /\ drawn'[r] = drawn[r] /\ taken'[r] = taken[r]
                                      /\ threadRng'[r] = threadRng[r]
    BY <1>1 DEF StreamsInv, StreamsTypeOK
  <1>11. taken'[s] = had + n /\ threadRng'[s] = Advanced(seed, StartOf(s) + taken'[s])
    BY <1>1, <1>2, <1>5 DEF StreamsInv, StreamsTypeOK
  <1>12. StreamsTypeOK'
    <2>1. drawn[s] \cup {Advanced(threadRng[s], i) : i \in 0 .. n - 1} \in SUBSET Position
      BY <1>5 DEF StreamsInv, StreamsTypeOK
    <2>2. Advanced(threadRng[s], n) \in Position
      BY <1>5
    <2> QED
      BY <1>1, <1>2, <1>6, <2>1, <2>2 DEF StreamsInv, StreamsTypeOK, Draw
  <1>13. StandsFrom(seed, nodes, threads)'
    BY <1>3, <1>4, <1>10, <1>11 DEF StandsFrom, Draw
  <1>14. DrewInOrder(seed, threads)'
    <2> SUFFICES ASSUME NEW r \in StreamId
                 PROVE  /\ r[2] >= threads[r[1]] => taken'[r] = 0
                        /\ drawn'[r] = {Advanced(seed, StartOf(r) + i) : i \in 0 .. taken'[r] - 1}
      BY DEF DrewInOrder
    <2>1. CASE r = s
      BY <1>4, <1>9, <1>11, <2>1, StreamConstants
    <2>2. CASE r # s
      BY <1>3, <1>10, <2>2 DEF DrewInOrder
    <2> QED
      BY <2>1, <2>2
  <1> QED
    BY <1>12, <1>13, <1>14 DEF StreamsInv

LEMMA SetUpNodeInv ==
    ASSUME StreamsInv, NEW n \in NodeId, SetUpNode(n)
    PROVE  StreamsInv'
  <1>1. PICK seed \in Position, nodes \in Assigned, threads \in Started :
           StandsFrom(seed, nodes, threads) /\ DrewInOrder(seed, threads)
    BY DEF StreamsInv, SetUpNode, NothingSetUp
  <1>2. n \in Nat /\ nodes \in Nat /\ n < NodeCount
    BY StreamConstants DEF NodeId, Assigned
  <1>3. n = nodes
    <2>1. ~(n < nodes)
      <3>1. SUFFICES ASSUME n < nodes PROVE nodeRng[n] # NotSetUp
        BY DEF SetUpNode
      <3>2. n * LongJumpDistance + threads[n] * JumpDistance \in Nat
        BY <1>2, StreamConstants DEF Started
      <3> QED
        BY <1>1, <3>1, <3>2, AdvancedTwice DEF StandsFrom
    <2>2. ~(nodes < n)
      <3>1. SUFFICES ASSUME nodes < n PROVE nodes \in 0 .. n - 1 /\ nodes \in NodeId /\ nodeRng[nodes] = NotSetUp
        BY DEF SetUpNode
      <3>2. nodes \in 0 .. n - 1 /\ nodes \in NodeId /\ ~(nodes < nodes)
        BY <1>2, <3>1, StreamConstants DEF NodeId
      <3> QED
        BY <1>1, <3>2 DEF StandsFrom
    <2> QED
      BY <1>2, <2>1, <2>2
  <1>4. nodes + 1 \in Assigned
    BY <1>2, <1>3, StreamConstants DEF Assigned
  <1>5. threads[n] = 0 /\ threads[n] * JumpDistance = 0
    BY <1>1, <1>2, <1>3, StreamConstants DEF StandsFrom
  <1>6. n * LongJumpDistance \in Nat /\ n * LongJumpDistance + 0 = n * LongJumpDistance
        /\ n * LongJumpDistance + LongJumpDistance = (n + 1) * LongJumpDistance
    BY <1>2, StreamConstants
  <1>7. /\ master = Advanced(seed, n * LongJumpDistance)
        /\ master' = Advanced(seed, (n + 1) * LongJumpDistance) /\ master' \in Position
        /\ master \in Position
    <2>1. master = Advanced(seed, n * LongJumpDistance)
      BY <1>1, <1>3 DEF StandsFrom
    <2>2. master' = Advanced(master, LongJumpDistance)
      BY DEF SetUpNode, fc_xoshiro256_long_jump
    <2>3. master \in Position
      BY <1>6, <2>1, AdvancedTwice
    <2> QED
      BY <1>6, <2>1, <2>2, <2>3, StreamConstants, AdvancedTwice
  <1>8. nodeRng'[n] = master /\ \A m \in NodeId : m # n => nodeRng'[m] = nodeRng[m]
    BY DEF StreamsInv, StreamsTypeOK, SetUpNode
  <1>9. StreamsTypeOK'
    BY <1>7 DEF StreamsInv, StreamsTypeOK, SetUpNode
  <1>10. StandsFrom(seed, nodes + 1, threads)'
    <2>1. ASSUME NEW m \in NodeId
          PROVE  /\ m >= nodes + 1 => threads[m] = 0
                 /\ nodeRng'[m] = IF m < nodes + 1
                                  THEN Advanced(seed, m * LongJumpDistance + threads[m] * JumpDistance)
                                  ELSE NotSetUp
      <3>1. m \in Nat
        BY StreamConstants DEF NodeId
      <3>2. CASE m = n
        BY <1>2, <1>3, <1>5, <1>6, <1>7, <1>8, <3>2
      <3>3. CASE m # n
        BY <1>1, <1>2, <1>3, <1>8, <3>1, <3>3 DEF StandsFrom
      <3> QED
        BY <3>2, <3>3
    <2>2. \A s \in StreamId :
             threadRng'[s] = IF s[2] < threads[s[1]] THEN Advanced(seed, StartOf(s) + taken'[s])
                             ELSE NotSetUp
      BY <1>1 DEF StandsFrom, SetUpNode
    <2> QED
      BY <1>3, <1>7, <2>1, <2>2 DEF StandsFrom
  <1>11. DrewInOrder(seed, threads)'
    BY <1>1 DEF DrewInOrder, SetUpNode
  <1> QED
    BY <1>4, <1>9, <1>10, <1>11 DEF StreamsInv

LEMMA SetUpThreadInv ==
    ASSUME StreamsInv, NEW n \in NodeId, NEW t \in 0 .. ThreadCount - 1, SetUpThread(n, t)
    PROVE  StreamsInv'
  <1> DEFINE own == <<n, t>>
  <1>1. PICK seed \in Position, nodes \in Assigned, threads \in Started :
           StandsFrom(seed, nodes, threads) /\ DrewInOrder(seed, threads)
    BY DEF StreamsInv, SetUpThread, NothingSetUp
  <1>2. /\ n \in Nat /\ nodes \in Nat /\ t \in Nat /\ threads[n] \in Nat /\ t < ThreadCount
        /\ own \in StreamId /\ own[1] = n /\ own[2] = t
    BY StreamConstants DEF NodeId, Assigned, Started, StreamId
  <1>3. n < nodes
    BY <1>1, <1>2 DEF StandsFrom, SetUpThread
  <1>4. t = threads[n]
    <2>1. ~(t < threads[n])
      <3>1. SUFFICES ASSUME t < threads[n] PROVE threadRng[own] # NotSetUp
        BY DEF SetUpThread
      <3>2. StartOf(own) + taken[own] \in Nat
        BY <1>2, StartType, StreamConstants DEF StreamsInv, StreamsTypeOK
      <3> QED
        BY <1>1, <1>2, <3>1, <3>2, AdvancedTwice DEF StandsFrom
    <2>2. ~(threads[n] < t)
      <3>1. SUFFICES ASSUME threads[n] < t
                     PROVE  threads[n] \in 0 .. t - 1 /\ threadRng[<<n, threads[n]>>] = NotSetUp
        BY DEF SetUpThread
      <3>2. threads[n] \in 0 .. t - 1 /\ <<n, threads[n]>> \in StreamId
        BY <1>2, <3>1, StreamConstants DEF StreamId
      <3>3. <<n, threads[n]>>[1] = n /\ <<n, threads[n]>>[2] = threads[n] /\ ~(threads[n] < threads[n])
        BY <1>2
      <3> QED
        BY <1>1, <3>2, <3>3 DEF StandsFrom
    <2> QED
      BY <1>2, <2>1, <2>2
  <1> DEFINE more == [threads EXCEPT ![n] = t + 1]
  <1>5. /\ more \in Started /\ more[n] = t + 1
        /\ \A m \in NodeId : m # n => more[m] = threads[m]
    BY <1>2, <1>4, StreamConstants DEF Started
  <1> HIDE DEF more
  <1>6. /\ StartOf(own) = n * LongJumpDistance + t * JumpDistance /\ StartOf(own) \in Nat
        /\ StartOf(own) + JumpDistance = n * LongJumpDistance + (t + 1) * JumpDistance
    BY <1>2, StartType, StreamConstants DEF StartOf
  <1>7. nodeRng[n] = Advanced(seed, StartOf(own)) /\ nodeRng[n] \in Position
    BY <1>1, <1>3, <1>4, <1>6, AdvancedTwice DEF StandsFrom
  <1>8. nodeRng'[n] = Advanced(seed, n * LongJumpDistance + (t + 1) * JumpDistance)
        /\ nodeRng'[n] \in Position /\ \A m \in NodeId : m # n => nodeRng'[m] = nodeRng[m]
    <2>1. nodeRng'[n] = Advanced(nodeRng[n], JumpDistance)
      BY DEF StreamsInv, StreamsTypeOK, SetUpThread, fc_xoshiro256_jump
    <2>2. \A m \in NodeId : m # n => nodeRng'[m] = nodeRng[m]
      BY DEF StreamsInv, StreamsTypeOK, SetUpThread
    <2> QED
      BY <1>6, <1>7, <2>1, <2>2, StreamConstants, AdvancedTwice
  <1>9. threadRng'[own] = nodeRng[n] /\ \A s \in StreamId : s # own => threadRng'[s] = threadRng[s]
    BY <1>2 DEF StreamsInv, StreamsTypeOK, SetUpThread
  <1>10. taken[own] = 0 /\ StartOf(own) + 0 = StartOf(own)
    BY <1>1, <1>2, <1>4, <1>6 DEF DrewInOrder
  <1>11. StreamsTypeOK'
    <2>1. nodeRng' \in [NodeId -> Position \cup {NotSetUp}]
      BY <1>8 DEF StreamsInv, StreamsTypeOK, SetUpThread
    <2>2. threadRng' \in [StreamId -> Position \cup {NotSetUp}]
      BY <1>7 DEF StreamsInv, StreamsTypeOK, SetUpThread
    <2> QED
      BY <2>1, <2>2 DEF StreamsInv, StreamsTypeOK, SetUpThread
  <1>12. ASSUME NEW s \in StreamId, s # own
         PROVE  /\ s[2] < more[s[1]] <=> s[2] < threads[s[1]]
                /\ s[2] >= more[s[1]] => s[2] >= threads[s[1]]
    <2>1. s[1] \in NodeId /\ s[2] \in Nat /\ s = <<s[1], s[2]>>
      BY StreamConstants, StartType DEF StreamId
    <2>2. CASE s[1] = n
      <3>1. s[2] # t
        BY <1>12, <2>1, <2>2
      <3> QED
        BY <1>2, <1>4, <1>5, <2>1, <2>2, <3>1
    <2>3. CASE s[1] # n
      BY <1>5, <2>1, <2>3
    <2> QED
      BY <2>2, <2>3
  <1>13. StandsFrom(seed, nodes, more)'
    <2>1. master' = Advanced(seed, nodes * LongJumpDistance)
      BY <1>1 DEF StandsFrom, SetUpThread
    <2>2. ASSUME NEW m \in NodeId
          PROVE  /\ m >= nodes => more[m] = 0
                 /\ nodeRng'[m] = IF m < nodes
                                  THEN Advanced(seed, m * LongJumpDistance + more[m] * JumpDistance)
                                  ELSE NotSetUp
      <3>1. CASE m = n
        BY <1>2, <1>3, <1>5, <1>8, <3>1
      <3>2. CASE m # n
        BY <1>1, <1>5, <1>8, <3>2 DEF StandsFrom
      <3> QED
        BY <3>1, <3>2
    <2>3. ASSUME NEW s \in StreamId
          PROVE  threadRng'[s] = IF s[2] < more[s[1]] THEN Advanced(seed, StartOf(s) + taken'[s])
                                 ELSE NotSetUp
      <3>1. CASE s = own
        BY <1>2, <1>5, <1>7, <1>9, <1>10, <3>1 DEF SetUpThread
      <3>2. CASE s # own
        BY <1>1, <1>9, <1>12, <3>2 DEF StandsFrom, SetUpThread
      <3> QED
        BY <3>1, <3>2
    <2> QED
      BY <2>1, <2>2, <2>3 DEF StandsFrom
  <1>14. DrewInOrder(seed, more)'
    <2> SUFFICES ASSUME NEW s \in StreamId
                 PROVE  /\ s[2] >= more[s[1]] => taken'[s] = 0
                        /\ drawn'[s] = {Advanced(seed, StartOf(s) + i) : i \in 0 .. taken'[s] - 1}
      BY DEF DrewInOrder
    <2>1. taken' = taken /\ drawn' = drawn
      BY DEF SetUpThread
    <2>2. CASE s = own
      BY <1>1, <1>10, <2>1, <2>2 DEF DrewInOrder
    <2>3. CASE s # own
      BY <1>1, <1>12, <2>1, <2>3 DEF DrewInOrder
    <2> QED
      BY <2>2, <2>3
  <1> QED
    BY <1>5, <1>11, <1>13, <1>14 DEF StreamsInv

LEMMA SeedInv ==
    ASSUME StreamsInv, fc_xoshiro256_init
    PROVE  StreamsInv'
  <1>1. NothingSetUp
    <2>1. ASSUME NEW seed \in Position, NEW nodes \in Assigned, NEW threads \in Started,
                 StandsFrom(seed, nodes, threads)
          PROVE  FALSE
      <3>1. nodes * LongJumpDistance \in Nat
        BY StreamConstants DEF Assigned
      <3> QED
        BY <2>1, <3>1, AdvancedTwice DEF StandsFrom, fc_xoshiro256_init
    <2> QED
      BY <2>1 DEF StreamsInv
  <1>2. PICK seed \in Position : master' = seed
    <2>1. Period - 1 \in Position /\ 0 \in Position
      BY StreamConstants DEF Position
    <2>2. Period \div 2 \in Position
      <3>1. PICK q \in Int, r \in 0 .. 1 : q = Period \div 2 /\ Period = 2 * q + r
        BY StreamConstants, Remainder
      <3> QED
        BY <3>1, StreamConstants DEF Position
    <2> QED
      BY <2>1, <2>2 DEF fc_xoshiro256_init
  <1> DEFINE none == [n \in NodeId |-> 0]
  <1>3. none \in Started /\ 0 \in Assigned
    BY StreamConstants DEF Started, Assigned
  <1>4. master' = Advanced(seed, 0 * LongJumpDistance)
    <2>1. (seed + 0) % Period = seed
      BY StreamConstants, SmallRemainder DEF Position
    <2> QED
      BY <1>2, <2>1, StreamConstants DEF Advanced
  <1>5. StandsFrom(seed, 0, none)'
    <2>1. \A n \in NodeId : n >= 0 /\ ~(n < 0) /\ none[n] = 0 /\ nodeRng'[n] = NotSetUp
      BY <1>1, StreamConstants DEF NodeId, NothingSetUp, fc_xoshiro256_init
    <2>2. \A s \in StreamId : ~(s[2] < none[s[1]]) /\ threadRng'[s] = NotSetUp
      BY <1>1, StartType, StreamConstants DEF NothingSetUp, fc_xoshiro256_init
    <2> QED
      BY <1>4, <2>1, <2>2 DEF StandsFrom
  <1>6. DrewInOrder(seed, none)'
    <2>1. \A s \in StreamId : taken'[s] = 0 /\ drawn'[s] = {}
      BY <1>1 DEF NothingSetUp, fc_xoshiro256_init
    <2>2. 0 .. 0 - 1 = {}
      OBVIOUS
    <2> QED
      BY <2>1, <2>2 DEF DrewInOrder
  <1>7. StreamsTypeOK'
    BY <1>2 DEF StreamsInv, StreamsTypeOK, fc_xoshiro256_init
  <1> QED
    BY <1>3, <1>5, <1>6, <1>7 DEF StreamsInv

\* The invariant of the streams: where each generator stands and what each thread drew.
THEOREM StreamsInvariance == StreamsSpec => []StreamsInv
  <1>1. StreamsInv /\ [StreamsNext]_streamVars => StreamsInv'
    <2> SUFFICES ASSUME StreamsInv, [StreamsNext]_streamVars PROVE StreamsInv'
      OBVIOUS
    <2>1. CASE fc_xoshiro256_init
      BY <2>1, SeedInv
    <2>2. ASSUME NEW n \in NodeId, SetUpNode(n) PROVE StreamsInv'
      BY <2>2, SetUpNodeInv
    <2>3. ASSUME NEW n \in NodeId, NEW t \in 0 .. ThreadCount - 1, SetUpThread(n, t) PROVE StreamsInv'
      BY <2>3, SetUpThreadInv
    <2>4. ASSUME NEW s \in StreamId, Draw(s) PROVE StreamsInv'
      BY <2>4, DrawInv
    <2>5. CASE UNCHANGED streamVars
      BY <2>5 DEF streamVars, StreamsInv, StreamsTypeOK, NothingSetUp, StandsFrom, DrewInOrder
    <2> QED
      BY <2>1, <2>2, <2>3, <2>4, <2>5 DEF StreamsNext
  <1> QED
    BY <1>1, StreamsInitInv, PTL DEF StreamsSpec

\* No position of the cycle is drawn twice, for every period, every pair of distances that
\* leave room, any number of nodes and threads, and batches of any sizes.
THEOREM StreamsNeverMeet == StreamsSpec => []StreamsApart
  <1>1. ASSUME StreamsInv, NothingSetUp PROVE StreamsApart
    <2>1. \A s \in StreamId : drawn[s] = {} /\ taken[s] = 0
      BY <1>1 DEF NothingSetUp
    <2> QED
      BY <1>1, <2>1, FS_EmptySet DEF StreamsInv, StreamsApart
  <1>2. ASSUME StreamsInv, NEW seed \in Position, NEW threads \in Started, DrewInOrder(seed, threads)
        PROVE  StreamsApart
    <2>1. ASSUME NEW s \in StreamId
          PROVE  /\ taken[s] \in 0 .. JumpDistance
                 /\ drawn[s] = {Advanced(seed, StartOf(s) + i) : i \in 0 .. taken[s] - 1}
                 /\ 0 .. taken[s] - 1 \subseteq 0 .. JumpDistance - 1
      BY <1>2, StreamConstants DEF DrewInOrder, StreamsInv, StreamsTypeOK
    <2>2. ASSUME NEW r \in StreamId, NEW s \in StreamId, r # s PROVE drawn[r] \cap drawn[s] = {}
      <3> SUFFICES ASSUME NEW p \in drawn[r], p \in drawn[s] PROVE FALSE
        OBVIOUS
      <3>1. PICK i \in 0 .. JumpDistance - 1 : p = Advanced(seed, StartOf(r) + i)
        BY <2>1
      <3>2. PICK j \in 0 .. JumpDistance - 1 : p = Advanced(seed, StartOf(s) + j)
        BY <2>1
      <3> QED
        BY <2>2, <3>1, <3>2, PositionsApart
    <2>3. ASSUME NEW s \in StreamId PROVE Cardinality(drawn[s]) = taken[s]
      <3> DEFINE places == 0 .. taken[s] - 1
                 f == [i \in places |-> Advanced(seed, StartOf(s) + i)]
      <3>1. f \in Bijection(places, drawn[s])
        <4>1. \A i, j \in places : f[i] = f[j] => i = j
          <5> SUFFICES ASSUME NEW i \in places, NEW j \in places, f[i] = f[j] PROVE i = j
            OBVIOUS
          <5>1. i \in 0 .. JumpDistance - 1 /\ j \in 0 .. JumpDistance - 1
            BY <2>1
          <5> QED
            BY <5>1, PositionsApart
        <4>2. f \in [places -> drawn[s]] /\ \A p \in drawn[s] : \E i \in places : f[i] = p
          BY <2>1
        <4> QED
          BY <4>1, <4>2 DEF Bijection, Injection, Surjection, IsInjective
      <3>2. IsFiniteSet(places) /\ Cardinality(places) = taken[s]
        <4>1. PICK k \in Nat : k = taken[s]
          BY <2>1, StreamConstants
        <4>2. IsFiniteSet(0 .. k - 1) /\ Cardinality(0 .. k - 1) = IF 0 > k - 1 THEN 0 ELSE k - 1 - 0 + 1
          BY FS_Interval
        <4> QED
          BY <4>1, <4>2
      <3>3. ExistsBijection(places, drawn[s])
        BY <3>1 DEF ExistsBijection
      <3> QED
        BY <3>2, <3>3, FS_Bijection
    <2> QED
      BY <1>2, <2>2, <2>3 DEF StreamsApart, StreamsInv
  <1>3. StreamsInv => StreamsApart
    BY <1>1, <1>2 DEF StreamsInv
  <1> QED
    BY <1>3, StreamsInvariance, PTL

----------------------------------------------------------------------------
(* The blocks of Arena.                                                     *)

ArenaBlock == [first : Nat, size : Nat \ {0}, alignment : Alignments \cup {Pointer}]

\* Between its creation and its destruction the arena ends before the address space does,
\* and what is in use ends in the arena; without an arena there is no block.
ArenaInPlace ==
    \/ arena = NoArena /\ blocks = {}
    \/ /\ arena \in [base : Nat \ {0}, capacity : Nat \ {0}, used : Nat]
       /\ arena.base + arena.capacity < 2 ^ AddressBits
       /\ arena.used <= arena.capacity

BlocksInUse ==
    /\ blocks \subseteq ArenaBlock
    /\ \A b \in blocks :
          /\ b.first % b.alignment = 0
          /\ arena.base <= b.first /\ b.first + b.size <= arena.base + arena.used

BlocksDisjoint ==
    \A b, c \in blocks : b = c \/ b.first + b.size <= c.first \/ c.first + c.size <= b.first

ArenaInv == ArenaInPlace /\ BlocksInUse /\ BlocksDisjoint

LEMMA ArenaConstants ==
    /\ 2 ^ AddressBits \in Nat \ {0}
    /\ \A n \in Alignments \cup {Pointer} : n \in Nat \ {0} /\ n < 2 ^ AddressBits
    /\ \A n \in ArenaSizes \cup AllocSizes : n \in Nat \ {0} /\ n < 2 ^ AddressBits
  BY ArenaAssumption DEF Addresses

\* A multiple is found below a number, and the number is less than that far above it.
LEMMA RoundedDown ==
    ASSUME NEW m \in Nat \ {0}, NEW n \in Nat
    PROVE  /\ n - (n % m) \in Nat /\ (n - (n % m)) % m = 0
           /\ n - m < n - (n % m) /\ n - (n % m) <= n
  <1>1. PICK q \in Int, r \in 0 .. m - 1 : q = n \div m /\ r = n % m /\ n = m * q + r
    BY Remainder
  <1>2. q >= 0
    <2>1. SUFFICES ASSUME q <= -1 PROVE FALSE
      BY <1>1
    <2>2. m * q <= -m
      BY <2>1
    <2> QED
      BY <1>1, <2>2
  <1>3. m * q \in Nat /\ n - r = m * q
    BY <1>1, <1>2
  <1>4. (m * q) % m = 0
    <2>1. PICK v \in Nat : v = m * q
      BY <1>3
    <2>2. v % m \in 0 .. m - 1 /\ v \div m \in Int /\ v = m * (v \div m) + (v % m)
      BY Remainder
    <2>3. PICK s \in 0 .. m - 1, p \in Int : s = v % m /\ v = m * p + s
      BY <2>2
    <2>4. m * q + 0 = m * p + s /\ 0 \in 0 .. m - 1
      BY <1>1, <2>1, <2>3
    <2>5. 0 = s
      <3> HIDE <2>1, <2>2, <2>3
      <3> QED
        BY <1>1, <2>4, OneRemainder
    <2> QED
      BY <2>1, <2>3, <2>5
  <1> QED
    BY <1>1, <1>3, <1>4

\* Rounding up to an alignment gives the next multiple, or 0 when that is beyond the address
\* space, which is less than any address in use.
LEMMA RoundedUp ==
    ASSUME NEW x \in Nat \ {0}, x < 2 ^ AddressBits, NEW a \in Alignments \cup {Pointer}
    PROVE  \/ /\ fc_align_size(x, a) \in Nat /\ fc_align_size(x, a) % a = 0
              /\ x <= fc_align_size(x, a) /\ fc_align_size(x, a) < 2 ^ AddressBits
           \/ fc_align_size(x, a) = 0
  <1>1. PICK S \in Nat \ {0}, m \in Nat \ {0} : S = 2 ^ AddressBits /\ m = a /\ m < S
    BY ArenaConstants
  <1> DEFINE sum == (x + m - 1) % S
  <1>2. fc_align_size(x, a) = sum - (sum % m)
    BY <1>1 DEF fc_align_size, Size_t
  <1>3. CASE x + m - 1 < S
    <2>1. x + m - 1 \in 0 .. S - 1
      BY <1>1, <1>3
    <2>2. PICK n \in Nat : n = sum /\ n = x + m - 1
      BY <1>1, <2>1, SmallRemainder
    <2>3. /\ n - (n % m) \in Nat /\ (n - (n % m)) % m = 0
          /\ n - m < n - (n % m) /\ n - (n % m) <= n
      BY RoundedDown
    <2>4. PICK v \in Nat : v = n - (n % m)
      BY <2>3
    <2>5. v % m = 0 /\ x <= v /\ v < S
      BY <1>1, <1>3, <2>2, <2>3, <2>4
    <2> HIDE DEF sum
    <2> QED
      BY <1>1, <1>2, <2>2, <2>4, <2>5
  <1>4. CASE x + m - 1 >= S
    <2>0. PICK n \in Int : n = x + m - 1
      BY <1>1
    <2>1. PICK r \in 0 .. S - 1, q \in Int : r = sum /\ x + m - 1 = S * q + r
      <3>1. n % S \in 0 .. S - 1 /\ n \div S \in Int /\ n = S * (n \div S) + (n % S)
        BY Remainder
      <3> QED
        BY <2>0, <3>1
    <2>2. x + m - 1 - S \in 0 .. S - 1 /\ S * 1 + (x + m - 1 - S) = S * q + r
      BY <1>1, <1>4, <2>1
    <2>3. r = x + m - 1 - S
      BY <2>1, <2>2, OneRemainder
    <2>4. sum \in 0 .. m - 1
      BY <1>1, <1>4, <2>1, <2>3
    <2>5. sum % m = sum
      BY <2>4, SmallRemainder
    <2> HIDE DEF sum
    <2> QED
      BY <1>2, <2>4, <2>5
  <1> QED
    BY <1>1, <1>3, <1>4

\* A block that is given out starts at or behind the end of what was in use, aligned, and
\* ends in the arena; a block that does not fit changes nothing.
LEMMA AllocatedWhere ==
    ASSUME NEW a \in [base : Nat \ {0}, capacity : Nat \ {0}, used : Nat],
           a.base + a.capacity < 2 ^ AddressBits, a.used <= a.capacity,
           NEW size \in Nat \ {0}, NEW alignment \in Alignments \cup {Pointer}
    PROVE  \/ fc_arena_alloc_aligned(a, size, alignment) = a
           \/ \E used \in Nat :
                 /\ fc_arena_alloc_aligned(a, size, alignment) = [a EXCEPT !.used = used]
                 /\ used <= a.capacity /\ a.used <= used - size
                 /\ a.base + used - size \in Nat
                 /\ (a.base + used - size) % alignment = 0
  <1>1. PICK S \in Nat \ {0} : S = 2 ^ AddressBits
    BY ArenaConstants
  <1> DEFINE x == a.base + a.used
             up == fc_align_size(x, alignment)
             start == Size_t(up - a.base)
  <1>2. x \in Nat \ {0} /\ x < 2 ^ AddressBits
    BY <1>1
  <1>3. start = (up - a.base) % S
    BY <1>1 DEF Size_t
  <1>4. fc_arena_alloc_aligned(a, size, alignment) =
           IF start > a.capacity \/ size > a.capacity - start THEN a
           ELSE [a EXCEPT !.used = start + size]
    BY DEF fc_arena_alloc_aligned
  <1>5. CASE /\ up \in Nat /\ up % alignment = 0
             /\ x <= up /\ up < 2 ^ AddressBits
    <2>1. up - a.base \in 0 .. S - 1
      BY <1>1, <1>5
    <2>2. start = up - a.base
      BY <1>3, <2>1, SmallRemainder
    <2>3. CASE start > a.capacity \/ size > a.capacity - start
      BY <1>4, <2>3
    <2>4. CASE ~(start > a.capacity \/ size > a.capacity - start)
      <3> HIDE DEF up, start
      <3>1. /\ start + size \in Nat /\ start + size <= a.capacity
            /\ a.used <= start + size - size
            /\ a.base + (start + size) - size = up
        BY <1>5, <2>1, <2>2, <2>4
      <3> QED
        BY <1>4, <1>5, <2>4, <3>1
    <2> QED
      BY <2>3, <2>4
  <1>6. CASE up = 0
    <2>1. PICK r \in 0 .. S - 1, q \in Int : r = start /\ up - a.base = S * q + r
      <3>1. up - a.base \in Int
        BY <1>6
      <3> QED
        BY <1>1, <1>3, <3>1, Remainder
    <2>2. S - a.base \in 0 .. S - 1 /\ S * (-1) + (S - a.base) = S * q + r
      <3> HIDE DEF up, start
      <3> QED
        BY <1>1, <1>6, <2>1
    <2>3. r = S - a.base
      BY <2>1, <2>2, OneRemainder
    <2>4. start > a.capacity
      BY <1>1, <2>1, <2>3
    <2> QED
      BY <1>4, <2>4
  <1> HIDE DEF x, up, start
  <1>7. \/ /\ up \in Nat /\ up % alignment = 0
           /\ x <= up /\ up < 2 ^ AddressBits
        \/ up = 0
    BY <1>2, RoundedUp DEF up
  <1> QED
    BY <1>5, <1>6, <1>7

LEMMA AllocatedInv ==
    ASSUME ArenaInv, NEW size \in AllocSizes, NEW alignment \in Alignments \cup {Pointer},
           Allocated(fc_arena_alloc_aligned(arena, size, alignment), size, alignment)
    PROVE  ArenaInv'
  <1> DEFINE after == fc_arena_alloc_aligned(arena, size, alignment)
  <1>1. /\ arena \in [base : Nat \ {0}, capacity : Nat \ {0}, used : Nat]
        /\ arena.base + arena.capacity < 2 ^ AddressBits /\ arena.used <= arena.capacity
    BY DEF ArenaInv, ArenaInPlace, Allocated, NoArena
  <1>2. size \in Nat \ {0}
    BY ArenaConstants
  <1>3. /\ arena' = after
        /\ blocks' = IF after = arena THEN blocks
                     ELSE blocks \cup {[first |-> after.base + after.used - size,
                                        size |-> size, alignment |-> alignment]}
    BY DEF Allocated
  <1>4. \/ after = arena
        \/ \E used \in Nat :
              /\ after = [arena EXCEPT !.used = used]
              /\ used <= arena.capacity /\ arena.used <= used - size
              /\ arena.base + used - size \in Nat
              /\ (arena.base + used - size) % alignment = 0
    BY <1>1, <1>2, AllocatedWhere
  <1> HIDE DEF after
  <1>5. CASE after = arena
    BY <1>3, <1>5 DEF ArenaInv, ArenaInPlace, BlocksInUse, BlocksDisjoint
  <1>6. ASSUME NEW used \in Nat, after = [arena EXCEPT !.used = used],
               used <= arena.capacity, arena.used <= used - size,
               arena.base + used - size \in Nat, (arena.base + used - size) % alignment = 0
        PROVE  ArenaInv'
    <2> DEFINE new == [first |-> arena.base + used - size, size |-> size, alignment |-> alignment]
    <2>1. /\ arena'.base = arena.base /\ arena'.capacity = arena.capacity /\ arena'.used = used
          /\ arena' \in [base : Nat \ {0}, capacity : Nat \ {0}, used : Nat]
      BY <1>1, <1>3, <1>6
    <2>2. blocks' = blocks \cup {new}
      <3>1. used # arena.used
        BY <1>1, <1>2, <1>6
      <3>2. after.used = used /\ after.base = arena.base
        BY <1>1, <1>6
      <3> QED
        BY <1>3, <3>1, <3>2
    <2>3. ArenaInPlace'
      BY <1>1, <1>6, <2>1 DEF ArenaInPlace
    <2>4. /\ new \in ArenaBlock /\ new.first % new.alignment = 0
          /\ arena.base + arena.used <= new.first /\ new.first + new.size = arena.base + used
      BY <1>1, <1>2, <1>6 DEF ArenaBlock
    <2>5. \A b \in blocks : /\ b \in ArenaBlock /\ b.first % b.alignment = 0
                            /\ arena.base <= b.first /\ b.first + b.size <= arena.base + arena.used
      BY DEF ArenaInv, BlocksInUse
    <2> HIDE DEF new
    <2>6. BlocksInUse'
      <3> SUFFICES ASSUME NEW b \in blocks'
                   PROVE  /\ b \in ArenaBlock /\ b.first % b.alignment = 0
                          /\ arena'.base <= b.first /\ b.first + b.size <= arena'.base + arena'.used
        BY DEF BlocksInUse
      <3>1. CASE b = new
        <4>1. new.first \in Nat /\ new.size \in Nat
          BY <2>4 DEF ArenaBlock
        <4>2. arena.base <= new.first
          BY <1>1, <2>4, <4>1
        <4> QED
          BY <1>1, <2>1, <2>4, <3>1, <4>1, <4>2
      <3>2. CASE b \in blocks
        <4>1. PICK first \in Nat, length \in Nat : first = b.first /\ length = b.size
          BY <2>5, <3>2 DEF ArenaBlock
        <4>2. first + length <= arena.base + arena.used /\ arena.used <= used
          BY <1>1, <1>2, <1>6, <2>5, <3>2, <4>1
        <4>3. first + length <= arena.base + used
          BY <1>1, <4>2
        <4>4. arena'.base <= first
          BY <2>1, <2>5, <3>2, <4>1
        <4>5. first + length <= arena'.base + arena'.used
          BY <2>1, <4>3
        <4> QED
          BY <2>5, <3>2, <4>1, <4>4, <4>5
      <3> QED
        BY <2>2, <3>1, <3>2
    <2>7. BlocksDisjoint'
      <3>1. ASSUME NEW b \in blocks PROVE b.first + b.size <= new.first
        <4>1. PICK first \in Nat, length \in Nat : first = b.first /\ length = b.size
          BY <2>5, <3>1 DEF ArenaBlock
        <4>2. new.first \in Nat
          BY <2>4 DEF ArenaBlock
        <4> QED
          BY <1>1, <2>4, <2>5, <3>1, <4>1, <4>2
      <3> QED
        BY <2>2, <3>1 DEF ArenaInv, BlocksDisjoint
    <2> QED
      BY <2>3, <2>6, <2>7 DEF ArenaInv
  <1> QED
    BY <1>4, <1>5, <1>6

\* The invariant of the arena.
THEOREM ArenaInvariance == ArenaSpec => []ArenaInv
  <1>1. ArenaInit => ArenaInv
    BY DEF ArenaInit, ArenaInv, ArenaInPlace, BlocksInUse, BlocksDisjoint
  <1>2. ArenaInv /\ [ArenaNext]_arenaVars => ArenaInv'
    <2> SUFFICES ASSUME ArenaInv, [ArenaNext]_arenaVars PROVE ArenaInv'
      OBVIOUS
    <2>1. CASE fc_arena_create
      <3>1. arena = NoArena /\ blocks' = {}
        BY <2>1 DEF ArenaInv, ArenaInPlace, fc_arena_create
      <3>2. PICK base \in Addresses \ {0}, capacity \in ArenaSizes :
               /\ base + capacity < 2 ^ AddressBits
               /\ arena' = [base |-> base, capacity |-> capacity, used |-> 0]
        BY <2>1 DEF fc_arena_create
      <3>3. base \in Nat \ {0} /\ capacity \in Nat \ {0}
        BY ArenaConstants DEF Addresses
      <3> QED
        BY <3>1, <3>2, <3>3 DEF ArenaInv, ArenaInPlace, BlocksInUse, BlocksDisjoint
    <2>2. CASE ArenaReset
      <3>1. /\ arena \in [base : Nat \ {0}, capacity : Nat \ {0}, used : Nat]
            /\ arena.base + arena.capacity < 2 ^ AddressBits
        BY <2>2 DEF ArenaInv, ArenaInPlace, ArenaReset, NoArena
      <3> QED
        BY <2>2, <3>1 DEF ArenaInv, ArenaInPlace, BlocksInUse, BlocksDisjoint, ArenaReset, fc_arena_reset
    <2>3. CASE fc_arena_destroy
      BY <2>3 DEF ArenaInv, ArenaInPlace, BlocksInUse, BlocksDisjoint, fc_arena_destroy
    <2>4. ASSUME NEW size \in AllocSizes, Alloc(size) PROVE ArenaInv'
      BY <2>4, AllocatedInv DEF Alloc, fc_arena_alloc
    <2>5. CASE UNCHANGED arenaVars
      BY <2>5 DEF arenaVars, ArenaInv, ArenaInPlace, BlocksInUse, BlocksDisjoint
    <2> QED
      BY <2>1, <2>2, <2>3, <2>4, <2>5 DEF ArenaNext
  <1> QED
    BY <1>1, <1>2, PTL DEF ArenaSpec

\* Live blocks are aligned, inside the arena and apart, for every width of addresses, every
\* size and every alignment that is a power of two, requests that wrap included.
THEOREM BlocksApart == ArenaSpec => []ArenaBlocksApart
  <1>1. ArenaInv => ArenaBlocksApart
    <2> SUFFICES ASSUME ArenaInv PROVE ArenaBlocksApart
      OBVIOUS
    <2>1. \A b \in blocks : fc_is_aligned(b.first, b.alignment)
      BY ArenaAssumption DEF ArenaInv, BlocksInUse, ArenaBlock, fc_is_aligned
    <2>2. fc_arena_available(arena) \in 0 .. arena.capacity
      BY DEF ArenaInv, ArenaInPlace, NoArena, fc_arena_available
    <2>3. \A b \in blocks : arena.base <= b.first /\ b.first + b.size <= arena.base + fc_arena_used(arena)
      BY DEF ArenaInv, BlocksInUse, fc_arena_used
    <2>4. \A b \in blocks : b.first >= arena.base
      BY <2>3
    <2> QED
      BY <2>1, <2>2, <2>3, <2>4 DEF ArenaInv, BlocksDisjoint, ArenaBlocksApart
  <1> QED
    BY <1>1, ArenaInvariance, PTL

----------------------------------------------------------------------------
(* Folds.  A fold over a sequence is a choice among the functions on sets of *)
(* indices that satisfy a recursive equation; the lemmas show that there is  *)
(* one, and that it goes through the sequence step by step.                  *)

LEMMA LeastNumber ==
    ASSUME NEW S \in SUBSET Nat, S # {}
    PROVE  \E n \in S : \A m \in S : n <= m
  <1> DEFINE R == OpToRel(<, Nat)
  <1>1. IsWellFoundedOn(R, Nat)
    BY NatLessThanWellFounded
  <1>2. \A x, y \in Nat : <<y, x>> \in R <=> y < x
    BY DEF OpToRel
  <1> HIDE DEF R
  <1>3. PICK x \in S : \A y \in S : ~(<<y, x>> \in R)
    BY <1>1, WFMin
  <1>4. \A m \in S : ~(m < x)
    BY <1>2, <1>3
  <1> QED
    BY <1>4

\* Induction, for a set of numbers.
LEMMA BySteps ==
    ASSUME NEW S \in SUBSET Nat, 0 \in S, \A n \in S : n + 1 \in S
    PROVE  S = Nat
  <1> SUFFICES ASSUME Nat \ S # {} PROVE FALSE
    OBVIOUS
  <1>1. PICK n \in Nat \ S : \A m \in Nat \ S : n <= m
    BY LeastNumber
  <1>2. n - 1 \in Nat /\ n - 1 \notin Nat \ S
    BY <1>1
  <1> QED
    BY <1>2

\* The table h of what the step g makes of the start and the indices of a set, in order.
Tabulates(h, n, start, g) ==
    h = [s \in SUBSET (1 .. n) |-> IF s = {} THEN start ELSE g[<<h[s \ {Max(s)}], Max(s)>>]]

\* Every set of indices has a largest one, and a step has a table.
LEMMA TableExists ==
    ASSUME NEW n \in Nat, NEW V, NEW start \in V, NEW g \in [V \X (1 .. n) -> V]
    PROVE  /\ \A s \in SUBSET (1 .. n) : s # {} => Max(s) \in s
           /\ \E h \in [SUBSET (1 .. n) -> V] : Tabulates(h, n, start, g)
  <1> DEFINE P(k) == /\ \A s \in SUBSET (1 .. k) : s # {} => Max(s) \in s
                     /\ \E h \in [SUBSET (1 .. k) -> V] : Tabulates(h, k, start, g)
             S == {k \in Nat : k <= n => P(k)}
  <1>1. 0 \in S
    <2>1. SUBSET (1 .. 0) = {{}}
      OBVIOUS
    <2>2. [s \in SUBSET (1 .. 0) |-> start] \in [SUBSET (1 .. 0) -> V]
      OBVIOUS
    <2>3. Tabulates([s \in SUBSET (1 .. 0) |-> start], 0, start, g)
      BY <2>1 DEF Tabulates
    <2> QED
      BY <2>1, <2>2, <2>3
  <1> HIDE DEF P
  <1>2. ASSUME NEW k \in S PROVE k + 1 \in S
    <2> SUFFICES ASSUME k + 1 <= n PROVE P(k + 1)
      OBVIOUS
    <2>0. P(k) /\ k \in Nat /\ k + 1 \in 1 .. n
      OBVIOUS
    <2>1. /\ \A s \in SUBSET (1 .. k) : s # {} => Max(s) \in s
          /\ \E h \in [SUBSET (1 .. k) -> V] : Tabulates(h, k, start, g)
          /\ k \in Nat /\ k + 1 \in 1 .. n
      BY <2>0 DEF P
    <2>2. \A s \in SUBSET (1 .. k + 1) : k + 1 \notin s => s \in SUBSET (1 .. k)
      BY <2>1
    <2>3. \A s \in SUBSET (1 .. k + 1) : k + 1 \in s => Max(s) = k + 1
      <3> SUFFICES ASSUME NEW s \in SUBSET (1 .. k + 1), k + 1 \in s PROVE Max(s) = k + 1
        OBVIOUS
      <3>1. \A y \in s : k + 1 >= y
        BY <2>1
      <3>2. \A x \in s : (\A y \in s : x >= y) => x = k + 1
        BY <2>1
      <3> QED
        BY <3>1, <3>2 DEF Max
    <2>4. \A s \in SUBSET (1 .. k + 1) : s # {} => Max(s) \in s
      BY <2>1, <2>2, <2>3
    <2>5. PICK h \in [SUBSET (1 .. k) -> V] : Tabulates(h, k, start, g)
      BY <2>1
    <2> DEFINE more == [s \in SUBSET (1 .. k + 1) |->
                          IF k + 1 \in s THEN g[<<h[s \ {k + 1}], k + 1>>] ELSE h[s]]
    <2>6. \A s \in SUBSET (1 .. k) : /\ s \in SUBSET (1 .. k + 1) /\ k + 1 \notin s
                                     /\ more[s] = h[s] /\ h[s] \in V
      BY <2>1
    <2>7. ASSUME NEW s \in SUBSET (1 .. k + 1)
          PROVE  /\ more[s] \in V
                 /\ more[s] = IF s = {} THEN start ELSE g[<<more[s \ {Max(s)}], Max(s)>>]
      <3>1. CASE k + 1 \in s
        <4>1. s \ {k + 1} \in SUBSET (1 .. k)
          BY <2>1
        <4>2. more[s] = g[<<more[s \ {k + 1}], k + 1>>]
          BY <2>6, <3>1, <4>1
        <4>3. <<more[s \ {k + 1}], k + 1>> \in V \X (1 .. n)
          BY <2>1, <2>6, <4>1
        <4> HIDE DEF more
        <4> QED
          BY <2>3, <3>1, <4>2, <4>3
      <3>2. CASE k + 1 \notin s
        <4>1. s \in SUBSET (1 .. k) /\ s \ {Max(s)} \in SUBSET (1 .. k)
          BY <2>2, <3>2
        <4>2. h[s] = IF s = {} THEN start ELSE g[<<h[s \ {Max(s)}], Max(s)>>]
          BY <2>5, <4>1 DEF Tabulates
        <4>3. more[s] = h[s] /\ h[s] \in V /\ more[s \ {Max(s)}] = h[s \ {Max(s)}]
          BY <2>6, <4>1
        <4> HIDE DEF more
        <4> QED
          BY <4>2, <4>3
      <3> QED
        BY <3>1, <3>2
    <2>8. more \in [SUBSET (1 .. k + 1) -> V] /\ Tabulates(more, k + 1, start, g)
      <3>1. more = [s \in SUBSET (1 .. k + 1) |-> more[s]]
        OBVIOUS
      <3> HIDE DEF more
      <3> QED
        BY <2>7, <3>1 DEF Tabulates
    <2> QED
      BY <2>4, <2>8 DEF P
  <1>3. S = Nat
    BY <1>1, <1>2, BySteps
  <1>4. P(n)
    BY <1>3
  <1> QED
    BY <1>4 DEF P

\* A table read at the first indices goes up one step at a time.
LEMMA TableBySteps ==
    ASSUME NEW n \in Nat, NEW i \in 0 .. n - 1
    PROVE  /\ 1 .. 0 = {} /\ 1 .. i + 1 \in SUBSET (1 .. n) /\ 1 .. i + 1 # {}
           /\ Max(1 .. i + 1) = i + 1 /\ (1 .. i + 1) \ {i + 1} = 1 .. i
  <1>1. i + 1 \in 1 .. i + 1 /\ \A y \in 1 .. i + 1 : i + 1 >= y
    OBVIOUS
  <1>2. \A x \in 1 .. i + 1 : (\A y \in 1 .. i + 1 : x >= y) => x = i + 1
    OBVIOUS
  <1>3. Max(1 .. i + 1) = i + 1
    BY <1>1, <1>2 DEF Max
  <1> QED
    BY <1>3

----------------------------------------------------------------------------
(* The members of BloomFilter.                                              *)

FilterRecord == [bits : SUBSET Nat, bit_array_size : Nat \ {0}, num_hash_functions : Nat \ {0},
                 elements_added : Nat]

\* Hash functions answer, and every element added has all of its bits in the filter; a filter
\* to which nothing was added has no bit.
BloomInv ==
    \/ filter = NoFilter /\ present = {}
    \/ /\ filter \in FilterRecord
       /\ \A k \in Key : \A i \in 1 .. filter.num_hash_functions : hash[k][i] \in Nat
       /\ present \subseteq Key
       /\ \A k \in present : Bits(filter, k) \subseteq filter.bits
       /\ present = {} => filter.bits = {}

LEMMA BloomConstants ==
    /\ HashValues \subseteq Nat /\ BitSizes \subseteq Nat \ {0} /\ HashCounts \subseteq Nat \ {0}
    /\ IsFiniteSet(Key)
  BY BloomAssumption

\* The bits of an element depend on the size and the hash functions, not on the bits that are set.
LEMMA SameBits ==
    ASSUME NEW f, NEW g, f.bit_array_size = g.bit_array_size,
           f.num_hash_functions = g.num_hash_functions, NEW k
    PROVE  Bits(f, k) = Bits(g, k)
  BY DEF Bits

LEMMA BitsType ==
    ASSUME NEW f \in FilterRecord, NEW k, \A i \in 1 .. f.num_hash_functions : hash[k][i] \in Nat
    PROVE  Bits(f, k) \in SUBSET Nat /\ Bits(f, k) # {}
  <1>1. \A i \in 1 .. f.num_hash_functions : hash[k][i] % f.bit_array_size \in Nat
    <2> SUFFICES ASSUME NEW i \in 1 .. f.num_hash_functions
                 PROVE  hash[k][i] % f.bit_array_size \in Nat
      OBVIOUS
    <2>1. PICK m \in Nat \ {0}, v \in Nat : m = f.bit_array_size /\ v = hash[k][i]
      BY DEF FilterRecord
    <2>2. v % m \in 0 .. m - 1
      OBVIOUS
    <2> QED
      BY <2>1, <2>2
  <1>2. 1 \in 1 .. f.num_hash_functions
    BY DEF FilterRecord
  <1> QED
    BY <1>1, <1>2 DEF Bits

\* Adding a batch sets all bits of all its elements, clears none and changes no size.
LEMMA BatchAdded ==
    ASSUME NEW f \in FilterRecord, NEW n \in Nat, NEW keys \in [1 .. n -> Key],
           \A k \in Key : \A i \in 1 .. f.num_hash_functions : hash[k][i] \in Nat
    PROVE  /\ fc_bloom_add_batch(f, keys) \in FilterRecord
           /\ fc_bloom_add_batch(f, keys).bit_array_size = f.bit_array_size
           /\ fc_bloom_add_batch(f, keys).num_hash_functions = f.num_hash_functions
           /\ f.bits \subseteq fc_bloom_add_batch(f, keys).bits
           /\ \A i \in 1 .. n : Bits(f, keys[i]) \subseteq fc_bloom_add_batch(f, keys).bits
  <1> DEFINE V == {x \in FilterRecord : /\ x.bit_array_size = f.bit_array_size
                                        /\ x.num_hash_functions = f.num_hash_functions}
             g == [p \in V \X (1 .. n) |-> fc_bloom_add(p[1], keys[p[2]])]
  <1>1. ASSUME NEW x \in V, NEW k \in Key
        PROVE  /\ fc_bloom_add(x, k) \in V
               /\ fc_bloom_add(x, k).bits = x.bits \cup Bits(f, k)
    <2>1. Bits(x, k) = Bits(f, k)
      BY SameBits
    <2>2. Bits(f, k) \in SUBSET Nat
      BY BitsType
    <2>3. fc_bloom_add(x, k) = [x EXCEPT !.bits = x.bits \cup Bits(f, k),
                                         !.elements_added = x.elements_added + 1]
      BY <2>1 DEF fc_bloom_add
    <2>4. /\ x \in FilterRecord
          /\ x.bit_array_size = f.bit_array_size /\ x.num_hash_functions = f.num_hash_functions
      OBVIOUS
    <2>5. PICK b \in SUBSET Nat, c \in Nat :
             b = x.bits \cup Bits(f, k) /\ c = x.elements_added + 1
      <3>1. x.bits \in SUBSET Nat /\ x.elements_added \in Nat
        BY <2>4 DEF FilterRecord
      <3>2. x.bits \cup Bits(f, k) \in SUBSET Nat
        BY <2>2, <3>1
      <3>3. x.elements_added + 1 \in Nat
        BY <3>1
      <3> QED
        BY <3>2, <3>3
    <2>6. fc_bloom_add(x, k) = [x EXCEPT !.bits = b, !.elements_added = c]
      BY <2>3, <2>5
    <2>7. /\ fc_bloom_add(x, k) \in FilterRecord /\ fc_bloom_add(x, k).bits = b
          /\ fc_bloom_add(x, k).bit_array_size = x.bit_array_size
          /\ fc_bloom_add(x, k).num_hash_functions = x.num_hash_functions
      BY <2>4, <2>6 DEF FilterRecord
    <2> QED
      BY <2>4, <2>5, <2>7
  <1>2. g \in [V \X (1 .. n) -> V]
    BY <1>1
  <1>3. f \in V
    OBVIOUS
  <1> DEFINE Adds(h) == h = [s \in SUBSET (1 .. n) |->
                               IF s = {} THEN f ELSE fc_bloom_add(h[s \ {Max(s)}], keys[Max(s)])]
             h == CHOOSE h : Adds(h)
  <1> HIDE DEF V, g
  <1>4. \E t : Adds(t)
    <2>1. PICK t \in [SUBSET (1 .. n) -> V] : Tabulates(t, n, f, g)
      BY <1>2, <1>3, TableExists
    <2>2. \A s \in SUBSET (1 .. n) : s # {} => Max(s) \in s
      BY <1>2, <1>3, TableExists
    <2>3. ASSUME NEW s \in SUBSET (1 .. n), s # {}
          PROVE  g[<<t[s \ {Max(s)}], Max(s)>>] = fc_bloom_add(t[s \ {Max(s)}], keys[Max(s)])
      <3>1. <<t[s \ {Max(s)}], Max(s)>> \in V \X (1 .. n)
        BY <2>2, <2>3
      <3> QED
        BY <3>1 DEF g
    <2>4. t = [s \in SUBSET (1 .. n) |-> t[s]]
      OBVIOUS
    <2>5. \A s \in SUBSET (1 .. n) :
             t[s] = IF s = {} THEN f ELSE fc_bloom_add(t[s \ {Max(s)}], keys[Max(s)])
      BY <2>1, <2>3 DEF Tabulates
    <2> QED
      BY <2>4, <2>5
  <1>5. Adds(h)
    BY <1>4
  <1>6. fc_bloom_add_batch(f, keys) = h[1 .. n]
    BY DEF fc_bloom_add_batch, FoldLeft, MapThenFoldSet
  <1> HIDE DEF h
  <1> DEFINE Done(i) == /\ h[1 .. i] \in V /\ f.bits \subseteq h[1 .. i].bits
                        /\ \A j \in 1 .. i : Bits(f, keys[j]) \subseteq h[1 .. i].bits
             S == {i \in Nat : i <= n => Done(i)}
  <1>7. 0 \in S
    <2>1. 1 .. 0 = {} /\ {} \in SUBSET (1 .. n)
      OBVIOUS
    <2>2. h[{}] = f
      BY <1>5, <2>1
    <2> QED
      BY <1>3, <2>1, <2>2
  <1>8. ASSUME NEW i \in S PROVE i + 1 \in S
    <2> SUFFICES ASSUME i + 1 <= n PROVE Done(i + 1)
      OBVIOUS
    <2>1. i \in 0 .. n - 1 /\ Done(i) /\ i + 1 \in 1 .. n
      OBVIOUS
    <2>2. h[1 .. i + 1] = fc_bloom_add(h[1 .. i], keys[i + 1])
      <3>1. /\ 1 .. i + 1 \in SUBSET (1 .. n) /\ 1 .. i + 1 # {}
            /\ Max(1 .. i + 1) = i + 1 /\ (1 .. i + 1) \ {i + 1} = 1 .. i
        BY <2>1, TableBySteps
      <3>2. \A s \in SUBSET (1 .. n) :
               s # {} => h[s] = fc_bloom_add(h[s \ {Max(s)}], keys[Max(s)])
        BY <1>5
      <3> QED
        BY <3>1, <3>2
    <2>3. h[1 .. i + 1] \in V /\ h[1 .. i + 1].bits = h[1 .. i].bits \cup Bits(f, keys[i + 1])
      BY <1>1, <2>1, <2>2
    <2>4. \A j \in 1 .. i + 1 : j \in 1 .. i \/ j = i + 1
      BY <2>1
    <2> QED
      BY <2>1, <2>3, <2>4
  <1> HIDE DEF Done
  <1>9. S = Nat
    BY <1>7, <1>8, BySteps
  <1>10. Done(n)
    BY <1>9
  <1> QED
    BY <1>6, <1>10 DEF Done, V

\* The invariant of the filter.
THEOREM BloomInvariance == BloomSpec => []BloomInv
  <1>1. BloomInit => BloomInv
    BY DEF BloomInit, BloomInv
  <1>2. BloomInv /\ [BloomNext]_bloomVars => BloomInv'
    <2> SUFFICES ASSUME BloomInv, [BloomNext]_bloomVars PROVE BloomInv'
      OBVIOUS
    <2>1. CASE fc_bloom_create_explicit
      <3>1. PICK size \in Nat \ {0}, count \in Nat \ {0} :
               /\ filter' = [NoFilter EXCEPT !.bit_array_size = size, !.num_hash_functions = count]
               /\ hash' \in [Key -> [1 .. count -> HashValues]]
        BY <2>1, BloomConstants DEF fc_bloom_create_explicit
      <3>2. /\ filter' = [bits |-> {}, bit_array_size |-> size, num_hash_functions |-> count,
                          elements_added |-> 0]
            /\ filter' \in FilterRecord /\ filter'.bits = {} /\ filter'.num_hash_functions = count
        BY <3>1 DEF NoFilter, FilterRecord
      <3>3. present' = {}
        BY <2>1 DEF fc_bloom_create_explicit, BloomInv, NoFilter, FilterRecord
      <3>4. \A k \in Key : \A i \in 1 .. count : hash'[k][i] \in Nat
        BY <3>1, BloomConstants
      <3> QED
        BY <3>2, <3>3, <3>4 DEF BloomInv
    <2>2. CASE fc_bloom_destroy
      BY <2>2 DEF BloomInv, fc_bloom_destroy
    <2>3. CASE BloomAdd
      <3>0. PICK n \in 1 .. 2 : \E keys \in [1 .. n -> Key] :
               /\ filter' = fc_bloom_add_batch(filter, keys)
               /\ present' = present \cup Range(keys)
        BY <2>3 DEF BloomAdd
      <3>1. PICK keys \in [1 .. n -> Key] :
               /\ filter' = fc_bloom_add_batch(filter, keys)
               /\ present' = present \cup Range(keys)
        BY <3>0
      <3>2. /\ filter \in FilterRecord /\ hash' = hash
            /\ \A k \in Key : \A i \in 1 .. filter.num_hash_functions : hash[k][i] \in Nat
        BY <2>3 DEF BloomInv, BloomAdd
      <3>3. n \in Nat
        OBVIOUS
      <3>4. /\ filter' \in FilterRecord
            /\ filter'.bit_array_size = filter.bit_array_size
            /\ filter'.num_hash_functions = filter.num_hash_functions
            /\ filter.bits \subseteq filter'.bits
            /\ \A i \in 1 .. n : Bits(filter, keys[i]) \subseteq filter'.bits
        BY <3>1, <3>2, <3>3, BatchAdded
      <3>5. \A k : Bits(filter, k)' = Bits(filter, k)
        BY <3>2, <3>4 DEF Bits
      <3>6. Range(keys) = {keys[i] : i \in 1 .. n} /\ Range(keys) # {} /\ Range(keys) \subseteq Key
        BY DEF Range
      <3>7. \A k \in present : Bits(filter, k) \subseteq filter.bits
        BY <3>2, <2>3 DEF BloomInv, BloomAdd
      <3>8. present \subseteq Key
        BY <2>3 DEF BloomInv, BloomAdd
      <3>9. \A k \in present' : (Bits(filter, k))' \subseteq filter'.bits
        BY <3>1, <3>4, <3>5, <3>6, <3>7
      <3> QED
        BY <3>1, <3>2, <3>4, <3>6, <3>8, <3>9 DEF BloomInv
    <2>4. CASE BloomClear
      <3>1. /\ filter \in FilterRecord /\ hash' = hash
            /\ \A k \in Key : \A i \in 1 .. filter.num_hash_functions : hash[k][i] \in Nat
        BY <2>4 DEF BloomInv, BloomClear
      <3>2. filter' \in FilterRecord /\ filter'.num_hash_functions = filter.num_hash_functions
            /\ filter'.bits = {}
        BY <2>4, <3>1 DEF BloomClear, fc_bloom_clear, FilterRecord
      <3> QED
        BY <2>4, <3>1, <3>2 DEF BloomInv, BloomClear
    <2>5. CASE UNCHANGED bloomVars
      BY <2>5 DEF bloomVars, BloomInv, Bits
    <2> QED
      BY <2>1, <2>2, <2>3, <2>4, <2>5 DEF BloomNext
  <1> QED
    BY <1>1, <1>2, PTL DEF BloomSpec

\* What was added is found, and a cleared filter has forgotten everything, for any elements,
\* any hash functions and any number of bits.
THEOREM NoFalseNegative == BloomSpec => []BloomNoFalseNegative
  <1>1. ASSUME BloomInv, filter # NoFilter,
               NEW keys, keys = SetToSeq(Key), NEW i \in DOMAIN keys
        PROVE  LET says == fc_bloom_contains_batch(filter, keys)
               IN  (keys[i] \in present => says[i]) /\ (present = {} => ~says[i])
    <2>1. keys \in [1 .. Cardinality(Key) -> Key]
      <3>1. PICK f \in Bijection(1 .. Cardinality(Key), Key) : TRUE
        BY BloomConstants, FS_CardinalityType DEF ExistsBijection
      <3>2. f \in [1 .. Cardinality(Key) -> Key] /\ IsInjective(f)
        BY <3>1 DEF Bijection, Injection, IsInjective
      <3> QED
        BY <1>1, <3>2 DEF SetToSeq
    <2>2. keys[i] \in Key
      BY <1>1, <2>1
    <2>3. fc_bloom_contains_batch(filter, keys)[i] <=> Bits(filter, keys[i]) \subseteq filter.bits
      BY <1>1 DEF fc_bloom_contains_batch, fc_bloom_contains
    <2>4. /\ filter \in FilterRecord
          /\ \A k \in Key : \A j \in 1 .. filter.num_hash_functions : hash[k][j] \in Nat
          /\ \A k \in present : Bits(filter, k) \subseteq filter.bits
          /\ present = {} => filter.bits = {}
      BY <1>1 DEF BloomInv
    <2>5. Bits(filter, keys[i]) # {}
      BY <2>2, <2>4, BitsType
    <2> QED
      BY <2>3, <2>4, <2>5
  <1>2. BloomInv => BloomNoFalseNegative
    BY <1>1 DEF BloomNoFalseNegative
  <1> QED
    BY <1>2, BloomInvariance, PTL

----------------------------------------------------------------------------
(* The elements of RingBuffer.                                              *)

RingRecord(c) == [data : [0 .. c - 1 -> Nat], capacity : {c}, head : 0 .. c - 1, count : 0 .. c]

\* Behind the write position, going back, lie the newest elements.
HoldsBack(r, c, newest) ==
    \A j \in 1 .. r.count : r.data[(r.head - j) % c] = newest + 1 - j

Capacities == {2 ^ k : k \in 0 .. SizeBits - 1}

\* Without a ring everything pushed is gone; with one, what is not gone and has room is there.
RingInv ==
    /\ pushed \in 0 .. MaxPushed /\ gone \in 0 .. pushed
    /\ \/ rb = NoRing /\ gone = pushed
       \/ \E c \in Capacities :
             /\ rb \in RingRecord(c) /\ HoldsBack(rb, c, pushed)
             /\ rb.count = IF c <= pushed - gone THEN c ELSE pushed - gone

LEMMA RingConstants ==
    /\ 2 ^ SizeBits \in Nat \ {0} /\ MaxPushed \in Nat /\ MaxBatch \in Nat
    /\ \A c \in Capacities : /\ c \in Nat \ {0} /\ c < 2 ^ SizeBits
                             /\ \E d \in Nat \ {0} : 2 ^ SizeBits = c * d
  <1>1. 2 ^ SizeBits \in Nat \ {0} /\ MaxPushed \in Nat /\ MaxBatch \in Nat
    BY RingAssumption
  <1>2. ASSUME NEW c \in Capacities
        PROVE  c \in Nat \ {0} /\ c < 2 ^ SizeBits /\ \E d \in Nat \ {0} : 2 ^ SizeBits = c * d
    <2>1. PICK k \in 0 .. SizeBits - 1 : c = 2 ^ k
      BY DEF Capacities
    <2>2. c \in Nat \ {0} /\ c < 2 ^ SizeBits
      BY <2>1, RingAssumption
    <2>3. PICK d \in 1 .. 2 ^ SizeBits : 2 ^ SizeBits = c * d
      BY <2>1, RingAssumption
    <2> QED
      BY <1>1, <2>2, <2>3
  <1> QED
    BY <1>1, <1>2

LEMMA LeastOfTwo ==
    ASSUME NEW a \in Int, NEW b \in Int
    PROVE  Min({a, b}) = IF a <= b THEN a ELSE b
  <1> DEFINE m == IF a <= b THEN a ELSE b
  <1>1. m \in {a, b} /\ \A y \in {a, b} : m <= y
    OBVIOUS
  <1>2. \A x \in {a, b} : (\A y \in {a, b} : x <= y) => x = m
    OBVIOUS
  <1> QED
    BY <1>1, <1>2 DEF Min

\* Wrapping to the width of size_t does not change an index: a power of two divides another.
LEMMA MaskedIndex ==
    ASSUME NEW c \in Capacities, NEW r, r.capacity = c, NEW position \in Int
    PROVE  Index(r, position) = position % c
  <1>1. PICK M \in Nat \ {0}, d \in Nat \ {0} : M = 2 ^ SizeBits /\ M = c * d /\ c \in Nat \ {0}
    BY RingConstants
  <1>2. position % M \in 0 .. M - 1 /\ position \div M \in Int
        /\ position = M * (position \div M) + (position % M)
    BY Remainder
  <1>3. PICK u \in Int, q \in Int : u = position % M /\ position = M * q + u
    BY <1>2
  <1>4. u % c \in 0 .. c - 1 /\ u \div c \in Int /\ u = c * (u \div c) + (u % c)
    BY <1>1, Remainder
  <1>5. PICK s \in 0 .. c - 1, p \in Int : s = u % c /\ u = c * p + s
    BY <1>4
  <1>6. position % c \in 0 .. c - 1 /\ position \div c \in Int
        /\ position = c * (position \div c) + (position % c)
    BY <1>1, Remainder
  <1>7. PICK t \in 0 .. c - 1, w \in Int : t = position % c /\ position = c * w + t
    BY <1>6
  <1>8. PICK z \in Int : z = d * q + p /\ c * z + s = position
    <2>1. c * (d * q + p) = (c * d) * q + c * p
      BY <1>1, <1>3, <1>5
    <2> QED
      BY <1>1, <1>3, <1>5, <2>1
  <1>9. c * z + s = c * w + t
    BY <1>7, <1>8
  <1>10. s = t
    BY <1>1, <1>9, OneRemainder
  <1> QED
    BY <1>1, <1>3, <1>5, <1>7, <1>10 DEF Index, Unsigned

\* Rounding up gives a power of two below the largest size, or 0.
LEMMA RoundedToPower ==
    ASSUME NEW x \in Int
    PROVE  FC_ROUND_UP_TO_POW2(x) \in {0} \cup Capacities
  <1>1. PICK M \in Nat \ {0} : M = 2 ^ SizeBits
    BY RingConstants
  <1> DEFINE T == {2 ^ k - 1 : k \in 0 .. SizeBits} \cap Unsigned(x - 1) .. 2 ^ SizeBits - 1
  <1>2. Unsigned(x - 1) \in 0 .. M - 1
    <2>1. PICK y \in Int : y = x - 1
      OBVIOUS
    <2>2. y % M \in 0 .. M - 1
      BY Remainder
    <2> QED
      BY <1>1, <2>1, <2>2 DEF Unsigned
  <1>3. M - 1 \in T
    BY <1>1, <1>2, RingAssumption
  <1>4. T \subseteq Nat
    BY <1>1, <1>2
  <1>5. Min(T) \in T
    <2>1. PICK m \in T : \A y \in T : m <= y
      BY <1>3, <1>4, LeastNumber
    <2> HIDE DEF T
    <2> QED
      BY <2>1 DEF Min
  <1>6. PICK k \in 0 .. SizeBits : Min(T) = 2 ^ k - 1
    BY <1>5
  <1>7. 2 ^ k \in Nat \ {0}
    BY RingAssumption
  <1>8. FC_ROUND_UP_TO_POW2(x) = (2 ^ k) % M
    <2>1. FC_ROUND_UP_TO_POW2(x) = Unsigned(1 + Min(T))
      BY DEF FC_ROUND_UP_TO_POW2
    <2>2. 1 + Min(T) = 2 ^ k
      <3> HIDE DEF T
      <3> QED
        BY <1>6, <1>7
    <2> QED
      BY <1>1, <2>1, <2>2 DEF Unsigned
  <1>9. CASE k = SizeBits
    <2>1. PICK r \in 0 .. M - 1, q \in Int : r = M % M /\ M = M * q + r
      <3>1. M % M \in 0 .. M - 1 /\ M \div M \in Int /\ M = M * (M \div M) + (M % M)
        BY Remainder
      <3> QED
        BY <3>1
    <2>2. M * 1 + 0 = M * q + r /\ 0 \in 0 .. M - 1
      BY <2>1
    <2>3. 0 = r
      BY <2>2, OneRemainder
    <2> QED
      BY <1>1, <1>8, <1>9, <2>1, <2>3
  <1>10. CASE k \in 0 .. SizeBits - 1
    <2>1. 2 ^ k \in 0 .. M - 1 /\ 2 ^ k \in Capacities
      BY <1>1, <1>7, <1>10, RingConstants DEF Capacities
    <2>2. PICK n \in 0 .. M - 1 : n = 2 ^ k
      BY <2>1
    <2>3. n % M = n
      BY SmallRemainder
    <2> QED
      BY <1>8, <2>1, <2>2, <2>3
  <1> QED
    BY <1>9, <1>10, RingAssumption

\* The slots behind the write position, before and after it moves by one.
LEMMA SlotsBehind ==
    ASSUME NEW c \in Nat \ {0}, NEW head \in 0 .. c - 1, NEW j \in 1 .. c
    PROVE  /\ (head - j) % c \in 0 .. c - 1
           /\ (((head + 1) % c) - j) % c = (head - (j - 1)) % c
           /\ j = 1 => (head - (j - 1)) % c = head
           /\ j > 1 => (head - (j - 1)) % c # head
  <1>1. (head - j) % c \in 0 .. c - 1
    <2>1. PICK y \in Int : y = head - j
      OBVIOUS
    <2> QED
      BY <2>1, Remainder
  <1>2. (((head + 1) % c) - j) % c = (head - (j - 1)) % c
    <2>0. PICK a \in Int, b \in Int : a = head + 1 /\ b = -j
      OBVIOUS
    <2>1. (((head + 1) % c) + (-j)) % c = ((head + 1) + (-j)) % c
      <3>1. ((a % c) + b) % c = (a + b) % c
        BY RemainderOfSum
      <3> QED
        BY <2>0, <3>1
    <2>2. (head + 1) % c \in Int
      BY <2>0, Remainder
    <2>3. (head + 1) + (-j) = head - (j - 1) /\ ((head + 1) % c) + (-j) = ((head + 1) % c) - j
      BY <2>2
    <2> QED
      BY <2>1, <2>3
  <1>3. head % c = head
    BY SmallRemainder
  <1>4. j = 1 => (head - (j - 1)) % c = head
    <2>1. j = 1 => head - (j - 1) = head
      OBVIOUS
    <2> QED
      BY <1>3, <2>1
  <1>5. j > 1 => (head - (j - 1)) % c # head
    <2> SUFFICES ASSUME j > 1, (head - (j - 1)) % c = head PROVE FALSE
      OBVIOUS
    <2>1. PICK b \in Int, a \in 0 .. c - 1 : b = head - (j - 1) /\ a = j - 1 /\ a # 0
      OBVIOUS
    <2>2. (b + 0) % c = (b + a) % c /\ 0 \in 0 .. c - 1
      <3>1. b + 0 = head - (j - 1) /\ b + a = head
        BY <2>1
      <3> QED
        BY <1>3, <3>1
    <2>3. 0 = a
      BY <2>2, RemaindersApart
    <2> QED
      BY <2>1, <2>3
  <1> QED
    BY <1>1, <1>2, <1>4, <1>5

\* One push.
LEMMA OnePush ==
    ASSUME NEW c \in Capacities, NEW r \in RingRecord(c), NEW value \in Nat
    PROVE  /\ fc_ring_buffer_push(r, value) \in RingRecord(c)
           /\ fc_ring_buffer_push(r, value).count = IF r.count < c THEN r.count + 1 ELSE c
           /\ fc_ring_buffer_push(r, value).head = (r.head + 1) % c
           /\ fc_ring_buffer_push(r, value).data = [r.data EXCEPT ![r.head] = value]
           /\ HoldsBack(r, c, value - 1) => HoldsBack(fc_ring_buffer_push(r, value), c, value)
  <1>1. PICK head \in 0 .. c - 1, count \in 0 .. c, data \in [0 .. c - 1 -> Nat] :
           head = r.head /\ count = r.count /\ data = r.data /\ r.capacity = c
    BY DEF RingRecord
  <1>2. c \in Nat \ {0}
    BY RingConstants
  <1>3. Index(r, r.head + 1) = (head + 1) % c
    BY <1>1, <1>2, MaskedIndex
  <1>4. (head + 1) % c \in 0 .. c - 1
    <2>1. PICK y \in Int : y = head + 1
      BY <1>2
    <2> QED
      BY <1>2, <2>1, Remainder
  <1>5. Min({r.count + 1, r.capacity}) = IF count < c THEN count + 1 ELSE c
    <2>1. Min({count + 1, c}) = IF count + 1 <= c THEN count + 1 ELSE c
      BY <1>2, LeastOfTwo
    <2> QED
      BY <1>1, <1>2, <2>1
  <1> DEFINE more == IF count < c THEN count + 1 ELSE c
             after == fc_ring_buffer_push(r, value)
  <1>6. more \in 0 .. c
    BY <1>2
  <1>7. after = [r EXCEPT !.data = [data EXCEPT ![head] = value], !.head = (head + 1) % c, !.count = more]
    BY <1>1, <1>3, <1>5 DEF fc_ring_buffer_push
  <1> HIDE DEF more, after
  <1>8. [data EXCEPT ![head] = value] \in [0 .. c - 1 -> Nat]
    BY <1>1
  <1>9. /\ after \in RingRecord(c) /\ after.data = [data EXCEPT ![head] = value]
        /\ after.head = (head + 1) % c /\ after.count = more
    BY <1>4, <1>6, <1>7, <1>8 DEF RingRecord
  <1>10. ASSUME HoldsBack(r, c, value - 1) PROVE HoldsBack(after, c, value)
    <2> SUFFICES ASSUME NEW j \in 1 .. more
                 PROVE  after.data[(after.head - j) % c] = value + 1 - j
      BY <1>9 DEF HoldsBack
    <2>1. j \in 1 .. c
      BY <1>2, <1>6
    <2>2. after.data[(after.head - j) % c] = after.data[(head - (j - 1)) % c]
      <3>1. (((head + 1) % c) - j) % c = (head - (j - 1)) % c
        BY <1>2, <2>1, SlotsBehind
      <3> QED
        BY <1>9, <3>1
    <2>3. CASE j = 1
      <3>1. (head - (j - 1)) % c = head
        BY <1>2, <2>1, <2>3, SlotsBehind
      <3>2. after.data[head] = value
        BY <1>9
      <3> QED
        BY <2>2, <2>3, <3>1, <3>2
    <2>4. CASE j > 1
      <3>1. j - 1 \in 1 .. c /\ j - 1 \in 1 .. count
        BY <1>2, <2>1, <2>4 DEF more
      <3>2. (head - (j - 1)) % c # head /\ (head - (j - 1)) % c \in 0 .. c - 1
        BY <1>2, <2>1, <2>4, <3>1, SlotsBehind
      <3>3. after.data[(head - (j - 1)) % c] = data[(head - (j - 1)) % c]
        BY <1>9, <3>2
      <3>4. data[(head - (j - 1)) % c] = (value - 1) + 1 - (j - 1)
        BY <1>1, <1>10, <3>1 DEF HoldsBack
      <3> QED
        BY <2>2, <3>3, <3>4
    <2> QED
      BY <2>1, <2>3, <2>4
  <1> QED
    BY <1>1, <1>9, <1>10 DEF more, after

\* What the ring r is after each push of a batch.
AfterEach(rings, c, r, newest, n) ==
    /\ rings \in [0 .. n -> RingRecord(c)] /\ rings[0] = r
    /\ \A i \in 0 .. n - 1 : rings[i + 1] = fc_ring_buffer_push(rings[i], newest + i + 1)
    /\ rings[n] = fc_ring_buffer_push_batch(r, [i \in 1 .. n |-> newest + i])

\* A batch is its pushes in order.
LEMMA PushTable ==
    ASSUME NEW c \in Capacities, NEW r \in RingRecord(c), NEW newest \in Nat, NEW n \in Nat
    PROVE  \E rings : AfterEach(rings, c, r, newest, n)
  <1> DEFINE V == RingRecord(c)
             values == [i \in 1 .. n |-> newest + i]
             g == [p \in V \X (1 .. n) |-> fc_ring_buffer_push(p[1], values[p[2]])]
             Pushes(h) == h = [s \in SUBSET (1 .. n) |->
                                 IF s = {} THEN r ELSE fc_ring_buffer_push(h[s \ {Max(s)}], values[Max(s)])]
             h == CHOOSE h : Pushes(h)
  <1>1. \A i \in 1 .. n : values[i] \in Nat
    OBVIOUS
  <1> HIDE DEF V
  <1>2. g \in [V \X (1 .. n) -> V]
    <2>1. ASSUME NEW x \in V, NEW i \in 1 .. n PROVE fc_ring_buffer_push(x, values[i]) \in V
      BY <1>1, OnePush DEF V
    <2> HIDE DEF values
    <2> QED
      BY <2>1
  <1> HIDE DEF g, values
  <1>3. \E t : Pushes(t)
    <2>0. r \in V
      BY DEF V
    <2>1. PICK t \in [SUBSET (1 .. n) -> V] : Tabulates(t, n, r, g)
      BY <1>2, <2>0, TableExists
    <2>2. \A s \in SUBSET (1 .. n) : s # {} => Max(s) \in s
      BY <1>2, <2>0, TableExists
    <2>3. ASSUME NEW s \in SUBSET (1 .. n), s # {}
          PROVE  g[<<t[s \ {Max(s)}], Max(s)>>] = fc_ring_buffer_push(t[s \ {Max(s)}], values[Max(s)])
      <3>1. <<t[s \ {Max(s)}], Max(s)>> \in V \X (1 .. n)
        BY <2>2, <2>3
      <3> QED
        BY <3>1 DEF g
    <2>4. t = [s \in SUBSET (1 .. n) |-> t[s]]
      OBVIOUS
    <2>5. \A s \in SUBSET (1 .. n) :
             t[s] = IF s = {} THEN r ELSE fc_ring_buffer_push(t[s \ {Max(s)}], values[Max(s)])
      BY <2>1, <2>3 DEF Tabulates
    <2> QED
      BY <2>4, <2>5
  <1>4. Pushes(h)
    BY <1>3
  <1>5. fc_ring_buffer_push_batch(r, values) = h[1 .. n]
    <2>1. DOMAIN values = 1 .. n
      BY DEF values
    <2> QED
      BY <2>1 DEF fc_ring_buffer_push_batch, FoldLeft, MapThenFoldSet
  <1> HIDE DEF h
  <1> DEFINE t == [i \in 0 .. n |-> h[1 .. i]]
  <1>6. t[0] = r /\ 0 \in 0 .. n
    <2>1. 1 .. 0 = {} /\ {} \in SUBSET (1 .. n)
      OBVIOUS
    <2>2. h[1 .. 0] = r
      BY <1>4, <2>1
    <2> QED
      BY <2>2
  <1>7. ASSUME NEW i \in 0 .. n - 1
        PROVE  t[i + 1] = fc_ring_buffer_push(t[i], newest + i + 1) /\ newest + i + 1 \in Nat
    <2>1. /\ 1 .. i + 1 \in SUBSET (1 .. n) /\ 1 .. i + 1 # {}
          /\ Max(1 .. i + 1) = i + 1 /\ (1 .. i + 1) \ {i + 1} = 1 .. i
      BY TableBySteps
    <2>2. \A s \in SUBSET (1 .. n) :
             s # {} => h[s] = fc_ring_buffer_push(h[s \ {Max(s)}], values[Max(s)])
      BY <1>4
    <2>3. values[i + 1] = newest + i + 1 /\ newest + i + 1 \in Nat
      BY DEF values
    <2>4. i \in 0 .. n /\ i + 1 \in 0 .. n
      OBVIOUS
    <2> QED
      BY <2>1, <2>2, <2>3, <2>4
  <1> DEFINE S == {i \in Nat : i <= n => t[i] \in RingRecord(c)}
  <1> HIDE DEF t
  <1>8. \A i \in S : i + 1 \in S
    <2> SUFFICES ASSUME NEW i \in S, i + 1 <= n PROVE t[i + 1] \in RingRecord(c)
      OBVIOUS
    <2>1. PICK before \in RingRecord(c), v \in Nat : before = t[i] /\ v = newest + i + 1
      <3>1. i \in 0 .. n - 1 /\ t[i] \in RingRecord(c)
        OBVIOUS
      <3> QED
        BY <1>7, <3>1
    <2>2. i \in 0 .. n - 1
      OBVIOUS
    <2>3. fc_ring_buffer_push(before, v) \in RingRecord(c)
      BY OnePush
    <2> QED
      BY <1>7, <2>1, <2>2, <2>3
  <1>9. S = Nat
    BY <1>6, <1>8, BySteps
  <1>10. t \in [0 .. n -> RingRecord(c)]
    <2>1. \A i \in 0 .. n : t[i] \in RingRecord(c)
      BY <1>9
    <2> QED
      BY <2>1 DEF t
  <1>11. t[n] = fc_ring_buffer_push_batch(r, [i \in 1 .. n |-> newest + i])
    BY <1>5 DEF t, values
  <1>12. \A i \in 0 .. n - 1 : t[i + 1] = fc_ring_buffer_push(t[i], newest + i + 1)
    BY <1>7
  <1>13. t[0] = r
    BY <1>6
  <1> QED
    BY <1>10, <1>11, <1>12, <1>13 DEF AfterEach

LEMMA BatchPushed ==
    ASSUME NEW c \in Capacities, NEW r \in RingRecord(c), NEW newest \in Nat, HoldsBack(r, c, newest),
           NEW n \in Nat, NEW after, after = fc_ring_buffer_push_batch(r, [i \in 1 .. n |-> newest + i])
    PROVE  /\ after \in RingRecord(c) /\ HoldsBack(after, c, newest + n)
           /\ after.count = IF r.count + n < c THEN r.count + n ELSE c
  <1>0. PICK t : AfterEach(t, c, r, newest, n)
    BY PushTable
  <1>1. /\ t \in [0 .. n -> RingRecord(c)] /\ t[0] = r
        /\ \A i \in 0 .. n - 1 : t[i + 1] = fc_ring_buffer_push(t[i], newest + i + 1)
        /\ t[n] = fc_ring_buffer_push_batch(r, [i \in 1 .. n |-> newest + i])
    BY <1>0 DEF AfterEach
  <1> DEFINE Done(i) == /\ HoldsBack(t[i], c, newest + i)
                        /\ t[i].count = IF r.count + i < c THEN r.count + i ELSE c
             S == {i \in Nat : i <= n => Done(i)}
  <1>2. c \in Nat \ {0} /\ r.count \in 0 .. c
    BY RingConstants DEF RingRecord
  <1>3. 0 \in S
    <2>1. r.count = IF r.count + 0 < c THEN r.count + 0 ELSE c
      BY <1>2
    <2>2. newest + 0 = newest
      OBVIOUS
    <2> QED
      BY <1>1, <2>1, <2>2
  <1> HIDE DEF Done
  <1>4. ASSUME NEW i \in S PROVE i + 1 \in S
    <2> SUFFICES ASSUME i + 1 <= n PROVE Done(i + 1)
      OBVIOUS
    <2>1. i \in Nat /\ i \in 0 .. n - 1 /\ Done(i)
      OBVIOUS
    <2>2. PICK before \in RingRecord(c) : before = t[i]
      BY <1>1, <2>1
    <2>3. /\ HoldsBack(before, c, newest + i)
          /\ before.count = IF r.count + i < c THEN r.count + i ELSE c
      BY <2>1, <2>2 DEF Done
    <2>4. PICK v \in Nat : v = newest + i + 1 /\ v - 1 = newest + i /\ v = newest + (i + 1)
      BY <2>1
    <2>5. t[i + 1] = fc_ring_buffer_push(before, v) /\ HoldsBack(before, c, v - 1)
      BY <1>1, <2>1, <2>2, <2>3, <2>4
    <2>6. /\ fc_ring_buffer_push(before, v).count = IF before.count < c THEN before.count + 1 ELSE c
          /\ HoldsBack(fc_ring_buffer_push(before, v), c, v)
      BY <2>5, OnePush
    <2>7. t[i + 1].count = IF r.count + (i + 1) < c THEN r.count + (i + 1) ELSE c
      <3>1. PICK k \in Nat, l \in Nat : k = r.count /\ l = before.count
        BY <1>2, <2>3 DEF RingRecord
      <3>2. l = IF k + i < c THEN k + i ELSE c
        BY <2>3, <3>1
      <3>3. (IF l < c THEN l + 1 ELSE c) = IF k + (i + 1) < c THEN k + (i + 1) ELSE c
        BY <1>2, <2>1, <3>2
      <3> QED
        BY <2>5, <2>6, <3>1, <3>3
    <2> QED
      BY <2>4, <2>5, <2>6, <2>7 DEF Done
  <1>5. S = Nat
    BY <1>3, <1>4, BySteps
  <1>6. Done(n)
    BY <1>5
  <1> QED
    BY <1>1, <1>6 DEF Done

\* An element is read where it was pushed: the oldest has the index 0.
LEMMA ElementRead ==
    ASSUME NEW c \in Capacities, NEW r \in RingRecord(c), NEW newest \in Nat, HoldsBack(r, c, newest),
           NEW i \in 0 .. r.count - 1
    PROVE  fc_ring_buffer_get(r, i) = newest - r.count + 1 + i
  <1>1. PICK head \in 0 .. c - 1, count \in 0 .. c :
           head = r.head /\ count = r.count /\ r.capacity = c /\ c \in Nat \ {0}
    BY RingConstants DEF RingRecord
  <1>2. PICK j \in 1 .. count : j = count - i
    BY <1>1
  <1>3. PICK y \in Int : y = r.head - r.count + i /\ y = head - j
    BY <1>1, <1>2
  <1>4. Index(r, y) = y % c
    BY <1>1, MaskedIndex
  <1>5. fc_ring_buffer_get(r, i) = r.data[(r.head - j) % c]
    BY <1>1, <1>3, <1>4 DEF fc_ring_buffer_get
  <1>6. r.data[(r.head - j) % c] = newest + 1 - j
    BY <1>1, <1>2 DEF HoldsBack
  <1> QED
    BY <1>1, <1>2, <1>5, <1>6

LEMMA RingPopInv ==
    ASSUME RingInv, RingPop
    PROVE  RingInv'
  <1>1. PICK n \in 1 .. MaxBatch :
           /\ gone' = Max({gone} \cup {fc_ring_buffer_get(rb, i) : i \in 0 .. Min({n, rb.count}) - 1})
           /\ rb' = fc_ring_buffer_pop_batch(rb, n)
    BY DEF RingPop
  <1>2. rb # NoRing
    BY DEF RingPop, NoRing
  <1>3. PICK c \in Capacities :
           /\ rb \in RingRecord(c) /\ HoldsBack(rb, c, pushed)
           /\ rb.count = IF c <= pushed - gone THEN c ELSE pushed - gone
    BY <1>2 DEF RingInv
  <1>4. PICK p \in Nat, old \in Nat, count \in 1 .. c, k \in Nat \ {0} :
           p = pushed /\ old = gone /\ count = rb.count /\ k = n
    <2>1. pushed \in Nat /\ gone \in Nat
      BY RingConstants DEF RingInv
    <2>2. rb.count \in 0 .. c /\ rb.count > 0 /\ c \in Nat
      BY <1>3, RingConstants DEF RingRecord, RingPop
    <2>3. n \in Nat \ {0}
      BY RingConstants
    <2> QED
      BY <2>1, <2>2, <2>3
  <1>5. c \in Nat \ {0} /\ p \in 0 .. MaxPushed /\ old <= p - count
        /\ count = IF c <= p - old THEN c ELSE p - old
    BY <1>3, <1>4, RingConstants DEF RingInv
  <1> DEFINE m == IF k <= count THEN k ELSE count
             T == {gone} \cup {fc_ring_buffer_get(rb, i) : i \in 0 .. Min({n, rb.count}) - 1}
  <1>6. Min({n, rb.count}) = m
    BY <1>4, LeastOfTwo
  <1>7. m \in 1 .. count
    BY <1>4
  <1> HIDE DEF m
  <1>8. T = {old} \cup {p - count + 1 + i : i \in 0 .. m - 1}
    <2>1. \A i \in 0 .. m - 1 : fc_ring_buffer_get(rb, i) = p - count + 1 + i
      <3> SUFFICES ASSUME NEW i \in 0 .. m - 1 PROVE fc_ring_buffer_get(rb, i) = p - count + 1 + i
        OBVIOUS
      <3>1. i \in 0 .. rb.count - 1
        BY <1>4, <1>7
      <3> QED
        BY <1>3, <1>4, <3>1, ElementRead
    <2> QED
      BY <1>4, <1>6, <2>1
  <1>9. Max(T) = p - count + m
    <2>1. p - count + m \in T
      <3>1. m - 1 \in 0 .. m - 1 /\ p - count + 1 + (m - 1) = p - count + m
        BY <1>4, <1>7
      <3> QED
        BY <1>8, <3>1
    <2> HIDE DEF T
    <2>2. \A y \in T : y \in Int /\ y <= p - count + m
      <3> SUFFICES ASSUME NEW y \in T PROVE y \in Int /\ y <= p - count + m
        OBVIOUS
      <3>1. CASE y = old
        BY <1>4, <1>5, <1>7, <3>1
      <3>2. ASSUME NEW i \in 0 .. m - 1, y = p - count + 1 + i PROVE y \in Int /\ y <= p - count + m
        BY <1>4, <1>7, <3>2
      <3> QED
        BY <1>8, <3>1, <3>2
    <2>3. \A x \in T : (\A y \in T : x >= y) => x = p - count + m
      BY <1>4, <1>7, <2>1, <2>2
    <2>4. \A y \in T : p - count + m >= y
      BY <1>4, <1>7, <2>2
    <2> QED
      BY <2>1, <2>3, <2>4 DEF Max
  <1>10. gone' = p - count + m
    BY <1>1, <1>9
  <1>11. rb' = [rb EXCEPT !.count = count - m]
    BY <1>1, <1>4, <1>6 DEF fc_ring_buffer_pop_batch
  <1>12. rb' \in RingRecord(c) /\ rb'.count = count - m
    <2>1. count - m \in 0 .. c
      BY <1>4, <1>5, <1>7
    <2> HIDE DEF m
    <2> QED
      BY <1>3, <1>11, <2>1 DEF RingRecord
  <1>13. HoldsBack(rb', c, pushed')
    <2>1. rb'.data = rb.data /\ rb'.head = rb.head
      BY <1>3, <1>11 DEF RingRecord
    <2>2. \A j \in 1 .. count - m : j \in 1 .. count
      BY <1>4, <1>7
    <2> QED
      BY <1>3, <1>4, <1>12, <2>1, <2>2 DEF HoldsBack, RingPop
  <1>14. /\ gone' \in 0 .. p /\ pushed' = p
         /\ rb'.count = IF c <= pushed' - gone' THEN c ELSE pushed' - gone'
    <2>1. pushed' = p
      BY <1>4 DEF RingPop
    <2> QED
      BY <1>4, <1>5, <1>7, <1>10, <1>12, <2>1
  <1> QED
    BY <1>5, <1>12, <1>13, <1>14 DEF RingInv

LEMMA RingPushInv ==
    ASSUME RingInv, RingPush
    PROVE  RingInv'
  <1>1. PICK n \in 1 .. MaxBatch :
           /\ pushed + n <= MaxPushed
           /\ rb' = fc_ring_buffer_push_batch(rb, [i \in 1 .. n |-> pushed + i])
           /\ pushed' = pushed + n /\ gone' = gone
    BY DEF RingPush
  <1>2. rb # NoRing
    BY DEF RingPush, NoRing
  <1>3. PICK c \in Capacities :
           /\ rb \in RingRecord(c) /\ HoldsBack(rb, c, pushed)
           /\ rb.count = IF c <= pushed - gone THEN c ELSE pushed - gone
    BY <1>2 DEF RingInv
  <1>4. n \in Nat /\ pushed \in Nat /\ gone \in 0 .. pushed /\ c \in Nat \ {0}
    BY RingConstants DEF RingInv
  <1>5. /\ rb' \in RingRecord(c) /\ HoldsBack(rb', c, pushed + n)
        /\ rb'.count = IF rb.count + n < c THEN rb.count + n ELSE c
    BY <1>1, <1>3, <1>4, BatchPushed
  <1>6. rb'.count = IF c <= pushed' - gone' THEN c ELSE pushed' - gone'
    <2>0. rb.count \in Nat
      BY <1>3, <1>4 DEF RingRecord
    <2>1. PICK p \in Nat, old \in Nat, k \in Nat : p = pushed /\ old = gone /\ k = rb.count /\ old <= p
      BY <1>4, <2>0
    <2>2. k = IF c <= p - old THEN c ELSE p - old
      BY <1>3, <2>1
    <2>3. (IF k + n < c THEN k + n ELSE c) = IF c <= (p + n) - old THEN c ELSE (p + n) - old
      BY <1>4, <2>1, <2>2
    <2> QED
      BY <1>1, <1>5, <2>1, <2>3
  <1>7. pushed' \in 0 .. MaxPushed /\ gone' \in 0 .. pushed'
    BY <1>1, <1>4, RingConstants
  <1> QED
    BY <1>1, <1>3, <1>5, <1>6, <1>7 DEF RingInv

\* The invariant of the ring.
THEOREM RingInvariance == RingSpec => []RingInv
  <1>1. RingInit => RingInv
    BY RingConstants DEF RingInit, RingInv
  <1>2. RingInv /\ [RingNext]_ringVars => RingInv'
    <2> SUFFICES ASSUME RingInv, [RingNext]_ringVars PROVE RingInv'
      OBVIOUS
    <2>1. CASE RingCreate
      <3>1. rb = NoRing /\ gone = pushed
        BY <2>1, RingConstants DEF RingInv, RingCreate, RingRecord
      <3>2. PICK capacity \in RingSizes : rb' = fc_ring_buffer_create(capacity)
        BY <2>1 DEF RingCreate
      <3>3. PICK c : c = FC_ROUND_UP_TO_POW2(capacity)
        OBVIOUS
      <3>4. c \in {0} \cup Capacities
        <4>1. capacity \in Int
          BY RingAssumption
        <4> QED
          BY <3>3, <4>1, RoundedToPower
      <3>5. CASE c = 0
        BY <2>1, <3>1, <3>2, <3>3, <3>5 DEF fc_ring_buffer_create, RingInv, RingCreate
      <3>6. CASE c # 0
        <4>1. rb' = [data |-> [i \in 0 .. c - 1 |-> 0], capacity |-> c, head |-> 0, count |-> 0]
          BY <3>2, <3>3, <3>6 DEF fc_ring_buffer_create
        <4>2. c \in Nat \ {0} /\ c \in Capacities
          BY <3>4, <3>6, RingConstants
        <4>3. rb' \in RingRecord(c) /\ rb'.count = 0
          BY <4>1, <4>2 DEF RingRecord
        <4>4. HoldsBack(rb', c, pushed')
          BY <4>3 DEF HoldsBack
        <4>5. /\ pushed' \in 0 .. MaxPushed /\ gone' \in 0 .. pushed'
              /\ 0 = IF c <= pushed' - gone' THEN c ELSE pushed' - gone'
          BY <2>1, <3>1, <4>2, RingConstants DEF RingInv, RingCreate
        <4> QED
          BY <4>2, <4>3, <4>4, <4>5 DEF RingInv
      <3> QED
        BY <3>5, <3>6
    <2>2. CASE RingDestroy
      BY <2>2 DEF RingDestroy, RingInv
    <2>3. CASE RingPush
      BY <2>3, RingPushInv
    <2>4. CASE RingPop
      BY <2>4, RingPopInv
    <2>5. CASE RingClear
      <3>1. rb # NoRing
        BY <2>5 DEF RingClear, NoRing
      <3>2. PICK c \in Capacities : rb \in RingRecord(c)
        BY <3>1 DEF RingInv
      <3>3. c \in Nat \ {0}
        BY RingConstants
      <3>4. rb' \in RingRecord(c) /\ rb'.count = 0
        <4>1. rb' = [rb EXCEPT !.head = 0, !.count = 0]
          BY <2>5 DEF RingClear, fc_ring_buffer_clear
        <4>2. 0 \in 0 .. c - 1 /\ 0 \in 0 .. c
          BY <3>3
        <4> QED
          BY <3>2, <4>1, <4>2 DEF RingRecord
      <3>5. HoldsBack(rb', c, pushed')
        BY <3>4 DEF HoldsBack
      <3>6. /\ pushed' \in 0 .. MaxPushed /\ gone' \in 0 .. pushed'
            /\ 0 = IF c <= pushed' - gone' THEN c ELSE pushed' - gone'
        BY <2>5, <3>3, RingConstants DEF RingInv, RingClear
      <3> QED
        BY <3>2, <3>4, <3>5, <3>6 DEF RingInv
    <2>6. CASE UNCHANGED ringVars
      BY <2>6 DEF ringVars, RingInv, HoldsBack
    <2> QED
      BY <2>1, <2>2, <2>3, <2>4, <2>5, <2>6 DEF RingNext
  <1> QED
    BY <1>1, <1>2, PTL DEF RingSpec

\* The ring holds the newest elements in order, for every width of size_t, every capacity and
\* batches of every size, those longer than the ring included.
THEOREM NewestHeld == RingSpec => []RingHoldsNewest
  <1>1. ASSUME RingInv, rb = NoRing PROVE RingHoldsNewest
    <2>1. rb.capacity = 0 /\ rb.data = <<>> /\ rb.head = 0 /\ rb.count = 0
      BY <1>1 DEF NoRing
    <2>2. rb.capacity - 1 = -1 /\ 0 .. (-1) = {} /\ rb.data \in [{} -> Nat]
      BY <2>1
    <2>3. Max({0, rb.capacity - 1}) \in Nat
      <3>1. 0 \in {0, -1} /\ \A y \in {0, -1} : 0 >= y
        OBVIOUS
      <3>2. \A x \in {0, -1} : (\A y \in {0, -1} : x >= y) => x = 0
        OBVIOUS
      <3> QED
        BY <2>2, <3>1, <3>2 DEF Max
    <2>4. RingTypeOK
      BY <1>1, <2>1, <2>2, <2>3 DEF RingTypeOK, RingInv
    <2>5. Min({rb.capacity, pushed - gone}) = 0
      <3>1. pushed - gone = 0
        BY <1>1, RingConstants DEF RingInv, RingRecord, NoRing
      <3>2. Min({0, 0}) = 0
        BY LeastOfTwo
      <3> QED
        BY <2>1, <3>1, <3>2
    <2>6. 1 .. 0 = {}
      OBVIOUS
    <2> QED
      BY <2>1, <2>4, <2>5, <2>6 DEF RingHoldsNewest, fc_ring_buffer_get_all
  <1>2. ASSUME RingInv, NEW c \in Capacities, rb \in RingRecord(c), HoldsBack(rb, c, pushed),
               rb.count = IF c <= pushed - gone THEN c ELSE pushed - gone
        PROVE  RingHoldsNewest
    <2>1. /\ c \in Nat \ {0} /\ rb.capacity = c /\ rb.head \in 0 .. c - 1 /\ rb.count \in 0 .. c
          /\ rb.data \in [0 .. c - 1 -> Nat] /\ pushed \in Nat /\ gone \in Nat
      BY <1>2, RingConstants DEF RingRecord, RingInv
    <2>2. Max({0, rb.capacity - 1}) = c - 1
      <3>1. c - 1 \in {0, c - 1} /\ \A y \in {0, c - 1} : c - 1 >= y
        BY <2>1
      <3>2. \A x \in {0, c - 1} : (\A y \in {0, c - 1} : x >= y) => x = c - 1
        BY <2>1
      <3> QED
        BY <2>1, <3>1, <3>2 DEF Max
    <2>3. RingTypeOK
      BY <1>2, <2>1, <2>2 DEF RingTypeOK, RingInv, Capacities
    <2>4. rb.count = Min({rb.capacity, pushed - gone})
      BY <1>2, <2>1, LeastOfTwo
    <2>5. ASSUME NEW i \in 1 .. rb.count PROVE fc_ring_buffer_get(rb, i - 1) = pushed - rb.count + i
      <3>1. PICK k \in 0 .. rb.count - 1 : k = i - 1
        BY <2>1
      <3>2. fc_ring_buffer_get(rb, k) = pushed - rb.count + 1 + k
        BY <1>2, <2>1, ElementRead
      <3> QED
        BY <2>1, <3>1, <3>2
    <2> QED
      BY <2>3, <2>4, <2>5 DEF RingHoldsNewest, fc_ring_buffer_get_all
  <1>3. RingInv => RingHoldsNewest
    BY <1>1, <1>2 DEF RingInv
  <1> QED
    BY <1>3, RingInvariance, PTL

----------------------------------------------------------------------------
(* GenericRingBuffer implements RingBuffer.                                 *)

Memory(c, size) == [0 .. c * size - 1 -> Nat \X Nat]

\* The memory holds the elements e, each in its own bytes.
Encodes(mem, c, size, e) ==
    \A slot \in 0 .. c - 1, b \in 0 .. size - 1 : mem[slot * size + b] = <<e[slot], b>>

Buffers(c, size) == [capacity : {c}, element_size : {size}, head : 0 .. c - 1, count : 0 .. c]

\* The memory of a buffer always holds whole elements.
GenericInv ==
    /\ lastPushed \in Nat
    /\ \/ generic = NoGeneric /\ bytes = <<>>
       \/ \E c \in Capacities, size \in ElementSizes : \E e \in [0 .. c - 1 -> Nat] :
             generic \in Buffers(c, size) /\ bytes \in Memory(c, size) /\ Encodes(bytes, c, size, e)

\* The typed ring that the buffer g with the memory mem stands for.
DecodedIn(g, mem, slot) ==
    LET element == CopyOut(g, mem, slot)
    IN  IF element = Element(element[0][1], g.element_size) THEN element[0][1] ELSE -1

Abstract(g, mem) ==
    [data |-> IF g.capacity = 0 THEN <<>> ELSE [i \in 0 .. g.capacity - 1 |-> DecodedIn(g, mem, i)],
     capacity |-> g.capacity, head |-> g.head, count |-> g.count]

LEMMA GenericConstants ==
    \A size \in ElementSizes : size \in Nat \ {0}
  BY GenericAssumption

\* The bytes of a slot lie in the memory.
LEMMA InMemory ==
    ASSUME NEW c \in Nat \ {0}, NEW size \in Nat \ {0}, NEW slot \in 0 .. c - 1, NEW b \in 0 .. size - 1
    PROVE  slot * size + b \in 0 .. c * size - 1 /\ slot * size \in Nat
  <1>1. PICK d \in Nat : c = slot + 1 + d
    OBVIOUS
  <1>2. c * size = slot * size + size + d * size /\ slot * size \in Nat /\ d * size \in Nat
    BY <1>1
  <1> QED
    BY <1>2

LEMMA CopyType ==
    ASSUME NEW c \in Nat \ {0}, NEW size \in Nat \ {0}, NEW g, g.capacity = c, g.element_size = size,
           NEW mem \in Memory(c, size), NEW index \in Int, NEW v \in Nat
    PROVE  CopyIn(g, mem, index, Element(v, size)) \in Memory(c, size)
  <1> DEFINE after == CopyIn(g, mem, index, Element(v, size))
             off == ByteOffset(g, index)
  <1>1. after = [i \in 0 .. c * size - 1 |->
                    IF i - off \in 0 .. size - 1 THEN Element(v, size)[i - off] ELSE mem[i]]
    BY DEF CopyIn, Memory
  <1>2. \A b \in 0 .. size - 1 : Element(v, size)[b] \in Nat \X Nat
    BY DEF Element
  <1>3. \A i \in 0 .. c * size - 1 : mem[i] \in Nat \X Nat
    BY DEF Memory
  <1> HIDE DEF after, off
  <1>4. \A i \in 0 .. c * size - 1 :
           (IF i - off \in 0 .. size - 1 THEN Element(v, size)[i - off] ELSE mem[i]) \in Nat \X Nat
    BY <1>2, <1>3
  <1> QED
    BY <1>1, <1>4 DEF Memory, after

\* Copying an element in changes its slot and no other.
LEMMA CopiedIn ==
    ASSUME NEW c \in Nat \ {0}, NEW size \in Nat \ {0}, NEW g, g.capacity = c, g.element_size = size,
           NEW mem \in Memory(c, size), NEW e \in [0 .. c - 1 -> Nat], Encodes(mem, c, size, e),
           NEW index \in Int, NEW v \in Nat
    PROVE  Encodes(CopyIn(g, mem, index, Element(v, size)), c, size, [e EXCEPT ![index % c] = v])
  <1> DEFINE after == CopyIn(g, mem, index, Element(v, size))
  <1>1. PICK k \in 0 .. c - 1 : k = index % c
    <2>1. index % c \in 0 .. c - 1
      BY Remainder
    <2> QED
      BY <2>1
  <1>2. ByteOffset(g, index) = k * size
    BY <1>1 DEF ByteOffset
  <1>3. after = [i \in 0 .. c * size - 1 |->
                    IF i - k * size \in 0 .. size - 1 THEN <<v, i - k * size>> ELSE mem[i]]
    <2>1. DOMAIN mem = 0 .. c * size - 1
      BY DEF Memory
    <2>2. \A i : i - k * size \in 0 .. size - 1 =>
                    Element(v, size)[i - k * size] = <<v, i - k * size>>
      BY DEF Element
    <2> QED
      BY <1>2, <2>1, <2>2 DEF CopyIn
  <1> HIDE DEF after
  <1>5. ASSUME NEW slot \in 0 .. c - 1, NEW b \in 0 .. size - 1
        PROVE  after[slot * size + b] = <<[e EXCEPT ![k] = v][slot], b>>
    <2>1. PICK i \in 0 .. c * size - 1 : i = slot * size + b
      BY InMemory
    <2>2. PICK off \in Nat : off = k * size
      BY InMemory
    <2>3. after[i] = IF i - off \in 0 .. size - 1 THEN <<v, i - off>> ELSE mem[i]
      BY <1>3, <2>2
    <2>4. CASE slot = k
      <3>1. i - off = b
        BY <2>1, <2>2, <2>4
      <3> QED
        BY <2>1, <2>3, <2>4, <3>1
    <2>5. CASE slot # k
      <3>1. ~(i - off \in 0 .. size - 1)
        <4> SUFFICES ASSUME i - off \in 0 .. size - 1 PROVE FALSE
          OBVIOUS
        <4>1. PICK a \in 0 .. size - 1 : a = i - off
          OBVIOUS
        <4>2. size * slot + b = size * k + a
          BY <2>1, <2>2, <4>1
        <4>3. slot = k
          BY <4>2, OneRemainder
        <4> QED
          BY <2>5, <4>3
      <3>2. mem[i] = <<e[slot], b>>
        BY <2>1 DEF Encodes
      <3> QED
        BY <2>1, <2>3, <2>5, <3>1, <3>2
    <2> QED
      BY <2>4, <2>5
  <1>6. Encodes(after, c, size, [e EXCEPT ![index % c] = v])
    BY <1>1, <1>5 DEF Encodes
  <1> QED
    BY <1>6 DEF after

\* What the typed ring holds is what the bytes hold.
LEMMA AbstractRing ==
    ASSUME NEW c \in Capacities, NEW size \in ElementSizes, NEW e \in [0 .. c - 1 -> Nat],
           NEW g \in Buffers(c, size), NEW mem, Encodes(mem, c, size, e)
    PROVE  /\ Abstract(g, mem) = [data |-> e, capacity |-> c, head |-> g.head, count |-> g.count]
           /\ Abstract(g, mem) \in RingRecord(c)
           /\ \A index \in Int : DecodedIn(g, mem, index) = e[index % c]
  <1>1. c \in Nat \ {0} /\ size \in Nat \ {0} /\ g.capacity = c /\ g.element_size = size
    BY RingConstants, GenericConstants DEF Buffers
  <1>2. ASSUME NEW index \in Int PROVE DecodedIn(g, mem, index) = e[index % c]
    <2>1. PICK k \in 0 .. c - 1 : k = index % c
      <3>1. index % c \in 0 .. c - 1
        BY <1>1, Remainder
      <3> QED
        BY <3>1
    <2>2. \A b \in 0 .. size - 1 : mem[k * size + b] = <<e[k], b>>
      BY DEF Encodes
    <2>3. CopyOut(g, mem, index) = [b \in 0 .. size - 1 |-> mem[k * size + b]]
      BY <1>1, <2>1 DEF CopyOut, ByteOffset
    <2>4. CopyOut(g, mem, index) = Element(e[k], size)
      BY <2>2, <2>3 DEF Element
    <2>5. 0 \in 0 .. size - 1 /\ Element(e[k], size)[0] = <<e[k], 0>>
      BY <1>1 DEF Element
    <2> QED
      BY <1>1, <2>1, <2>4, <2>5 DEF DecodedIn
  <1>3. [i \in 0 .. c - 1 |-> DecodedIn(g, mem, i)] = e
    <2>1. ASSUME NEW i \in 0 .. c - 1 PROVE DecodedIn(g, mem, i) = e[i]
      <3>1. i % c = i
        BY <1>1, SmallRemainder
      <3>2. i \in Int
        OBVIOUS
      <3> QED
        BY <1>2, <3>1, <3>2
    <2> QED
      BY <2>1
  <1>4. Abstract(g, mem) = [data |-> e, capacity |-> c, head |-> g.head, count |-> g.count]
    BY <1>1, <1>3 DEF Abstract
  <1>5. Abstract(g, mem) \in RingRecord(c)
    BY <1>4 DEF RingRecord, Buffers
  <1> QED
    BY <1>2, <1>4, <1>5

CopiedBatch(g, mem, newest, n) ==
    FoldLeft(LAMBDA m, i : CopyIn(g, m, g.head + i - 1, Element(newest + i, g.element_size)),
             mem, [i \in 1 .. n |-> i])

\* What the memory is after each element of a batch is copied in.
CopiedEach(mems, g, c, size, mem, newest, n) ==
    /\ mems \in [0 .. n -> Memory(c, size)] /\ mems[0] = mem
    /\ \A i \in 0 .. n - 1 : mems[i + 1] = CopyIn(g, mems[i], g.head + i, Element(newest + i + 1, size))
    /\ mems[n] = CopiedBatch(g, mem, newest, n)

LEMMA CopyTable ==
    ASSUME NEW c \in Nat \ {0}, NEW size \in Nat \ {0}, NEW g, g.capacity = c, g.element_size = size,
           g.head \in Nat, NEW mem \in Memory(c, size), NEW newest \in Nat, NEW n \in Nat
    PROVE  \E mems : CopiedEach(mems, g, c, size, mem, newest, n)
  <1> DEFINE V == Memory(c, size)
             Copy(m, i) == CopyIn(g, m, g.head + i - 1, Element(newest + i, g.element_size))
             step == [p \in V \X (1 .. n) |-> Copy(p[1], p[2])]
             order == [i \in 1 .. n |-> i]
             Copies(h) == h = [s \in SUBSET (1 .. n) |->
                                 IF s = {} THEN mem ELSE Copy(h[s \ {Max(s)}], order[Max(s)])]
             h == CHOOSE h : Copies(h)
  <1>1. ASSUME NEW m \in V, NEW i \in 1 .. n PROVE Copy(m, i) \in V
    <2>1. g.head + i - 1 \in Int /\ newest + i \in Nat
      OBVIOUS
    <2> QED
      BY <2>1, CopyType
  <1> HIDE DEF V, Copy
  <1>2. step \in [V \X (1 .. n) -> V]
    BY <1>1
  <1> HIDE DEF step
  <1>3. \E t : Copies(t)
    <2>0. mem \in V
      BY DEF V
    <2>1. PICK t \in [SUBSET (1 .. n) -> V] : Tabulates(t, n, mem, step)
      BY <1>2, <2>0, TableExists
    <2>2. \A s \in SUBSET (1 .. n) : s # {} => Max(s) \in s
      BY <1>2, <2>0, TableExists
    <2>3. ASSUME NEW s \in SUBSET (1 .. n), s # {}
          PROVE  step[<<t[s \ {Max(s)}], Max(s)>>] = Copy(t[s \ {Max(s)}], order[Max(s)])
      <3>1. <<t[s \ {Max(s)}], Max(s)>> \in V \X (1 .. n) /\ order[Max(s)] = Max(s)
        BY <2>2, <2>3
      <3> QED
        BY <3>1 DEF step
    <2>4. t = [s \in SUBSET (1 .. n) |-> t[s]]
      OBVIOUS
    <2>5. \A s \in SUBSET (1 .. n) :
             t[s] = IF s = {} THEN mem ELSE Copy(t[s \ {Max(s)}], order[Max(s)])
      BY <2>1, <2>3 DEF Tabulates
    <2> HIDE DEF order
    <2> QED
      BY <2>4, <2>5
  <1>4. Copies(h)
    BY <1>3
  <1>5. CopiedBatch(g, mem, newest, n) = h[1 .. n]
    <2>1. DOMAIN order = 1 .. n
      OBVIOUS
    <2>2. order = [i \in 1 .. n |-> i]
      OBVIOUS
    <2> HIDE DEF order
    <2>3. FoldLeft(LAMBDA m, i : CopyIn(g, m, g.head + i - 1, Element(newest + i, g.element_size)), mem, order)
             = h[1 .. n]
      BY <2>1 DEF FoldLeft, MapThenFoldSet, Copy
    <2> QED
      BY <2>2, <2>3 DEF CopiedBatch
  <1> HIDE DEF h
  <1> DEFINE t == [i \in 0 .. n |-> h[1 .. i]]
  <1>6. t[0] = mem /\ 0 \in 0 .. n
    <2>1. 1 .. 0 = {} /\ {} \in SUBSET (1 .. n)
      OBVIOUS
    <2>2. h[1 .. 0] = mem
      BY <1>4, <2>1
    <2> QED
      BY <2>2
  <1>7. ASSUME NEW i \in 0 .. n - 1
        PROVE  t[i + 1] = Copy(t[i], i + 1)
    <2>1. /\ 1 .. i + 1 \in SUBSET (1 .. n) /\ 1 .. i + 1 # {}
          /\ Max(1 .. i + 1) = i + 1 /\ (1 .. i + 1) \ {i + 1} = 1 .. i
      BY TableBySteps
    <2>2. \A s \in SUBSET (1 .. n) : s # {} => h[s] = Copy(h[s \ {Max(s)}], order[Max(s)])
      BY <1>4
    <2>3. order[i + 1] = i + 1 /\ i \in 0 .. n /\ i + 1 \in 0 .. n
      OBVIOUS
    <2> QED
      BY <2>1, <2>2, <2>3
  <1> DEFINE S == {i \in Nat : i <= n => t[i] \in V}
  <1> HIDE DEF t
  <1>8. \A i \in S : i + 1 \in S
    <2> SUFFICES ASSUME NEW i \in S, i + 1 <= n PROVE t[i + 1] \in V
      OBVIOUS
    <2>1. i \in 0 .. n - 1 /\ i + 1 \in 1 .. n /\ t[i] \in V
      OBVIOUS
    <2> QED
      BY <1>1, <1>7, <2>1
  <1>9. S = Nat
    <2>1. 0 \in S
      BY <1>6 DEF V
    <2> QED
      BY <1>8, <2>1, BySteps
  <1>10. t \in [0 .. n -> Memory(c, size)]
    <2>1. \A i \in 0 .. n : t[i] \in V
      BY <1>9
    <2> QED
      BY <2>1 DEF t, V
  <1>11. t[n] = CopiedBatch(g, mem, newest, n)
    <2>1. t[n] = h[1 .. n]
      BY DEF t
    <2> QED
      BY <1>5, <2>1
  <1>12. ASSUME NEW i \in 0 .. n - 1
         PROVE  t[i + 1] = CopyIn(g, t[i], g.head + i, Element(newest + i + 1, size))
    <2>1. g.head + (i + 1) - 1 = g.head + i /\ newest + (i + 1) = newest + i + 1
      OBVIOUS
    <2> QED
      BY <1>7, <2>1 DEF Copy
  <1>13. t[0] = mem
    BY <1>6
  <1> QED
    BY <1>10, <1>11, <1>12, <1>13 DEF CopiedEach

\* A batch of copies does to the memory what the batch of pushes does to the typed ring.
LEMMA BatchCopied ==
    ASSUME NEW c \in Capacities, NEW size \in Nat \ {0}, NEW g, g.capacity = c, g.element_size = size,
           NEW r \in RingRecord(c), r.head = g.head, r.count = g.count,
           NEW mem \in Memory(c, size), Encodes(mem, c, size, r.data),
           NEW newest \in Nat, NEW n \in Nat,
           NEW rings, AfterEach(rings, c, r, newest, n),
           NEW mems, CopiedEach(mems, g, c, size, mem, newest, n)
    PROVE  /\ rings[n] \in RingRecord(c) /\ mems[n] \in Memory(c, size)
           /\ Encodes(mems[n], c, size, rings[n].data)
           /\ rings[n].head = (g.head + n) % c
           /\ rings[n].count = IF g.count + n < c THEN g.count + n ELSE c
  <1>1. /\ rings \in [0 .. n -> RingRecord(c)] /\ rings[0] = r
        /\ \A i \in 0 .. n - 1 : rings[i + 1] = fc_ring_buffer_push(rings[i], newest + i + 1)
    BY DEF AfterEach
  <1>2. /\ mems \in [0 .. n -> Memory(c, size)] /\ mems[0] = mem
        /\ \A i \in 0 .. n - 1 : mems[i + 1] = CopyIn(g, mems[i], g.head + i, Element(newest + i + 1, size))
    BY DEF CopiedEach
  <1>3. c \in Nat \ {0} /\ g.head \in 0 .. c - 1 /\ g.count \in 0 .. c
    BY RingConstants DEF RingRecord
  <1> DEFINE Done(i) == /\ Encodes(mems[i], c, size, rings[i].data)
                        /\ rings[i].head = (g.head + i) % c
                        /\ rings[i].count = IF g.count + i < c THEN g.count + i ELSE c
             S == {i \in Nat : i <= n => Done(i)}
  <1>4. 0 \in S
    <2>1. (g.head + 0) % c = g.head
      <3>1. PICK k \in 0 .. c - 1 : k = g.head
        BY <1>3
      <3>2. k % c = k
        BY <1>3, SmallRemainder
      <3>3. k + 0 = k
        OBVIOUS
      <3> QED
        BY <3>1, <3>2, <3>3
    <2>2. g.count = IF g.count + 0 < c THEN g.count + 0 ELSE c
      BY <1>3
    <2> QED
      BY <1>1, <1>2, <2>1, <2>2
  <1> HIDE DEF Done
  <1>5. ASSUME NEW i \in S PROVE i + 1 \in S
    <2> SUFFICES ASSUME i + 1 <= n PROVE Done(i + 1)
      OBVIOUS
    <2>1. i \in Nat /\ i \in 0 .. n - 1 /\ i \in 0 .. n /\ Done(i)
      OBVIOUS
    <2>2. PICK before \in RingRecord(c) : before = rings[i]
      BY <1>1, <2>1
    <2>3. PICK old \in Memory(c, size) : old = mems[i]
      BY <1>2, <2>1
    <2>4. PICK v \in Nat, place \in Nat : v = newest + i + 1 /\ place = g.head + i
      <3>1. PICK k \in Nat : k = g.head
        BY <1>3
      <3>2. newest + i + 1 \in Nat /\ k + i \in Nat
        BY <2>1
      <3> QED
        BY <3>1, <3>2
    <2>5. /\ Encodes(old, c, size, before.data) /\ before.head = place % c
          /\ before.count = IF g.count + i < c THEN g.count + i ELSE c
      BY <2>1, <2>2, <2>3, <2>4 DEF Done
    <2>6. rings[i + 1] = fc_ring_buffer_push(before, v) /\ mems[i + 1] = CopyIn(g, old, place, Element(v, size))
      BY <1>1, <1>2, <2>1, <2>2, <2>3, <2>4
    <2>7. before.data \in [0 .. c - 1 -> Nat]
      BY DEF RingRecord
    <2>8. Encodes(mems[i + 1], c, size, [before.data EXCEPT ![place % c] = v])
      <3>1. PICK index \in Int, e \in [0 .. c - 1 -> Nat] : index = place /\ e = before.data
        BY <2>7
      <3>2. Encodes(old, c, size, e)
        BY <2>5, <3>1
      <3>3. Encodes(CopyIn(g, old, index, Element(v, size)), c, size, [e EXCEPT ![index % c] = v])
        BY <1>3, <3>2, CopiedIn
      <3> QED
        BY <2>6, <3>1, <3>3
    <2>9. /\ fc_ring_buffer_push(before, v).count = IF before.count < c THEN before.count + 1 ELSE c
          /\ fc_ring_buffer_push(before, v).head = (before.head + 1) % c
          /\ fc_ring_buffer_push(before, v).data = [before.data EXCEPT ![before.head] = v]
      BY OnePush
    <2>10. Encodes(mems[i + 1], c, size, rings[i + 1].data)
      BY <2>5, <2>6, <2>8, <2>9
    <2>11. rings[i + 1].head = (g.head + (i + 1)) % c
      <3>1. ((place % c) + 1) % c = (place + 1) % c
        <4>1. PICK k \in Int, one \in Int : k = place /\ one = 1
          OBVIOUS
        <4>2. ((k % c) + one) % c = (k + one) % c
          BY <1>3, RemainderOfSum
        <4> QED
          BY <4>1, <4>2
      <3>2. place + 1 = g.head + (i + 1)
        BY <1>3, <2>1, <2>4
      <3> QED
        BY <2>5, <2>6, <2>9, <3>1, <3>2
    <2>12. rings[i + 1].count = IF g.count + (i + 1) < c THEN g.count + (i + 1) ELSE c
      <3>1. PICK k \in Nat : k = g.count
        BY <1>3
      <3>2. PICK l : l = before.count
        OBVIOUS
      <3>3. l = IF k + i < c THEN k + i ELSE c
        BY <2>5, <3>1, <3>2
      <3>4. (IF l < c THEN l + 1 ELSE c) = IF k + (i + 1) < c THEN k + (i + 1) ELSE c
        BY <1>3, <2>1, <3>3
      <3> QED
        BY <2>6, <2>9, <3>1, <3>2, <3>4
    <2> QED
      BY <2>10, <2>11, <2>12 DEF Done
  <1>6. S = Nat
    BY <1>4, <1>5, BySteps
  <1>7. Done(n)
    BY <1>6
  <1>8. n \in 0 .. n
    OBVIOUS
  <1> QED
    BY <1>1, <1>2, <1>7, <1>8 DEF Done

\* The operators of the typed ring do not read its state.
LEMMA TypedOperators ==
    /\ \A r, value : Typed!fc_ring_buffer_push(r, value) = fc_ring_buffer_push(r, value)
    /\ \A r, values : Typed!fc_ring_buffer_push_batch(r, values) = fc_ring_buffer_push_batch(r, values)
    /\ \A r, i : Typed!fc_ring_buffer_get(r, i) = fc_ring_buffer_get(r, i)
    /\ \A r, n : Typed!fc_ring_buffer_pop_batch(r, n) = fc_ring_buffer_pop_batch(r, n)
    /\ \A r : Typed!fc_ring_buffer_clear(r) = fc_ring_buffer_clear(r)
    /\ \A n : Typed!fc_ring_buffer_create(n) = fc_ring_buffer_create(n)
    /\ Typed!NoRing = NoRing
  <1>1. \A S : Typed!Min(S) = Min(S)
    BY DEF Typed!Min, Min
  <1>2. \A r, value : Typed!fc_ring_buffer_push(r, value) = fc_ring_buffer_push(r, value)
    BY <1>1 DEF Typed!fc_ring_buffer_push, fc_ring_buffer_push, Typed!Index, Index, Typed!Unsigned, Unsigned
  <1>3. \A r, values : Typed!fc_ring_buffer_push_batch(r, values) = fc_ring_buffer_push_batch(r, values)
    BY DEF Typed!fc_ring_buffer_push_batch, fc_ring_buffer_push_batch, Typed!FoldLeft, FoldLeft,
           Typed!MapThenFoldSet, MapThenFoldSet, Typed!fc_ring_buffer_push, fc_ring_buffer_push,
           Typed!Index, Index, Typed!Unsigned, Unsigned, Typed!Min, Min, Typed!Max, Max
  <1>4. \A r, i : Typed!fc_ring_buffer_get(r, i) = fc_ring_buffer_get(r, i)
    BY DEF Typed!fc_ring_buffer_get, fc_ring_buffer_get, Typed!Index, Index, Typed!Unsigned, Unsigned
  <1>5. \A r, n : Typed!fc_ring_buffer_pop_batch(r, n) = fc_ring_buffer_pop_batch(r, n)
    BY <1>1 DEF Typed!fc_ring_buffer_pop_batch, fc_ring_buffer_pop_batch
  <1>6. \A r : Typed!fc_ring_buffer_clear(r) = fc_ring_buffer_clear(r)
    BY DEF Typed!fc_ring_buffer_clear, fc_ring_buffer_clear
  <1>7. Typed!NoRing = NoRing
    BY DEF Typed!NoRing, NoRing
  <1>8. \A n : Typed!fc_ring_buffer_create(n) = fc_ring_buffer_create(n)
    BY <1>1, <1>7 DEF Typed!fc_ring_buffer_create, fc_ring_buffer_create, Typed!FC_ROUND_UP_TO_POW2,
                      FC_ROUND_UP_TO_POW2, Typed!Unsigned, Unsigned
  <1> QED
    BY <1>2, <1>3, <1>4, <1>5, <1>6, <1>7, <1>8

\* What a step of the typed ring is, of the ring the generic one stands for.
TypedStep(before, after) ==
    \/ /\ before.capacity = 0 /\ \E n \in RingSizes : after = fc_ring_buffer_create(n)
       /\ UNCHANGED <<lastPushed, lastGone>>
    \/ /\ before.capacity > 0 /\ after = NoRing /\ lastGone' = lastPushed /\ UNCHANGED lastPushed
    \/ /\ before.capacity > 0
       /\ \E n \in 1 .. MaxBatch :
             /\ lastPushed + n <= MaxPushed
             /\ after = fc_ring_buffer_push_batch(before, [i \in 1 .. n |-> lastPushed + i])
             /\ lastPushed' = lastPushed + n
       /\ UNCHANGED lastGone
    \/ /\ before.count > 0
       /\ \E n \in 1 .. MaxBatch :
             /\ lastGone' = Max({lastGone} \cup
                                {fc_ring_buffer_get(before, i) : i \in 0 .. Min({n, before.count}) - 1})
             /\ after = fc_ring_buffer_pop_batch(before, n)
       /\ UNCHANGED lastPushed
    \/ /\ before.capacity > 0 /\ after = fc_ring_buffer_clear(before) /\ lastGone' = lastPushed
       /\ UNCHANGED lastPushed

LEMMA TypedSteps == TypedStep(Abstract(generic, bytes), Abstract(generic', bytes')) => Typed!RingNext
  <1>1. \A S : Typed!Min(S) = Min(S)
    BY DEF Typed!Min, Min
  <1>2. \A S : Typed!Max(S) = Max(S)
    BY DEF Typed!Max, Max
  <1> QED
    BY <1>1, <1>2, TypedOperators DEF TypedStep, Abstract, DecodedIn, Decoded,
       Typed!RingNext, Typed!RingCreate, Typed!RingDestroy, Typed!RingPush, Typed!RingPop, Typed!RingClear

LEMMA NoBuffer == Abstract(NoGeneric, <<>>) = NoRing
  BY DEF Abstract, NoGeneric, NoRing

\* A buffer of this size, with these elements in its memory.
Stores(g, mem, c, size, e) == g \in Buffers(c, size) /\ mem \in Memory(c, size) /\ Encodes(mem, c, size, e)

LEMMA SameRing ==
    ASSUME NEW c, NEW r \in RingRecord(c), NEW s \in RingRecord(c),
           r.data = s.data, r.head = s.head, r.count = s.count
    PROVE  r = s
  BY DEF RingRecord

\* A buffer is a record, with a head and a count that numbers are.
LEMMA BufferType ==
    ASSUME NEW c \in Capacities, NEW size \in ElementSizes, NEW g \in Buffers(c, size)
    PROVE  /\ c \in Nat \ {0} /\ size \in Nat \ {0} /\ g.capacity = c /\ g.element_size = size
           /\ g.head \in 0 .. c - 1 /\ g.head \in Nat /\ g.count \in 0 .. c /\ g.count \in Nat
  <1>1. c \in Nat \ {0} /\ size \in Nat \ {0}
    BY RingConstants, GenericConstants
  <1>2. g.capacity = c /\ g.element_size = size /\ g.head \in 0 .. c - 1 /\ g.count \in 0 .. c
    BY DEF Buffers
  <1>3. g.head \in Nat /\ g.count \in Nat
    BY <1>1, <1>2
  <1> QED
    BY <1>1, <1>2, <1>3

\* A fresh memory stands for a fresh ring.
LEMMA FreshMemory ==
    ASSUME NEW c \in Capacities, NEW size \in ElementSizes,
           NEW g, g = [capacity |-> c, element_size |-> size, head |-> 0, count |-> 0],
           NEW mem, mem = [i \in 0 .. c * size - 1 |-> <<0, i % size>>]
    PROVE  /\ Stores(g, mem, c, size, [i \in 0 .. c - 1 |-> 0])
           /\ Abstract(g, mem) = [data |-> [i \in 0 .. c - 1 |-> 0], capacity |-> c, head |-> 0, count |-> 0]
  <1> DEFINE e == [i \in 0 .. c - 1 |-> 0]
  <1>1. c \in Nat \ {0} /\ size \in Nat \ {0}
    BY RingConstants, GenericConstants
  <1>2. g \in Buffers(c, size) /\ g.head = 0 /\ g.count = 0 /\ e \in [0 .. c - 1 -> Nat]
    BY <1>1 DEF Buffers
  <1>3. mem \in Memory(c, size)
    <2>1. \A i \in 0 .. c * size - 1 : <<0, i % size>> \in Nat \X Nat
      <3> SUFFICES ASSUME NEW i \in 0 .. c * size - 1 PROVE i % size \in Nat
        OBVIOUS
      <3>1. PICK k \in Int : k = i
        BY <1>1
      <3>2. k % size \in 0 .. size - 1
        BY <1>1, Remainder
      <3> QED
        BY <3>1, <3>2
    <2> QED
      BY <2>1 DEF Memory
  <1>4. ASSUME NEW slot \in 0 .. c - 1, NEW b \in 0 .. size - 1
        PROVE  mem[slot * size + b] = <<e[slot], b>>
    <2>1. PICK i \in 0 .. c * size - 1 : i = slot * size + b
      BY <1>1, InMemory
    <2>2. (slot * size + b) % size = b
      <3>1. slot \in Int
        OBVIOUS
      <3> QED
        BY <1>1, <3>1, RemainderOfSlot
    <2> QED
      BY <2>1, <2>2
  <1>5. Encodes(mem, c, size, e)
    BY <1>4 DEF Encodes
  <1>6. Abstract(g, mem) = [data |-> e, capacity |-> c, head |-> g.head, count |-> g.count]
    BY <1>2, <1>5, AbstractRing
  <1> QED
    BY <1>2, <1>3, <1>5, <1>6 DEF Stores

\* One step of the generic buffer is one step of the typed ring.
StepRefines ==
    /\ GenericInv'
    /\ TypedStep(Abstract(generic, bytes), Abstract(generic', bytes'))

LEMMA GenericCreate == GenericInv /\ fc_generic_ring_buffer_create => StepRefines
  <1> SUFFICES ASSUME GenericInv, fc_generic_ring_buffer_create PROVE StepRefines
    OBVIOUS
  <1>1. generic = NoGeneric /\ bytes = <<>> /\ lastPushed' = lastPushed /\ lastGone' = lastGone
    <2>1. \A c \in Capacities : c # 0
      BY RingConstants
    <2> QED
      BY <2>1 DEF GenericInv, Buffers, fc_generic_ring_buffer_create
  <1>2. Abstract(generic, bytes) = NoRing /\ NoRing.capacity = 0
    BY <1>1, NoBuffer DEF NoRing
  <1>3. PICK n \in RingSizes, size \in ElementSizes :
           IF FC_ROUND_UP_TO_POW2(n) = 0 THEN UNCHANGED <<generic, bytes>>
           ELSE /\ generic' = [capacity |-> FC_ROUND_UP_TO_POW2(n), element_size |-> size,
                               head |-> 0, count |-> 0]
                /\ bytes' = [i \in 0 .. FC_ROUND_UP_TO_POW2(n) * size - 1 |-> <<0, i % size>>]
    BY DEF fc_generic_ring_buffer_create
  <1>4. CASE FC_ROUND_UP_TO_POW2(n) = 0
    <2>1. generic' = generic /\ bytes' = bytes
      BY <1>3, <1>4
    <2>2. fc_ring_buffer_create(n) = NoRing
      BY <1>4 DEF fc_ring_buffer_create
    <2>3. GenericInv'
      BY <1>1, <2>1 DEF GenericInv
    <2> QED
      BY <1>1, <1>2, <2>1, <2>2, <2>3 DEF StepRefines, TypedStep
  <1>5. CASE FC_ROUND_UP_TO_POW2(n) # 0
    <2>1. PICK c \in Capacities : c = FC_ROUND_UP_TO_POW2(n)
      <3>1. n \in Int
        <4>1. RingSizes \subseteq 0 .. 2 ^ SizeBits - 1 /\ 2 ^ SizeBits \in Nat \ {0}
          BY RingAssumption, RingConstants
        <4> QED
          BY <4>1
      <3>2. FC_ROUND_UP_TO_POW2(n) \in {0} \cup Capacities
        BY <3>1, RoundedToPower
      <3> QED
        BY <1>5, <3>2
    <2>2. /\ generic' = [capacity |-> c, element_size |-> size, head |-> 0, count |-> 0]
          /\ bytes' = [i \in 0 .. c * size - 1 |-> <<0, i % size>>]
      BY <1>3, <1>5, <2>1
    <2>3. /\ Stores(generic', bytes', c, size, [i \in 0 .. c - 1 |-> 0])
          /\ Abstract(generic', bytes')
               = [data |-> [i \in 0 .. c - 1 |-> 0], capacity |-> c, head |-> 0, count |-> 0]
      BY <2>2, FreshMemory
    <2>4. fc_ring_buffer_create(n) = Abstract(generic', bytes')
      BY <1>5, <2>1, <2>3 DEF fc_ring_buffer_create
    <2>5. GenericInv'
      <3>1. [i \in 0 .. c - 1 |-> 0] \in [0 .. c - 1 -> Nat]
        OBVIOUS
      <3> QED
        BY <1>1, <2>3, <3>1 DEF GenericInv, Stores
    <2> QED
      BY <1>1, <1>2, <2>4, <2>5 DEF StepRefines, TypedStep
  <1> QED
    BY <1>4, <1>5

\* A buffer that exists stands for a ring of its capacity.
LEMMA BufferStands ==
    ASSUME GenericInv, generic.capacity > 0
    PROVE  \E c \in Capacities, size \in ElementSizes : \E e \in [0 .. c - 1 -> Nat] :
              Stores(generic, bytes, c, size, e)
  BY DEF GenericInv, Stores, NoGeneric

LEMMA GenericDestroy == GenericInv /\ fc_generic_ring_buffer_destroy => StepRefines
  <1> SUFFICES ASSUME GenericInv, fc_generic_ring_buffer_destroy PROVE StepRefines
    OBVIOUS
  <1>1. /\ generic.capacity > 0 /\ generic' = NoGeneric /\ bytes' = <<>>
        /\ lastGone' = lastPushed /\ lastPushed' = lastPushed
    BY DEF fc_generic_ring_buffer_destroy
  <1>2. Abstract(generic', bytes') = NoRing /\ Abstract(generic, bytes).capacity = generic.capacity
    BY <1>1, NoBuffer DEF Abstract
  <1>3. GenericInv'
    BY <1>1 DEF GenericInv
  <1> QED
    BY <1>1, <1>2, <1>3 DEF StepRefines, TypedStep

LEMMA GenericClear == GenericInv /\ fc_generic_ring_buffer_clear => StepRefines
  <1> SUFFICES ASSUME GenericInv, fc_generic_ring_buffer_clear PROVE StepRefines
    OBVIOUS
  <1>1. /\ generic.capacity > 0 /\ generic' = [generic EXCEPT !.head = 0, !.count = 0] /\ bytes' = bytes
        /\ lastGone' = lastPushed /\ lastPushed' = lastPushed
    BY DEF fc_generic_ring_buffer_clear
  <1>2. PICK c \in Capacities, size \in ElementSizes : \E e \in [0 .. c - 1 -> Nat] :
           Stores(generic, bytes, c, size, e)
    BY <1>1, BufferStands
  <1>3. PICK e \in [0 .. c - 1 -> Nat] : Stores(generic, bytes, c, size, e)
    BY <1>2
  <1>4. c \in Nat \ {0}
    BY RingConstants
  <1>5. generic' \in Buffers(c, size) /\ generic'.head = 0 /\ generic'.count = 0
    <2>1. PICK g \in Buffers(c, size) : g = generic
      BY <1>3 DEF Stores
    <2>2. PICK h : h = [g EXCEPT !.head = 0, !.count = 0]
      OBVIOUS
    <2>3. h \in Buffers(c, size) /\ h.head = 0 /\ h.count = 0
      <3>1. 0 \in 0 .. c - 1 /\ 0 \in 0 .. c
        BY <1>4
      <3> QED
        BY <2>2, <3>1 DEF Buffers
    <2>4. generic' = h
      BY <1>1, <2>1, <2>2
    <2> QED
      BY <2>3, <2>4
  <1>6. Stores(generic', bytes', c, size, e)
    BY <1>1, <1>3, <1>5 DEF Stores
  <1>7. Abstract(generic, bytes) = [data |-> e, capacity |-> c, head |-> generic.head, count |-> generic.count]
    BY <1>3, AbstractRing DEF Stores
  <1>8. Abstract(generic', bytes')
          = [data |-> e, capacity |-> c, head |-> generic'.head, count |-> generic'.count]
    BY <1>6, AbstractRing DEF Stores
  <1>9. GenericInv'
    BY <1>1, <1>6 DEF GenericInv, Stores
  <1>10. Abstract(generic', bytes') = fc_ring_buffer_clear(Abstract(generic, bytes))
    <2>1. PICK r \in RingRecord(c), s \in RingRecord(c) :
             r = Abstract(generic, bytes) /\ s = Abstract(generic', bytes')
      BY <1>3, <1>6, AbstractRing DEF Stores
    <2>2. r.data = e /\ s.data = e /\ s.head = 0 /\ s.count = 0
      BY <1>5, <1>7, <1>8, <2>1
    <2>3. PICK t : t = [r EXCEPT !.head = 0, !.count = 0]
      OBVIOUS
    <2>4. t \in RingRecord(c) /\ t.data = e /\ t.head = 0 /\ t.count = 0
      <3>1. 0 \in 0 .. c - 1 /\ 0 \in 0 .. c
        BY <1>4
      <3> QED
        BY <2>2, <2>3, <3>1 DEF RingRecord
    <2>5. s = t
      BY <2>2, <2>4, SameRing
    <2> QED
      BY <2>1, <2>3, <2>5 DEF fc_ring_buffer_clear
  <1> QED
    BY <1>1, <1>4, <1>7, <1>9, <1>10 DEF StepRefines, TypedStep

StoresBatch(after, later, c, size, g, mem, newest, n) ==
    /\ \E f \in [0 .. c - 1 -> Nat] : Stores(after, later, c, size, f)
    /\ Abstract(after, later) = fc_ring_buffer_push_batch(Abstract(g, mem), [i \in 1 .. n |-> newest + i])

\* A batch is pushed in the memory as it is in the typed ring.
LEMMA BatchStored ==
    ASSUME NEW c \in Capacities, NEW size \in ElementSizes, NEW e \in [0 .. c - 1 -> Nat],
           NEW g, NEW mem, Stores(g, mem, c, size, e), NEW newest \in Nat, NEW n \in Nat,
           NEW after, after = [g EXCEPT !.head = (@ + n) % g.capacity, !.count = Min({@ + n, g.capacity})],
           NEW later,
           later = CopiedBatch(g, mem, newest, n)
    PROVE  StoresBatch(after, later, c, size, g, mem, newest, n)
  <1>1. /\ c \in Nat \ {0} /\ size \in Nat \ {0} /\ g \in Buffers(c, size) /\ mem \in Memory(c, size)
        /\ g.capacity = c /\ g.element_size = size /\ g.head \in Nat /\ g.count \in 0 .. c
        /\ Encodes(mem, c, size, e)
    BY BufferType DEF Stores
  <1>2. PICK r \in RingRecord(c) :
           r = Abstract(g, mem) /\ r = [data |-> e, capacity |-> c, head |-> g.head, count |-> g.count]
    BY <1>1, AbstractRing
  <1>3. r.head = g.head /\ r.count = g.count /\ Encodes(mem, c, size, r.data)
    BY <1>1, <1>2
  <1>4. PICK rings : AfterEach(rings, c, r, newest, n)
    BY PushTable
  <1>5. PICK mems : CopiedEach(mems, g, c, size, mem, newest, n)
    BY <1>1, CopyTable
  <1>6. /\ rings[n] \in RingRecord(c) /\ mems[n] \in Memory(c, size)
        /\ Encodes(mems[n], c, size, rings[n].data)
        /\ rings[n].head = (g.head + n) % c
        /\ rings[n].count = IF g.count + n < c THEN g.count + n ELSE c
    <2>1. /\ rings[n] \in RingRecord(c) /\ mems[n] \in Memory(c, size)
          /\ Encodes(mems[n], c, size, rings[n].data)
      BY <1>1, <1>3, <1>4, <1>5, BatchCopied
    <2>2. /\ rings[n].head = (g.head + n) % c
          /\ rings[n].count = IF g.count + n < c THEN g.count + n ELSE c
      BY <1>1, <1>3, <1>4, <1>5, BatchCopied
    <2> QED
      BY <2>1, <2>2
  <1>7. later = mems[n]
    BY <1>5 DEF CopiedEach
  <1>8. rings[n] = fc_ring_buffer_push_batch(r, [i \in 1 .. n |-> newest + i])
    BY <1>4 DEF AfterEach
  <1>9. PICK ring \in RingRecord(c) : ring = rings[n]
    BY <1>6
  <1>10. /\ ring.data \in [0 .. c - 1 -> Nat] /\ ring.head \in 0 .. c - 1 /\ ring.count \in 0 .. c
         /\ ring = [data |-> ring.data, capacity |-> c, head |-> ring.head, count |-> ring.count]
    BY DEF RingRecord
  <1>11. Min({g.count + n, c}) = ring.count
    <2>1. PICK k \in Int : k = g.count
      BY <1>1
    <2>2. Min({k + n, c}) = IF k + n <= c THEN k + n ELSE c
      BY <1>1, LeastOfTwo
    <2>3. ring.count = IF k + n < c THEN k + n ELSE c
      BY <1>6, <1>9, <2>1
    <2>4. (IF k + n <= c THEN k + n ELSE c) = IF k + n < c THEN k + n ELSE c
      BY <1>1
    <2> QED
      BY <2>1, <2>2, <2>3, <2>4
  <1>12. after = [g EXCEPT !.head = ring.head, !.count = ring.count]
    BY <1>1, <1>6, <1>9, <1>11
  <1>13. after \in Buffers(c, size) /\ after.head = ring.head /\ after.count = ring.count
    BY <1>1, <1>10, <1>12 DEF Buffers
  <1>14. Stores(after, later, c, size, ring.data)
    BY <1>6, <1>7, <1>9, <1>13 DEF Stores
  <1>15. Abstract(after, later) = [data |-> ring.data, capacity |-> c, head |-> after.head, count |-> after.count]
    <2>1. PICK data \in [0 .. c - 1 -> Nat] : data = ring.data
      BY <1>10
    <2>2. PICK x \in Buffers(c, size) : x = after
      BY <1>13
    <2>3. Encodes(later, c, size, data)
      BY <1>14, <2>1 DEF Stores
    <2>4. Abstract(x, later) = [data |-> data, capacity |-> c, head |-> x.head, count |-> x.count]
      BY <2>3, AbstractRing
    <2> QED
      BY <2>1, <2>2, <2>4
  <1>16. Abstract(after, later) = ring
    BY <1>10, <1>13, <1>15
  <1> QED
    BY <1>2, <1>8, <1>9, <1>10, <1>14, <1>16 DEF StoresBatch

LEMMA GenericPush ==
    ASSUME GenericInv, NEW n \in 1 .. MaxBatch, fc_generic_ring_buffer_push_batch(n)
    PROVE  StepRefines
  <1>1. /\ generic.capacity > 0 /\ lastPushed + n <= MaxPushed
        /\ bytes' = CopiedBatch(generic, bytes, lastPushed, n)
        /\ generic' = [generic EXCEPT !.head = (@ + n) % generic.capacity,
                                      !.count = Min({@ + n, generic.capacity})]
        /\ lastPushed' = lastPushed + n /\ lastGone' = lastGone
    BY DEF fc_generic_ring_buffer_push_batch, CopiedBatch
  <1>2. PICK c \in Capacities, size \in ElementSizes : \E e \in [0 .. c - 1 -> Nat] :
           Stores(generic, bytes, c, size, e)
    BY <1>1, BufferStands
  <1>3. PICK e \in [0 .. c - 1 -> Nat] : Stores(generic, bytes, c, size, e)
    BY <1>2
  <1>4. n \in Nat /\ lastPushed \in Nat
    <2>1. lastPushed \in Nat
      BY DEF GenericInv
    <2>2. MaxBatch \in Nat
      BY RingConstants
    <2> QED
      BY <2>1, <2>2
  <1>5. /\ \E f \in [0 .. c - 1 -> Nat] : Stores(generic', bytes', c, size, f)
        /\ Abstract(generic', bytes')
             = fc_ring_buffer_push_batch(Abstract(generic, bytes), [i \in 1 .. n |-> lastPushed + i])
    <2>0. PICK g, mem, after, later : g = generic /\ mem = bytes /\ after = generic' /\ later = bytes'
      OBVIOUS
    <2>1. PICK newest \in Nat, k \in Nat : newest = lastPushed /\ k = n
      BY <1>4
    <2>2. /\ after = [g EXCEPT !.head = (@ + k) % g.capacity, !.count = Min({@ + k, g.capacity})]
          /\ later = CopiedBatch(g, mem, newest, k)
      BY <1>1, <2>0, <2>1
    <2>3. StoresBatch(after, later, c, size, g, mem, newest, k)
      BY <1>3, <2>0, <2>2, BatchStored
    <2> QED
      BY <2>0, <2>1, <2>3 DEF StoresBatch
  <1>6. GenericInv'
    <2>1. lastPushed' \in Nat
      BY <1>1, <1>4
    <2> QED
      BY <1>5, <2>1 DEF GenericInv, Stores
  <1>7. Abstract(generic, bytes).capacity > 0
    BY <1>1 DEF Abstract
  <1> QED
    BY <1>1, <1>5, <1>6, <1>7 DEF StepRefines, TypedStep

\* Both read an element at the same place.
LEMMA SameRead ==
    ASSUME NEW c \in Capacities, NEW size \in ElementSizes, NEW e \in [0 .. c - 1 -> Nat],
           Stores(generic, bytes, c, size, e), NEW i \in Int
    PROVE  fc_generic_ring_buffer_get(i) = fc_ring_buffer_get(Abstract(generic, bytes), i)
  <1>1. PICK head \in Int, count \in Int :
           head = generic.head /\ count = generic.count /\ generic.capacity = c /\ c \in Nat \ {0}
    BY BufferType DEF Stores
  <1>2. /\ Abstract(generic, bytes) = [data |-> e, capacity |-> c, head |-> head, count |-> count]
        /\ \A index \in Int : DecodedIn(generic, bytes, index) = e[index % c]
    <2>1. PICK g \in Buffers(c, size) : \E mem : g = generic /\ mem = bytes /\ Encodes(mem, c, size, e)
      BY DEF Stores
    <2>2. PICK mem : g = generic /\ mem = bytes /\ Encodes(mem, c, size, e)
      BY <2>1
    <2>3. /\ Abstract(g, mem) = [data |-> e, capacity |-> c, head |-> g.head, count |-> g.count]
          /\ \A index \in Int : DecodedIn(g, mem, index) = e[index % c]
      BY <2>2, AbstractRing
    <2> QED
      BY <1>1, <2>2, <2>3
  <1>3. PICK far \in Int, near \in Int : far = head + c - count + i /\ near = head - count + i
    <2>1. head + c - count + i \in Int /\ head - count + i \in Int
      BY <1>1
    <2> QED
      BY <2>1
  <1>4. far % c = near % c
    <2>1. far = near + c
      <3>1. c \in Int
        BY <1>1
      <3> QED
        BY <1>3, <3>1
    <2>2. (near + c) % c = near % c
      BY <1>1, OnceAround
    <2> QED
      BY <2>1, <2>2
  <1>5. fc_generic_ring_buffer_get(i) = e[far % c]
    BY <1>1, <1>2, <1>3 DEF fc_generic_ring_buffer_get, Decoded, DecodedIn
  <1>6. PICK r : r = Abstract(generic, bytes) /\ r.capacity = c /\ r.head = head /\ r.count = count /\ r.data = e
    BY <1>2
  <1>7. Index(r, near) = near % c
    BY <1>6, MaskedIndex
  <1>8. fc_ring_buffer_get(r, i) = e[near % c]
    BY <1>3, <1>6, <1>7 DEF fc_ring_buffer_get
  <1> QED
    BY <1>4, <1>5, <1>6, <1>8

LEMMA GenericPop ==
    ASSUME GenericInv, NEW n \in 1 .. MaxBatch, fc_generic_ring_buffer_pop_batch(n)
    PROVE  StepRefines
  <1>1. /\ generic.count > 0 /\ bytes' = bytes /\ lastPushed' = lastPushed
        /\ lastGone' = Max({lastGone} \cup
                           {fc_generic_ring_buffer_get(i) : i \in 0 .. Min({n, generic.count}) - 1})
        /\ generic' = [generic EXCEPT !.count = @ - Min({n, @})]
    BY DEF fc_generic_ring_buffer_pop_batch
  <1>2. PICK c \in Capacities, size \in ElementSizes : \E e \in [0 .. c - 1 -> Nat] :
           Stores(generic, bytes, c, size, e)
    <2>1. generic # NoGeneric
      BY <1>1 DEF NoGeneric
    <2> QED
      BY <2>1 DEF GenericInv, Stores
  <1>3. PICK e \in [0 .. c - 1 -> Nat] : Stores(generic, bytes, c, size, e)
    BY <1>2
  <1>4. PICK g \in Buffers(c, size) : g = generic
    BY <1>3 DEF Stores
  <1> DEFINE least == Min({n, g.count})
  <1>5. c \in Nat \ {0} /\ g.count \in 0 .. c /\ n \in Nat /\ g.count - least \in 0 .. c /\ least \in Int
    <2>1. c \in Nat \ {0} /\ g.count \in 0 .. c /\ n \in Nat
      BY RingConstants DEF Buffers
    <2>2. PICK k \in Int : k = g.count
      BY <2>1
    <2>3. least = IF n <= k THEN n ELSE k
      BY <1>4, <2>1, <2>2, LeastOfTwo
    <2> QED
      BY <2>1, <2>2, <2>3
  <1>6. PICK after : after = [g EXCEPT !.count = @ - least]
    OBVIOUS
  <1>7. after \in Buffers(c, size) /\ after.head = g.head /\ after.count = g.count - least
    BY <1>5, <1>6 DEF Buffers
  <1>8. generic' = after
    BY <1>1, <1>4, <1>6
  <1>9. Stores(after, bytes, c, size, e)
    BY <1>3, <1>7 DEF Stores
  <1>10. Abstract(g, bytes) = [data |-> e, capacity |-> c, head |-> g.head, count |-> g.count]
    BY <1>3, <1>4, AbstractRing DEF Stores
  <1>11. Abstract(after, bytes) = [data |-> e, capacity |-> c, head |-> after.head, count |-> after.count]
    BY <1>9, AbstractRing DEF Stores
  <1>12. Abstract(after, bytes) = fc_ring_buffer_pop_batch(Abstract(g, bytes), n)
    BY <1>4, <1>7, <1>10, <1>11 DEF fc_ring_buffer_pop_batch
  <1>13. {fc_generic_ring_buffer_get(i) : i \in 0 .. least - 1}
           = {fc_ring_buffer_get(Abstract(g, bytes), i) : i \in 0 .. least - 1}
    <2>1. \A i \in 0 .. least - 1 :
             fc_generic_ring_buffer_get(i) = fc_ring_buffer_get(Abstract(generic, bytes), i)
      <3> SUFFICES ASSUME NEW i \in 0 .. least - 1
                   PROVE  fc_generic_ring_buffer_get(i) = fc_ring_buffer_get(Abstract(generic, bytes), i)
        OBVIOUS
      <3>1. i \in Int
        BY <1>5
      <3> QED
        BY <1>3, <3>1, SameRead
    <2> QED
      BY <1>4, <2>1
  <1>14. lastGone' = Max({lastGone} \cup {fc_ring_buffer_get(Abstract(g, bytes), i) : i \in 0 .. least - 1})
    BY <1>1, <1>4, <1>13
  <1>15. Abstract(g, bytes).count = g.count /\ g.count > 0
    BY <1>1, <1>4, <1>10
  <1>16. GenericInv'
    BY <1>1, <1>8, <1>9 DEF GenericInv, Stores
  <1>17. TypedStep(Abstract(g, bytes), Abstract(after, bytes))
    BY <1>1, <1>4, <1>12, <1>14, <1>15 DEF TypedStep
  <1> QED
    BY <1>1, <1>4, <1>8, <1>16, <1>17 DEF StepRefines

\* Whatever the element size, the buffer that copies bytes is the typed ring: after every
\* call its memory stands for what the doubles of the typed one would be.
THEOREM GenericRefines == GenericSpec => GenericImplementsRing
  <1>1. GenericInit => GenericInv /\ Typed!RingInit
    BY NoBuffer, TypedOperators DEF GenericInit, GenericInv, Typed!RingInit, Abstract, DecodedIn, Decoded
  <1>2. GenericInv /\ [GenericNext]_genericVars => GenericInv' /\ [Typed!RingNext]_(Typed!ringVars)
    <2> SUFFICES ASSUME GenericInv, [GenericNext]_genericVars
                 PROVE  GenericInv' /\ [Typed!RingNext]_(Typed!ringVars)
      OBVIOUS
    <2>1. CASE GenericNext
      <3>1. StepRefines
        BY <2>1, GenericCreate, GenericDestroy, GenericClear, GenericPush, GenericPop DEF GenericNext
      <3> QED
        BY <3>1, TypedSteps DEF StepRefines
    <2>2. CASE UNCHANGED genericVars
      BY <2>2 DEF genericVars, GenericInv, Typed!ringVars, Decoded
    <2> QED
      BY <2>1, <2>2
  <1> QED
    BY <1>1, <1>2, PTL DEF GenericSpec, GenericImplementsRing, Typed!RingSpec

=============================================================================
