--------------------------- MODULE RoaringBitmap ----------------------------
(***************************************************************************)
(* The compressed sets of roaring_bitmap.h.  A value is divided by Chunk   *)
(* (2^16): the quotient finds a container, and the container holds the     *)
(* remainders as a sorted array while there are fewer than ArrayLimit      *)
(* (4096), as bits from there on, or as runs.  No container is empty, and  *)
(* the number of elements is kept beside the containers.                   *)
(***************************************************************************)
EXTENDS Integers, Sequences, SequencesExt, FiniteSets, FiniteSetsExt, Functions

CONSTANTS
    Bitmap,      \* the bitmaps of the program
    Chunk,
    ChunkCount,
    ArrayLimit,
    Points,      \* the values, and the ends of ranges, callers use
    MaxSetOps    \* bound: the operations

ASSUME RoaringAssumption ==
    /\ Chunk \in Nat \ {0} /\ ChunkCount \in Nat \ {0} /\ ArrayLimit \in Nat
    /\ MaxSetOps \in Nat /\ Points \subseteq 0 .. Chunk * ChunkCount - 1

VARIABLES
    roaring,  \* fc_roaring_bitmap_t of each
    members,  \* (history) the set each should be
    setOps    \* (history) the operations so far

roaringVars == <<roaring, members, setOps>>

Values == 0 .. Chunk * ChunkCount - 1

High(v) == v \div Chunk
Low(v)  == v % Chunk

----------------------------------------------------------------------------
(* Containers.                                                              *)

Ascending(S) == [i \in 1 .. Cardinality(S) |-> CHOOSE x \in S : Cardinality({y \in S : y < x}) = i - 1]

ArrayOf(lows) == [kind |-> "array", array |-> Ascending(lows)]
BitsOf(lows)  == [kind |-> "bitmap", bits |-> [l \in 0 .. Chunk - 1 |-> l \in lows]]
RunsOf(lows)  ==
    [kind |-> "run",
     runs |-> {r \in (0 .. Chunk - 1) \X (0 .. Chunk - 1) :
                  /\ r[1] <= r[2] /\ r[1] .. r[2] \subseteq lows
                  /\ r[1] - 1 \notin lows /\ r[2] + 1 \notin lows}]

Lows(container) ==
    CASE container.kind = "array"  -> Range(container.array)
      [] container.kind = "bitmap" -> {l \in 0 .. Chunk - 1 : container.bits[l]}
      [] container.kind = "run"    -> UNION {r[1] .. r[2] : r \in container.runs}

\* mutant: a container keeps its kind when it shrinks or grows
KindKept(kind, lows) ==
    IF kind = "array" THEN ArrayOf(lows) ELSE IF kind = "bitmap" THEN BitsOf(lows) ELSE RunsOf(lows)

\* Runs stay runs until the bitmap is optimised.
Container(kind, lows) ==
    IF kind = "run" THEN RunsOf(lows)
    ELSE IF Cardinality(lows) < ArrayLimit THEN ArrayOf(lows) ELSE BitsOf(lows)

LowsAt(b, h) == IF h \in DOMAIN b.containers THEN Lows(b.containers[h]) ELSE {}
KindAt(b, h) == IF h \in DOMAIN b.containers THEN b.containers[h].kind ELSE "array"

----------------------------------------------------------------------------
(* Updates.                                                                 *)

fc_roaring_create == [containers |-> <<>>, cardinality |-> 0]

\* The bitmap with other remainders in one container.
Replaced(b, h, kind, lows) ==
    [containers  |-> IF lows = {} THEN Restrict(b.containers, DOMAIN b.containers \ {h})
                     ELSE [k \in DOMAIN b.containers \cup {h} |->
                              IF k = h THEN Container(kind, lows) ELSE b.containers[k]],
     cardinality |-> b.cardinality + Cardinality(lows) - Cardinality(LowsAt(b, h))]

fc_roaring_add(b, v) ==
    LET h == High(v) IN Replaced(b, h, KindAt(b, h), LowsAt(b, h) \cup {Low(v)})

fc_roaring_add_batch(b, values) == FoldLeft(fc_roaring_add, b, values)

fc_roaring_create_from_array(values) == fc_roaring_add_batch(fc_roaring_create, values)

fc_roaring_remove(b, v) ==
    LET h == High(v) IN Replaced(b, h, KindAt(b, h), LowsAt(b, h) \ {Low(v)})

\* mutant: the first and the last remainder are used in every container of the range
EndsEverywhere(h, min, max) == Low(min) .. Low(max - 1)

\* The remainders of [min, max) in one container.
RangeIn(h, min, max) ==
    (IF h = High(min) THEN Low(min) ELSE 0)
        .. (IF h = High(max - 1) THEN Low(max - 1) ELSE Chunk - 1)

Chunks(min, max) == IF min < max THEN [i \in 1 .. High(max - 1) - High(min) + 1 |-> High(min) + i - 1] ELSE <<>>

fc_roaring_add_range(b, min, max) ==
    FoldLeft(LAMBDA c, h : Replaced(c, h, KindAt(c, h), LowsAt(c, h) \cup RangeIn(h, min, max)),
             b, Chunks(min, max))

fc_roaring_remove_range(b, min, max) ==
    FoldLeft(LAMBDA c, h : Replaced(c, h, KindAt(c, h), LowsAt(c, h) \ RangeIn(h, min, max)),
             b, Chunks(min, max))

fc_roaring_create_from_range(min, max) == fc_roaring_add_range(fc_roaring_create, min, max)

\* "The most efficient type": runs where they take less room than the values.
fc_roaring_optimize(b) ==
    [b EXCEPT !.containers =
        [h \in DOMAIN @ |-> LET lows == Lows(b.containers[h])
                                runs == RunsOf(lows)
                            IN  IF 2 * Cardinality(runs.runs) < Cardinality(lows) THEN runs
                                ELSE Container("array", lows)]]

----------------------------------------------------------------------------
(* Set operations, container by container.                                  *)

Combined(hs, lows(_)) ==
    [containers  |-> [h \in {k \in hs : lows(k) # {}} |-> Container("array", lows(h))],
     cardinality |-> MapThenSumSet(LAMBDA h : Cardinality(lows(h)), hs)]

Keys(b) == DOMAIN b.containers

fc_roaring_union(a, b) ==
    Combined(Keys(a) \cup Keys(b), LAMBDA h : LowsAt(a, h) \cup LowsAt(b, h))

fc_roaring_intersection(a, b) ==
    Combined(Keys(a) \cap Keys(b), LAMBDA h : LowsAt(a, h) \cap LowsAt(b, h))

fc_roaring_difference(a, b) == Combined(Keys(a), LAMBDA h : LowsAt(a, h) \ LowsAt(b, h))

fc_roaring_xor(a, b) ==
    Combined(Keys(a) \cup Keys(b),
             LAMBDA h : (LowsAt(a, h) \ LowsAt(b, h)) \cup (LowsAt(b, h) \ LowsAt(a, h)))

----------------------------------------------------------------------------
(* Queries.                                                                 *)

fc_roaring_contains(b, v) == Low(v) \in LowsAt(b, High(v))

fc_roaring_cardinality(b) == b.cardinality

\* mutant: containers are compared as they are stored
EqualAsStored(a, b) == a.containers = b.containers

fc_roaring_equals(a, b) == Keys(a) = Keys(b) /\ \A h \in Keys(a) : LowsAt(a, h) = LowsAt(b, h)

fc_roaring_is_subset(a, b) == \A h \in Keys(a) : LowsAt(a, h) \subseteq LowsAt(b, h)

fc_roaring_intersects(a, b) == \E h \in Keys(a) \cap Keys(b) : LowsAt(a, h) \cap LowsAt(b, h) # {}

fc_roaring_min(b) == LET h == Min(Keys(b)) IN h * Chunk + Min(LowsAt(b, h))

fc_roaring_max(b) == LET h == Max(Keys(b)) IN h * Chunk + Max(LowsAt(b, h))

fc_roaring_to_array(b) ==
    FlattenSeq([i \in 1 .. Cardinality(Keys(b)) |->
                    LET h    == Ascending(Keys(b))[i]
                        lows == Ascending(LowsAt(b, h))
                    IN  [j \in DOMAIN lows |-> h * Chunk + lows[j]]])

----------------------------------------------------------------------------

RoaringInit ==
    /\ roaring = [b \in Bitmap |-> fc_roaring_create]
    /\ members = [b \in Bitmap |-> {}]
    /\ setOps = 0

\* One bitmap becomes another, and the set it should be.
Becomes(b, bitmap, set) ==
    /\ setOps < MaxSetOps /\ setOps' = setOps + 1
    /\ roaring' = [roaring EXCEPT ![b] = bitmap]
    /\ members' = [members EXCEPT ![b] = set]

AddValues(b) ==
    \E v, w \in Points : \/ Becomes(b, fc_roaring_add(roaring[b], v), members[b] \cup {v})
                         \/ Becomes(b, fc_roaring_add_batch(roaring[b], <<w, v, w>>), members[b] \cup {v, w})
                         \/ Becomes(b, fc_roaring_create_from_array(<<w, v>>), {v, w})

RemoveValue(b) == \E v \in Points : Becomes(b, fc_roaring_remove(roaring[b], v), members[b] \ {v})

Ranges(b) ==
    \E min, max \in Points :
        \/ Becomes(b, fc_roaring_add_range(roaring[b], min, max), members[b] \cup min .. max - 1)
        \/ Becomes(b, fc_roaring_remove_range(roaring[b], min, max), members[b] \ (min .. max - 1))
        \/ Becomes(b, fc_roaring_create_from_range(min, max), min .. max - 1)

\* fc_roaring_union_inplace and fc_roaring_intersection_inplace where c is b.
Combine(b) ==
    \E a, c \in Bitmap :
        \/ Becomes(b, fc_roaring_union(roaring[a], roaring[c]), members[a] \cup members[c])
        \/ Becomes(b, fc_roaring_intersection(roaring[a], roaring[c]), members[a] \cap members[c])
        \/ Becomes(b, fc_roaring_difference(roaring[a], roaring[c]), members[a] \ members[c])
        \/ Becomes(b, fc_roaring_xor(roaring[a], roaring[c]),
                   (members[a] \ members[c]) \cup (members[c] \ members[a]))

\* clone, clear and optimize.
Whole(b) ==
    \/ \E a \in Bitmap \ {b} : Becomes(b, roaring[a], members[a])
    \/ Becomes(b, fc_roaring_create, {})
    \/ Becomes(b, fc_roaring_optimize(roaring[b]), members[b])

RoaringNext == \E b \in Bitmap : AddValues(b) \/ RemoveValue(b) \/ Ranges(b) \/ Combine(b) \/ Whole(b)

RoaringSpec == RoaringInit /\ [][RoaringNext]_roaringVars

----------------------------------------------------------------------------
(* Properties.                                                              *)

\* Every bitmap answers as the set it stands for: membership, order, and the number of
\* elements that is kept beside the containers.
RoaringIsSet ==
    \A b \in Bitmap :
        /\ {v \in Values : fc_roaring_contains(roaring[b], v)} = members[b]
        /\ fc_roaring_to_array(roaring[b]) = Ascending(members[b])
        /\ fc_roaring_cardinality(roaring[b]) = Cardinality(members[b])
        /\ members[b] # {} => /\ fc_roaring_min(roaring[b]) = Min(members[b])
                              /\ fc_roaring_max(roaring[b]) = Max(members[b])

\* Two bitmaps compare as their sets do, however differently they are stored.
RoaringCompares ==
    \A a, b \in Bitmap :
        /\ fc_roaring_equals(roaring[a], roaring[b]) <=> members[a] = members[b]
        /\ fc_roaring_is_subset(roaring[a], roaring[b]) <=> members[a] \subseteq members[b]
        /\ fc_roaring_intersects(roaring[a], roaring[b]) <=> members[a] \cap members[b] # {}

\* After any sequence of updates and set operations no container is empty, arrays are
\* sparse and bitmaps dense.
RoaringContainers ==
    \A b \in Bitmap : \A h \in Keys(roaring[b]) :
        LET n == Cardinality(Lows(roaring[b].containers[h]))
        IN  /\ n > 0
            /\ roaring[b].containers[h].kind = "array" => n < ArrayLimit
            /\ roaring[b].containers[h].kind = "bitmap" => n >= ArrayLimit

\* A bitmap is the set it stands for, whatever containers its history has left.
RoaringFaithful == RoaringIsSet /\ RoaringCompares /\ RoaringContainers
=============================================================================
