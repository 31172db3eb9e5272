------------------------------ MODULE Sorting -------------------------------
(***************************************************************************)
(* The sorts of float_sort.h, int_sort.h, argsort.h and multikey.h, on a   *)
(* table of records that a program sorts again and again, in place or      *)
(* through indices.  A record is a price (a double), a time (a signed      *)
(* integer) and an id, the place it had at first.  The sizes are those at  *)
(* which floats are sorted by insertion; integers are sorted by radix, and *)
(* records by merging runs that are sorted by insertion.                   *)
(***************************************************************************)
EXTENDS Integers, Sequences, SequencesExt, FiniteSets, FiniteSetsExt, Functions

CONSTANTS
    Prices,     \* numbers
    QuietNaN,   \* and the one that is none
    Times,      \* signed integers
    IntBits,    \* their width
    RadixBits,  \* the bits of a digit
    MinRun,     \* the length of the runs
    TableSize,  \* bound: the records
    MaxSorts    \* bound: the calls

ASSUME SortingAssumption ==
    /\ Prices \subseteq Int /\ QuietNaN \notin Prices
    /\ {IntBits, RadixBits, MinRun} \subseteq Nat \ {0} /\ IntBits % RadixBits = 0
    /\ Times \subseteq -(2 ^ (IntBits - 1)) .. 2 ^ (IntBits - 1) - 1
    /\ TableSize \in Nat /\ MaxSorts \in Nat

VARIABLES
    table,     \* the records
    sortedBy,  \* (history) the keys of the calls since the last unstable one, latest first
    stable,    \* (history) whether ties are still in their first order
    sorts      \* (history) the number of calls

sortingVars == <<table, sortedBy, stable, sorts>>

PriceKey(order) == [field |-> "price", order |-> order]
TimeKey(order)  == [field |-> "time", order |-> order]
Orders == {"ascending", "descending"}

----------------------------------------------------------------------------
(* Comparison.                                                              *)

\* NaN goes to the end in either order, and is equal to itself.
Before(x, y, order) ==
    x # QuietNaN /\ (y = QuietNaN \/ (IF order = "ascending" THEN x < y ELSE y < x))

\* The first key on which two records differ decides.
RecordBefore(r, s, keys) ==
    \E i \in DOMAIN keys :
        /\ Before(r[keys[i].field], s[keys[i].field], keys[i].order)
        /\ \A j \in 1 .. i - 1 : r[keys[j].field] = s[keys[j].field]

fc_sort_is_sorted_multikey(rows, keys) ==
    \A i \in 1 .. Len(rows) - 1 : ~RecordBefore(rows[i + 1], rows[i], keys)

----------------------------------------------------------------------------
(* Records: runs are sorted by insertion and merged.                        *)

\* Behind the last of those that need not come after it.
Inserted(rows, r, keys) ==
    LET k == Max({0} \cup {i \in DOMAIN rows : ~RecordBefore(r, rows[i], keys)})
    IN  InsertAt(rows, k + 1, r)

InsertionSort(rows, keys) == FoldLeft(LAMBDA done, r : Inserted(done, r, keys), <<>>, rows)

\* mutant: among equals the right-hand run comes first
RightFirst(a, b, keys) ==
    LET ofA == [i \in DOMAIN a |-> i + Cardinality({j \in DOMAIN b : ~RecordBefore(a[i], b[j], keys)})]
        ofB == [j \in DOMAIN b |-> j + Cardinality({i \in DOMAIN a : RecordBefore(a[i], b[j], keys)})]
    IN  [p \in 1 .. Len(a) + Len(b) |->
            IF p \in Range(ofA) THEN a[CHOOSE i \in DOMAIN a : ofA[i] = p]
            ELSE b[CHOOSE j \in DOMAIN b : ofB[j] = p]]

\* Every element moves behind those of the other run that come before it.
MergeRuns(a, b, keys) ==
    LET ofA == [i \in DOMAIN a |-> i + Cardinality({j \in DOMAIN b : RecordBefore(b[j], a[i], keys)})]
        ofB == [j \in DOMAIN b |-> j + Cardinality({i \in DOMAIN a : ~RecordBefore(b[j], a[i], keys)})]
    IN  [p \in 1 .. Len(a) + Len(b) |->
            IF p \in Range(ofA) THEN a[CHOOSE i \in DOMAIN a : ofA[i] = p]
            ELSE b[CHOOSE j \in DOMAIN b : ofB[j] = p]]

Runs(rows) ==
    [i \in 1 .. (Len(rows) + MinRun - 1) \div MinRun |->
        SubSeq(rows, (i - 1) * MinRun + 1, Min({i * MinRun, Len(rows)}))]

fc_sort_multikey(rows, keys) ==
    FoldLeft(LAMBDA done, run : MergeRuns(done, InsertionSort(run, keys), keys), <<>>, Runs(rows))

\* The indices of the records in sorted order, from 1; the records stay.
fc_sort_multikey_indexed(rows, keys) ==
    LET numbered == [i \in DOMAIN rows |-> [at |-> i] @@ rows[i]]
        sorted   == fc_sort_multikey(numbered, keys)
    IN  [i \in DOMAIN rows |-> sorted[i].at]

Gathered(rows, indices) == [i \in DOMAIN indices |-> rows[indices[i]]]

fc_sort_argsort_stable(rows, key) == fc_sort_multikey_indexed(rows, <<key>>)

\* Any indices that sort will do.
fc_sort_argsort(rows, key) ==
    {p \in Permutations(DOMAIN rows) : fc_sort_is_sorted_multikey(Gathered(rows, p), <<key>>)}

----------------------------------------------------------------------------
(* Columns.                                                                 *)

fc_sort_float64(xs, order) ==
    LET rows == [i \in DOMAIN xs |-> [price |-> xs[i]]]
        done == InsertionSort(rows, <<PriceKey(order)>>)
    IN  [i \in DOMAIN xs |-> done[i].price]

\* With the policy REJECT nothing is sorted when there is a NaN.
fc_sort_float64_ex(xs, order, policy) ==
    LET sorted == fc_sort_float64(xs, order)
        number(x) == x # QuietNaN
        nan(x)    == x = QuietNaN
    IN  CASE policy = "last"   -> sorted
          [] policy = "first"  -> SelectSeq(sorted, nan) \o SelectSeq(sorted, number)
          [] policy = "reject" -> IF QuietNaN \in Range(xs) THEN xs ELSE sorted

\* mutant: signed integers are sorted by their bits as they are
SignIgnored(x) == x % 2 ^ IntBits

\* The bits of a signed integer, with the sign bit flipped.
RadixKey(x) == (x + 2 ^ (IntBits - 1)) % 2 ^ IntBits

\* Counting sort by one digit: elements with equal digits stay in order.
CountingPass(xs, key(_), digit) ==
    LET value(x) == (key(x) \div 2 ^ (digit * RadixBits)) % 2 ^ RadixBits
    IN  FlattenSeq([d \in 1 .. 2 ^ RadixBits |-> SelectSeq(xs, LAMBDA x : value(x) = d - 1)])

\* From the least significant digit to the most.
RadixSort(xs, key(_), order) ==
    LET up == FoldLeft(LAMBDA ys, digit : CountingPass(ys, key, digit), xs,
                       [i \in 1 .. IntBits \div RadixBits |-> i - 1])
    IN  IF order = "ascending" THEN up ELSE Reverse(up)

fc_sort_int64(xs, order) == RadixSort(xs, RadixKey, order)

fc_sort_uint64(xs, order) == RadixSort(xs, LAMBDA x : x, order)

fc_sort_is_sorted_int64(xs, order) == \A i \in 1 .. Len(xs) - 1 : ~Before(xs[i + 1], xs[i], order)

fc_sort_is_sorted_float64(xs, order) == \A i \in 1 .. Len(xs) - 1 : ~Before(xs[i + 1], xs[i], order)

Column(field) == [i \in DOMAIN table |-> table[i][field]]

----------------------------------------------------------------------------

SortingInit == table = <<>> /\ sortedBy = <<>> /\ stable = TRUE /\ sorts = 0

\* The program fills the table.
LoadTable ==
    /\ table = <<>>
    /\ \E rows \in [1 .. TableSize -> (Prices \cup {QuietNaN}) \X Times] :
          table' = [i \in 1 .. TableSize |-> [price |-> rows[i][1], time |-> rows[i][2], id |-> i]]
    /\ UNCHANGED <<sortedBy, stable, sorts>>

KeyLists ==
    {<<k>> : k \in {PriceKey(o) : o \in Orders} \cup {TimeKey(o) : o \in Orders}}
        \cup {<<PriceKey("descending"), TimeKey("ascending")>>}

SortStably ==
    /\ table # <<>> /\ sorts < MaxSorts /\ sorts' = sorts + 1
    /\ \E keys \in KeyLists :
          /\ \/ table' = fc_sort_multikey(table, keys)
             \/ Len(keys) = 1 /\ table' = Gathered(table, fc_sort_argsort_stable(table, keys[1]))
          /\ sortedBy' = keys \o sortedBy
    /\ UNCHANGED stable

SortUnstably ==
    /\ table # <<>> /\ sorts < MaxSorts /\ sorts' = sorts + 1
    /\ \E order \in Orders : \E key \in {PriceKey(order), TimeKey(order)} :
          /\ \E p \in fc_sort_argsort(table, key) : table' = Gathered(table, p)
          /\ sortedBy' = <<key>>
    /\ stable' = FALSE

SortingNext == LoadTable \/ SortStably \/ SortUnstably

SortingSpec == SortingInit /\ [][SortingNext]_sortingVars

----------------------------------------------------------------------------
(* Properties.                                                              *)

\* Sorts compose: records are in the order of the last call, those equal there in the
\* order of the call before, and so on, as far back as all were stable; NaN never
\* breaks the order, and no record is lost.
SortsCompose ==
    /\ {table[i].id : i \in DOMAIN table} = DOMAIN table
    /\ \A i, j \in DOMAIN table : i < j =>
          /\ ~RecordBefore(table[j], table[i], sortedBy)
          /\ stable /\ ~RecordBefore(table[i], table[j], sortedBy) => table[i].id < table[j].id

\* A column sorted on its own comes out as the records sorted by it: the radix sort of
\* signed integers, the insertion sort of doubles and the merging of runs agree on
\* the order of any two values, and ascending with NaN first is descending with
\* NaN last read backwards.  A column is reported sorted exactly if sorting would
\* leave it as it is.
ColumnsAgree ==
    \A order \in Orders :
        LET byTime  == fc_sort_multikey(table, <<TimeKey(order)>>)
            byPrice == fc_sort_multikey(table, <<PriceKey(order)>>)
            times   == Column("time")
            prices  == Column("price")
            bits    == [i \in DOMAIN table |-> times[i] % 2 ^ IntBits]
            other   == CHOOSE o \in Orders : o # order
        IN  /\ fc_sort_int64(times, order) = [i \in DOMAIN table |-> byTime[i].time]
            /\ fc_sort_float64_ex(prices, order, "last") = [i \in DOMAIN table |-> byPrice[i].price]
            /\ Reverse(fc_sort_float64_ex(prices, other, "first")) = fc_sort_float64(prices, order)
            /\ fc_sort_is_sorted_int64(times, order) <=> fc_sort_int64(times, order) = times
            /\ fc_sort_is_sorted_int64(bits, order) <=> fc_sort_uint64(bits, order) = bits
            /\ fc_sort_is_sorted_float64(prices, order) <=> fc_sort_float64(prices, order) = prices

\* All the sorts put the same records in the same order.
SortsAgree == SortsCompose /\ ColumnsAgree
=============================================================================
