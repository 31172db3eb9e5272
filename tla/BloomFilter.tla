---------------------------- MODULE BloomFilter -----------------------------
(***************************************************************************)
(* The filter of bloom_filter.h: every element has some bits, which its    *)
(* hash functions choose and which other elements may share.  A writer has *)
(* the filter to itself, as the header demands, and readers only read.     *)
(***************************************************************************)
EXTENDS Integers, Sequences, FiniteSets, SequencesExt, Functions

CONSTANTS
    Key,         \* the elements
    HashValues,  \* what hash functions return
    BitSizes,    \* the values of bit_array_size
    HashCounts,  \* the values of num_hash_functions
    MaxAdds      \* bound: the additions since a clear

ASSUME BloomAssumption ==
    /\ IsFiniteSet(Key) /\ HashValues \subseteq Nat /\ MaxAdds \in Nat
    /\ BitSizes \cup HashCounts \subseteq Nat \ {0}

VARIABLES
    filter,  \* fc_bloom_filter_t
    hash,    \* the values of the hash functions, for each element
    present  \* (history) the elements added since the last clear

bloomVars == <<filter, hash, present>>

NoFilter == [bits |-> {}, bit_array_size |-> 0, num_hash_functions |-> 0, elements_added |-> 0]

BloomInit == filter = NoFilter /\ hash = [k \in Key |-> <<>>] /\ present = {}

\* The hash functions depend on the element alone; how well they spread is not
\* modelled.
fc_bloom_create_explicit ==
    /\ filter = NoFilter
    /\ \E size \in BitSizes, count \in HashCounts :
          /\ filter' = [NoFilter EXCEPT !.bit_array_size = size, !.num_hash_functions = count]
          /\ hash' \in [Key -> [1 .. count -> HashValues]]
    /\ UNCHANGED present

fc_bloom_destroy ==
    /\ filter # NoFilter
    /\ filter' = NoFilter /\ hash' = [k \in Key |-> <<>>] /\ present' = {}

\* The bits of an element.
Bits(f, key) == {hash[key][i] % f.bit_array_size : i \in 1 .. f.num_hash_functions}

fc_bloom_add(f, key) ==
    [f EXCEPT !.bits = @ \cup Bits(f, key), !.elements_added = @ + 1]

fc_bloom_add_batch(f, keys) == FoldLeft(fc_bloom_add, f, keys)

fc_bloom_contains(f, key) == Bits(f, key) \subseteq f.bits

fc_bloom_contains_batch(f, keys) == [i \in DOMAIN keys |-> fc_bloom_contains(f, keys[i])]

\* mutant: only the counter is reset
CounterOnly(f) == [f EXCEPT !.elements_added = 0]

fc_bloom_clear(f) == [f EXCEPT !.bits = {}, !.elements_added = 0]

----------------------------------------------------------------------------

BloomAdd ==
    /\ filter # NoFilter
    /\ \E n \in 1 .. 2 : \E keys \in [1 .. n -> Key] :
          /\ filter.elements_added + n <= MaxAdds
          /\ filter' = fc_bloom_add_batch(filter, keys)
          /\ present' = present \cup Range(keys)
    /\ UNCHANGED hash

BloomClear ==
    /\ filter # NoFilter
    /\ filter' = fc_bloom_clear(filter) /\ present' = {}
    /\ UNCHANGED hash

BloomNext == fc_bloom_create_explicit \/ fc_bloom_destroy \/ BloomAdd \/ BloomClear

BloomSpec == BloomInit /\ [][BloomNext]_bloomVars

----------------------------------------------------------------------------
(* Properties.                                                              *)

\* "False positives are possible, false negatives are not", whichever bits elements
\* share; and a filter that was cleared has forgotten every element.
BloomNoFalseNegative ==
    filter # NoFilter =>
        LET keys == SetToSeq(Key)
            says == fc_bloom_contains_batch(filter, keys)
        IN  \A i \in DOMAIN keys : /\ keys[i] \in present => says[i]
                                   /\ present = {} => ~says[i]
=============================================================================
