------------------------------- MODULE Arena --------------------------------
(***************************************************************************)
(* The bump allocator of arena.h, with the alignment helpers of            *)
(* mem_aligned.h.  Addresses and sizes are size_t of AddressBits bits, so  *)
(* that what overflows wraps.                                              *)
(***************************************************************************)
EXTENDS Integers, FiniteSets

CONSTANTS
    AddressBits,   \* the width of size_t and uintptr_t
    Pointer,       \* sizeof(void*), the default alignment
    ArenaSizes,    \* the capacities asked for
    AllocSizes,    \* the sizes asked for
    Alignments,    \* the alignments asked for
    MaxBlocks      \* bound: the blocks alive

Addresses == 0 .. 2 ^ AddressBits - 1

ASSUME ArenaAssumption ==
    /\ AddressBits \in Nat /\ MaxBlocks \in Nat
    /\ ArenaSizes \cup AllocSizes \subseteq Addresses \ {0}
    /\ Alignments \cup {Pointer} \subseteq {2 ^ k : k \in 0 .. AddressBits - 1}
    \* What arithmetic says of powers of two, named for the proofs.
    /\ 2 ^ AddressBits \in Nat \ {0}
    /\ \A n \in Alignments \cup {Pointer} : n \in Nat \ {0} /\ n < 2 ^ AddressBits

VARIABLES
    arena,  \* fc_arena_t; the capacity 0 when there is none
    blocks  \* (history) the blocks given out since the last reset

arenaVars == <<arena, blocks>>

NoArena == [base |-> 0, capacity |-> 0, used |-> 0]

Size_t(n) == n % 2 ^ AddressBits

\* For a power of two, address & (alignment - 1) is the remainder.
fc_is_aligned(address, alignment) ==
    \/ address = 0
    \/ /\ \E k \in 0 .. AddressBits - 1 : alignment = 2 ^ k
       /\ address % alignment = 0

\* (size + alignment - 1) & ~(alignment - 1): near the largest size_t it comes out as 0.
fc_align_size(size, alignment) ==
    LET sum == Size_t(size + alignment - 1) IN sum - (sum % alignment)

fc_arena_used(a) == a.used

fc_arena_available(a) == a.capacity - a.used

\* mutant: the sum of offset and size, which may wrap, is compared with the capacity
SumCompared(a, size, alignment) ==
    LET start == Size_t(fc_align_size(a.base + a.used, alignment) - a.base)
    IN  IF Size_t(start + size) > a.capacity THEN a
        ELSE [a EXCEPT !.used = Size_t(start + size)]

\* The arena is unchanged when the block does not fit and the caller gets NULL.
fc_arena_alloc_aligned(a, size, alignment) ==
    LET start == Size_t(fc_align_size(a.base + a.used, alignment) - a.base)
    IN  IF start > a.capacity \/ size > a.capacity - start THEN a
        ELSE [a EXCEPT !.used = start + size]

fc_arena_alloc(a, size) == fc_arena_alloc_aligned(a, size, Pointer)

fc_arena_reset(a) == [a EXCEPT !.used = 0]

----------------------------------------------------------------------------

ArenaInit == arena = NoArena /\ blocks = {}

\* malloc gives memory aligned for a pointer that ends before the address space does.
fc_arena_create ==
    /\ arena.capacity = 0
    /\ \E base \in Addresses \ {0}, capacity \in ArenaSizes :
          /\ base % Pointer = 0 /\ base + capacity < 2 ^ AddressBits
          /\ arena' = [base |-> base, capacity |-> capacity, used |-> 0]
    /\ UNCHANGED blocks

\* The block is the end of what is in use after the call.
Allocated(after, size, alignment) ==
    /\ arena.capacity > 0 /\ Cardinality(blocks) < MaxBlocks
    /\ arena' = after
    /\ blocks' = IF after = arena THEN blocks
                 ELSE blocks \cup {[first |-> after.base + after.used - size,
                                    size |-> size, alignment |-> alignment]}

Alloc(size) ==
    \/ Allocated(fc_arena_alloc(arena, size), size, Pointer)
    \/ \E alignment \in Alignments :
          Allocated(fc_arena_alloc_aligned(arena, size, alignment), size, alignment)

ArenaReset ==
    /\ arena.capacity > 0
    /\ arena' = fc_arena_reset(arena) /\ blocks' = {}

fc_arena_destroy ==
    /\ arena.capacity > 0
    /\ arena' = NoArena /\ blocks' = {}

ArenaNext ==
    \/ fc_arena_create \/ ArenaReset \/ fc_arena_destroy
    \/ \E size \in AllocSizes : Alloc(size)

ArenaSpec == ArenaInit /\ [][ArenaNext]_arenaVars

----------------------------------------------------------------------------
(* Properties.                                                              *)

\* The blocks given out lie in the arena, apart from each other, and are aligned as
\* asked, whatever the alignment of the arena itself, sizes near the largest size_t
\* included; what is available is what no block has taken.
ArenaBlocksApart ==
    /\ \A b \in blocks :
          /\ fc_is_aligned(b.first, b.alignment)
          /\ b.first >= arena.base
          /\ b.first + b.size <= arena.base + fc_arena_used(arena)
    /\ \A b, c \in blocks : b = c \/ b.first + b.size <= c.first \/ c.first + c.size <= b.first
    /\ fc_arena_available(arena) \in 0 .. arena.capacity
=============================================================================
