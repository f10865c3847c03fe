-------------------------------- MODULE Heap --------------------------------
(***************************************************************************)
(* The bootstrap heap (kernel/memory.cpp): one array, given out from the   *)
(* front and never taken back.  A request is a uint32_t, sizeof(heap) a    *)
(* 64-bit size_t.                                                          *)
(***************************************************************************)
EXTENDS Integers, FiniteSets

CONSTANTS
    HeapSize,       \* sizeof(heap)
    HeapWord,       \* number of values of a uint32_t
    Requests        \* the sizes that are asked for

Align == 16         \* every block starts on a multiple of it

ASSUME HeapAssumption ==
    /\ HeapSize \in Nat /\ HeapWord \in Nat /\ HeapSize + Align <= HeapWord
    /\ Requests \subseteq 0..(HeapWord - 1)

VARIABLES
    heap_end,       \* cursor: the bytes used
    blocks          \* the blocks handed out, each [start, size]

heap_vars == <<heap_end, blocks>>

Block == [start : Nat, size : Nat]

\* (cursor + 15u) & ~15u
AlignedUp(n) == LET m == (n + (Align - 1)) % HeapWord IN m - (m % Align)

\* Fault for BlocksDisjoint: the end is computed before it is compared.
FitsBefore(start, bytes) == (start + bytes) % HeapWord <= HeapSize

Fits(start, bytes) == start <= HeapSize /\ bytes <= HeapSize - start

-----------------------------------------------------------------------------
HeapInit == heap_end = 0 /\ blocks = {}

\* allocate() that answers with a block; else it changes nothing.
Allocate(bytes) ==
    LET start == AlignedUp(heap_end)
    IN  /\ bytes # 0
        /\ Fits(start, bytes)
        /\ heap_end' = (start + bytes) % HeapWord
        /\ blocks' = blocks \cup {[start |-> start, size |-> bytes]}

HeapNext == \E bytes \in Requests : Allocate(bytes)

HeapSpec == HeapInit /\ [][HeapNext]_heap_vars

-----------------------------------------------------------------------------
(* Properties *)

Apart(b, c) == b.start + b.size <= c.start \/ c.start + c.size <= b.start

\* Whatever sizes are asked for, up to the greatest that fits the word, two
\* blocks never share a byte, each is aligned and lies inside the heap, and
\* bytes_used() is behind all of them.
BlocksDisjoint ==
    /\ \A b \in blocks :
         /\ b.size > 0 /\ b.start % Align = 0
         /\ b.start + b.size <= heap_end
    /\ heap_end \in 0..HeapSize
    /\ \A b, c \in blocks : b # c => Apart(b, c)
=============================================================================
