----------------------------- MODULE Allocator -----------------------------
(***************************************************************************)
(* BasicAlloc (kernel/src/allocator.rs): the bump allocator behind the     *)
(* kernel heap, the heap that backs program memory, and the virtual heap   *)
(* of every process.  Memory is taken at next; a block freed at the top is *)
(* popped, any other is stashed until the blocks above it are gone; when   *)
(* the stash is full the block is leaked until the heap is empty.          *)
(*                                                                         *)
(* The addr of a block is its offset from base.  The array of stashed deallocations is *)
(* a set: where an entry is stored does not matter, the array is sorted    *)
(* before it is used.  Callers ask for at least a byte (malloc adds a size *)
(* header; only the argv of a program without arguments is empty, see      *)
(* ProgramMemory), and next + size does not overflow for the heaps there   *)
(* are.                                                                    *)
(***************************************************************************)
EXTENDS Naturals, FiniteSets, FiniteSetsExt

CONSTANTS
    Base,       \* base
    HeapLen,    \* len
    StashSize,  \* 1024 in the code
    Sizes,      \* the sizes asked for
    Aligns      \* the alignments asked for

ASSUME AllocatorAssumption ==
    /\ Base \in Nat /\ HeapLen \in Nat
    /\ StashSize \in Nat
    /\ Sizes \subseteq Nat \ {0}
    /\ Aligns \subseteq Nat \ {0}

VARIABLES
    heap    \* the allocator

\* core::alloc::Layout
Layout == [size : Sizes, align : Aligns]

(* next and count (alloc_count) are the code's; live holds the blocks given *)
(* out and not yet freed; stash the stashed deallocations; leaked the       *)
(* blocks that did not fit in the stash, of which the code keeps no record. *)
Block == [addr : Nat, size : Nat \ {0}, align : Nat \ {0}]
Heap == [next : Nat, count : Nat, live : SUBSET Block, stash : SUBSET Block,
         leaked : SUBSET Block]

\* BasicAlloc::from
NewHeap == [next |-> 0, count |-> 0, live |-> {}, stash |-> {}, leaked |-> {}]

Bytes(b) == b.addr .. b.addr + b.size - 1
AtTop(h, b) == b.addr + b.size = h.next

-----------------------------------------------------------------------------
(* Stashing and popping *)

\* find_free_dealloc_ind, and the two outcomes of storing b.
Stashed(h, b) ==
    IF Cardinality(h.stash) < StashSize
    THEN [h EXCEPT !.stash = @ \cup {b}]
    ELSE [h EXCEPT !.leaked = @ \cup {b}]

\* The heights next can be lowered to: the stash covers everything above.
Heights(h) ==
    {n \in {h.next} \cup {b.addr : b \in h.stash} :
        n <= h.next /\ \A a \in n .. h.next - 1 : \E b \in h.stash : a \in Bytes(b)}

\* Mutant of Popped: every stashed block is taken to be at the top.
PoppedUnchecked(h) ==
    LET n == Min({h.next} \cup {b.addr : b \in h.stash})
    IN  [h EXCEPT !.next = n, !.stash = {b \in @ : b.addr < n}]

\* The loop over the sorted stash: pop, highest address first, as long as the
\* next block is at the top.
Popped(h) ==
    LET n == Min(Heights(h))
    IN  [h EXCEPT !.next = n, !.stash = {b \in @ : b.addr < n}]

\* try_dealloc finds nothing at the top but no allocations either.
Reset(h) == [h EXCEPT !.next = 0, !.stash = {}, !.leaked = {}]

\* One iteration of the loop: try_dealloc of the stashed block with the highest
\* address.  Where the code breaks out of the loop nothing changes any more.
Iteration(h) ==
    LET b == CHOOSE b \in h.stash : \A c \in h.stash : c.addr <= b.addr
    IN  IF h.stash = {} THEN h
        ELSE IF AtTop(h, b) THEN [h EXCEPT !.next = @ - b.size, !.stash = @ \ {b}]
        ELSE IF h.count = 0 THEN Reset(h)
        ELSE h

\* The loop as it stands in the code: an iteration for every stashed block.
StashLoop(h) ==
    LET after[i \in 0 .. Cardinality(h.stash)] ==
            IF i = 0 THEN h ELSE Iteration(after[i - 1])
    IN  after[Cardinality(h.stash)]

\* Mutant of StashTried: the loop never gets to the reset.
StashTriedNoReset(h) == Popped(h)

\* The loop ends in try_dealloc of the highest block that is not at the top,
\* if there is one.
StashTried(h) ==
    LET p == Popped(h)
    IN  IF p.stash # {} /\ p.count = 0 THEN Reset(p) ELSE p

-----------------------------------------------------------------------------
(* alloc, dealloc, realloc *)

\* What it takes to align next.
Padding(h, l) == IF h.next % l.align = 0 THEN 0 ELSE l.align - (h.next % l.align)

\* Mutant of Padded: the padding is not stashed.
PaddedNotStashed(h, l) == [h EXCEPT !.next = @ + Padding(h, l)]

\* alloc, first part: the padding is taken and stashed.
Padded(h, l) ==
    LET padding == Padding(h, l)
    IN  IF padding = 0 THEN h
        ELSE Stashed([h EXCEPT !.next = @ + padding], 
                     [addr |-> h.next, size |-> padding, align |-> 1])

\* The two places where alloc returns null.
NoRoomForPadding(h, l) == Padding(h, l) # 0 /\ h.next + Padding(h, l) >= HeapLen
NoRoom(h, l) == NoRoomForPadding(h, l) \/ Padded(h, l).next + l.size >= HeapLen

\* Mutant of Taken: padding is counted as an allocation.
TakenCountsPadding(h, l) ==
    LET p == Padded(h, l)
    IN  [p EXCEPT !.next = @ + l.size, !.count = @ + (IF p.next = h.next THEN 1 ELSE 2),
                  !.live = @ \cup {[addr |-> p.next, size |-> l.size, align |-> l.align]}]

\* alloc, second part: the block above the padding is given out.
Taken(h, l) ==
    LET p == Padded(h, l)
    IN  [p EXCEPT !.next = @ + l.size, !.count = @ + 1,
                  !.live = @ \cup {[addr |-> p.next, size |-> l.size, align |-> l.align]}]

\* alloc that returns null; padding that has been taken is not given back.
Refused(h, l) == IF NoRoomForPadding(h, l) THEN h ELSE Padded(h, l)

\* dealloc
Freed(h, b) ==
    LET g == [h EXCEPT !.count = @ - 1, !.live = @ \ {b}]
    IN  IF AtTop(g, b) THEN StashTried([g EXCEPT !.next = @ - b.size])
        ELSE IF g.count = 0 THEN Reset(g)
        ELSE Stashed(g, b)

-----------------------------------------------------------------------------
Init == heap = NewHeap

Alloc == \E l \in Layout : ~NoRoom(heap, l) /\ heap' = Taken(heap, l)

AllocFails == \E l \in Layout : NoRoom(heap, l) /\ heap' = Refused(heap, l)

Dealloc == \E b \in heap.live : heap' = Freed(heap, b)

\* realloc: a block of the same alignment is taken before the old one is freed.
Realloc ==
    \E b \in heap.live, size \in Sizes :
        LET l == [size |-> size, align |-> b.align]
        IN  ~NoRoom(heap, l) /\ heap' = Freed(Taken(heap, l), b)

ReallocFails ==
    \E b \in heap.live, size \in Sizes :
        LET l == [size |-> size, align |-> b.align]
        IN  NoRoom(heap, l) /\ heap' = Refused(heap, l)

Next == Alloc \/ AllocFails \/ Dealloc \/ Realloc \/ ReallocFails

Spec == Init /\ [][Next]_heap

-----------------------------------------------------------------------------
(* Properties *)

\* The allocator has its type (BasicAlloc).
TypeOK == heap \in Heap

Blocks == heap.live \cup heap.stash \cup heap.leaked

\* No byte is given out twice, and none that is given out is also stashed, to be
\* popped later: two different blocks never overlap, and none has two fates.
BlocksDisjoint ==
    /\ \A b, c \in Blocks : b # c => Bytes(b) \cap Bytes(c) = {}
    /\ heap.live \cap heap.stash = {}
    /\ heap.live \cap heap.leaked = {}
    /\ heap.stash \cap heap.leaked = {}

\* Every block lies below next, so that what alloc gives out next is new.
BelowNext == \A b \in Blocks : b.addr + b.size <= heap.next

\* Nothing is ever given out beyond the end of the heap.
InHeap == heap.next = 0 \/ heap.next < HeapLen

\* The address of a block given out is off the alignment asked for by as much as the
\* base of the heap is: alloc aligns next and does not look at base.  The kernel's
\* heaps begin aligned; the virtual heap of a process begins at the first address
\* above its segments, and its blocks are aligned only as far as that address is.
Aligned == \A b \in heap.live : (Base + b.addr) % b.align = Base % b.align

\* alloc_count is the number of blocks given out, which is what makes the reset
\* of an empty heap safe.
CountExact == heap.count = Cardinality(heap.live)

\* Every byte below next is in some block: what has not been leaked is popped
\* some day.
NothingLost == \A a \in 0 .. heap.next - 1 : \E b \in Blocks : a \in Bytes(b)

\* At most StashSize deallocations are stashed.
StashBounded == Cardinality(heap.stash) <= StashSize

\* A heap from which nothing has been leaked is all free once its last block is.
EmptyIsReset == heap.live = {} /\ heap.leaked = {} => heap.next = 0

\* After any sequence of calls the heap is well-formed: blocks lie below next, as
\* aligned as the base is, and next inside the heap, every byte below next is accounted for, the stash
\* does not overflow, and an empty heap starts again from its first byte.
HeapWellFormed ==
    /\ TypeOK /\ BelowNext /\ InHeap /\ Aligned
    /\ NothingLost /\ StashBounded /\ EmptyIsReset

\* Popping down to the lowest height the stash covers is what the loop of dealloc
\* over the sorted stash does, for every block at the top and every stash.
StashTriedIsTheLoop ==
    \A b \in heap.live : AtTop(heap, b) =>
        LET h == [heap EXCEPT !.count = @ - 1, !.live = @ \ {b}, !.next = @ - b.size]
        IN  StashTried(h) = StashLoop(h)

\* The inductive invariant behind the properties of blocks: a heap is sound.
HeapInv ==
    /\ TypeOK /\ BlocksDisjoint /\ BelowNext /\ InHeap
    /\ IsFiniteSet(heap.live) /\ CountExact
=============================================================================
