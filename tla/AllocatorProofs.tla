-------------------------- MODULE AllocatorProofs --------------------------
(***************************************************************************)
(* Proofs about Allocator, for every heap, stash size and set of layouts:  *)
(* blocks never overlap, lie aligned below next and inside the heap, no    *)
(* byte below next is lost, and alloc_count is the number of live blocks.  *)
(***************************************************************************)
EXTENDS Allocator, SlotsProofs, TLAPS, FiniteSetTheorems

\* HeapInv of any heap h, so that realloc can go through an intermediate one.
AllBlocks(h) == h.live \cup h.stash \cup h.leaked
Disjoint(h) == \A b, c \in AllBlocks(h) : b # c => Bytes(b) \cap Bytes(c) = {}
OneFate(h) ==
    /\ h.live \cap h.stash = {}
    /\ h.live \cap h.leaked = {}
    /\ h.stash \cap h.leaked = {}
Below(h) == \A b \in AllBlocks(h) : b.addr + b.size <= h.next
Fits(h) == h.next = 0 \/ h.next < HeapLen
Counted(h) == IsFiniteSet(h.live) /\ h.count = Cardinality(h.live)
Sound(h) == h \in Heap /\ Disjoint(h) /\ OneFate(h) /\ Below(h) /\ Fits(h) /\ Counted(h)

LEMMA SoundIsHeapInv == HeapInv <=> Sound(heap)
BY DEF HeapInv, Sound, TypeOK, BlocksDisjoint, BelowNext, InHeap, CountExact, Disjoint,
       OneFate, Below, Fits, Counted, AllBlocks, Blocks

LEMMA BytesOfBlock ==
    ASSUME NEW b \in Block
    PROVE  /\ b.addr \in Nat /\ b.size \in Nat /\ b.size > 0
           /\ b.addr \in Bytes(b)
           /\ b.addr + b.size - 1 \in Bytes(b)
           /\ \A a \in Int : a \in Bytes(b) <=> b.addr <= a /\ a < b.addr + b.size
BY DEF Block, Bytes

\* find_free_dealloc_ind: putting away a new block below next keeps a heap sound.
LEMMA StashedSound ==
    ASSUME NEW h \in Heap, NEW b \in Block,
           Disjoint(h), OneFate(h), Below(h), Fits(h), Counted(h),
           b.addr + b.size <= h.next,
           b \notin AllBlocks(h),
           \A c \in AllBlocks(h) : Bytes(b) \cap Bytes(c) = {}
    PROVE  /\ Sound(Stashed(h, b))
           /\ Stashed(h, b).next = h.next
           /\ Stashed(h, b).live = h.live
<1> DEFINE g == Stashed(h, b)
<1>1. /\ g \in Heap /\ g.next = h.next /\ g.count = h.count /\ g.live = h.live
      /\ \/ g.stash = h.stash \cup {b} /\ g.leaked = h.leaked
         \/ g.stash = h.stash /\ g.leaked = h.leaked \cup {b}
  BY DEF Stashed, Heap
<1> HIDE DEF g
<1>2. AllBlocks(g) = AllBlocks(h) \cup {b}  BY <1>1 DEF AllBlocks
<1>3. Disjoint(g)  BY <1>2 DEF Disjoint
<1>4. OneFate(g)  BY <1>1 DEF OneFate, AllBlocks
<1>5. Below(g)  BY <1>1, <1>2 DEF Below
<1>6. Fits(g) /\ Counted(g)  BY <1>1 DEF Fits, Counted
<1> QED  BY <1>1, <1>3, <1>4, <1>5, <1>6 DEF Sound, g

\* alloc, first part.
LEMMA PaddedSound ==
    ASSUME NEW h, Sound(h), NEW l \in [size : Nat \ {0}, align : Nat \ {0}],
           ~NoRoomForPadding(h, l)
    PROVE  Sound(Padded(h, l)) /\ Padded(h, l).next >= h.next /\ Padded(h, l).live = h.live
<1> DEFINE n == Padding(h, l)
<1>1. h \in Heap /\ h.next \in Nat  BY DEF Sound, Heap
<1>2. n \in Nat  BY <1>1 DEF Padding
<1>3. CASE n = 0  BY <1>1, <1>3 DEF Padded
<1>4. CASE n # 0
  <2> DEFINE g == [h EXCEPT !.next = @ + n]
             b == [addr |-> h.next, size |-> n, align |-> 1]
  <2>1. Padded(h, l) = Stashed(g, b)  BY <1>4 DEF Padded
  <2>2. b \in Block  BY <1>1, <1>2, <1>4 DEF Block
  <2>3. /\ g \in Heap /\ g.next = h.next + n /\ g.count = h.count
        /\ g.live = h.live /\ g.stash = h.stash /\ g.leaked = h.leaked
    BY <1>1, <1>2 DEF Heap
  <2>4. AllBlocks(g) = AllBlocks(h)  BY <2>3 DEF AllBlocks
  <2>5. \A c \in AllBlocks(h) : c \in Block /\ c.addr + c.size <= h.next
    BY <1>1 DEF AllBlocks, Heap, Sound, Below
  <2>6. \A c \in AllBlocks(h) : Bytes(b) \cap Bytes(c) = {} /\ b # c
    <3> TAKE c \in AllBlocks(h)
    <3>1. c \in Block /\ c.addr + c.size <= h.next  BY <2>5
    <3>2. b.addr = h.next /\ b.size = n  OBVIOUS
    <3> HIDE DEF b
    <3>3. \A a \in Bytes(b) : a \in Int /\ a >= h.next
      BY <1>1, <1>2, <3>2 DEF Bytes
    <3>4. \A a \in Bytes(c) : a < h.next  BY <1>1, <3>1 DEF Bytes, Block
    <3>5. Bytes(b) \cap Bytes(c) = {}  BY <1>1, <3>3, <3>4
    <3>6. b # c  BY <1>1, <3>1, <3>2 DEF Block
    <3> QED  BY <3>5, <3>6
  <2>7. Disjoint(g) /\ OneFate(g)  BY <2>3, <2>4 DEF Sound, Disjoint, OneFate
  <2>8. Below(g)
    <3>1. \A c \in AllBlocks(h) : c.addr + c.size <= h.next + n
      BY <1>1, <1>2, <2>5 DEF Block
    <3> QED  BY <2>3, <2>4, <3>1 DEF Below
  <2>9. Fits(g)  BY <1>1, <1>2, <1>4, <2>3, AllocatorAssumption DEF Fits, NoRoomForPadding
  <2>10. Counted(g)  BY <2>3 DEF Sound, Counted
  <2>11. b.addr + b.size <= g.next  BY <1>1, <1>2, <2>3
  <2>12. b \notin AllBlocks(g) /\ \A c \in AllBlocks(g) : Bytes(b) \cap Bytes(c) = {}
    BY <2>4, <2>6
  <2> HIDE DEF g, b
  <2>13. Sound(Stashed(g, b)) /\ Stashed(g, b).next = g.next /\ Stashed(g, b).live = g.live
    BY <2>2, <2>3, <2>7, <2>8, <2>9, <2>10, <2>11, <2>12, StashedSound
  <2> QED  BY <1>1, <1>2, <2>1, <2>3, <2>13
<1> QED  BY <1>3, <1>4

\* alloc, second part: the block that is given out is new.
LEMMA TakenSound ==
    ASSUME NEW h, Sound(h), NEW l \in [size : Nat \ {0}, align : Nat \ {0}],
           ~NoRoom(h, l)
    PROVE  Sound(Taken(h, l)) /\ h.live \subseteq Taken(h, l).live
<1> DEFINE p == Padded(h, l)
           b == [addr |-> p.next, size |-> l.size, align |-> l.align]
           t == Taken(h, l)
<1>1. Sound(p) /\ p.live = h.live  BY PaddedSound DEF NoRoom
<1>2. t = [p EXCEPT !.next = @ + l.size, !.count = @ + 1, !.live = @ \cup {b}]
  BY DEF Taken
<1>3. ~(p.next + l.size >= HeapLen)  BY DEF NoRoom
<1> HIDE DEF p, t
<1>4. p \in Heap /\ p.next \in Nat /\ p.count \in Nat  BY <1>1 DEF Sound, Heap
<1>5. b \in Block /\ b.addr = p.next /\ b.size = l.size  BY <1>4 DEF Block
<1> HIDE DEF b
<1>6. /\ t \in Heap /\ t.next = p.next + l.size /\ t.count = p.count + 1
      /\ t.live = p.live \cup {b} /\ t.stash = p.stash /\ t.leaked = p.leaked
  <2>1. l.size \in Nat  OBVIOUS
  <2>2. p.next + l.size \in Nat /\ p.count + 1 \in Nat  BY <1>4, <2>1
  <2>3. p.live \cup {b} \in SUBSET Block  BY <1>4, <1>5 DEF Heap
  <2> QED  BY <1>2, <1>4, <2>2, <2>3 DEF Heap
<1>7. AllBlocks(t) = AllBlocks(p) \cup {b}  BY <1>6 DEF AllBlocks
<1>8. \A c \in AllBlocks(p) : c \in Block /\ c.addr + c.size <= p.next
  BY <1>1, <1>4 DEF AllBlocks, Heap, Sound, Below
<1>9. \A c \in AllBlocks(p) : Bytes(b) \cap Bytes(c) = {} /\ b # c
  <2> TAKE c \in AllBlocks(p)
  <2>1. c \in Block /\ c.addr + c.size <= p.next  BY <1>8
  <2>2. \A a \in Bytes(b) : a \in Int /\ a >= p.next  BY <1>4, <1>5 DEF Bytes
  <2>3. \A a \in Bytes(c) : a < p.next  BY <1>4, <2>1 DEF Bytes, Block
  <2>4. Bytes(b) \cap Bytes(c) = {}  BY <1>4, <2>2, <2>3
  <2>5. b # c  BY <1>4, <1>5, <2>1 DEF Block
  <2> QED  BY <2>4, <2>5
<1>10. Disjoint(t)
  <2>1. Disjoint(p)  BY <1>1 DEF Sound
  <2> QED  BY <1>7, <1>9, <2>1 DEF Disjoint
<1>11. OneFate(t)
  <2>1. OneFate(p)  BY <1>1 DEF Sound
  <2>2. b \notin p.stash /\ b \notin p.leaked  BY <1>9 DEF AllBlocks
  <2> QED  BY <1>6, <2>1, <2>2 DEF OneFate
<1>12. Below(t)
  <2>1. \A c \in AllBlocks(p) : c.addr + c.size <= p.next + l.size
    BY <1>4, <1>8 DEF Block
  <2>2. b.addr + b.size <= p.next + l.size  BY <1>4, <1>5
  <2> QED  BY <1>6, <1>7, <2>1, <2>2 DEF Below
<1>13. Fits(t)  BY <1>3, <1>4, <1>6, AllocatorAssumption DEF Fits
<1>14. Counted(t)
  <2>1. IsFiniteSet(p.live) /\ p.count = Cardinality(p.live)  BY <1>1 DEF Sound, Counted
  <2>2. b \notin p.live  BY <1>9 DEF AllBlocks
  <2>3. /\ IsFiniteSet(p.live \cup {b})
        /\ Cardinality(p.live \cup {b}) = Cardinality(p.live) + 1
    BY <2>1, <2>2, FS_AddElement
  <2> QED  BY <1>6, <2>1, <2>3 DEF Counted
<1> QED  BY <1>1, <1>6, <1>10, <1>11, <1>12, <1>13, <1>14 DEF Sound, t

\* alloc that returns null.
LEMMA RefusedSound ==
    ASSUME NEW h, Sound(h), NEW l \in [size : Nat \ {0}, align : Nat \ {0}]
    PROVE  Sound(Refused(h, l))
BY PaddedSound DEF Refused

\* The loop over the stash: whatever it pops next to, no block is cut in two and
\* no live block is popped.
LEMMA PoppedSound ==
    ASSUME NEW h, Sound(h)
    PROVE  Sound(Popped(h))
<1> DEFINE n == Min(Heights(h))
           p == Popped(h)
<1>1. /\ h \in Heap /\ h.next \in Nat /\ Disjoint(h) /\ OneFate(h) /\ Below(h)
      /\ h.live \subseteq Block /\ h.stash \subseteq Block /\ h.leaked \subseteq Block
  BY DEF Sound, Heap
<1>2. Heights(h) \in SUBSET Nat /\ h.next \in Heights(h)
  <2>1. \A b \in h.stash : b.addr \in Nat  BY <1>1 DEF Block
  <2>2. h.next .. h.next - 1 = {}  BY <1>1
  <2> QED  BY <1>1, <2>1, <2>2 DEF Heights
<1>3. n \in Heights(h) /\ n \in Nat /\ n <= h.next  BY <1>2, MinOfIndices
<1>4. /\ n \in {h.next} \cup {b.addr : b \in h.stash}
      /\ \A a \in n .. h.next - 1 : \E b \in h.stash : a \in Bytes(b)
  BY <1>3 DEF Heights
<1> HIDE DEF n
<1>5. /\ p \in Heap /\ p.next = n /\ p.count = h.count /\ p.live = h.live
      /\ p.leaked = h.leaked /\ p.stash = {b \in h.stash : b.addr < n}
  BY <1>1, <1>3 DEF Popped, Heap, n
<1> HIDE DEF p
<1>6. \A b \in AllBlocks(h) : b \in Block /\ b.addr + b.size <= h.next
  BY <1>1 DEF AllBlocks, Below
<1>7. \A b \in h.live \cup h.leaked : b.addr + b.size <= n
  <2> SUFFICES ASSUME NEW b \in h.live \cup h.leaked, ~(b.addr + b.size <= n)
               PROVE  FALSE
    OBVIOUS
  <2> DEFINE a == b.addr + b.size - 1
  <2>1. b \in AllBlocks(h)  BY DEF AllBlocks
  <2>2. b \in Block /\ b.addr + b.size <= h.next  BY <1>6, <2>1
  <2>3. b.addr \in Nat /\ b.size \in Nat /\ b.size > 0 /\ a \in Bytes(b)
    BY <2>2, BytesOfBlock
  <2>4. a \in n .. h.next - 1  BY <1>1, <1>3, <2>2, <2>3
  <2> HIDE DEF a
  <2>5. PICK c \in h.stash : a \in Bytes(c)  BY <1>4, <2>4
  <2>6. c \in AllBlocks(h)  BY DEF AllBlocks
  <2>7. b = c  BY <1>1, <2>1, <2>3, <2>5, <2>6 DEF Disjoint
  <2> QED  BY <1>1, <2>7 DEF OneFate
<1>8. \A b \in h.stash : b.addr < n => b.addr + b.size <= n
  <2> SUFFICES ASSUME NEW b \in h.stash, b.addr < n, ~(b.addr + b.size <= n)
               PROVE  FALSE
    OBVIOUS
  <2>1. b \in AllBlocks(h)  BY DEF AllBlocks
  <2>2. b \in Block /\ b.addr + b.size <= h.next  BY <1>6, <2>1
  <2>3. PICK c \in h.stash : c.addr = n  BY <1>4, <2>2
  <2>4. c \in AllBlocks(h) /\ c \in Block  BY <1>1 DEF AllBlocks
  <2>5. n \in Bytes(c)  BY <2>3, <2>4, BytesOfBlock
  <2>6. n \in Bytes(b)
    <3>1. b.addr \in Nat /\ b.size \in Nat  BY <2>2, BytesOfBlock
    <3>2. b.addr <= n /\ n < b.addr + b.size  BY <1>3, <3>1
    <3> QED  BY <1>3, <2>2, <3>2, BytesOfBlock
  <2>7. b = c  BY <1>1, <2>1, <2>4, <2>5, <2>6 DEF Disjoint
  <2>8. b.addr \in Nat  BY <2>2, BytesOfBlock
  <2> QED  BY <1>3, <2>3, <2>7, <2>8
<1>9. AllBlocks(p) \subseteq AllBlocks(h)  BY <1>5 DEF AllBlocks
<1>10. Disjoint(p)  BY <1>1, <1>9 DEF Disjoint
<1>11. OneFate(p)  BY <1>1, <1>5 DEF OneFate
<1>12. Below(p)  BY <1>5, <1>7, <1>8 DEF Below, AllBlocks
<1>13. Fits(p)
  <2>1. Fits(h)  BY DEF Sound
  <2> QED  BY <1>1, <1>3, <1>5, <2>1, AllocatorAssumption DEF Fits
<1>14. Counted(p)  BY <1>5 DEF Sound, Counted
<1> QED  BY <1>5, <1>10, <1>11, <1>12, <1>13, <1>14 DEF Sound, p

\* An empty heap may be reset.
LEMMA ResetSound ==
    ASSUME NEW h, Sound(h), h.count = 0
    PROVE  Sound(Reset(h))
<1> DEFINE r == Reset(h)
<1>1. h.live = {}
  <2>1. IsFiniteSet(h.live) /\ Cardinality(h.live) = 0  BY DEF Sound, Counted
  <2> QED  BY <2>1, FS_EmptySet
<1>2. /\ r \in Heap /\ r.next = 0 /\ r.count = h.count /\ r.live = h.live
      /\ r.stash = {} /\ r.leaked = {}
  BY DEF Reset, Sound, Heap
<1> HIDE DEF r
<1>3. AllBlocks(r) = {}  BY <1>1, <1>2 DEF AllBlocks
<1>4. Disjoint(r) /\ Below(r)  BY <1>3 DEF Disjoint, Below
<1>5. OneFate(r) /\ Fits(r)  BY <1>2 DEF OneFate, Fits
<1>6. Counted(r)  BY <1>2 DEF Sound, Counted
<1> QED  BY <1>2, <1>4, <1>5, <1>6 DEF Sound, r

LEMMA StashTriedSound ==
    ASSUME NEW h, Sound(h)
    PROVE  Sound(StashTried(h))
<1>1. Sound(Popped(h))  BY PoppedSound
<1>2. Popped(h).count = 0 => Sound(Reset(Popped(h)))  BY <1>1, ResetSound
<1> QED  BY <1>1, <1>2 DEF StashTried

\* dealloc of the block at the top, before the stash is looked at.
Lowered(h, b) ==
    [[h EXCEPT !.count = @ - 1, !.live = @ \ {b}] EXCEPT !.next = @ - b.size]

\* dealloc
LEMMA FreedSound ==
    ASSUME NEW h, Sound(h), NEW b \in h.live
    PROVE  Sound(Freed(h, b)) /\ (AtTop(h, b) => Sound(Lowered(h, b)))
<1> DEFINE g == [h EXCEPT !.count = @ - 1, !.live = @ \ {b}]
           d == [g EXCEPT !.next = @ - b.size]
<1>1. /\ h \in Heap /\ h.next \in Nat /\ h.count \in Nat
      /\ Disjoint(h) /\ OneFate(h) /\ Below(h) /\ Fits(h) /\ Counted(h)
  BY DEF Sound, Heap
<1>2. b \in AllBlocks(h) /\ b \in Block /\ b.addr + b.size <= h.next
  BY <1>1 DEF AllBlocks, Heap, Below
<1>3. b.addr \in Nat /\ b.size \in Nat /\ b.size > 0  BY <1>2, BytesOfBlock
<1>4. /\ IsFiniteSet(h.live \ {b}) /\ h.count - 1 = Cardinality(h.live \ {b})
      /\ h.count - 1 \in Nat
  <2>1. IsFiniteSet(h.live) /\ h.count = Cardinality(h.live)  BY <1>1 DEF Counted
  <2>2. /\ IsFiniteSet(h.live \ {b})
        /\ Cardinality(h.live \ {b}) = Cardinality(h.live) - 1
    BY <2>1, FS_RemoveElement
  <2>3. Cardinality(h.live \ {b}) \in Nat  BY <2>2, FS_CardinalityType
  <2> QED  BY <2>1, <2>2, <2>3
<1>5. /\ g \in Heap /\ g.next = h.next /\ g.count = h.count - 1
      /\ g.live = h.live \ {b} /\ g.stash = h.stash /\ g.leaked = h.leaked
  BY <1>1, <1>4 DEF Heap
<1>6. Freed(h, b) = IF AtTop(g, b) THEN StashTried(d)
                    ELSE IF g.count = 0 THEN Reset(g) ELSE Stashed(g, b)
  BY DEF Freed
<1> HIDE DEF g
<1>7. /\ AllBlocks(g) \subseteq AllBlocks(h) /\ b \notin AllBlocks(g)
      /\ AllBlocks(g) = AllBlocks(h) \ {b}
  BY <1>1, <1>5 DEF AllBlocks, OneFate
<1>8. Sound(g)
  <2>1. Disjoint(g)  BY <1>1, <1>7 DEF Disjoint
  <2>2. OneFate(g)  BY <1>1, <1>5 DEF OneFate
  <2>3. Below(g)  BY <1>1, <1>5, <1>7 DEF Below
  <2>4. Fits(g)  BY <1>1, <1>5 DEF Fits
  <2>5. Counted(g)  BY <1>4, <1>5 DEF Counted
  <2> QED  BY <1>5, <2>1, <2>2, <2>3, <2>4, <2>5 DEF Sound
<1>9. \A c \in AllBlocks(g) : Bytes(b) \cap Bytes(c) = {}
  BY <1>1, <1>2, <1>7 DEF Disjoint
<1>10. AtTop(h, b) <=> AtTop(g, b)  BY <1>5 DEF AtTop
<1>11. Lowered(h, b) = d  BY DEF Lowered, g
<1>12. CASE AtTop(g, b)
  <2>1. b.addr + b.size = h.next  BY <1>5, <1>12 DEF AtTop
  <2>2. h.next - b.size = b.addr  BY <1>1, <1>3, <2>1
  <2>3. /\ d \in Heap /\ d.next = b.addr /\ d.count = g.count /\ d.live = g.live
        /\ d.stash = g.stash /\ d.leaked = g.leaked
    BY <1>3, <1>5, <2>2 DEF Heap
  <2> HIDE DEF d
  <2>4. AllBlocks(d) = AllBlocks(g)  BY <2>3 DEF AllBlocks
  <2>5. \A c \in AllBlocks(g) : c.addr + c.size <= b.addr
    <3> TAKE c \in AllBlocks(g)
    <3>1. c \in Block /\ c.addr + c.size <= h.next
      BY <1>1, <1>7 DEF AllBlocks, Heap, Below
    <3>2. c.addr \in Nat /\ c.size \in Nat /\ c.size > 0
          /\ c.addr + c.size - 1 \in Bytes(c)
      BY <3>1, BytesOfBlock
    <3>3. c.addr + c.size - 1 \notin Bytes(b)  BY <1>9, <3>2
    <3>4. c.addr + c.size - 1 \in Int  BY <3>2
    <3>5. ~(b.addr <= c.addr + c.size - 1 /\ c.addr + c.size - 1 < b.addr + b.size)
      BY <1>2, <3>3, <3>4, BytesOfBlock
    <3> QED  BY <1>3, <2>1, <3>1, <3>2, <3>5
  <2>6. Below(d)  BY <2>3, <2>4, <2>5 DEF Below
  <2>7. Disjoint(d) /\ OneFate(d)  BY <1>8, <2>3, <2>4 DEF Sound, Disjoint, OneFate
  <2>8. Fits(d)  BY <1>1, <1>3, <2>1, <2>3, AllocatorAssumption DEF Fits
  <2>9. Counted(d)  BY <1>8, <2>3 DEF Sound, Counted
  <2>10. Sound(d)  BY <2>3, <2>6, <2>7, <2>8, <2>9 DEF Sound
  <2> QED  BY <1>6, <1>12, <1>11, <2>10, StashTriedSound
<1>13. CASE ~AtTop(g, b) /\ g.count = 0  BY <1>6, <1>8, <1>13, <1>10, ResetSound
<1>14. CASE ~AtTop(g, b) /\ g.count # 0
  <2>1. Sound(Stashed(g, b))
    BY <1>2, <1>5, <1>7, <1>8, <1>9, StashedSound DEF Sound
  <2> QED  BY <1>6, <1>14, <1>10, <2>1
<1> QED  BY <1>12, <1>13, <1>14

(***************************************************************************)
(* Nothing is lost: what the heap keeps besides being sound.               *)
(***************************************************************************)

\* NothingLost, the alignment of offsets, StashBounded and EmptyIsReset of any heap h.
Covered(h) == \A a \in 0 .. h.next - 1 : \E b \in AllBlocks(h) : a \in Bytes(b)
LiveAligned(h) == \A b \in h.live : b.addr % b.align = 0
Bounded(h) == IsFiniteSet(h.stash) /\ Cardinality(h.stash) <= StashSize
Emptied(h) == h.live = {} /\ h.leaked = {} => h.next = 0
Tidy(h) == Covered(h) /\ LiveAligned(h) /\ Bounded(h) /\ Emptied(h)

\* An offset that is a multiple of the alignment leaves the base as aligned as it was.
LEMMA AlignedOffset ==
    ASSUME NEW base \in Nat, NEW n \in Nat, NEW a \in Nat \ {0}, n % a = 0
    PROVE  (base + n) % a = base % a
<1> DEFINE k == n \div a
           q == base \div a
           r == base % a
<1>1. k \in Nat /\ n = a * k  BY SMTT(30)
<1>2. q \in Nat /\ r \in 0 .. a - 1 /\ base = a * q + r  BY SMTT(30)
<1>3. base + n = a * (q + k) + r  BY <1>1, <1>2, SMTT(30)
<1> DEFINE m == base + n
           t == m \div a
           s == m % a
<1>4. t \in Nat /\ s \in 0 .. a - 1 /\ m = a * t + s  BY SMTT(30)
<1>5. a * (t - (q + k)) = r - s  BY <1>1, <1>2, <1>3, <1>4, SMTT(30)
<1>6. t - (q + k) = 0
  <2> DEFINE d == t - (q + k)
  <2>1. d \in Int /\ a * d = r - s  BY <1>1, <1>2, <1>4, <1>5
  <2>2. r - s < a /\ r - s > -a  BY <1>2, <1>4
  <2> HIDE DEF d, k, q, r, m, t, s
  <2>3. CASE d >= 1
    <3>1. a * d >= a  BY <2>1, <2>3, SMTT(30)
    <3> QED  BY <3>1, <2>1, <2>2, <1>2, <1>4
  <2>4. CASE d <= -1
    <3>1. a * d <= -a  BY <2>1, <2>4, SMTT(30)
    <3> QED  BY <3>1, <2>1, <2>2, <1>2, <1>4
  <2>5. d = 0  BY <2>1, <2>3, <2>4 DEF d
  <2> QED  BY <2>5 DEF d
<1>7. r = s  BY <1>5, <1>6, <1>2, <1>4
<1> QED  BY <1>7

LEMMA TidyIsWellFormed ==
    ASSUME Sound(heap), Tidy(heap)
    PROVE  HeapWellFormed
<1>1. Aligned
  <2> SUFFICES ASSUME NEW b \in heap.live  PROVE (Base + b.addr) % b.align = Base % b.align
    BY DEF Aligned
  <2>1. b \in Block  BY DEF Sound, Heap
  <2>2. b.addr \in Nat /\ b.align \in Nat \ {0}  BY <2>1 DEF Block
  <2>3. b.addr % b.align = 0  BY DEF Tidy, LiveAligned
  <2> QED  BY <2>2, <2>3, AlignedOffset, AllocatorAssumption
<1> QED
  BY <1>1 DEF HeapWellFormed, Sound, Tidy, TypeOK, BelowNext, InHeap, NothingLost,
     StashBounded, EmptyIsReset, Below, Fits, Covered, Bounded, Emptied, AllBlocks, Blocks

\* find_free_dealloc_ind: the stash takes a block only while it has room.
LEMMA StashedBounded ==
    ASSUME NEW h \in Heap, NEW b \in Block, Bounded(h)
    PROVE  /\ Bounded(Stashed(h, b))
           /\ AllBlocks(Stashed(h, b)) = AllBlocks(h) \cup {b}
           /\ Stashed(h, b).next = h.next
           /\ Stashed(h, b).live = h.live
           /\ h.leaked \subseteq Stashed(h, b).leaked
<1> DEFINE g == Stashed(h, b)
<1>1. CASE Cardinality(h.stash) < StashSize
  <2>1. /\ g.stash = h.stash \cup {b} /\ g.leaked = h.leaked
        /\ g.next = h.next /\ g.live = h.live
    BY <1>1 DEF Stashed, Heap
  <2> HIDE DEF g
  <2>2. /\ IsFiniteSet(h.stash \cup {b})
        /\ Cardinality(h.stash \cup {b}) <= Cardinality(h.stash) + 1
    <3>1. IsFiniteSet(h.stash) /\ Cardinality(h.stash) \in Nat
      BY FS_CardinalityType DEF Bounded
    <3> QED  BY <3>1, FS_AddElement
  <2>3. Cardinality(h.stash) \in Nat /\ Cardinality(h.stash \cup {b}) \in Nat
    BY <2>2, FS_CardinalityType DEF Bounded
  <2>4. Bounded(g)  BY <1>1, <2>1, <2>2, <2>3, AllocatorAssumption DEF Bounded
  <2> QED  BY <2>1, <2>4 DEF AllBlocks, g
<1>2. CASE ~(Cardinality(h.stash) < StashSize)
  <2>1. /\ g.stash = h.stash /\ g.leaked = h.leaked \cup {b}
        /\ g.next = h.next /\ g.live = h.live
    BY <1>2 DEF Stashed, Heap
  <2> HIDE DEF g
  <2> QED  BY <2>1 DEF AllBlocks, Bounded, g
<1> QED  BY <1>1, <1>2

\* What alignment takes: next and its padding are a multiple of the alignment.
LEMMA PaddingAligns ==
    ASSUME NEW n \in Nat, NEW a \in Nat \ {0}
    PROVE  (n + (a - (n % a))) % a = 0
OBVIOUS

\* alloc, first part: the padding is a block of the stash or leaked, and an empty
\* heap needs none.
LEMMA PaddedTidy ==
    ASSUME NEW h, Sound(h), Tidy(h), NEW l \in [size : Nat \ {0}, align : Nat \ {0}]
    PROVE  Tidy(Padded(h, l)) /\ Padded(h, l).next % l.align = 0
<1> DEFINE n == Padding(h, l)
<1>1. h \in Heap /\ h.next \in Nat  BY DEF Sound, Heap
<1>2. n \in Nat  BY <1>1 DEF Padding
<1>3. CASE n = 0
  <2>1. h.next % l.align = 0  BY <1>1, <1>3 DEF Padding
  <2> QED  BY <1>3, <2>1 DEF Padded
<1>4. CASE n # 0
  <2> DEFINE g == [h EXCEPT !.next = @ + n]
             b == [addr |-> h.next, size |-> n, align |-> 1]
             p == Padded(h, l)
  <2>1. p = Stashed(g, b)  BY <1>4 DEF Padded
  <2>2. b \in Block /\ b.addr = h.next /\ b.size = n  BY <1>1, <1>2, <1>4 DEF Block
  <2>3. /\ g \in Heap /\ g.next = h.next + n
        /\ g.live = h.live /\ g.stash = h.stash /\ g.leaked = h.leaked
    BY <1>1, <1>2 DEF Heap
  <2>4. h.next + n = h.next + (l.align - (h.next % l.align))  BY <1>4 DEF Padding
  <2>5. (h.next + n) % l.align = 0  BY <1>1, <2>4, PaddingAligns
  <2>6. h.next # 0
    <3>1. \A a \in Nat \ {0} : 0 % a = 0  OBVIOUS
    <3> QED  BY <1>4, <3>1 DEF Padding
  <2> HIDE DEF g, b, p, n
  <2>7. Bounded(g)  BY <2>3 DEF Tidy, Bounded
  <2>8. /\ Bounded(p) /\ AllBlocks(p) = AllBlocks(g) \cup {b} /\ p.next = h.next + n
        /\ p.live = h.live /\ h.leaked \subseteq p.leaked
    BY <2>1, <2>2, <2>3, <2>7, StashedBounded
  <2>9. Covered(p)
    <3> SUFFICES ASSUME NEW a \in 0 .. p.next - 1
                 PROVE  \E c \in AllBlocks(p) : a \in Bytes(c)
      BY DEF Covered
    <3>1. CASE a < h.next
      <4>1. a \in 0 .. h.next - 1  BY <1>1, <3>1
      <4>2. \E c \in AllBlocks(h) : a \in Bytes(c)  BY <4>1 DEF Tidy, Covered
      <4> QED  BY <2>3, <2>8, <4>2 DEF AllBlocks
    <3>2. CASE ~(a < h.next)
      <4>1. a \in Bytes(b)  BY <1>1, <1>2, <2>2, <2>8, <3>2 DEF Bytes
      <4> QED  BY <2>8, <4>1
    <3> QED  BY <3>1, <3>2
  <2>10. LiveAligned(p)  BY <2>8 DEF Tidy, LiveAligned
  <2>11. Emptied(p)  BY <2>6, <2>8 DEF Tidy, Emptied
  <2>12. p.next % l.align = 0  BY <2>5, <2>8
  <2> QED  BY <2>8, <2>9, <2>10, <2>11, <2>12 DEF Tidy, p
<1> QED  BY <1>3, <1>4

\* alloc, second part: the block that is given out is aligned.
LEMMA TakenTidy ==
    ASSUME NEW h, Sound(h), Tidy(h), NEW l \in [size : Nat \ {0}, align : Nat \ {0}],
           ~NoRoom(h, l)
    PROVE  Tidy(Taken(h, l))
<1> DEFINE p == Padded(h, l)
           b == [addr |-> p.next, size |-> l.size, align |-> l.align]
           t == Taken(h, l)
<1>1. Sound(p)  BY PaddedSound DEF NoRoom
<1>2. Tidy(p) /\ p.next % l.align = 0  BY PaddedTidy
<1>3. t = [p EXCEPT !.next = @ + l.size, !.count = @ + 1, !.live = @ \cup {b}]
  BY DEF Taken
<1> HIDE DEF p, t
<1>4. p \in Heap /\ p.next \in Nat  BY <1>1 DEF Sound, Heap
<1>5. b.addr = p.next /\ b.size = l.size /\ b.align = l.align  OBVIOUS
<1> HIDE DEF b
<1>6. /\ t.next = p.next + l.size /\ t.live = p.live \cup {b}
      /\ t.stash = p.stash /\ t.leaked = p.leaked
  BY <1>3, <1>4 DEF Heap
<1>7. Covered(t)
  <2> SUFFICES ASSUME NEW a \in 0 .. t.next - 1
               PROVE  \E c \in AllBlocks(t) : a \in Bytes(c)
    BY DEF Covered
  <2>1. CASE a < p.next
    <3>1. a \in 0 .. p.next - 1  BY <1>4, <2>1
    <3>2. \E c \in AllBlocks(p) : a \in Bytes(c)  BY <1>2, <3>1 DEF Tidy, Covered
    <3> QED  BY <1>6, <3>2 DEF AllBlocks
  <2>2. CASE ~(a < p.next)
    <3>1. a \in Bytes(b)  BY <1>4, <1>5, <1>6, <2>2 DEF Bytes
    <3> QED  BY <1>6, <3>1 DEF AllBlocks
  <2> QED  BY <2>1, <2>2
<1>8. LiveAligned(t)  BY <1>2, <1>5, <1>6 DEF Tidy, LiveAligned
<1>9. Bounded(t)  BY <1>2, <1>6 DEF Tidy, Bounded
<1>10. Emptied(t)  BY <1>6 DEF Emptied
<1> QED  BY <1>7, <1>8, <1>9, <1>10 DEF Tidy, t

\* alloc that returns null.
LEMMA RefusedTidy ==
    ASSUME NEW h, Sound(h), Tidy(h), NEW l \in [size : Nat \ {0}, align : Nat \ {0}]
    PROVE  Tidy(Refused(h, l))
BY PaddedTidy DEF Refused

\* The loop over the stash, and the reset it ends in: a heap without live or leaked
\* blocks is popped down to its first byte.
LEMMA StashTriedTidy ==
    ASSUME NEW h, Sound(h), Covered(h), LiveAligned(h), Bounded(h)
    PROVE  Tidy(StashTried(h))
<1> DEFINE p == Popped(h)
           s == StashTried(h)
<1>1. Sound(p)  BY PoppedSound
<1>2. h \in Heap /\ h.next \in Nat  BY DEF Sound, Heap
<1>3. /\ p.live = h.live /\ p.count = h.count /\ p.leaked = h.leaked
      /\ p.stash = {b \in h.stash : b.addr < p.next}
  BY <1>2 DEF Popped, Heap
<1>4. p.next \in Nat /\ p.next <= h.next
  <2>1. \A b \in h.stash : b.addr \in Nat  BY <1>2 DEF Heap, Block
  <2>2. h.next .. h.next - 1 = {}  BY <1>2
  <2>3. Heights(h) \in SUBSET Nat /\ h.next \in Heights(h)
    BY <1>2, <2>1, <2>2 DEF Heights
  <2>4. Min(Heights(h)) \in Nat /\ Min(Heights(h)) <= h.next  BY <2>3, MinOfIndices
  <2>5. p.next = Min(Heights(h))  BY <1>2 DEF Popped, Heap
  <2> QED  BY <2>4, <2>5
<1>5. s = IF p.stash # {} /\ p.count = 0 THEN Reset(p) ELSE p  BY DEF StashTried
<1> HIDE DEF p, s
<1>6. Covered(p)
  <2> SUFFICES ASSUME NEW a \in 0 .. p.next - 1
               PROVE  \E c \in AllBlocks(p) : a \in Bytes(c)
    BY DEF Covered
  <2>1. a \in 0 .. h.next - 1 /\ a < p.next  BY <1>2, <1>4
  <2>2. PICK c \in AllBlocks(h) : a \in Bytes(c)  BY <2>1 DEF Covered
  <2>3. c \in Block  BY <1>2 DEF AllBlocks, Heap
  <2>4. c.addr \in Nat /\ c.addr <= a  BY <2>1, <2>2, <2>3, BytesOfBlock
  <2>5. c.addr < p.next  BY <1>4, <2>1, <2>4
  <2> QED  BY <1>3, <2>2, <2>5 DEF AllBlocks
<1>7. LiveAligned(p)  BY <1>3 DEF LiveAligned
<1>8. Bounded(p)
  <2>1. p.stash \subseteq h.stash  BY <1>3
  <2>2. IsFiniteSet(p.stash) /\ Cardinality(p.stash) <= Cardinality(h.stash)
    BY <2>1, FS_Subset DEF Bounded
  <2>3. Cardinality(p.stash) \in Nat /\ Cardinality(h.stash) \in Nat
    BY <2>2, FS_CardinalityType DEF Bounded
  <2> QED  BY <2>2, <2>3, AllocatorAssumption DEF Bounded
<1>9. CASE p.stash # {} /\ p.count = 0  
  <2>1. s.live = p.live /\ s.next = 0 /\ s.stash = {}
    BY <1>1, <1>5, <1>9 DEF Reset, Sound, Heap
  <2>2. Covered(s)
    <3>1. 0 .. s.next - 1 = {}  BY <2>1
    <3> QED  BY <3>1 DEF Covered
  <2>3. LiveAligned(s) /\ Emptied(s)  BY <1>7, <2>1 DEF LiveAligned, Emptied
  <2>4. Bounded(s)  BY <2>1, FS_EmptySet, AllocatorAssumption DEF Bounded
  <2> QED  BY <2>2, <2>3, <2>4 DEF Tidy, s
<1>10. CASE ~(p.stash # {} /\ p.count = 0)
  <2> SUFFICES Emptied(p)  BY <1>5, <1>6, <1>7, <1>8, <1>10 DEF Tidy, s
  <2> SUFFICES ASSUME p.live = {}, p.leaked = {}, p.next # 0  PROVE FALSE
    BY DEF Emptied
  <2>1. p.count = 0
    <3>1. IsFiniteSet(p.live) /\ p.count = Cardinality(p.live)  BY <1>1 DEF Sound, Counted
    <3> QED  BY <3>1, FS_EmptySet
  <2>2. AllBlocks(p) = {}  BY <1>10, <2>1 DEF AllBlocks
  <2>3. 0 \in 0 .. p.next - 1  BY <1>4
  <2> QED  BY <1>6, <2>2, <2>3 DEF Covered
<1> QED  BY <1>9, <1>10

\* dealloc
LEMMA FreedTidy ==
    ASSUME NEW h, Sound(h), Tidy(h), NEW b \in h.live
    PROVE  Tidy(Freed(h, b))
<1> DEFINE g == [h EXCEPT !.count = @ - 1, !.live = @ \ {b}]
           d == [g EXCEPT !.next = @ - b.size]
           f == Freed(h, b)
<1>1. h \in Heap /\ h.next \in Nat /\ h.count \in Nat  BY DEF Sound, Heap
<1>2. b \in Block /\ b.addr + b.size <= h.next
  BY <1>1 DEF Sound, AllBlocks, Heap, Below
<1>3. b.addr \in Nat /\ b.size \in Nat /\ b.size > 0  BY <1>2, BytesOfBlock
<1>4. /\ g \in Heap /\ g.next = h.next /\ g.count = h.count - 1
      /\ g.live = h.live \ {b} /\ g.stash = h.stash /\ g.leaked = h.leaked
  <2>1. Sound(h) => Cardinality(h.live) \in Nat /\ h.count = Cardinality(h.live) /\ IsFiniteSet(h.live)
    BY FS_CardinalityType DEF Sound, Counted
  <2>2. Cardinality(h.live) # 0  BY <2>1, FS_EmptySet
  <2>3. h.count - 1 \in Nat  BY <2>1, <2>2
  <2> QED  BY <1>1, <2>3 DEF Heap
<1>5. f = IF AtTop(g, b) THEN StashTried(d)
          ELSE IF g.count = 0 THEN Reset(g) ELSE Stashed(g, b)
  BY DEF Freed
<1> HIDE DEF g, f
<1>6. g.count = 0 <=> g.live = {}
  <2>1. IsFiniteSet(h.live) /\ h.count = Cardinality(h.live)  BY DEF Sound, Counted
  <2>2. /\ IsFiniteSet(g.live) /\ Cardinality(g.live) = Cardinality(h.live) - 1
    BY <1>4, <2>1, FS_RemoveElement
  <2> QED  BY <1>4, <2>1, <2>2, FS_EmptySet
<1>7. LiveAligned(g) /\ Bounded(g)  BY <1>4 DEF Tidy, LiveAligned, Bounded
<1>8. AllBlocks(h) = AllBlocks(g) \cup {b}  BY <1>4 DEF AllBlocks
<1>9. CASE AtTop(g, b)
  <2>1. b.addr + b.size = h.next  BY <1>4, <1>9 DEF AtTop
  <2>2. h.next - b.size = b.addr  BY <1>1, <1>3, <2>1
  <2>3. /\ d \in Heap /\ d.next = b.addr /\ d.count = g.count /\ d.live = g.live
        /\ d.stash = g.stash /\ d.leaked = g.leaked
    BY <1>3, <1>4, <2>2 DEF Heap
  <2>4. Sound(d)
    <3>1. AtTop(h, b) /\ Lowered(h, b) = d  BY <2>1 DEF AtTop, Lowered, g
    <3> QED  BY <3>1, FreedSound
  <2> HIDE DEF d
  <2>5. Covered(d)
    <3> SUFFICES ASSUME NEW a \in 0 .. d.next - 1
                 PROVE  \E c \in AllBlocks(d) : a \in Bytes(c)
      BY DEF Covered
    <3>1. a \in 0 .. h.next - 1 /\ a < b.addr  BY <1>1, <1>2, <1>3, <2>3
    <3>2. PICK c \in AllBlocks(h) : a \in Bytes(c)  BY <3>1 DEF Tidy, Covered
    <3>3. a \notin Bytes(b)  BY <1>2, <1>3, <3>1, BytesOfBlock
    <3> QED  BY <1>8, <2>3, <3>2, <3>3 DEF AllBlocks
  <2>6. LiveAligned(d) /\ Bounded(d)  BY <1>7, <2>3 DEF LiveAligned, Bounded
  <2> QED  BY <1>5, <1>9, <2>4, <2>5, <2>6, StashTriedTidy DEF f
<1>10. CASE ~AtTop(g, b) /\ g.count = 0
  <2>1. f = Reset(g)  BY <1>5, <1>10
  <2>2. f.live = g.live /\ f.next = 0 /\ f.stash = {}  BY <1>4, <2>1 DEF Reset, Heap
  <2>3. Covered(f)
    <3>1. 0 .. f.next - 1 = {}  BY <2>2
    <3> QED  BY <3>1 DEF Covered
  <2>4. LiveAligned(f) /\ Emptied(f)  BY <1>7, <2>2 DEF LiveAligned, Emptied
  <2>5. Bounded(f)  BY <2>2, FS_EmptySet, AllocatorAssumption DEF Bounded
  <2> QED  BY <2>3, <2>4, <2>5 DEF Tidy, f
<1>11. CASE ~AtTop(g, b) /\ g.count # 0
  <2>1. f = Stashed(g, b)  BY <1>5, <1>11
  <2>2. /\ Bounded(f) /\ AllBlocks(f) = AllBlocks(g) \cup {b} /\ f.next = h.next
        /\ f.live = g.live
    BY <1>2, <1>4, <1>7, <2>1, StashedBounded
  <2>3. Covered(f)  BY <1>8, <2>2 DEF Tidy, Covered
  <2>4. LiveAligned(f)  BY <1>7, <2>2 DEF LiveAligned
  <2>5. Emptied(f)  BY <1>6, <1>11, <2>2 DEF Emptied
  <2> QED  BY <2>2, <2>3, <2>4, <2>5 DEF Tidy, f
<1> QED  BY <1>9, <1>10, <1>11

(***************************************************************************)
(* The loop over the stash: Popped, in which the heap is lowered at once,  *)
(* is what the iterations of the code come to.                             *)
(***************************************************************************)

\* The stashed block with the highest address, which the loop tries first.
Highest(h) == CHOOSE b \in h.stash : \A c \in h.stash : c.addr <= b.addr

\* The stash has a highest block unless it is empty.
LEMMA HighestIs ==
    ASSUME NEW h, Sound(h), h.stash # {}
    PROVE  Highest(h) \in h.stash /\ \A c \in h.stash : c.addr <= Highest(h).addr
<1>1. h.next \in Nat /\ h.stash \subseteq Block /\ Below(h)  BY DEF Sound, Heap
<1>2. \A c \in h.stash : c.addr \in Nat /\ c.addr < h.next
  <2> TAKE c \in h.stash
  <2>1. c \in Block /\ c \in AllBlocks(h)  BY <1>1 DEF AllBlocks
  <2>2. c.addr \in Nat /\ c.size \in Nat /\ c.size > 0  BY <2>1, BytesOfBlock
  <2>3. c.addr + c.size <= h.next  BY <1>1, <2>1 DEF Below
  <2> QED  BY <1>1, <2>2, <2>3
<1> DEFINE D == {h.next - c.addr : c \in h.stash}
           m == Min(D)
<1>3. D \in SUBSET Nat /\ D # {}  BY <1>1, <1>2
<1> HIDE DEF D
<1>4. m \in D /\ \A x \in D : m <= x  BY <1>3, MinOfIndices
<1> HIDE DEF m
<1>5. PICK b \in h.stash : m = h.next - b.addr  BY <1>4 DEF D
<1>6. \A c \in h.stash : c.addr <= b.addr
  <2> TAKE c \in h.stash
  <2>1. h.next - c.addr \in D  BY DEF D
  <2>2. h.next - b.addr <= h.next - c.addr  BY <1>4, <1>5, <2>1
  <2> QED  BY <1>1, <1>2, <2>2
<1> QED  BY <1>6 DEF Highest

\* What an iteration does, by cases.
LEMMA IterationIs ==
    ASSUME NEW h
    PROVE  Iteration(h) = IF h.stash = {} THEN h
                          ELSE IF AtTop(h, Highest(h))
                          THEN [h EXCEPT !.next = @ - Highest(h).size, !.stash = @ \ {Highest(h)}]
                          ELSE IF h.count = 0 THEN Reset(h) ELSE h
BY DEF Iteration, Highest

\* Nothing is popped while the highest stashed block is not at the top: the blocks
\* below it do not reach there.
LEMMA NotPopped ==
    ASSUME NEW h, Sound(h), h.stash # {} => ~AtTop(h, Highest(h))
    PROVE  Popped(h) = h
<1>1. /\ h \in Heap /\ h.next \in Nat /\ h.stash \subseteq Block /\ Below(h) /\ Disjoint(h)
  BY DEF Sound, Heap
<1>2. \A c \in h.stash : c \in AllBlocks(h) /\ c.addr \in Nat /\ c.size \in Nat /\ c.size > 0 /\ c.addr + c.size <= h.next
  <2> TAKE c \in h.stash
  <2>1. c \in Block /\ c \in AllBlocks(h)  BY <1>1 DEF AllBlocks
  <2>2. c.addr \in Nat /\ c.size \in Nat /\ c.size > 0  BY <2>1, BytesOfBlock
  <2> QED  BY <1>1, <2>1, <2>2 DEF Below
<1>3. ASSUME NEW n \in Heights(h)  PROVE n = h.next
  <2> SUFFICES ASSUME n # h.next  PROVE FALSE  OBVIOUS
  <2>1. n \in Nat /\ n <= h.next  BY <1>1, <1>2 DEF Heights
  <2>2. h.next - 1 \in n .. h.next - 1  BY <1>1, <2>1
  <2>3. PICK c \in h.stash : h.next - 1 \in Bytes(c)  BY <2>2 DEF Heights
  <2>4. c.addr + c.size = h.next
    <3>1. h.next - 1 < c.addr + c.size  BY <1>1, <2>3, BytesOfBlock
    <3> QED  BY <1>1, <1>2, <3>1
  <2> DEFINE b == Highest(h)
  <2>5. b \in h.stash /\ c.addr <= b.addr  BY HighestIs
  <2>6. ~AtTop(h, b)  BY <2>5
  <2> HIDE DEF b
  <2>7. c # b  BY <2>4, <2>6 DEF AtTop
  <2>8. b.addr \in Bytes(b)  BY <1>1, <2>5, BytesOfBlock
  <2>9. b.addr \in Bytes(c)
    <3>1. b.addr \in Int /\ c.addr <= b.addr /\ b.addr < c.addr + c.size  BY <1>1, <1>2, <2>4, <2>5
    <3> QED  BY <1>1, <3>1, BytesOfBlock
  <2>10. Bytes(b) \cap Bytes(c) = {}  BY <1>1, <1>2, <2>5, <2>7 DEF Disjoint
  <2> QED  BY <2>8, <2>9, <2>10
<1>4. h.next \in Heights(h)
  <2>1. h.next .. h.next - 1 = {}  BY <1>1
  <2> QED  BY <1>1, <2>1 DEF Heights
<1>5. Heights(h) \in SUBSET Nat  BY <1>1, <1>3
<1>6. Min(Heights(h)) = h.next  BY <1>3, <1>4, <1>5, MinOfIndices
<1>7. {b \in h.stash : b.addr < h.next} = h.stash  BY <1>1, <1>2
<1>8. Popped(h) = [h EXCEPT !.next = h.next, !.stash = h.stash]  BY <1>6, <1>7 DEF Popped
<1> QED  BY <1>1, <1>8 DEF Heap

\* Popping the highest block when it is at the top takes nothing away from what is
\* popped after it.
LEMMA PoppedOnce ==
    ASSUME NEW h, Sound(h), h.stash # {}, AtTop(h, Highest(h)),
           NEW q, q = [h EXCEPT !.next = @ - Highest(h).size, !.stash = @ \ {Highest(h)}]
    PROVE  Sound(q) /\ Popped(q) = Popped(h)
<1> DEFINE b == Highest(h)
<1>1. /\ h \in Heap /\ h.next \in Nat /\ h.stash \subseteq Block /\ h.live \subseteq Block /\ h.leaked \subseteq Block
      /\ Below(h) /\ Disjoint(h) /\ OneFate(h) /\ Fits(h) /\ Counted(h)
  BY DEF Sound, Heap
<1>2. b \in h.stash /\ AtTop(h, b)  BY HighestIs
<1>3. q = [h EXCEPT !.next = @ - b.size, !.stash = @ \ {b}]  OBVIOUS
<1> HIDE DEF b
<1>4. /\ b \in Block /\ b \in AllBlocks(h) /\ b.addr \in Nat /\ b.size \in Nat /\ b.size > 0
      /\ b.addr + b.size = h.next /\ h.next - b.size = b.addr
  <2>1. b \in Block /\ b \in AllBlocks(h)  BY <1>1, <1>2 DEF AllBlocks
  <2>2. b.addr \in Nat /\ b.size \in Nat /\ b.size > 0  BY <2>1, BytesOfBlock
  <2> QED  BY <1>1, <1>2, <2>1, <2>2 DEF AtTop
<1>5. /\ q \in Heap /\ q.next = b.addr /\ q.stash = h.stash \ {b} /\ q.live = h.live
      /\ q.count = h.count /\ q.leaked = h.leaked
  BY <1>1, <1>3, <1>4 DEF Heap
<1>6. AllBlocks(q) = AllBlocks(h) \ {b}  BY <1>1, <1>2, <1>5 DEF AllBlocks, OneFate
<1>7. \A c \in AllBlocks(h) \ {b} : /\ c \in Block /\ c.addr \in Nat /\ c.size \in Nat /\ c.size > 0
                                    /\ c.addr + c.size <= b.addr
  <2> TAKE c \in AllBlocks(h) \ {b}
  <2>1. c \in Block /\ c.addr + c.size <= h.next  BY <1>1 DEF AllBlocks, Below
  <2>2. c.addr \in Nat /\ c.size \in Nat /\ c.size > 0 /\ c.addr + c.size - 1 \in Bytes(c)
    BY <2>1, BytesOfBlock
  <2>3. Bytes(b) \cap Bytes(c) = {}  BY <1>1, <1>4 DEF Disjoint
  <2>4. c.addr + c.size - 1 \notin Bytes(b) /\ c.addr + c.size - 1 \in Int  BY <2>2, <2>3
  <2>5. ~(b.addr <= c.addr + c.size - 1 /\ c.addr + c.size - 1 < b.addr + b.size)
    BY <1>4, <2>4, BytesOfBlock
  <2> QED  BY <1>4, <2>1, <2>2, <2>5
<1>8. Sound(q)
  <2>1. Disjoint(q)  BY <1>1, <1>6 DEF Disjoint
  <2>2. OneFate(q)  BY <1>1, <1>5 DEF OneFate
  <2>3. Below(q)  BY <1>5, <1>6, <1>7 DEF Below
  <2>4. Fits(q)  BY <1>1, <1>4, <1>5, AllocatorAssumption DEF Fits
  <2>5. Counted(q)  BY <1>1, <1>5 DEF Counted
  <2> QED  BY <1>5, <2>1, <2>2, <2>3, <2>4, <2>5 DEF Sound
<1>9. \A c \in h.stash : c # b => c \in AllBlocks(h) \ {b} /\ c.addr < b.addr
  <2> TAKE c \in h.stash
  <2> SUFFICES ASSUME c # b  PROVE c \in AllBlocks(h) \ {b} /\ c.addr < b.addr  OBVIOUS
  <2>1. c \in AllBlocks(h) \ {b}  BY DEF AllBlocks
  <2> QED  BY <1>4, <1>7, <2>1
<1>10. \A n : n \in Heights(q) => n \in Heights(h)
  <2> SUFFICES ASSUME NEW n \in Heights(q)  PROVE n \in Heights(h)  OBVIOUS
  <2>1. /\ n \in {b.addr} \cup {c.addr : c \in h.stash \ {b}} /\ n <= b.addr
        /\ \A a \in n .. b.addr - 1 : \E c \in h.stash \ {b} : a \in Bytes(c)
    BY <1>5 DEF Heights
  <2>2. n \in {h.next} \cup {c.addr : c \in h.stash}  BY <1>2, <2>1
  <2>3. n \in Nat  BY <1>4, <1>7, <1>9, <2>1
  <2>4. n <= h.next  BY <1>1, <1>4, <2>1, <2>3
  <2>5. ASSUME NEW a \in n .. h.next - 1  PROVE \E c \in h.stash : a \in Bytes(c)
    <3>1. CASE a < b.addr
      <4>1. a \in n .. b.addr - 1  BY <1>4, <2>3, <3>1
      <4> QED  BY <2>1, <4>1
    <3>2. CASE ~(a < b.addr)
      <4>1. a \in Int /\ b.addr <= a /\ a < b.addr + b.size  BY <1>1, <1>4, <2>3, <3>2
      <4> QED  BY <1>2, <1>4, <4>1, BytesOfBlock
    <3> QED  BY <3>1, <3>2
  <2> QED  BY <2>2, <2>4, <2>5 DEF Heights
<1>11. \A n : n \in Heights(h) => n = h.next \/ n \in Heights(q)
  <2> SUFFICES ASSUME NEW n \in Heights(h), n # h.next  PROVE n \in Heights(q)  OBVIOUS
  <2>1. PICK e \in h.stash : n = e.addr  BY DEF Heights
  <2>2. \A a \in n .. h.next - 1 : \E c \in h.stash : a \in Bytes(c)  BY DEF Heights
  <2>3. n \in Nat /\ n <= b.addr  BY <1>4, <1>7, <1>9, <2>1
  <2>4. n \in {q.next} \cup {c.addr : c \in q.stash}  BY <1>5, <2>1
  <2>5. ASSUME NEW a \in n .. b.addr - 1  PROVE \E c \in h.stash \ {b} : a \in Bytes(c)
    <3>1. a \in n .. h.next - 1 /\ a \in Int /\ a < b.addr  BY <1>1, <1>4, <2>3
    <3>2. PICK c \in h.stash : a \in Bytes(c)  BY <2>2, <3>1
    <3>3. a \notin Bytes(b)  BY <1>4, <3>1, BytesOfBlock
    <3> QED  BY <3>2, <3>3
  <2> QED  BY <1>5, <2>3, <2>4, <2>5 DEF Heights
<1> DEFINE m == Min(Heights(q))
<1>12. Heights(q) \in SUBSET Nat /\ q.next \in Heights(q)
  <2>1. \A c \in q.stash : c.addr \in Nat  BY <1>5 DEF Heap, Block
  <2>2. q.next .. q.next - 1 = {} /\ q.next \in Nat  BY <1>4, <1>5
  <2> QED  BY <2>1, <2>2 DEF Heights
<1>13. m \in Heights(q) /\ m \in Nat /\ (\A x \in Heights(q) : m <= x) /\ m <= b.addr
  BY <1>5, <1>12, MinOfIndices
<1> HIDE DEF m
<1>14. m \in Heights(h) /\ \A x \in Heights(h) : m <= x
  <2>1. m <= h.next  BY <1>1, <1>4, <1>13
  <2> QED  BY <1>10, <1>11, <1>13, <2>1
<1>15. Heights(h) \in SUBSET Nat  BY <1>1, <1>11, <1>12
<1>16. Min(Heights(h)) = m
  <2>1. Min(Heights(h)) \in Heights(h) /\ Min(Heights(h)) <= m  BY <1>14, <1>15, MinOfIndices
  <2>2. m <= Min(Heights(h)) /\ Min(Heights(h)) \in Nat  BY <1>14, <1>15, <2>1
  <2> QED  BY <1>13, <2>1, <2>2
<1>17. {c \in q.stash : c.addr < m} = {c \in h.stash : c.addr < m}
  <2>1. ~(b.addr < m)  BY <1>4, <1>13
  <2> QED  BY <1>5, <2>1
<1> DEFINE R == {c \in h.stash : c.addr < m}
<1>18. Popped(q) = [q EXCEPT !.next = m, !.stash = R] /\ Popped(h) = [h EXCEPT !.next = m, !.stash = R]
  BY <1>16, <1>17 DEF Popped, m
<1> HIDE DEF R
<1>19. [q EXCEPT !.next = m, !.stash = R] = [h EXCEPT !.next = m, !.stash = R]
  BY <1>1, <1>3 DEF Heap
<1> QED  BY <1>8, <1>18, <1>19

\* An iteration neither changes what the whole loop comes to nor, unless the loop is
\* over, leaves the stash as large as it was.
LEMMA IterationKeeps ==
    ASSUME NEW h, Sound(h), IsFiniteSet(h.stash), NEW q, q = Iteration(h)
    PROVE  /\ Sound(q) /\ IsFiniteSet(q.stash)
           /\ StashTried(q) = StashTried(h)
           /\ q = h \/ Cardinality(q.stash) < Cardinality(h.stash)
<1> DEFINE b == Highest(h)
<1>0. h \in Heap /\ h.count \in Nat  BY DEF Sound, Heap
<1>1. CASE h.stash # {} /\ AtTop(h, b)
  <2>1. q = [h EXCEPT !.next = @ - b.size, !.stash = @ \ {b}]  BY <1>1, IterationIs
  <2>2. b \in h.stash  BY <1>1, HighestIs
  <2>3. Sound(q) /\ Popped(q) = Popped(h)  BY <1>1, <2>1, PoppedOnce
  <2>4. q.stash = h.stash \ {b}  BY <1>0, <2>1 DEF Heap
  <2> HIDE DEF b
  <2>5. IsFiniteSet(q.stash) /\ Cardinality(q.stash) = Cardinality(h.stash) - 1
    BY <2>2, <2>4, FS_RemoveElement
  <2>6. Cardinality(h.stash) \in Nat  BY FS_CardinalityType
  <2>7. StashTried(q) = StashTried(h)  BY <2>3 DEF StashTried
  <2> QED  BY <2>3, <2>5, <2>6, <2>7
<1>2. CASE h.stash # {} /\ ~AtTop(h, b) /\ h.count = 0
  <2>1. q = Reset(h)  BY <1>2, IterationIs
  <2>2. Popped(h) = h  BY <1>2, NotPopped
  <2>3. StashTried(h) = Reset(h)  BY <1>2, <2>2 DEF StashTried
  <2>4. Sound(q)  BY <1>2, <2>1, ResetSound
  <2>5. q.stash = {}  BY <1>0, <2>1 DEF Reset, Heap
  <2>6. Popped(q) = q  BY <2>4, <2>5, NotPopped
  <2>7. StashTried(q) = q  BY <2>5, <2>6 DEF StashTried
  <2>8. IsFiniteSet(q.stash) /\ Cardinality(q.stash) = 0  BY <2>5, FS_EmptySet
  <2>9. Cardinality(h.stash) \in Nat /\ Cardinality(h.stash) # 0  BY <1>2, FS_CardinalityType, FS_EmptySet
  <2> QED  BY <2>1, <2>3, <2>4, <2>7, <2>8, <2>9
<1>3. CASE h.stash = {} \/ (~AtTop(h, b) /\ h.count # 0)
  <2>1. q = h  BY <1>3, IterationIs
  <2> QED  BY <2>1
<1> QED  BY <1>1, <1>2, <1>3

\* Where an iteration changes nothing the loop is over, and there is nothing left to
\* pop or to reset.
LEMMA IterationDone ==
    ASSUME NEW h, Sound(h), Iteration(h) = h
    PROVE  StashTried(h) = h
<1> DEFINE b == Highest(h)
<1>0. h \in Heap /\ h.next \in Nat  BY DEF Sound, Heap
<1>1. CASE h.stash = {}
  <2>1. Popped(h) = h  BY <1>1, NotPopped
  <2> QED  BY <1>1, <2>1 DEF StashTried
<1>2. CASE h.stash # {} /\ AtTop(h, b)
  <2>1. h = [h EXCEPT !.next = @ - b.size, !.stash = @ \ {b}]  BY <1>2, IterationIs
  <2>2. b \in h.stash  BY <1>2, HighestIs
  <2> HIDE DEF b
  <2>3. h.stash = h.stash \ {b}  BY <1>0, <2>1 DEF Heap
  <2> QED  BY <2>2, <2>3
<1>3. CASE h.stash # {} /\ ~AtTop(h, b) /\ h.count = 0
  <2>1. h = Reset(h)  BY <1>3, IterationIs
  <2>2. Reset(h).stash = {}  BY <1>0 DEF Reset, Heap
  <2> QED  BY <1>3, <2>1, <2>2
<1>4. CASE h.stash # {} /\ ~AtTop(h, b) /\ h.count # 0
  <2>1. Popped(h) = h  BY <1>4, NotPopped
  <2> QED  BY <1>4, <2>1 DEF StashTried
<1> QED  BY <1>1, <1>2, <1>3, <1>4

\* The loop, iteration by iteration.
LoopFrom(h, n) ==
    CHOOSE after : after = [i \in 0 .. n |-> IF i = 0 THEN h ELSE Iteration(after[i - 1])]

\* StashLoop does one iteration at a time.
LEMMA LoopSteps ==
    ASSUME NEW h, Cardinality(h.stash) \in Nat
    PROVE  LET f == LoopFrom(h, Cardinality(h.stash))
           IN  /\ f[0] = h
               /\ \A i \in 1 .. Cardinality(h.stash) : f[i] = Iteration(f[i - 1])
               /\ StashLoop(h) = f[Cardinality(h.stash)]
<1> DEFINE N == Cardinality(h.stash)
           Def(g, n) == g = [i \in 0 .. n |-> IF i = 0 THEN h ELSE Iteration(g[i - 1])]
           S == {n \in Nat : \E g : Def(g, n)}
<1>1. 0 \in S
  <2> DEFINE g == [i \in 0 .. 0 |-> h]
  <2>1. Def(g, 0)  OBVIOUS
  <2> HIDE DEF g
  <2> QED  BY <2>1
<1>2. ASSUME NEW n \in Nat, n \in S  PROVE n + 1 \in S
  <2>1. PICK g : Def(g, n)  BY <1>2
  <2> DEFINE k == [i \in 0 .. n + 1 |-> IF i <= n THEN g[i] ELSE Iteration(g[n])]
  <2>2. \A i \in 0 .. n : g[i] = IF i = 0 THEN h ELSE Iteration(g[i - 1])  BY <2>1
  <2>3. \A i \in 0 .. n + 1 : k[i] = IF i = 0 THEN h ELSE Iteration(k[i - 1])
    <3> SUFFICES ASSUME NEW i \in 0 .. n + 1
                 PROVE  k[i] = IF i = 0 THEN h ELSE Iteration(k[i - 1])
      OBVIOUS
    <3>1. CASE i = 0  BY <2>2, <3>1
    <3>2. CASE i \in 1 .. n  BY <2>2, <3>2
    <3>3. CASE i = n + 1  BY <3>3
    <3> QED  BY <3>1, <3>2, <3>3
  <2>4. k = [i \in 0 .. n + 1 |-> k[i]]  OBVIOUS
  <2>5. Def(k, n + 1)  BY <2>3, <2>4
  <2> HIDE DEF k
  <2> QED  BY <2>5
<1> HIDE DEF S
<1>3. N \in S  BY <1>1, <1>2, NatSetInduction
<1>4. \E g : Def(g, N)  BY <1>3 DEF S
<1>5. Def(LoopFrom(h, N), N)  BY <1>4 DEF LoopFrom
<1>6. StashLoop(h) = LoopFrom(h, N)[N]  BY DEF StashLoop, LoopFrom
<1> QED  BY <1>5, <1>6

\* Where the loop is after i iterations of at most n: over, or i blocks further.
OnTheWay(q, h, i, n) ==
    /\ Sound(q) /\ IsFiniteSet(q.stash) /\ StashTried(q) = StashTried(h)
    /\ Iteration(q) = q \/ Cardinality(q.stash) <= n - i

\* The loop of dealloc over the sorted stash comes to what StashTried says.
LEMMA LoopIsStashTried ==
    ASSUME NEW h, Sound(h), IsFiniteSet(h.stash)
    PROVE  StashLoop(h) = StashTried(h)
<1> DEFINE N == Cardinality(h.stash)
           f == LoopFrom(h, N)
           S == {i \in Nat : i <= N => OnTheWay(f[i], h, i, N)}
<1>1. N \in Nat  BY FS_CardinalityType
<1>2. f[0] = h /\ (\A i \in 1 .. N : f[i] = Iteration(f[i - 1])) /\ StashLoop(h) = f[N]  BY <1>1, LoopSteps
<1>3. OnTheWay(h, h, 0, N)  BY <1>1 DEF OnTheWay
<1> HIDE DEF N, f
<1>4. 0 \in S  BY <1>2, <1>3
<1>5. ASSUME NEW i \in Nat, i \in S  PROVE i + 1 \in S
  <2> SUFFICES ASSUME i + 1 <= N  PROVE OnTheWay(f[i + 1], h, i + 1, N)  OBVIOUS
  <2>1. i <= N /\ i + 1 \in 1 .. N /\ (i + 1) - 1 = i  BY <1>1
  <2>2. OnTheWay(f[i], h, i, N)  BY <1>5, <2>1
  <2> DEFINE q == f[i]
             r == f[i + 1]
  <2>3. r = Iteration(q)  BY <1>2, <2>1
  <2>4. Sound(q) /\ IsFiniteSet(q.stash) /\ StashTried(q) = StashTried(h)
        /\ (Iteration(q) = q \/ Cardinality(q.stash) <= N - i)
    BY <2>2 DEF OnTheWay
  <2> HIDE DEF q, r
  <2>5. /\ Sound(r) /\ IsFiniteSet(r.stash) /\ StashTried(r) = StashTried(q)
        /\ r = q \/ Cardinality(r.stash) < Cardinality(q.stash)
    BY <2>3, <2>4, IterationKeeps
  <2>6. CASE r = q  BY <2>3, <2>4, <2>6 DEF OnTheWay, r
  <2>7. CASE r # q
    <3>1. Cardinality(q.stash) <= N - i /\ Cardinality(r.stash) < Cardinality(q.stash)  BY <2>3, <2>4, <2>5, <2>7
    <3>2. Cardinality(q.stash) \in Nat /\ Cardinality(r.stash) \in Nat  BY <2>4, <2>5, FS_CardinalityType
    <3>3. Cardinality(r.stash) <= N - (i + 1)  BY <1>1, <3>1, <3>2
    <3> QED  BY <2>4, <2>5, <3>3 DEF OnTheWay, r
  <2> QED  BY <2>6, <2>7
<1>6. N \in S
  <2> HIDE DEF S
  <2> QED  BY <1>1, <1>4, <1>5, NatSetInduction
<1>7. OnTheWay(f[N], h, N, N)  BY <1>1, <1>6
<1> DEFINE e == f[N]
<1>8. Sound(e) /\ IsFiniteSet(e.stash) /\ StashTried(e) = StashTried(h)
      /\ (Iteration(e) = e \/ Cardinality(e.stash) <= N - N)
  BY <1>7 DEF OnTheWay
<1> HIDE DEF e
<1>9. Iteration(e) = e
  <2>1. CASE Cardinality(e.stash) <= N - N
    <3>1. Cardinality(e.stash) = 0  BY <1>1, <1>8, <2>1, FS_CardinalityType
    <3>2. e.stash = {}  BY <1>8, <3>1, FS_EmptySet
    <3> QED  BY <3>2, IterationIs
  <2> QED  BY <1>8, <2>1
<1>10. StashTried(e) = e  BY <1>8, <1>9, IterationDone
<1> QED  BY <1>2, <1>8, <1>10 DEF e

(***************************************************************************)
(* The theorems                                                            *)
(***************************************************************************)

\* HeapInv holds in every state of every heap: the actions map sound heaps to
\* sound heaps.
THEOREM HeapInvariant == Spec => []HeapInv
<1>1. Init => HeapInv
  <2> SUFFICES ASSUME heap = NewHeap  PROVE Sound(heap)
    BY SoundIsHeapInv DEF Init
  <2>1. /\ heap \in Heap /\ heap.next = 0 /\ heap.count = 0 /\ heap.live = {}
        /\ heap.stash = {} /\ heap.leaked = {}
    BY DEF NewHeap, Heap
  <2>2. AllBlocks(heap) = {}  BY <2>1 DEF AllBlocks
  <2>3. Counted(heap)  BY <2>1, FS_EmptySet DEF Counted
  <2> QED  BY <2>1, <2>2, <2>3 DEF Sound, Disjoint, OneFate, Below, Fits
<1>2. HeapInv /\ [Next]_heap => HeapInv'
  <2>0. (HeapInv <=> Sound(heap))'  BY SoundIsHeapInv, PTL
  <2> SUFFICES ASSUME Sound(heap), [Next]_heap  PROVE Sound(heap)'
    BY <2>0, SoundIsHeapInv
  <2> USE AllocatorAssumption DEF Layout
  <2>1. CASE UNCHANGED heap  BY <2>1
  <2>2. CASE Alloc  BY <2>2, TakenSound DEF Alloc
  <2>3. CASE AllocFails  BY <2>3, RefusedSound DEF AllocFails
  <2>4. CASE Dealloc  BY <2>4, FreedSound DEF Dealloc
  <2>5. CASE Realloc
    <3>1. PICK b \in heap.live, size \in Sizes :
             LET l == [size |-> size, align |-> b.align]
             IN  ~NoRoom(heap, l) /\ heap' = Freed(Taken(heap, l), b)
      BY <2>5 DEF Realloc
    <3> DEFINE l == [size |-> size, align |-> b.align]
    <3>2. b.align \in Nat \ {0}  BY DEF Sound, Heap, Block
    <3>3. l \in [size : Nat \ {0}, align : Nat \ {0}]  BY <3>2
    <3>4. Sound(Taken(heap, l)) /\ b \in Taken(heap, l).live
      BY <3>1, <3>3, TakenSound
    <3> QED  BY <3>1, <3>4, FreedSound
  <2>6. CASE ReallocFails
    <3>1. PICK b \in heap.live, size \in Sizes :
             LET l == [size |-> size, align |-> b.align]
             IN  NoRoom(heap, l) /\ heap' = Refused(heap, l)
      BY <2>6 DEF ReallocFails
    <3>2. b.align \in Nat \ {0}  BY DEF Sound, Heap, Block
    <3> QED  BY <3>1, <3>2, RefusedSound
  <2> QED  BY <2>1, <2>2, <2>3, <2>4, <2>5, <2>6 DEF Next
<1> QED  BY <1>1, <1>2, PTL DEF Spec

\* No byte is given out twice (alloc, dealloc, realloc), for every heap, stash
\* size and layouts.
THEOREM NoByteGivenOutTwice == Spec => []BlocksDisjoint
<1>1. HeapInv => BlocksDisjoint  BY DEF HeapInv
<1> QED  BY <1>1, HeapInvariant, PTL

\* alloc_count is the number of live blocks, although padding, leaks and resets
\* come in between: dealloc never resets a heap that is in use.
THEOREM AllocCountIsExact == Spec => []CountExact
<1>1. HeapInv => CountExact  BY DEF HeapInv
<1> QED  BY <1>1, HeapInvariant, PTL

\* A sound heap stays tidy: every byte below next is in a block, and the last dealloc
\* leaves an empty heap, unless blocks have been leaked.
LEMMA HeapStaysTidy == Spec => [](Sound(heap) /\ Tidy(heap))
<1>1. Init => Tidy(heap)
  <2> SUFFICES ASSUME heap = NewHeap  PROVE Tidy(heap)
    BY DEF Init
  <2>1. heap.next = 0 /\ heap.live = {} /\ heap.stash = {} /\ heap.leaked = {}
    BY DEF NewHeap
  <2>2. 0 .. heap.next - 1 = {}  BY <2>1
  <2>3. Bounded(heap)  BY <2>1, FS_EmptySet, AllocatorAssumption DEF Bounded
  <2> QED  BY <2>1, <2>2, <2>3 DEF Tidy, Covered, LiveAligned, Emptied
<1>2. Sound(heap) /\ Tidy(heap) /\ [Next]_heap => Tidy(heap)'
  <2> SUFFICES ASSUME Sound(heap), Tidy(heap), [Next]_heap  PROVE Tidy(heap)'
    OBVIOUS
  <2> USE AllocatorAssumption DEF Layout
  <2>1. CASE UNCHANGED heap  BY <2>1
  <2>2. CASE Alloc  BY <2>2, TakenTidy DEF Alloc
  <2>3. CASE AllocFails  BY <2>3, RefusedTidy DEF AllocFails
  <2>4. CASE Dealloc  BY <2>4, FreedTidy DEF Dealloc
  <2>5. CASE Realloc
    <3>1. PICK b \in heap.live, size \in Sizes :
             LET l == [size |-> size, align |-> b.align]
             IN  ~NoRoom(heap, l) /\ heap' = Freed(Taken(heap, l), b)
      BY <2>5 DEF Realloc
    <3> DEFINE l == [size |-> size, align |-> b.align]
    <3>2. b.align \in Nat \ {0}  BY DEF Sound, Heap, Block
    <3>3. l \in [size : Nat \ {0}, align : Nat \ {0}]  BY <3>2
    <3>4. Sound(Taken(heap, l)) /\ Tidy(Taken(heap, l)) /\ b \in Taken(heap, l).live
      BY <3>1, <3>3, TakenSound, TakenTidy
    <3> QED  BY <3>1, <3>4, FreedTidy
  <2>6. CASE ReallocFails
    <3>1. PICK b \in heap.live, size \in Sizes :
             LET l == [size |-> size, align |-> b.align]
             IN  NoRoom(heap, l) /\ heap' = Refused(heap, l)
      BY <2>6 DEF ReallocFails
    <3>2. b.align \in Nat \ {0}  BY DEF Sound, Heap, Block
    <3> QED  BY <3>1, <3>2, RefusedTidy
  <2> QED  BY <2>1, <2>2, <2>3, <2>4, <2>5, <2>6 DEF Next
<1>3. Spec => []Sound(heap)
  <2>1. HeapInv => Sound(heap)  BY SoundIsHeapInv
  <2> QED  BY <2>1, HeapInvariant, PTL
<1> QED  BY <1>1, <1>2, <1>3, PTL DEF Spec

\* What HeapWellFormed says is kept together with HeapInv: the padding of a refused
\* alloc, a full stash and a realloc leave no byte unaccounted for, and the last
\* dealloc leaves an empty heap, unless blocks have been leaked.
THEOREM HeapStaysWellFormed == Spec => []HeapWellFormed
<1>1. Sound(heap) /\ Tidy(heap) => HeapWellFormed  BY TidyIsWellFormed
<1> QED  BY <1>1, HeapStaysTidy, PTL

\* Whatever the stash holds when the block at the top is freed, the loop of dealloc,
\* iteration by iteration in the order of the sorted array, ends in the heap that
\* StashTried gives at once: the other theorems are about the code's loop.
THEOREM StashIsTriedByTheLoop == Spec => []StashTriedIsTheLoop
<1>1. Sound(heap) /\ Tidy(heap) => StashTriedIsTheLoop
  <2> SUFFICES ASSUME Sound(heap), Tidy(heap), NEW b \in heap.live, AtTop(heap, b),
                      NEW h, h = [heap EXCEPT !.count = @ - 1, !.live = @ \ {b}, !.next = @ - b.size]
               PROVE  StashTried(h) = StashLoop(h)
    BY DEF StashTriedIsTheLoop
  <2>2. Sound(Lowered(heap, b))  BY FreedSound
  <2>3. h = Lowered(heap, b)  BY DEF Lowered
  <2>4. h.stash = heap.stash  BY DEF Sound, Heap
  <2>5. IsFiniteSet(h.stash)  BY <2>4 DEF Tidy, Bounded
  <2> QED  BY <2>2, <2>3, <2>5, LoopIsStashTried
<1> QED  BY <1>1, HeapStaysTidy, PTL
=============================================================================
