------------------------ MODULE ProgramMemoryProofs ------------------------
(***************************************************************************)
(* Proofs about ProgramMemory, for every word and stack size, all files,   *)
(* arguments and environments: regions and virtual allocator agree, a      *)
(* process that runs has a whole program, and the arguments of a script    *)
(* are those of the rule.                                                  *)
(***************************************************************************)
EXTENDS ProgramMemory, SlotsProofs, TLAPS, FiniteSetTheorems, SequenceTheorems

-----------------------------------------------------------------------------
(* The virtual heap.  Its blocks may be empty here (the argv of a program    *)
(* without arguments), and it is never reset: argv stays allocated.          *)

Blk == [addr : Nat, size : Nat, align : Nat \ {0}]
HeapT == [next : Nat, count : Nat, live : SUBSET Blk, stash : SUBSET Blk, leaked : SUBSET Blk]
VirtualHeap == [base : Nat, len : Nat, heap : HeapT]

Apart(b, c) == b.addr + b.size <= c.addr \/ c.addr + c.size <= b.addr

\* Live and stashed blocks lie apart below next, next within the heap; an empty block
\* is the first one.
Placed(h) ==
    /\ \A b \in h.live \cup h.stash : b.addr + b.size <= h.next
    /\ \A b, c \in h.live \cup h.stash : b # c => Apart(b, c)
    /\ h.live \cap h.stash = {}
    /\ \A b \in h.live : b.size = 0 => b.addr = 0
    /\ \A b \in h.stash : b.size > 0

Counted(h) == IsFiniteSet(h.live) /\ h.count = Cardinality(h.live)

SoundHeap(v) == v \in VirtualHeap /\ Placed(v.heap) /\ Counted(v.heap) /\ v.heap.next <= v.len

\* Putting away a block that lies apart from all others.
LEMMA StashedPlaced ==
    ASSUME NEW h, NEW b \in Blk, Placed(h), b.size > 0, b.addr + b.size <= h.next,
           h \in HeapT,
           \A c \in h.live \cup h.stash : c # b /\ Apart(b, c)
    PROVE  LET g == A!Stashed(h, b)
           IN  /\ g \in HeapT
               /\ Placed(g) /\ g.next = h.next /\ g.live = h.live /\ g.count = h.count
<1> DEFINE g == A!Stashed(h, b)
<1>1. /\ g \in HeapT
      /\ g.next = h.next /\ g.live = h.live /\ g.count = h.count
      /\ g.stash \in {h.stash, h.stash \cup {b}}
  BY DEF A!Stashed, HeapT
<1> HIDE DEF g
<1>2. \A c \in g.live \cup g.stash : c = b \/ c \in h.live \cup h.stash  BY <1>1
<1>3. \A c \in g.live \cup g.stash : c.addr + c.size <= g.next  BY <1>1, <1>2 DEF Placed
<1>4. \A c, d \in g.live \cup g.stash : c # d => Apart(c, d)
  <2>1. \A c \in h.live \cup h.stash : Apart(c, b)  BY DEF Apart
  <2> QED  BY <1>2, <2>1 DEF Placed
<1>5. g.live \cap g.stash = {}  BY <1>1 DEF Placed
<1> QED  BY <1>1, <1>3, <1>4, <1>5 DEF Placed, g

\* What alloc takes: padding that is stashed, and above it a new block.
LEMMA PaddedPlaced ==
    ASSUME NEW h \in HeapT, Placed(h), NEW l \in [size : Nat, align : Nat \ {0}]
    PROVE  LET g == A!Padded(h, l)
               pad == A!Padding(h, l)
           IN  /\ g \in HeapT /\ Placed(g) /\ g.live = h.live /\ g.count = h.count
               /\ pad \in Nat /\ g.next = h.next + pad
<1> DEFINE pad == A!Padding(h, l)
           h1 == [h EXCEPT !.next = @ + pad]
           b == [addr |-> h.next, size |-> pad, align |-> 1]
<1>1. pad \in Nat
  <2>1. h.next \in Nat /\ l.align \in Nat /\ l.align > 0  BY DEF HeapT
  <2>2. h.next % l.align \in 0 .. l.align - 1  BY <2>1
  <2> QED  BY <2>1, <2>2 DEF A!Padding
<1> HIDE DEF pad
<1>2. CASE pad = 0
  <2>1. A!Padded(h, l) = h  BY <1>2 DEF A!Padded, pad
  <2> QED  BY <1>1, <1>2, <2>1 DEF HeapT, pad
<1>3. CASE pad # 0
  <2>1. A!Padded(h, l) = A!Stashed(h1, b)  BY <1>3 DEF A!Padded, pad
  <2>2. h1 \in HeapT /\ h1.next = h.next + pad /\ h1.live = h.live /\ h1.stash = h.stash /\ h1.count = h.count
    BY <1>1 DEF HeapT
  <2>3. b \in Blk /\ b.addr = h.next /\ b.size = pad /\ h.next \in Nat  BY <1>1 DEF HeapT, Blk
  <2>4. \A c \in h.live \cup h.stash : c \in Blk /\ c.addr \in Nat /\ c.size \in Nat  BY DEF HeapT, Blk
  <2> HIDE DEF h1, b
  <2>5. Placed(h1)
    <3>1. \A c \in h.live \cup h.stash : c.addr + c.size <= h1.next  BY <1>1, <2>2, <2>3, <2>4 DEF Placed
    <3> QED  BY <2>2, <3>1 DEF Placed
  <2>6. \A c \in h1.live \cup h1.stash : c # b /\ Apart(b, c)
    <3> SUFFICES ASSUME NEW c \in h.live \cup h.stash  PROVE c # b /\ Apart(b, c)  BY <2>2
    <3>1. c.addr + c.size <= h.next  BY DEF Placed
    <3> QED  BY <1>1, <1>3, <2>3, <2>4, <3>1 DEF Apart
  <2>7. b.addr + b.size <= h1.next /\ b.size > 0  BY <1>1, <1>3, <2>2, <2>3
  <2>8. LET g == A!Stashed(h1, b)
        IN  g \in HeapT /\ Placed(g) /\ g.next = h1.next /\ g.live = h1.live /\ g.count = h1.count
    BY <2>2, <2>3, <2>5, <2>6, <2>7, StashedPlaced
  <2> QED  BY <1>1, <2>1, <2>2, <2>8 DEF pad
<1> QED  BY <1>2, <1>3

\* alloc of the virtual allocator: the block is new and lies above all others.
LEMMA AllocEffect ==
    ASSUME NEW v, SoundHeap(v), NEW size \in Nat, NEW align \in Nat \ {0},
           size > 0 \/ (v.heap.live = {} /\ v.heap.next = 0 /\ align = 1)
    PROVE  LET r == alloc(v, size, align)
               b == [addr |-> r.ptr - v.base, size |-> size, align |-> align]
           IN  /\ SoundHeap(r.va) /\ r.va.base = v.base /\ r.va.len = v.len
               /\ r.ptr = 0 /\ v.base > 0 => r.va.heap.live = v.heap.live
               /\ r.ptr # 0 =>
                    /\ b \in Blk /\ b \notin v.heap.live /\ r.va.heap.live = v.heap.live \cup {b}
                    /\ r.ptr \in Nat /\ r.ptr >= v.base + v.heap.next /\ b.addr + size < v.len
<1> DEFINE l == [size |-> size, align |-> align]
           pad == A!Padding(v.heap, l)
           start == v.heap.next + pad
           p == A!Padded(v.heap, l)
           t == A!Taken(v.heap, l)
           b == [addr |-> start, size |-> size, align |-> align]
           r == alloc(v, size, align)
<1>1. /\ v = [base |-> v.base, len |-> v.len, heap |-> v.heap]
      /\ v.base \in Nat /\ v.len \in Nat /\ v.heap \in HeapT /\ v.heap.next \in Nat
      /\ Placed(v.heap) /\ Counted(v.heap) /\ v.heap.next <= v.len
  BY DEF SoundHeap, VirtualHeap, HeapT
<1>2. l \in [size : Nat, align : Nat \ {0}] /\ l.size = size /\ l.align = align  OBVIOUS
<1> HIDE DEF l
<1>3. p \in HeapT /\ Placed(p) /\ p.live = v.heap.live /\ p.count = v.heap.count /\ pad \in Nat /\ p.next = start
  BY <1>1, <1>2, PaddedPlaced
<1>4. t = [p EXCEPT !.next = @ + size, !.count = @ + 1, !.live = @ \cup {b}]
  BY <1>2, <1>3 DEF A!Taken
<1>5. /\ \/ pad # 0 /\ start >= v.len /\ r = [ptr |-> 0, va |-> v]
         \/ ~(pad # 0 /\ start >= v.len) /\ start + size >= v.len /\ r = [ptr |-> 0, va |-> [v EXCEPT !.heap = p]]
         \/ ~(start + size >= v.len) /\ r = [ptr |-> v.base + start, va |-> [v EXCEPT !.heap = t]]
  <2>1. r = IF pad # 0 /\ start >= v.len THEN [ptr |-> 0, va |-> v]
            ELSE IF start + size >= v.len THEN [ptr |-> 0, va |-> [v EXCEPT !.heap = A!Padded(@, l)]]
            ELSE [ptr |-> v.base + start, va |-> [v EXCEPT !.heap = A!Taken(@, l)]]
    BY DEF alloc, l
  <2>2. /\ [v EXCEPT !.heap = A!Padded(@, l)] = [v EXCEPT !.heap = p]
        /\ [v EXCEPT !.heap = A!Taken(@, l)] = [v EXCEPT !.heap = t]
    BY <1>1
  <2> HIDE DEF p, t, pad, start, r
  <2> QED  BY <2>1, <2>2
<1> HIDE DEF p, t, pad, r
<1>6. start \in Nat /\ start >= v.heap.next  BY <1>1, <1>3
<1>7. /\ b \in Blk /\ b.addr = start /\ b.size = size  BY <1>6 DEF Blk
<1>8. \A c \in p.live \cup p.stash : c \in Blk /\ c.addr \in Nat /\ c.size \in Nat /\ c.addr + c.size <= start
  BY <1>3 DEF HeapT, Blk, Placed
<1>9. b \notin p.live
  <2>1. CASE size > 0  BY <1>6, <1>7, <1>8, <2>1
  <2>2. CASE v.heap.live = {}  BY <1>3, <2>2
  <2> QED  BY <2>1, <2>2
<1>10. /\ t \in HeapT /\ t.next = start + size /\ t.live = p.live \cup {b} /\ t.stash = p.stash
       /\ t.count = p.count + 1
  <2>1. /\ p = [next |-> p.next, count |-> p.count, live |-> p.live, stash |-> p.stash, leaked |-> p.leaked]
        /\ p.count \in Nat /\ p.live \in SUBSET Blk /\ p.stash \in SUBSET Blk /\ p.leaked \in SUBSET Blk
    BY <1>3 DEF HeapT
  <2>2. t = [next |-> start + size, count |-> p.count + 1, live |-> p.live \cup {b}, stash |-> p.stash, leaked |-> p.leaked]
    BY <1>3, <1>4, <2>1
  <2>3. start + size \in Nat /\ p.count + 1 \in Nat /\ p.live \cup {b} \in SUBSET Blk  BY <1>6, <1>7, <2>1
  <2> HIDE DEF b, start
  <2> QED  BY <2>1, <2>2, <2>3 DEF HeapT
<1>11. size = 0 => start = 0
  <2> SUFFICES ASSUME size = 0  PROVE start = 0  OBVIOUS
  <2>1. v.heap.next = 0 /\ align = 1  OBVIOUS
  <2>2. pad = 0  BY <1>2, <2>1 DEF pad, A!Padding
  <2> QED  BY <2>1, <2>2
<1> HIDE DEF b, start
<1>12. Placed(t)
  <2>1. \A c \in t.live \cup t.stash : c = b \/ c \in p.live \cup p.stash  BY <1>10
  <2>2. \A c \in t.live \cup t.stash : c.addr + c.size <= t.next  BY <1>6, <1>7, <1>8, <1>10, <2>1
  <2>3. \A c \in p.live \cup p.stash : Apart(b, c) /\ Apart(c, b)  BY <1>6, <1>7, <1>8 DEF Apart
  <2>4. \A c, d \in t.live \cup t.stash : c # d => Apart(c, d)  BY <1>3, <2>1, <2>3 DEF Placed
  <2>5. b \notin p.stash
    <3>1. \A c \in p.stash : c.size > 0  BY <1>3 DEF Placed
    <3> QED  BY <1>6, <1>7, <1>8, <3>1
  <2>6. t.live \cap t.stash = {}  BY <1>3, <1>10, <2>5 DEF Placed
  <2>7. \A c \in t.live : c.size = 0 => c.addr = 0  BY <1>3, <1>7, <1>10, <1>11 DEF Placed
  <2>8. \A c \in t.stash : c.size > 0  BY <1>3, <1>10 DEF Placed
  <2> QED  BY <2>2, <2>4, <2>6, <2>7, <2>8 DEF Placed
<1>13. Counted(t)
  <2>1. IsFiniteSet(p.live) /\ p.count = Cardinality(p.live)  BY <1>1, <1>3 DEF Counted
  <2> QED  BY <1>9, <1>10, <2>1, FS_AddElement DEF Counted
<1>14. Counted(p)  BY <1>1, <1>3 DEF Counted
<1>15. CASE pad # 0 /\ start >= v.len /\ r = [ptr |-> 0, va |-> v]
  BY <1>1, <1>15 DEF r
<1>16. CASE start + size >= v.len /\ ~(pad # 0 /\ start >= v.len) /\ r = [ptr |-> 0, va |-> [v EXCEPT !.heap = p]]
  <2>1. start <= v.len  BY <1>1, <1>3, <1>6, <1>16 DEF start
  <2>2. r.ptr = 0 /\ r.va \in VirtualHeap /\ r.va.base = v.base /\ r.va.len = v.len /\ r.va.heap = p
    BY <1>1, <1>3, <1>16 DEF VirtualHeap
  <2>3. SoundHeap(r.va)  BY <1>3, <1>14, <2>1, <2>2 DEF SoundHeap
  <2> QED  BY <1>3, <2>2, <2>3 DEF r
<1>17. CASE ~(start + size >= v.len) /\ r = [ptr |-> v.base + start, va |-> [v EXCEPT !.heap = t]]
  <2>1. r.ptr = v.base + start /\ r.va \in VirtualHeap /\ r.va.base = v.base /\ r.va.len = v.len /\ r.va.heap = t
    BY <1>1, <1>10, <1>17 DEF VirtualHeap
  <2>2. start + size < v.len  BY <1>1, <1>6, <1>17
  <2>7. SoundHeap(r.va)  BY <1>1, <1>6, <1>10, <1>12, <1>13, <2>1, <2>2 DEF SoundHeap
  <2>3. r.ptr - v.base = start  BY <1>1, <1>6, <2>1
  <2>4. b = [addr |-> r.ptr - v.base, size |-> size, align |-> align]  BY <2>3 DEF b
  <2>5. r.ptr = 0 => v.base = 0  BY <1>1, <1>6, <2>1
  <2>6. r.ptr \in Nat /\ r.ptr >= v.base + v.heap.next  BY <1>1, <1>6, <2>1
  <2> QED  BY <1>3, <1>7, <1>9, <1>10, <2>1, <2>2, <2>3, <2>4, <2>5, <2>6, <2>7 DEF r
<1> QED  BY <1>5, <1>15, <1>16, <1>17

\* The addresses of a block.
LEMMA InBytes ==
    ASSUME NEW b \in Blk, NEW a \in Int
    PROVE  a \in A!Bytes(b) <=> b.addr <= a /\ a < b.addr + b.size
BY DEF A!Bytes, Blk

\* The loop over the stash pops next to a height that cuts no block in two.
LEMMA PoppedPlaced ==
    ASSUME NEW h \in HeapT, Placed(h)
    PROVE  LET g == A!Popped(h)
           IN  g \in HeapT /\ Placed(g) /\ g.live = h.live /\ g.count = h.count /\ g.next <= h.next
<1> DEFINE n == Min(A!Heights(h))
           g == A!Popped(h)
<1>1. /\ h = [next |-> h.next, count |-> h.count, live |-> h.live, stash |-> h.stash, leaked |-> h.leaked]
      /\ h.next \in Nat /\ h.count \in Nat /\ h.live \in SUBSET Blk /\ h.stash \in SUBSET Blk /\ h.leaked \in SUBSET Blk
  BY DEF HeapT
<1>2. \A b \in h.live \cup h.stash : b \in Blk /\ b.addr \in Nat /\ b.size \in Nat /\ b.addr + b.size <= h.next
  BY <1>1 DEF Blk, Placed
<1>3. A!Heights(h) \in SUBSET Nat /\ h.next \in A!Heights(h)
  <2>1. h.next .. h.next - 1 = {}  BY <1>1
  <2> QED  BY <1>1, <1>2, <2>1 DEF A!Heights
<1>4. n \in A!Heights(h) /\ n \in Nat  BY <1>3, MinOfIndices
<1>5. /\ n \in {h.next} \cup {b.addr : b \in h.stash} /\ n <= h.next
      /\ \A a \in n .. h.next - 1 : \E b \in h.stash : a \in A!Bytes(b)
  BY <1>4 DEF A!Heights
<1>6. A!Min(A!Heights(h)) = n  BY DEF A!Min, Min
<1>7. g = [h EXCEPT !.next = n, !.stash = {b \in @ : b.addr < n}]  BY <1>6 DEF A!Popped
<1> HIDE DEF n, g
<1>8. /\ g \in HeapT /\ g.next = n /\ g.count = h.count /\ g.live = h.live
      /\ g.stash = {b \in h.stash : b.addr < n}
  <2>1. g = [next |-> n, count |-> h.count, live |-> h.live, stash |-> {b \in h.stash : b.addr < n}, leaked |-> h.leaked]
    BY <1>1, <1>7
  <2>2. {b \in h.stash : b.addr < n} \in SUBSET Blk  BY <1>1
  <2> QED  BY <1>1, <1>4, <2>1, <2>2 DEF HeapT
<1>9. \A b \in h.live : b.addr + b.size <= n
  <2> SUFFICES ASSUME NEW b \in h.live, ~(b.addr + b.size <= n)  PROVE FALSE  OBVIOUS
  <2> DEFINE a == b.addr + b.size - 1
  <2>1. b \in Blk /\ b.addr \in Nat /\ b.size \in Nat /\ b.addr + b.size <= h.next  BY <1>2
  <2>2. b.size > 0  BY <1>4, <2>1 DEF Placed
  <2>3. a \in n .. h.next - 1 /\ a \in Int  BY <1>1, <1>4, <2>1, <2>2
  <2>4. b.addr <= a /\ a < b.addr + b.size  BY <2>1, <2>2
  <2> HIDE DEF a
  <2>5. PICK c \in h.stash : a \in A!Bytes(c)  BY <1>5, <2>3
  <2>6. c \in Blk /\ c.addr \in Nat /\ c.size \in Nat  BY <1>2
  <2>7. c.addr <= a /\ a < c.addr + c.size  BY <2>3, <2>5, <2>6, InBytes
  <2>8. b # c  BY DEF Placed
  <2>9. Apart(b, c)  BY <2>8 DEF Placed
  <2> QED  BY <2>1, <2>3, <2>4, <2>6, <2>7, <2>9 DEF Apart
<1>10. \A b \in h.stash : b.addr < n => b.addr + b.size <= n
  <2> SUFFICES ASSUME NEW b \in h.stash, b.addr < n, ~(b.addr + b.size <= n)  PROVE FALSE  OBVIOUS
  <2>1. b.addr \in Nat /\ b.size \in Nat /\ b.addr + b.size <= h.next  BY <1>2
  <2>2. PICK c \in h.stash : c.addr = n  BY <1>5, <2>1
  <2>3. c.addr \in Nat /\ c.size \in Nat /\ c.size > 0  BY <1>2 DEF Placed
  <2>4. b # c  BY <1>4, <2>1, <2>2
  <2>5. Apart(b, c)  BY <2>4 DEF Placed
  <2> QED  BY <1>4, <2>1, <2>2, <2>3, <2>5 DEF Apart
<1>11. Placed(g)
  <2>1. g.live \cup g.stash \subseteq h.live \cup h.stash /\ g.stash \subseteq h.stash  BY <1>8
  <2>2. \A b \in g.live \cup g.stash : b.addr + b.size <= g.next  BY <1>8, <1>9, <1>10
  <2>3. \A b, c \in g.live \cup g.stash : b # c => Apart(b, c)  BY <2>1 DEF Placed
  <2> QED  BY <1>8, <2>1, <2>2, <2>3 DEF Placed
<1> QED  BY <1>5, <1>8, <1>11 DEF g

\* dealloc of the virtual allocator, when another block is left.
LEMMA FreedEffect ==
    ASSUME NEW v, SoundHeap(v), NEW b \in v.heap.live, b.size > 0,
           NEW other \in v.heap.live, other # b
    PROVE  LET w == [v EXCEPT !.heap = A!Freed(@, b)]
           IN  /\ SoundHeap(w) /\ w.base = v.base /\ w.len = v.len
               /\ w.heap.live = v.heap.live \ {b}
<1> DEFINE h == v.heap
           g == [h EXCEPT !.count = @ - 1, !.live = @ \ {b}]
           low == [g EXCEPT !.next = @ - b.size]
           f == A!Freed(h, b)
<1>1. /\ v = [base |-> v.base, len |-> v.len, heap |-> h]
      /\ v.base \in Nat /\ v.len \in Nat /\ h \in HeapT
      /\ Placed(h) /\ Counted(h) /\ h.next <= v.len
  BY DEF SoundHeap, VirtualHeap
<1>2. /\ h = [next |-> h.next, count |-> h.count, live |-> h.live, stash |-> h.stash, leaked |-> h.leaked]
      /\ h.next \in Nat /\ h.count \in Nat /\ h.live \in SUBSET Blk /\ h.stash \in SUBSET Blk /\ h.leaked \in SUBSET Blk
  BY <1>1 DEF HeapT
<1>0. b \in h.live /\ other \in h.live /\ v.heap = h  OBVIOUS
<1> HIDE DEF h
<1>3. b \in Blk /\ b.addr \in Nat /\ b.size \in Nat /\ b.addr + b.size <= h.next  BY <1>0, <1>1, <1>2 DEF Blk, Placed
<1>4. /\ IsFiniteSet(h.live \ {b}) /\ h.count - 1 = Cardinality(h.live \ {b})
      /\ h.count - 1 \in Nat /\ h.count - 1 # 0
  <2>1. IsFiniteSet(h.live) /\ h.count = Cardinality(h.live)  BY <1>1 DEF Counted
  <2>2. IsFiniteSet(h.live \ {b}) /\ Cardinality(h.live \ {b}) = Cardinality(h.live) - 1
    BY <1>0, <2>1, FS_RemoveElement
  <2>3. other \in h.live \ {b}  BY <1>0
  <2>4. Cardinality(h.live \ {b}) \in Nat  BY <2>2, FS_CardinalityType
  <2>5. Cardinality(h.live \ {b}) # 0  BY <2>2, <2>3, FS_EmptySet
  <2> QED  BY <2>1, <2>2, <2>4, <2>5
<1>5. g = [next |-> h.next, count |-> h.count - 1, live |-> h.live \ {b}, stash |-> h.stash, leaked |-> h.leaked]
  <2>1. g = [[h EXCEPT !.count = h.count - 1] EXCEPT !.live = h.live \ {b}]  BY <1>2
  <2>2. g \in [next : {h.next}, count : {h.count - 1}, live : {h.live \ {b}}, stash : {h.stash}, leaked : {h.leaked}]
    BY <1>2, <2>1
  <2> HIDE DEF g
  <2> QED  BY <2>2
<1> HIDE DEF g
<1>6. /\ g \in HeapT /\ g.next = h.next /\ g.count = h.count - 1 /\ g.live = h.live \ {b} /\ g.stash = h.stash
  BY <1>2, <1>4, <1>5 DEF HeapT
<1>7. low = [next |-> h.next - b.size, count |-> h.count - 1, live |-> h.live \ {b}, stash |-> h.stash, leaked |-> h.leaked]
  BY <1>2, <1>5
<1> HIDE DEF low
<1>8. \A c \in g.live \cup g.stash : /\ c \in h.live \cup h.stash /\ c # b /\ c.addr \in Nat /\ c.size \in Nat
                                     /\ c.addr + c.size <= h.next /\ Apart(b, c) /\ Apart(c, b)
  <2> SUFFICES ASSUME NEW c \in g.live \cup g.stash
               PROVE  /\ c \in h.live \cup h.stash /\ c # b /\ c.addr \in Nat /\ c.size \in Nat
                      /\ c.addr + c.size <= h.next /\ Apart(b, c) /\ Apart(c, b)
    OBVIOUS
  <2>1. c \in h.live \cup h.stash /\ c # b  BY <1>0, <1>1, <1>6 DEF Placed
  <2>2. c.addr \in Nat /\ c.size \in Nat  BY <1>2, <2>1 DEF Blk
  <2> QED  BY <1>0, <1>1, <2>1, <2>2 DEF Placed
<1>9. Placed(g)
  <2>1. \A c, d \in g.live \cup g.stash : c # d => Apart(c, d)  BY <1>1, <1>8 DEF Placed
  <2> QED  BY <1>1, <1>6, <1>8, <2>1 DEF Placed
<1>10. f \in HeapT /\ Placed(f) /\ f.live = h.live \ {b} /\ f.count = h.count - 1 /\ f.next <= h.next
  <2>1. CASE A!AtTop(g, b)
    <3>1. f = A!StashTried(low)  BY <1>6, <2>1 DEF A!Freed, g, low
    <3>2. b.addr + b.size = h.next  BY <1>6, <2>1 DEF A!AtTop
    <3>3. h.next - b.size = b.addr  BY <1>2, <1>3, <3>2
    <3>4. /\ low \in HeapT /\ low.next = b.addr /\ low.count = h.count - 1 /\ low.live = g.live /\ low.stash = g.stash
          /\ low.live = h.live \ {b}
      BY <1>2, <1>3, <1>4, <1>6, <1>7, <3>3 DEF HeapT
    <3>5. \A c \in g.live \cup g.stash : c.addr + c.size <= b.addr
      <4> SUFFICES ASSUME NEW c \in g.live \cup g.stash  PROVE c.addr + c.size <= b.addr  OBVIOUS
      <4>1. c.addr \in Nat /\ c.size \in Nat /\ c.addr + c.size <= h.next /\ Apart(b, c)  BY <1>8
      <4>2. CASE c.size = 0
        <5>1. c \in g.live  BY <1>9, <4>2 DEF Placed
        <5> QED  BY <1>3, <1>9, <4>1, <4>2, <5>1 DEF Placed
      <4>3. CASE c.size # 0  BY <1>3, <3>2, <4>1, <4>3 DEF Apart
      <4> QED  BY <4>2, <4>3
    <3>6. Placed(low)  BY <1>9, <3>4, <3>5 DEF Placed
    <3>7. LET p == A!Popped(low)
          IN  p \in HeapT /\ Placed(p) /\ p.live = low.live /\ p.count = low.count /\ p.next <= low.next
      BY <3>4, <3>6, PoppedPlaced
    <3>8. f = A!Popped(low)  BY <1>4, <3>1, <3>4, <3>7 DEF A!StashTried
    <3>9. A!Popped(low).next \in Nat  BY <3>7 DEF HeapT
    <3> QED  BY <1>2, <1>3, <3>2, <3>4, <3>7, <3>8, <3>9
  <2>2. CASE ~A!AtTop(g, b)
    <3>1. f = A!Stashed(g, b)  BY <1>4, <1>6, <2>2 DEF A!Freed, g
    <3> QED  BY <1>2, <1>3, <1>6, <1>8, <1>9, <3>1, StashedPlaced
  <2> QED  BY <2>1, <2>2
<1> HIDE DEF f
<1>11. Counted(f)  BY <1>4, <1>10 DEF Counted
<1> DEFINE w == [v EXCEPT !.heap = f]
<1>12. w \in VirtualHeap /\ w.base = v.base /\ w.len = v.len /\ w.heap = f  BY <1>1, <1>10 DEF VirtualHeap
<1>13. [v EXCEPT !.heap = A!Freed(@, b)] = w  BY <1>0, <1>1 DEF f
<1>14. f.next \in Nat  BY <1>10 DEF HeapT
<1>15. SoundHeap(w)  BY <1>1, <1>2, <1>10, <1>11, <1>12, <1>14 DEF SoundHeap
<1> HIDE DEF w
<1> QED  BY <1>0, <1>10, <1>12, <1>13, <1>15

-----------------------------------------------------------------------------
(* Regions and blocks *)

Rgn == [start : Nat, len : Nat, word : Nat]
Clear(r, s) == r.start + r.len <= s.start \/ s.start + s.len <= r.start
Holds(base, b, r) == r.start = base + b.addr /\ r.len <= b.size

\* Regions that overlap are those that are not clear of each other.
LEMMA ClearIsNoOverlap ==
    ASSUME NEW r \in Rgn, NEW s \in Rgn
    PROVE  overlaps_virtually_with(r, s) <=> ~Clear(r, s)
BY DEF overlaps_virtually_with, get_virtual_end_inclusive, Rgn, Clear

TypedMap(map) == \A r \in map : r \in Rgn /\ r.start < Space

\* The map has the segments, the regions strs of the blocks kept (arguments and
\* environment) and the regions hr of the blocks hb; segments are outside the heap.
Laid(map, v, segs, kept, strs, hb, hr) ==
    /\ SoundHeap(v) /\ v.base > 0 /\ v.base + v.len < Space
    /\ v.heap.live = kept \cup hb /\ kept \cap hb = {}
    /\ map = segs \cup strs \cup hr
    /\ TypedMap(map)
    /\ \A r, s \in map : r = s \/ Clear(r, s)
    /\ \A r \in segs : r.start > 0 /\ r.len > 0 /\ (r.start + r.len <= v.base \/ r.start > v.base + v.len)
    /\ \A b \in kept : \E r \in strs : Holds(v.base, b, r)
    /\ \A r \in strs : r.word = 0 /\ \E b \in kept : Holds(v.base, b, r)
    /\ IsFiniteSet(strs) /\ Cardinality(kept) = Cardinality(strs)
    /\ \A r \in hr : \E b \in hb : Holds(v.base, b, r)

\* add_region takes a region that is clear of all the others.
LEMMA AddClear ==
    ASSUME NEW map, TypedMap(map), NEW r \in Rgn, \A s \in map : Clear(s, r)
    PROVE  add_region(map, r) = [ok |-> TRUE, map |-> map \cup {r}]
BY ClearIsNoOverlap DEF add_region, TypedMap

\* r can be added to the map.
Fresh(map, r) ==
    /\ r.start < Space /\ r \notin map /\ \A s \in map : Clear(s, r)
    /\ add_region(map, r) = [ok |-> TRUE, map |-> map \cup {r}]

\* The region of a block that alloc has just given out is clear of all others.
LEMMA NewRegionIsFresh ==
    ASSUME NEW map, NEW v, NEW segs, NEW kept, NEW strs, NEW hb, NEW hr,
           Laid(map, v, segs, kept, strs, hb, hr),
           NEW r \in Rgn, r.len > 0, r.start >= v.base + v.heap.next, (r.start - v.base) + r.len < v.len
    PROVE  Fresh(map, r)
<1>1. r.start \in Nat /\ r.len \in Nat  BY DEF Rgn
<1>2. /\ v.base \in Nat /\ v.len \in Nat /\ v.heap.next \in Nat /\ v.base + v.len < Space
      /\ v.heap.live \subseteq Blk /\ \A b \in v.heap.live : b.addr + b.size <= v.heap.next
  BY DEF Laid, SoundHeap, VirtualHeap, HeapT, Placed
<1>3. Space \in Nat  BY ProgramMemoryAssumption
<1>4. r.start < Space  BY <1>1, <1>2, <1>3
<1>5. \A s \in strs \cup hr : \E b \in v.heap.live : Holds(v.base, b, s)  BY DEF Laid
<1>6. \A s \in map : s \in Rgn /\ s.start \in Nat /\ s.len \in Nat  BY DEF Laid, TypedMap, Rgn
<1>7. ASSUME NEW s \in map  PROVE Clear(s, r) /\ s # r
  <2>1. CASE s \in strs \cup hr
    <3>1. PICK b \in v.heap.live : Holds(v.base, b, s)  BY <1>5, <2>1
    <3>2. b.addr \in Nat /\ b.size \in Nat /\ b.addr + b.size <= v.heap.next  BY <1>2 DEF Blk
    <3>3. s.start + s.len <= r.start  BY <1>1, <1>2, <1>6, <3>1, <3>2 DEF Holds
    <3> QED  BY <1>1, <1>6, <3>3 DEF Clear
  <2>2. CASE s \in segs
    <3>1. s.len > 0 /\ (s.start + s.len <= v.base \/ s.start > v.base + v.len)  BY <2>2 DEF Laid
    <3> QED  BY <1>1, <1>2, <1>6, <3>1 DEF Clear
  <2> QED  BY <2>1, <2>2 DEF Laid
<1>8. TypedMap(map)  BY DEF Laid
<1>9. add_region(map, r) = [ok |-> TRUE, map |-> map \cup {r}]  BY <1>7, <1>8, AddClear
<1> QED  BY <1>4, <1>7, <1>9 DEF Fresh

-----------------------------------------------------------------------------
(* Loading strings *)

OneLoaded(r, v, segs, kept, strs, hb, s) ==
    /\ r \in [ok : BOOLEAN, map : {r.map}, va : {r.va}]
    /\ SoundHeap(r.va) /\ r.va.base = v.base /\ r.va.len = v.len /\ TypedMap(r.map)
    /\ r.ok => \E b, n : /\ Laid(r.map, r.va, segs, kept \cup {b}, strs \cup {n}, hb, {})
                         /\ n.len = Length[s] + 1

\* One string more: its block joins kept, its region strs.
LEMMA LoadOneString ==
    ASSUME NEW map, NEW v, NEW segs, NEW kept, NEW strs, NEW hb,
           Laid(map, v, segs, kept, strs, hb, {}),
           NEW s \in DOMAIN Length
    PROVE  OneLoaded(load_string([ok |-> TRUE, map |-> map, va |-> v], s), v, segs, kept, strs, hb, s)
<1> DEFINE size == Length[s] + 1
           a == alloc(v, size, 1)
           n == Region(a.ptr, size, 0)
           b == [addr |-> a.ptr - v.base, size |-> size, align |-> 1]
           r == load_string([ok |-> TRUE, map |-> map, va |-> v], s)
<1>1. size \in Nat /\ size > 0
  BY ProgramMemoryAssumption
<1>2. SoundHeap(v) /\ TypedMap(map) /\ v.base > 0 /\ v.base + v.len < Space /\ v.base \in Nat /\ v.len \in Nat
  BY DEF Laid, SoundHeap, VirtualHeap
<1>3. r = IF a.ptr = 0 THEN [ok |-> FALSE, map |-> map, va |-> a.va]
          ELSE [ok |-> add_region(map, n).ok, map |-> add_region(map, n).map, va |-> a.va]
  <2> DEFINE acc == [ok |-> TRUE, map |-> map, va |-> v]
  <2>1. acc.ok = TRUE /\ acc.map = map /\ acc.va = v  OBVIOUS
  <2>2. r = load_string(acc, s)  OBVIOUS
  <2> HIDE DEF r
  <2> HIDE DEF acc
  <2> QED  BY <2>1, <2>2 DEF load_string
<1> HIDE DEF size
<1>4. /\ SoundHeap(a.va) /\ a.va.base = v.base /\ a.va.len = v.len
      /\ a.ptr = 0 => a.va.heap.live = v.heap.live
      /\ a.ptr # 0 => /\ b \in Blk /\ b \notin v.heap.live /\ a.va.heap.live = v.heap.live \cup {b}
                      /\ a.ptr \in Nat /\ a.ptr >= v.base + v.heap.next /\ b.addr + size < v.len
  BY <1>1, <1>2, AllocEffect
<1> HIDE DEF a, r
<1>5. CASE a.ptr = 0
  <2>1. r = [ok |-> FALSE, map |-> map, va |-> a.va]  BY <1>3, <1>5
  <2>2. r \in [ok : BOOLEAN, map : {r.map}, va : {r.va}] /\ ~r.ok /\ r.map = map /\ r.va = a.va  BY <2>1
  <2> QED  BY <1>2, <1>4, <2>2 DEF r, OneLoaded
<1>6. CASE a.ptr # 0
  <2>0. n \in Rgn /\ n.start = a.ptr /\ n.len = size /\ n.word = 0
    BY <1>1, <1>4, <1>6 DEF Region, Rgn
  <2>10. n.start >= v.base + v.heap.next /\ (n.start - v.base) + n.len < v.len /\ n.len > 0
    BY <1>1, <1>4, <1>6, <2>0
  <2>11. Fresh(map, n)
    <3> HIDE DEF n
    <3> QED  BY <2>0, <2>10, NewRegionIsFresh
  <2>1. /\ n \in Rgn /\ n.start = a.ptr /\ n.len = size /\ n.word = 0 /\ n.start < Space
        /\ n \notin map /\ \A x \in map : Clear(x, n)
    BY <2>0, <2>11 DEF Fresh
  <2>12. add_region(map, n) = [ok |-> TRUE, map |-> map \cup {n}]  BY <2>11 DEF Fresh
  <2>2. r = [ok |-> TRUE, map |-> map \cup {n}, va |-> a.va]
    <3> HIDE DEF n
    <3> QED  BY <1>3, <1>6, <2>12
  <2>3. TypedMap(map \cup {n})  BY <1>2, <2>1 DEF TypedMap
  <2>4. Holds(v.base, b, n)  BY <1>1, <1>2, <1>4, <1>6, <2>1 DEF Holds
  <2>5. b \notin kept /\ b \notin hb /\ v.heap.live = kept \cup hb  BY <1>4, <1>6 DEF Laid
  <2> HIDE DEF n, b
  <2>6. \A x, y \in map \cup {n} : x = y \/ Clear(x, y)
    <3>1. \A x, y \in map : x = y \/ Clear(x, y)  BY DEF Laid
    <3>2. \A x \in map : Clear(x, n) /\ Clear(n, x)  BY <2>1 DEF Clear
    <3> QED  BY <3>1, <3>2
  <2>7. n \notin strs  BY <2>1 DEF Laid
  <2>8. /\ IsFiniteSet(strs \cup {n}) /\ Cardinality(strs \cup {n}) = Cardinality(strs) + 1
        /\ Cardinality(kept \cup {b}) = Cardinality(kept) + 1
    <3>1. IsFiniteSet(strs)  BY DEF Laid
    <3>2. IsFiniteSet(kept)
      <4>1. IsFiniteSet(v.heap.live)  BY <1>2 DEF SoundHeap, Counted
      <4> QED  BY <2>5, <4>1, FS_Subset
    <3> QED  BY <2>5, <2>7, <3>1, <3>2, FS_AddElement
  <2>9. Laid(map \cup {n}, a.va, segs, kept \cup {b}, strs \cup {n}, hb, {})
    <3>1. /\ a.va.base > 0 /\ a.va.base + a.va.len < Space  BY <1>2, <1>4
    <3>2. a.va.heap.live = (kept \cup {b}) \cup hb /\ (kept \cup {b}) \cap hb = {}
      <4>1. kept \cap hb = {}  BY DEF Laid
      <4> QED  BY <1>4, <1>6, <2>5, <4>1
    <3>3. map \cup {n} = segs \cup (strs \cup {n}) \cup {}  BY DEF Laid
    <3>4. \A x \in segs : x.start > 0 /\ x.len > 0 /\ (x.start + x.len <= a.va.base \/ x.start > a.va.base + a.va.len)
      BY <1>4 DEF Laid
    <3>5. \A c \in kept \cup {b} : \E x \in strs \cup {n} : Holds(a.va.base, c, x)  BY <1>4, <2>4 DEF Laid
    <3>6. \A x \in strs \cup {n} : x.word = 0 /\ \E c \in kept \cup {b} : Holds(a.va.base, c, x)
      BY <1>4, <2>1, <2>4 DEF Laid
    <3>7. Cardinality(kept) = Cardinality(strs)  BY DEF Laid
    <3> QED  BY <1>4, <2>3, <2>6, <2>8, <3>1, <3>2, <3>3, <3>4, <3>5, <3>6, <3>7 DEF Laid
  <2>13. r \in [ok : BOOLEAN, map : {r.map}, va : {r.va}] /\ r.ok /\ r.map = map \cup {n} /\ r.va = a.va  BY <2>2
  <2> QED  BY <1>4, <2>1, <2>13, <2>3, <2>9 DEF r, size, OneLoaded
<1> QED  BY <1>5, <1>6

\* load_strings, string by string.
StringsAfter(acc, strings) ==
    CHOOSE after : after = [i \in 0 .. Len(strings) |->
                              IF i = 0 THEN acc ELSE load_string(after[i - 1], strings[i])]

\* load_strings loads one string at a time.
LEMMA StringsSteps ==
    ASSUME NEW acc, NEW strings, Len(strings) \in Nat
    PROVE  LET after == StringsAfter(acc, strings)
           IN  /\ after[0] = acc
               /\ \A i \in 1 .. Len(strings) : after[i] = load_string(after[i - 1], strings[i])
               /\ load_strings(acc, strings) = after[Len(strings)]
<1> DEFINE Def(g, n) == g = [i \in 0 .. n |-> IF i = 0 THEN acc ELSE load_string(g[i - 1], strings[i])]
           S == {n \in Nat : \E g : Def(g, n)}
<1>1. 0 \in S
  <2> DEFINE g == [i \in 0 .. 0 |-> acc]
  <2>1. Def(g, 0)  OBVIOUS
  <2> HIDE DEF g
  <2> QED  BY <2>1
<1>2. ASSUME NEW n \in Nat, n \in S  PROVE n + 1 \in S
  <2>1. PICK g : Def(g, n)  BY <1>2
  <2> DEFINE h == [i \in 0 .. n + 1 |-> IF i <= n THEN g[i] ELSE load_string(g[n], strings[n + 1])]
  <2>2. \A i \in 0 .. n : g[i] = IF i = 0 THEN acc ELSE load_string(g[i - 1], strings[i])  BY <2>1
  <2>3. \A i \in 0 .. n + 1 : h[i] = IF i = 0 THEN acc ELSE load_string(h[i - 1], strings[i])
    <3> SUFFICES ASSUME NEW i \in 0 .. n + 1
                 PROVE  h[i] = IF i = 0 THEN acc ELSE load_string(h[i - 1], strings[i])
      OBVIOUS
    <3>1. CASE i = 0  BY <2>2, <3>1
    <3>2. CASE i \in 1 .. n  BY <2>2, <3>2
    <3>3. CASE i = n + 1  BY <3>3
    <3> QED  BY <3>1, <3>2, <3>3
  <2>4. h = [i \in 0 .. n + 1 |-> h[i]]  OBVIOUS
  <2>5. Def(h, n + 1)  BY <2>3, <2>4
  <2> HIDE DEF h
  <2> QED  BY <2>5
<1> HIDE DEF S
<1>3. Len(strings) \in S  BY <1>1, <1>2, NatSetInduction
<1>4. \E g : Def(g, Len(strings))  BY <1>3 DEF S
<1>5. Def(StringsAfter(acc, strings), Len(strings))  BY <1>4 DEF StringsAfter
<1>6. load_strings(acc, strings) = StringsAfter(acc, strings)[Len(strings)]  BY DEF load_strings, StringsAfter
<1> QED  BY <1>5, <1>6

\* What is there after the first n strings.
LoadedTo(r, v, segs, kept, strs, hb, strings, n) ==
    /\ r \in [ok : BOOLEAN, map : {r.map}, va : {r.va}]
    /\ SoundHeap(r.va) /\ r.va.base = v.base /\ r.va.len = v.len /\ TypedMap(r.map)
    /\ r.ok => \E k, s : /\ Laid(r.map, r.va, segs, k, s, hb, {}) /\ kept \subseteq k /\ strs \subseteq s
                         /\ \A x \in s \ strs : x.len > 0
                         /\ \A i \in 1 .. n : \E x \in s : x.len = Length[strings[i]] + 1

\* Each string is loaded into a block and a region of its own, or the load fails.
LEMMA LoadStrings ==
    ASSUME NEW map, NEW v, NEW segs, NEW kept, NEW strs, NEW hb,
           Laid(map, v, segs, kept, strs, hb, {}), NEW strings \in Seq(DOMAIN Length)
    PROVE  LoadedTo(load_strings([ok |-> TRUE, map |-> map, va |-> v], strings),
                    v, segs, kept, strs, hb, strings, Len(strings))
<1> DEFINE acc == [ok |-> TRUE, map |-> map, va |-> v]
           after == StringsAfter(acc, strings)
           To(n) == LoadedTo(after[n], v, segs, kept, strs, hb, strings, n)
           S == {n \in Nat : n <= Len(strings) => To(n)}
<1>1. Len(strings) \in Nat /\ \A i \in 1 .. Len(strings) : strings[i] \in DOMAIN Length  OBVIOUS
<1>2. /\ after[0] = acc
      /\ \A i \in 1 .. Len(strings) : after[i] = load_string(after[i - 1], strings[i])
      /\ load_strings(acc, strings) = after[Len(strings)]
  <2> HIDE DEF acc
  <2> QED  BY <1>1, StringsSteps
<1> HIDE DEF after
<1>3. To(0)
  <2>1. acc \in [ok : BOOLEAN, map : {acc.map}, va : {acc.va}] /\ acc.ok /\ acc.map = map /\ acc.va = v  OBVIOUS
  <2> HIDE DEF acc
  <2>2. SoundHeap(v) /\ TypedMap(map)  BY DEF Laid
  <2>3. \E k, s : /\ Laid(map, v, segs, k, s, hb, {}) /\ kept \subseteq k /\ strs \subseteq s
                  /\ \A x \in s \ strs : x.len > 0
                  /\ \A i \in 1 .. 0 : \E x \in s : x.len = Length[strings[i]] + 1
    OBVIOUS
  <2> QED  BY <1>2, <2>1, <2>2, <2>3 DEF LoadedTo
<1>4. ASSUME NEW n \in Nat, n + 1 <= Len(strings), To(n)  PROVE To(n + 1)
  <2> DEFINE a == after[n]
             r == after[n + 1]
             x == strings[n + 1]
  <2>1. r = load_string(a, x) /\ x \in DOMAIN Length  BY <1>1, <1>2, <1>4
  <2>2. /\ a \in [ok : BOOLEAN, map : {a.map}, va : {a.va}]
        /\ SoundHeap(a.va) /\ a.va.base = v.base /\ a.va.len = v.len /\ TypedMap(a.map)
    BY <1>4 DEF LoadedTo
  <2>3. a.ok => \E k, s : /\ Laid(a.map, a.va, segs, k, s, hb, {}) /\ kept \subseteq k /\ strs \subseteq s
                          /\ \A y \in s \ strs : y.len > 0
                          /\ \A i \in 1 .. n : \E y \in s : y.len = Length[strings[i]] + 1
    BY <1>4 DEF LoadedTo
  <2> HIDE DEF a
  <2>4. CASE ~a.ok
    <3>1. r = a  BY <2>1, <2>4 DEF load_string
    <3> QED  BY <2>2, <2>4, <3>1 DEF LoadedTo, To
  <2>5. CASE a.ok
    <3>1. PICK k, s : /\ Laid(a.map, a.va, segs, k, s, hb, {}) /\ kept \subseteq k /\ strs \subseteq s
                      /\ \A y \in s \ strs : y.len > 0
                      /\ \A i \in 1 .. n : \E y \in s : y.len = Length[strings[i]] + 1
      BY <2>3, <2>5
    <3>2. a = [ok |-> TRUE, map |-> a.map, va |-> a.va]  BY <2>2, <2>5
    <3> DEFINE q == load_string([ok |-> TRUE, map |-> a.map, va |-> a.va], x)
    <3>3. /\ q \in [ok : BOOLEAN, map : {q.map}, va : {q.va}]
          /\ SoundHeap(q.va) /\ q.va.base = a.va.base /\ q.va.len = a.va.len /\ TypedMap(q.map)
          /\ q.ok => \E b, y : /\ Laid(q.map, q.va, segs, k \cup {b}, s \cup {y}, hb, {})
                               /\ y.len = Length[x] + 1
      <4> HIDE DEF x
      <4>1. Laid(a.map, a.va, segs, k, s, hb, {})  BY <3>1
      <4>2. OneLoaded(q, a.va, segs, k, s, hb, x)  BY <2>1, <4>1, LoadOneString
      <4> HIDE DEF q
      <4> QED  BY <4>2 DEF OneLoaded
    <3>4. r = q  BY <2>1, <3>2
    <3> HIDE DEF q
    <3>5. q.ok => \E k2, s2 : /\ Laid(q.map, q.va, segs, k2, s2, hb, {}) /\ kept \subseteq k2 /\ strs \subseteq s2
                              /\ \A y \in s2 \ strs : y.len > 0
                              /\ \A i \in 1 .. n + 1 : \E y \in s2 : y.len = Length[strings[i]] + 1
      <4> SUFFICES ASSUME q.ok
                   PROVE  \E k2, s2 : /\ Laid(q.map, q.va, segs, k2, s2, hb, {}) /\ kept \subseteq k2 /\ strs \subseteq s2
                                      /\ \A y \in s2 \ strs : y.len > 0
                                      /\ \A i \in 1 .. n + 1 : \E y \in s2 : y.len = Length[strings[i]] + 1
        OBVIOUS
      <4>1. PICK b, y : Laid(q.map, q.va, segs, k \cup {b}, s \cup {y}, hb, {}) /\ y.len = Length[x] + 1
        BY <3>3
      <4>2. Length[x] \in Nat  BY <2>1, ProgramMemoryAssumption
      <4>3. \A z \in (s \cup {y}) \ strs : z.len > 0  BY <3>1, <4>1, <4>2
      <4>4. \A i \in 1 .. n + 1 : \E z \in s \cup {y} : z.len = Length[strings[i]] + 1
        <5> SUFFICES ASSUME NEW i \in 1 .. n + 1  PROVE \E z \in s \cup {y} : z.len = Length[strings[i]] + 1
          OBVIOUS
        <5>1. CASE i = n + 1  BY <4>1, <5>1
        <5>2. CASE i \in 1 .. n  BY <3>1, <5>2
        <5> QED  BY <5>1, <5>2
      <4>5. kept \subseteq k \cup {b} /\ strs \subseteq s \cup {y}  BY <3>1
      <4> QED  BY <4>1, <4>3, <4>4, <4>5
    <3> QED  BY <2>2, <3>3, <3>4, <3>5 DEF LoadedTo, To
  <2> QED  BY <2>4, <2>5
<1>5. Len(strings) \in S
  <2>1. 0 \in S  BY <1>3
  <2>2. \A n \in Nat : n \in S => n + 1 \in S
    <3> SUFFICES ASSUME NEW n \in Nat, n \in S  PROVE n + 1 \in S  OBVIOUS
    <3>1. n + 1 <= Len(strings) => To(n)  BY <1>1
    <3> HIDE DEF To
    <3> QED  BY <1>4, <3>1
  <2> HIDE DEF S
  <2> QED  BY <1>1, <2>1, <2>2, NatSetInduction
<1> QED  BY <1>1, <1>2, <1>5

-----------------------------------------------------------------------------
(* Loading arguments and environment *)

\* Blocks of bytes come one behind the other.
LEMMA AllocOfBytes ==
    ASSUME NEW v, SoundHeap(v), NEW size \in Nat
    PROVE  alloc(v, size, 1).ptr \in {0, v.base + v.heap.next}
<1> DEFINE l == [size |-> size, align |-> 1]
<1>1. v.heap.next \in Nat /\ v.base \in Nat  BY DEF SoundHeap, VirtualHeap, HeapT
<1>2. l.align = 1  OBVIOUS
<1> HIDE DEF l
<1>3. A!Padding(v.heap, l) = 0  BY <1>1, <1>2 DEF A!Padding
<1>4. v.heap.next + 0 = v.heap.next  BY <1>1
<1>5. alloc(v, size, 1).ptr \in {0, v.base + (v.heap.next + A!Padding(v.heap, l))}  BY DEF alloc, l
<1> QED  BY <1>3, <1>4, <1>5

\* Segments and stack, before anything is allocated.
SegsOk(segs, v) ==
    /\ TypedMap(segs) /\ \A r, s \in segs : r = s \/ Clear(r, s)
    /\ \A r \in segs : r.start > 0 /\ r.len > 0 /\ (r.start + r.len <= v.base \/ r.start > v.base + v.len)
    /\ v.base + v.len < Space

\* What there is when arguments (or also the environment) are loaded; a block is left.
ArgsLoaded(r, v, segs, strings) ==
    /\ r \in [ok : BOOLEAN, map : {r.map}, va : {r.va}]
    /\ SoundHeap(r.va) /\ TypedMap(r.map)
    /\ r.ok => \E k, s : /\ Laid(r.map, r.va, segs, k, s, {}, {}) /\ k # {}
                         /\ r.va.base = v.base /\ r.va.len = v.len
                         /\ \A i \in DOMAIN strings : \E x \in s : x.len = Length[strings[i]] + 1

\* The table of the arguments is loaded, then its strings.
LEMMA LoadArgs ==
    ASSUME NEW v, SoundHeap(v), v.heap.live = {}, v.heap.next = 0, NEW segs, SegsOk(segs, v),
           NEW args \in Seq(DOMAIN Length)
    PROVE  ArgsLoaded(load_args_into_virtual_memory([ok |-> TRUE, map |-> segs, va |-> v], args), v, segs, args)
<1> DEFINE size == Len(args) * Word
           whole == size * Word
           a == alloc(v, whole, 1)
           n == Region(a.ptr, size, 0)
           b == [addr |-> a.ptr - v.base, size |-> whole, align |-> 1]
           q == load_strings([ok |-> TRUE, map |-> segs, va |-> a.va], args)
           r == load_args_into_virtual_memory([ok |-> TRUE, map |-> segs, va |-> v], args)
<1>1. size \in Nat /\ whole \in Nat /\ size <= whole
  <2>1. Len(args) \in Nat /\ Word \in Nat /\ Word >= 1  BY ProgramMemoryAssumption
  <2>2. \A x, y \in Nat : x * y \in Nat  OBVIOUS
  <2>3. \A x, y \in Nat : y >= 1 => x <= x * y  BY Z3
  <2> QED  BY <2>1, <2>2, <2>3
<1>2. r = IF a.ptr = 0 THEN [ok |-> FALSE, map |-> segs, va |-> a.va]
          ELSE IF q.ok THEN [ok |-> add_region(q.map, n).ok, map |-> add_region(q.map, n).map, va |-> q.va] ELSE q
  <2> DEFINE acc == [ok |-> TRUE, map |-> segs, va |-> v]
  <2>1. acc.map = segs /\ acc.va = v  OBVIOUS
  <2>2. r = load_args_into_virtual_memory(acc, args)  OBVIOUS
  <2> HIDE DEF acc, r
  <2> QED  BY <2>1, <2>2 DEF load_args_into_virtual_memory
<1>3. v.base \in Nat /\ v.len \in Nat /\ TypedMap(segs) /\ v.base + v.len < Space
  BY DEF SoundHeap, VirtualHeap, SegsOk
<1> HIDE DEF size, whole
<1>4. /\ SoundHeap(a.va) /\ a.va.base = v.base /\ a.va.len = v.len
      /\ a.ptr # 0 => /\ b \in Blk /\ a.va.heap.live = {b}
                      /\ a.ptr \in Nat /\ b.addr + whole < v.len
  <2>1. /\ SoundHeap(a.va) /\ a.va.base = v.base /\ a.va.len = v.len
        /\ a.ptr = 0 /\ v.base > 0 => a.va.heap.live = v.heap.live
        /\ a.ptr # 0 =>
             /\ b \in Blk /\ b \notin v.heap.live /\ a.va.heap.live = v.heap.live \cup {b}
             /\ a.ptr \in Nat /\ a.ptr >= v.base + v.heap.next /\ b.addr + whole < v.len
    BY <1>1, AllocEffect
  <2> HIDE DEF a, b
  <2> QED  BY <2>1
<1>5. a.ptr \in {0, v.base}  BY <1>1, <1>3, AllocOfBytes
<1> HIDE DEF a, r
<1>6. CASE a.ptr = 0
  <2>1. r = [ok |-> FALSE, map |-> segs, va |-> a.va]  BY <1>2, <1>6
  <2>2. r \in [ok : BOOLEAN, map : {r.map}, va : {r.va}] /\ ~r.ok /\ r.map = segs /\ r.va = a.va  BY <2>1
  <2> QED  BY <1>3, <1>4, <2>2 DEF r, ArgsLoaded
<1>7. CASE a.ptr # 0
  <2>1. a.ptr = v.base /\ v.base > 0  BY <1>3, <1>5, <1>7
  <2>2. b \in Blk /\ a.va.heap.live = {b} /\ b.addr = 0 /\ b.size = whole /\ whole < v.len
    BY <1>1, <1>3, <1>4, <1>7, <2>1
  <2>3. n \in Rgn /\ n.start = v.base /\ n.len = size /\ n.word = 0  BY <1>1, <1>3, <2>1 DEF Region, Rgn
  <2> HIDE DEF n, b
  <2>4. Laid(segs, a.va, segs, {}, {}, {b}, {})
    <3>1. IsFiniteSet({})  BY FS_EmptySet
    <3> QED  BY <1>3, <1>4, <2>1, <2>2, <3>1 DEF Laid, SegsOk
  <2>5. LoadedTo(q, a.va, segs, {}, {}, {b}, args, Len(args))  BY <2>4, LoadStrings
  <2> HIDE DEF q
  <2>6. /\ q \in [ok : BOOLEAN, map : {q.map}, va : {q.va}]
        /\ SoundHeap(q.va) /\ q.va.base = v.base /\ q.va.len = v.len /\ TypedMap(q.map)
    BY <1>4, <2>5 DEF LoadedTo
  <2>7. CASE ~q.ok
    <3>1. r = q  BY <1>2, <1>7, <2>7
    <3> QED  BY <2>6, <2>7, <3>1 DEF ArgsLoaded, r
  <2>8. CASE q.ok
    <3>1. PICK k, s : /\ Laid(q.map, q.va, segs, k, s, {b}, {}) /\ \A x \in s : x.len > 0
                      /\ \A i \in 1 .. Len(args) : \E x \in s : x.len = Length[args[i]] + 1
      <4>1. \E k, s : /\ Laid(q.map, q.va, segs, k, s, {b}, {}) /\ {} \subseteq k /\ {} \subseteq s
                      /\ \A x \in s \ {} : x.len > 0
                      /\ \A i \in 1 .. Len(args) : \E x \in s : x.len = Length[args[i]] + 1
        BY <2>5, <2>8, Zenon DEF LoadedTo
      <4> QED  BY <4>1
    <3>2. /\ q.map = segs \cup s /\ q.va.heap.live = k \cup {b} /\ b \notin k
          /\ \A c \in k : Apart(c, b) /\ c \in Blk
      <4>1. q.map = segs \cup s /\ q.va.heap.live = k \cup {b} /\ b \notin k  BY <3>1 DEF Laid
      <4>2. \A c \in k : c \in q.va.heap.live /\ b \in q.va.heap.live /\ c # b  BY <4>1
      <4>3. \A c \in k : Apart(c, b)  BY <2>6, <4>2 DEF SoundHeap, Placed
      <4>4. \A c \in k : c \in Blk  BY <2>6, <4>2 DEF SoundHeap, VirtualHeap, HeapT
      <4> QED  BY <4>1, <4>3, <4>4
    <3>3. \A x \in q.map : x \in Rgn /\ x.start \in Nat /\ x.len \in Nat /\ x.len > 0
      <4>1. \A x \in segs : x.len > 0  BY DEF SegsOk
      <4> QED  BY <2>6, <3>1, <3>2, <4>1 DEF TypedMap, Rgn
    <3>4. \A x \in q.map : Clear(x, n) /\ Clear(n, x) /\ x # n
      <4> SUFFICES ASSUME NEW x \in q.map  PROVE Clear(x, n) /\ Clear(n, x) /\ x # n  OBVIOUS
      <4>1. CASE x \in s
        <5>1. PICK c \in k : Holds(q.va.base, c, x)  BY <3>1, <4>1 DEF Laid
        <5>2. c.addr \in Nat /\ c.size \in Nat /\ Apart(c, b)  BY <3>2 DEF Blk
        <5> QED  BY <1>1, <1>3, <2>2, <2>3, <2>6, <3>3, <5>1, <5>2 DEF Apart, Holds, Clear
      <4>2. CASE x \in segs
        <5>1. x.start + x.len <= v.base \/ x.start > v.base + v.len  BY <4>2 DEF SegsOk
        <5> QED  BY <1>1, <1>3, <2>2, <2>3, <3>3, <5>1 DEF Clear
      <4> QED  BY <3>2, <4>1, <4>2
    <3>5. add_region(q.map, n) = [ok |-> TRUE, map |-> q.map \cup {n}]  BY <2>3, <2>6, <3>4, AddClear
    <3>6. r = [ok |-> TRUE, map |-> q.map \cup {n}, va |-> q.va]  BY <1>2, <1>7, <2>8, <3>5
    <3>7. r \in [ok : BOOLEAN, map : {r.map}, va : {r.va}] /\ r.ok /\ r.map = q.map \cup {n} /\ r.va = q.va
      BY <3>6
    <3>8. TypedMap(q.map \cup {n})
      <4>1. Space \in Nat  BY ProgramMemoryAssumption
      <4>2. n.start < Space  BY <1>3, <2>3, <4>1
      <4> QED  BY <2>3, <2>6, <4>2 DEF TypedMap
    <3>9. Laid(q.map \cup {n}, q.va, segs, k \cup {b}, s \cup {n}, {}, {})
      <4>1. q.va.base > 0 /\ q.va.base + q.va.len < Space  BY <1>3, <2>1, <2>6
      <4>2. q.map \cup {n} = segs \cup (s \cup {n}) \cup {}  BY <3>2
      <4>3. \A x, y \in q.map \cup {n} : x = y \/ Clear(x, y)
        <5>1. \A x, y \in q.map : x = y \/ Clear(x, y)  BY <3>1 DEF Laid
        <5> QED  BY <3>4, <5>1
      <4>4. \A x \in segs : x.start > 0 /\ x.len > 0 /\ (x.start + x.len <= q.va.base \/ x.start > q.va.base + q.va.len)
        BY <2>6 DEF SegsOk
      <4>5. Holds(q.va.base, b, n)  BY <1>1, <1>3, <2>2, <2>3, <2>6 DEF Holds
      <4>6. \A c \in k \cup {b} : \E x \in s \cup {n} : Holds(q.va.base, c, x)  BY <3>1, <4>5 DEF Laid
      <4>7. \A x \in s \cup {n} : x.word = 0 /\ \E c \in k \cup {b} : Holds(q.va.base, c, x)
        BY <2>3, <3>1, <4>5 DEF Laid
      <4>8. IsFiniteSet(s) /\ IsFiniteSet(k) /\ Cardinality(k) = Cardinality(s)
        <5>1. IsFiniteSet(q.va.heap.live)  BY <2>6 DEF SoundHeap, Counted
        <5>2. k \subseteq q.va.heap.live  BY <3>2
        <5>3. IsFiniteSet(k)  BY <5>1, <5>2, FS_Subset
        <5> QED  BY <3>1, <5>3 DEF Laid
      <4>9. n \notin s  BY <3>2, <3>4
      <4>10. /\ IsFiniteSet(s \cup {n}) /\ Cardinality(k \cup {b}) = Cardinality(s \cup {n})
        <5>1. IsFiniteSet(s \cup {n}) /\ Cardinality(s \cup {n}) = Cardinality(s) + 1  BY <4>8, <4>9, FS_AddElement
        <5>2. Cardinality(k \cup {b}) = Cardinality(k) + 1  BY <3>2, <4>8, FS_AddElement
        <5> QED  BY <4>8, <5>1, <5>2
      <4> QED  BY <2>6, <3>2, <3>8, <4>1, <4>2, <4>3, <4>4, <4>6, <4>7, <4>10 DEF Laid
    <3>10. \A i \in DOMAIN args : \E x \in s \cup {n} : x.len = Length[args[i]] + 1
      <4>1. DOMAIN args = 1 .. Len(args)  OBVIOUS
      <4> QED  BY <3>1, <4>1
    <3>11. k \cup {b} # {}  OBVIOUS
    <3>12. \E kk, ss : /\ Laid(q.map \cup {n}, q.va, segs, kk, ss, {}, {}) /\ kk # {}
                       /\ q.va.base = v.base /\ q.va.len = v.len
                       /\ \A i \in DOMAIN args : \E x \in ss : x.len = Length[args[i]] + 1
      BY <2>6, <3>9, <3>10, <3>11
    <3>13. \E kk, ss : /\ Laid(r.map, r.va, segs, kk, ss, {}, {}) /\ kk # {}
                       /\ r.va.base = v.base /\ r.va.len = v.len
                       /\ \A i \in DOMAIN args : \E x \in ss : x.len = Length[args[i]] + 1
      BY <3>7, <3>12
    <3>14. ArgsLoaded(r, v, segs, args)  BY <2>6, <3>7, <3>8, <3>13 DEF ArgsLoaded
    <3> QED  BY <3>14 DEF r
  <2> QED  BY <2>6, <2>7, <2>8
<1> QED  BY <1>6, <1>7

-----------------------------------------------------------------------------
(* Loading a program *)

HeaderT == [type : {"LOAD", "INTERP", "OTHER"}, addr : Nat, len : Nat]
SegmentOf(h) == Region(h.addr, h.len, 0)
Fits(h) == h.type = "LOAD" => h.addr > 0 /\ h.len > 0 /\ h.addr + h.len + StackSize < Space
SegmentsOf(headers, n) == {SegmentOf(headers[i]) : i \in {j \in 1 .. n : headers[j].type = "LOAD"}}

\* load_elf_into_virtual_memory, header by header.
HeadersAfter(acc, headers) ==
    CHOOSE after : after = [i \in 0 .. Len(headers) |->
                              IF i = 0 THEN acc ELSE load_header(after[i - 1], headers[i])]

\* load_elf_into_virtual_memory maps one header at a time.
LEMMA HeadersSteps ==
    ASSUME NEW acc, NEW headers, Len(headers) \in Nat
    PROVE  LET after == HeadersAfter(acc, headers)
           IN  /\ after[0] = acc
               /\ \A i \in 1 .. Len(headers) : after[i] = load_header(after[i - 1], headers[i])
<1> DEFINE Def(g, n) == g = [i \in 0 .. n |-> IF i = 0 THEN acc ELSE load_header(g[i - 1], headers[i])]
           S == {n \in Nat : \E g : Def(g, n)}
<1>1. 0 \in S
  <2> DEFINE g == [i \in 0 .. 0 |-> acc]
  <2>1. Def(g, 0)  OBVIOUS
  <2> HIDE DEF g
  <2> QED  BY <2>1
<1>2. ASSUME NEW n \in Nat, n \in S  PROVE n + 1 \in S
  <2>1. PICK g : Def(g, n)  BY <1>2
  <2> DEFINE h == [i \in 0 .. n + 1 |-> IF i <= n THEN g[i] ELSE load_header(g[n], headers[n + 1])]
  <2>2. \A i \in 0 .. n : g[i] = IF i = 0 THEN acc ELSE load_header(g[i - 1], headers[i])  BY <2>1
  <2>3. \A i \in 0 .. n + 1 : h[i] = IF i = 0 THEN acc ELSE load_header(h[i - 1], headers[i])
    <3> SUFFICES ASSUME NEW i \in 0 .. n + 1
                 PROVE  h[i] = IF i = 0 THEN acc ELSE load_header(h[i - 1], headers[i])
      OBVIOUS
    <3>1. CASE i = 0  BY <2>2, <3>1
    <3>2. CASE i \in 1 .. n  BY <2>2, <3>2
    <3>3. CASE i = n + 1  BY <3>3
    <3> QED  BY <3>1, <3>2, <3>3
  <2>4. h = [i \in 0 .. n + 1 |-> h[i]]  OBVIOUS
  <2>5. Def(h, n + 1)  BY <2>3, <2>4
  <2> HIDE DEF h
  <2> QED  BY <2>5
<1> HIDE DEF S
<1>3. Len(headers) \in S  BY <1>1, <1>2, NatSetInduction
<1>4. \E g : Def(g, Len(headers))  BY <1>3 DEF S
<1>5. Def(HeadersAfter(acc, headers), Len(headers))  BY <1>4 DEF HeadersAfter
<1> QED  BY <1>5

\* What there is after n headers: segments that are clear of each other below lower.
MappedTo(r, headers, n) ==
    /\ r \in [ok : BOOLEAN, map : {r.map}, lower : Nat] /\ r.lower + StackSize < Space
    /\ TypedMap(r.map)
    /\ \A x, y \in r.map : x = y \/ Clear(x, y)
    /\ \A x \in r.map : x.start > 0 /\ x.len > 0 /\ x.start + x.len <= r.lower
    /\ r.ok => r.map = SegmentsOf(headers, n)

\* A header that loads adds its segment, clear of those before it.
LEMMA LoadHeader ==
    ASSUME NEW headers \in Seq(HeaderT), NEW n \in Nat, n + 1 <= Len(headers), Fits(headers[n + 1]),
           NEW acc, MappedTo(acc, headers, n)
    PROVE  MappedTo(load_header(acc, headers[n + 1]), headers, n + 1)
<1> DEFINE h == headers[n + 1]
           r == load_header(acc, h)
           g == SegmentOf(h)
           ar == add_region(acc.map, g)
<1>1. h \in HeaderT /\ h.addr \in Nat /\ h.len \in Nat
  <2>1. n + 1 \in 1 .. Len(headers)  OBVIOUS
  <2>2. h \in HeaderT  BY <2>1
  <2> HIDE DEF h
  <2> QED  BY <2>2 DEF HeaderT
<1>2. r = IF ~acc.ok \/ h.type = "OTHER" THEN acc
          ELSE IF h.type = "INTERP" THEN [ok |-> FALSE, map |-> acc.map, lower |-> acc.lower]
          ELSE [ok |-> ar.ok, map |-> ar.map,
                lower |-> IF h.addr + h.len > acc.lower THEN h.addr + h.len ELSE acc.lower]
  BY DEF load_header, SegmentOf
<1>3. /\ acc \in [ok : BOOLEAN, map : {acc.map}, lower : Nat] /\ acc.lower \in Nat /\ acc.lower + StackSize < Space
      /\ TypedMap(acc.map)
      /\ \A x, y \in acc.map : x = y \/ Clear(x, y)
      /\ \A x \in acc.map : x.start > 0 /\ x.len > 0 /\ x.start + x.len <= acc.lower
      /\ acc.ok => acc.map = SegmentsOf(headers, n)
  BY DEF MappedTo
<1>4. /\ h.type # "LOAD" => SegmentsOf(headers, n + 1) = SegmentsOf(headers, n)
      /\ h.type = "LOAD" => SegmentsOf(headers, n + 1) = SegmentsOf(headers, n) \cup {g}
  <2>1. 1 .. n + 1 = (1 .. n) \cup {n + 1}  OBVIOUS
  <2> QED  BY <2>1 DEF SegmentsOf
<1>5. StackSize \in Nat /\ StackSize > 0 /\ Space \in Nat  BY ProgramMemoryAssumption
<1>6. Fits(h)  OBVIOUS
<1> HIDE DEF h, r
<1>7. CASE ~acc.ok \/ h.type = "OTHER"
  <2>1. r = acc  BY <1>2, <1>7
  <2>2. acc.ok => acc.map = SegmentsOf(headers, n + 1)  BY <1>3, <1>4, <1>7
  <2>3. MappedTo(acc, headers, n + 1)  BY <1>3, <2>2 DEF MappedTo
  <2> QED  BY <2>1, <2>3 DEF r, h
<1>8. CASE acc.ok /\ h.type = "INTERP"
  <2>1. r = [ok |-> FALSE, map |-> acc.map, lower |-> acc.lower]  BY <1>2, <1>8
  <2>2. r \in [ok : BOOLEAN, map : {r.map}, lower : Nat] /\ ~r.ok /\ r.map = acc.map /\ r.lower = acc.lower
    BY <1>3, <2>1
  <2>3. MappedTo(r, headers, n + 1)  BY <1>3, <2>2 DEF MappedTo
  <2> QED  BY <2>3 DEF r, h
<1>9. CASE acc.ok /\ h.type = "LOAD"
  <2> DEFINE low == IF h.addr + h.len > acc.lower THEN h.addr + h.len ELSE acc.lower
  <2>1. r = [ok |-> ar.ok, map |-> ar.map, lower |-> low]  BY <1>2, <1>9
  <2>2. h.addr > 0 /\ h.len > 0 /\ h.addr + h.len + StackSize < Space  BY <1>6, <1>9 DEF Fits
  <2>3. low \in Nat /\ low + StackSize < Space /\ low >= acc.lower /\ low >= h.addr + h.len
    BY <1>1, <1>3, <1>5, <2>2
  <2>4. g \in Rgn /\ g.start = h.addr /\ g.len = h.len  BY <1>1 DEF SegmentOf, Region, Rgn
  <2> HIDE DEF low, g
  <2>5. ar \in [ok : BOOLEAN, map : {ar.map}]
    BY DEF add_region
  <2>6. \/ ar.ok /\ ar.map = acc.map \cup {g} /\ \A x \in acc.map : ~overlaps_virtually_with(x, g)
        \/ ~ar.ok /\ ar.map = acc.map
    BY DEF add_region
  <2> HIDE DEF ar
  <2>7. r \in [ok : BOOLEAN, map : {r.map}, lower : Nat] /\ r.ok = ar.ok /\ r.map = ar.map /\ r.lower = low
    BY <2>1, <2>3, <2>5
  <2>8. \A x \in acc.map : x \in Rgn /\ x.start \in Nat /\ x.len \in Nat /\ x.start < Space
    BY <1>3 DEF TypedMap, Rgn
  <2>9. CASE ~ar.ok
    <3>1. \A x \in r.map : x.start > 0 /\ x.len > 0 /\ x.start + x.len <= r.lower
      BY <1>3, <2>3, <2>6, <2>7, <2>8, <2>9
    <3>2. MappedTo(r, headers, n + 1)  BY <1>3, <2>3, <2>6, <2>7, <2>9, <3>1 DEF MappedTo
    <3> QED  BY <3>2 DEF r, h
  <2>10. CASE ar.ok
    <3>1. r.map = acc.map \cup {g}  BY <2>6, <2>7, <2>10
    <3>2. \A x \in acc.map : Clear(x, g) /\ Clear(g, x)
      <4>1. \A x \in acc.map : Clear(x, g)  BY <2>4, <2>6, <2>8, <2>10, ClearIsNoOverlap
      <4> QED  BY <4>1 DEF Clear
    <3>3. \A x, y \in r.map : x = y \/ Clear(x, y)  BY <1>3, <3>1, <3>2
    <3>4. \A x \in r.map : x.start > 0 /\ x.len > 0 /\ x.start + x.len <= r.lower
      BY <1>1, <1>3, <2>2, <2>3, <2>4, <2>7, <2>8, <3>1
    <3>5. g.start < Space  BY <1>1, <1>5, <2>2, <2>4
    <3>6. TypedMap(r.map)  BY <2>4, <2>8, <3>1, <3>5 DEF TypedMap
    <3>7. r.map = SegmentsOf(headers, n + 1)  BY <1>3, <1>4, <1>9, <3>1
    <3>8. MappedTo(r, headers, n + 1)  BY <2>3, <2>7, <3>3, <3>4, <3>6, <3>7 DEF MappedTo
    <3> QED  BY <3>8 DEF r, h
  <2> QED  BY <2>5, <2>9, <2>10
<1> QED  BY <1>1, <1>3, <1>7, <1>8, <1>9 DEF HeaderT

\* So the segments of the program are mapped, below the address the heap starts at.
LEMMA LoadElf ==
    ASSUME NEW headers \in Seq(HeaderT), \A i \in 1 .. Len(headers) : Fits(headers[i])
    PROVE  MappedTo(load_elf_into_virtual_memory(headers), headers, Len(headers))
<1> DEFINE acc == [ok |-> TRUE, map |-> {}, lower |-> 0]
           after == HeadersAfter(acc, headers)
           To(n) == MappedTo(after[n], headers, n)
           S == {n \in Nat : n <= Len(headers) => To(n)}
<1>1. Len(headers) \in Nat  OBVIOUS
<1>2. after[0] = acc /\ \A i \in 1 .. Len(headers) : after[i] = load_header(after[i - 1], headers[i])
  <2> HIDE DEF acc
  <2> QED  BY <1>1, HeadersSteps
<1>3. load_elf_into_virtual_memory(headers) = after[Len(headers)]
  BY DEF load_elf_into_virtual_memory, HeadersAfter
<1> HIDE DEF after
<1>4. To(0)
  <2>1. acc \in [ok : BOOLEAN, map : {acc.map}, lower : Nat] /\ acc.ok /\ acc.map = {} /\ acc.lower = 0  OBVIOUS
  <2> HIDE DEF acc
  <2>2. SegmentsOf(headers, 0) = {}  BY DEF SegmentsOf
  <2>3. StackSize \in Nat /\ StackSize < Space  BY ProgramMemoryAssumption
  <2>4. MappedTo(acc, headers, 0)  BY <2>1, <2>2, <2>3 DEF MappedTo, TypedMap
  <2> QED  BY <1>2, <2>4
<1>5. ASSUME NEW n \in Nat, n + 1 <= Len(headers), To(n)  PROVE To(n + 1)
  <2>1. after[n + 1] = load_header(after[n], headers[n + 1])  BY <1>1, <1>2, <1>5
  <2>2. Fits(headers[n + 1])  BY <1>1, <1>5
  <2> QED  BY <1>5, <2>1, <2>2, LoadHeader
<1>6. Len(headers) \in S
  <2>1. 0 \in S  BY <1>4
  <2>2. \A n \in Nat : n \in S => n + 1 \in S
    <3> SUFFICES ASSUME NEW n \in Nat, n \in S  PROVE n + 1 \in S  OBVIOUS
    <3>1. n + 1 <= Len(headers) => To(n)  BY <1>1
    <3> HIDE DEF To
    <3> QED  BY <1>5, <3>1
  <2> HIDE DEF S
  <2> QED  BY <1>1, <2>1, <2>2, NatSetInduction
<1> QED  BY <1>1, <1>3, <1>6

\* The heap starts empty, between the segments and the stack.
LEMMA NewAllocatorSound ==
    ASSUME NEW lower \in Nat, lower + StackSize < Space
    PROVE  LET v == BasicAlloc_from(lower)
           IN  /\ SoundHeap(v) /\ v.heap.live = {} /\ v.heap.next = 0
               /\ v.base = lower /\ v.base + v.len = Space - StackSize - 1
<1> DEFINE v == BasicAlloc_from(lower)
           len == Space - 1 - (StackSize + lower)
<1>1. StackSize \in Nat /\ StackSize > 0 /\ Space \in Nat  BY ProgramMemoryAssumption
<1>2. len \in Nat /\ lower + len = Space - StackSize - 1  BY <1>1
<1>3. v = [base |-> lower, len |-> len, heap |-> A!NewHeap]  BY DEF BasicAlloc_from
<1> HIDE DEF v, len
<1>4. /\ A!NewHeap \in HeapT /\ A!NewHeap.next = 0 /\ A!NewHeap.count = 0
      /\ A!NewHeap.live = {} /\ A!NewHeap.stash = {}
  BY DEF A!NewHeap, HeapT
<1>5. v \in VirtualHeap /\ v.base = lower /\ v.len = len /\ v.heap = A!NewHeap  BY <1>2, <1>3, <1>4 DEF VirtualHeap
<1>6. Placed(v.heap)  BY <1>4, <1>5 DEF Placed
<1>7. Counted(v.heap)  BY <1>4, <1>5, FS_EmptySet DEF Counted
<1>8. SoundHeap(v)  BY <1>2, <1>4, <1>5, <1>6, <1>7 DEF SoundHeap
<1> QED  BY <1>2, <1>4, <1>5, <1>8 DEF v

\* Segments and stack, arguments and environment, and what the program holds.
WholeIn(map, v, segs, k, s, hb, hr, args, env) ==
    /\ Laid(map, v, segs, k, s, hb, hr) /\ k # {}
    /\ v.base + v.len = Space - StackSize - 1
    /\ \A i \in DOMAIN args : \E x \in s : x.len = Length[args[i]] + 1
    /\ \A i \in DOMAIN env : \E x \in s : x.len = Length[env[i]] + 1

\* What load returns.
ProgramLoaded(r, headers, args, env) ==
    /\ r \in [ok : BOOLEAN, map : {r.map}, va : {r.va}]
    /\ SoundHeap(r.va) /\ TypedMap(r.map)
    /\ r.ok => \E k, s : WholeIn(r.map, r.va, SegmentsOf(headers, Len(headers)) \cup {Stack}, k, s, {}, {}, args, env)

\* A program that loads is whole: segments, stack, arguments and environment.
LEMMA LoadProgram ==
    ASSUME NEW v, SoundHeap(v), NEW headers \in Seq(HeaderT), \A i \in 1 .. Len(headers) : Fits(headers[i]),
           NEW args \in Seq(DOMAIN Length), NEW env \in Seq(DOMAIN Length)
    PROVE  ProgramLoaded(load(v, headers, args, env), headers, args, env)
<1> DEFINE r == load(v, headers, args, env)
           elf == load_elf_into_virtual_memory(headers)
           stack == add_region(elf.map, Stack)
           w == BasicAlloc_from(elf.lower)
           segs == elf.map \cup {Stack}
           loaded == load_args_into_virtual_memory([ok |-> TRUE, map |-> stack.map, va |-> w], args)
<1>1. r = IF ~elf.ok THEN [ok |-> FALSE, map |-> elf.map, va |-> v]
          ELSE IF ~stack.ok THEN [ok |-> FALSE, map |-> stack.map, va |-> v]
          ELSE IF ~loaded.ok THEN loaded
          ELSE load_strings(loaded, env)
  BY DEF load, load_env_into_virtual_memory
<1>2. MappedTo(elf, headers, Len(headers))  BY LoadElf
<1> HIDE DEF elf, r
<1>3. /\ elf \in [ok : BOOLEAN, map : {elf.map}, lower : Nat] /\ elf.lower \in Nat /\ elf.lower + StackSize < Space
      /\ TypedMap(elf.map)
      /\ \A x, y \in elf.map : x = y \/ Clear(x, y)
      /\ \A x \in elf.map : x.start > 0 /\ x.len > 0 /\ x.start + x.len <= elf.lower
      /\ elf.ok => elf.map = SegmentsOf(headers, Len(headers))
  BY <1>2 DEF MappedTo
<1>4. StackSize \in Nat /\ StackSize > 0 /\ Space \in Nat /\ StackSize < Space  BY ProgramMemoryAssumption
<1>5. Stack \in Rgn /\ Stack.start = Space - StackSize /\ Stack.len = StackSize  BY <1>4 DEF Stack, Region, Rgn
<1>6. \A x \in elf.map : x \in Rgn /\ x.start \in Nat /\ x.len \in Nat  BY <1>3 DEF TypedMap, Rgn
<1>7. \A x \in elf.map : Clear(x, Stack) /\ Clear(Stack, x)  BY <1>3, <1>4, <1>5, <1>6 DEF Clear
<1>8. stack = [ok |-> TRUE, map |-> segs]  BY <1>3, <1>5, <1>7, AddClear
<1>9. stack.ok /\ stack.map = segs  BY <1>8
<1>10. SoundHeap(w) /\ w.heap.live = {} /\ w.heap.next = 0 /\ w.base = elf.lower /\ w.base + w.len = Space - StackSize - 1
  BY <1>3, NewAllocatorSound
<1> HIDE DEF stack, w
<1>11. SegsOk(segs, w)
  <2>1. w.base \in Nat /\ w.len \in Nat  BY <1>10 DEF SoundHeap, VirtualHeap
  <2>2. TypedMap(segs)  BY <1>3, <1>4, <1>5 DEF TypedMap
  <2>3. \A x, y \in segs : x = y \/ Clear(x, y)  BY <1>3, <1>7
  <2>4. \A x \in segs : x.start > 0 /\ x.len > 0 /\ (x.start + x.len <= w.base \/ x.start > w.base + w.len)
    BY <1>3, <1>4, <1>5, <1>10
  <2> HIDE DEF segs
  <2>5. w.base + w.len < Space  BY <1>4, <1>10
  <2> QED  BY <2>2, <2>3, <2>4, <2>5 DEF SegsOk
<1> HIDE DEF segs
<1>12. ArgsLoaded(loaded, w, segs, args)
  <2>1. ArgsLoaded(load_args_into_virtual_memory([ok |-> TRUE, map |-> segs, va |-> w], args), w, segs, args)
    BY <1>10, <1>11, LoadArgs
  <2> QED  BY <1>9, <2>1
<1> HIDE DEF loaded
<1>13. loaded \in [ok : BOOLEAN, map : {loaded.map}, va : {loaded.va}] /\ SoundHeap(loaded.va) /\ TypedMap(loaded.map)
  BY <1>12 DEF ArgsLoaded
<1>14. CASE ~elf.ok
  <2>1. r = [ok |-> FALSE, map |-> elf.map, va |-> v]  BY <1>1, <1>14
  <2>2. r \in [ok : BOOLEAN, map : {r.map}, va : {r.va}] /\ ~r.ok /\ r.map = elf.map /\ r.va = v  BY <2>1
  <2>3. ProgramLoaded(r, headers, args, env)  BY <1>3, <2>2 DEF ProgramLoaded
  <2> QED  BY <2>3 DEF r
<1>15. CASE elf.ok /\ ~loaded.ok
  <2>1. r = loaded  BY <1>1, <1>9, <1>15
  <2>2. ProgramLoaded(r, headers, args, env)  BY <1>13, <1>15, <2>1 DEF ProgramLoaded
  <2> QED  BY <2>2 DEF r
<1>16. CASE elf.ok /\ loaded.ok
  <2>1. r = load_strings(loaded, env)  BY <1>1, <1>9, <1>16
  <2>2. loaded = [ok |-> TRUE, map |-> loaded.map, va |-> loaded.va]  BY <1>13, <1>16
  <2>3. PICK k, s : /\ Laid(loaded.map, loaded.va, segs, k, s, {}, {}) /\ k # {}
                    /\ loaded.va.base = w.base /\ loaded.va.len = w.len
                    /\ \A i \in DOMAIN args : \E x \in s : x.len = Length[args[i]] + 1
    BY <1>12, <1>16 DEF ArgsLoaded
  <2>4. LoadedTo(load_strings([ok |-> TRUE, map |-> loaded.map, va |-> loaded.va], env),
                 loaded.va, segs, k, s, {}, env, Len(env))
    BY <2>3, LoadStrings
  <2>5. LoadedTo(r, loaded.va, segs, k, s, {}, env, Len(env))  BY <2>1, <2>2, <2>4
  <2>6. /\ r \in [ok : BOOLEAN, map : {r.map}, va : {r.va}]
        /\ SoundHeap(r.va) /\ TypedMap(r.map) /\ r.va.base = loaded.va.base /\ r.va.len = loaded.va.len
        /\ r.ok => \E kk, ss : /\ Laid(r.map, r.va, segs, kk, ss, {}, {}) /\ k \subseteq kk /\ s \subseteq ss
                               /\ \A i \in 1 .. Len(env) : \E x \in ss : x.len = Length[env[i]] + 1
    BY <2>5 DEF LoadedTo
  <2>7. DOMAIN env = 1 .. Len(env)  OBVIOUS
  <2>8. r.va.base + r.va.len = Space - StackSize - 1  BY <1>10, <2>3, <2>6
  <2>9. segs = SegmentsOf(headers, Len(headers)) \cup {Stack}  BY <1>3, <1>16 DEF segs
  <2>10. r.ok => \E kk, ss : WholeIn(r.map, r.va, segs, kk, ss, {}, {}, args, env)
    <3>1. ASSUME r.ok  PROVE \E kk, ss : WholeIn(r.map, r.va, segs, kk, ss, {}, {}, args, env)
      <4>1. PICK kk, ss : /\ Laid(r.map, r.va, segs, kk, ss, {}, {}) /\ k \subseteq kk /\ s \subseteq ss
                          /\ \A i \in 1 .. Len(env) : \E x \in ss : x.len = Length[env[i]] + 1
        BY <2>6, <3>1
      <4>2. kk # {}  BY <2>3, <4>1
      <4>3. \A i \in DOMAIN args : \E x \in ss : x.len = Length[args[i]] + 1  BY <2>3, <4>1
      <4>4. \A i \in DOMAIN env : \E x \in ss : x.len = Length[env[i]] + 1  BY <2>7, <4>1
      <4>5. WholeIn(r.map, r.va, segs, kk, ss, {}, {}, args, env)  BY <2>8, <4>1, <4>2, <4>3, <4>4 DEF WholeIn
      <4> QED  BY <4>5
    <3> QED  BY <3>1
  <2>11. ProgramLoaded(r, headers, args, env)
    <3>1. r.ok => \E kk, ss : WholeIn(r.map, r.va, SegmentsOf(headers, Len(headers)) \cup {Stack}, kk, ss, {}, {}, args, env)
      <4> DEFINE segs2 == SegmentsOf(headers, Len(headers)) \cup {Stack}
      <4>1. segs = segs2  BY <2>9
      <4> HIDE DEF segs2
      <4>2. r.ok => \E kk, ss : WholeIn(r.map, r.va, segs2, kk, ss, {}, {}, args, env)  BY <2>10, <4>1
      <4> QED  BY <4>2 DEF segs2
    <3> QED  BY <2>6, <3>1 DEF ProgramLoaded
  <2> QED  BY <2>11 DEF r
<1> QED  BY <1>14, <1>15, <1>16

-----------------------------------------------------------------------------
(* Interpreters *)

\* resolved, level by level.
NextLevel(e) == IF IsScript(e.path) THEN interpreted(e) ELSE e
Levels(path, args) ==
    CHOOSE level : level = [d \in 0 .. MaxDepth |-> IF d = 0 THEN Runs(path, args)
                                                    ELSE IF IsScript(level[d - 1].path) THEN interpreted(level[d - 1])
                                                    ELSE level[d - 1]]

\* resolved follows one interpreter at a time.
LEMMA LevelsSteps ==
    ASSUME NEW path, NEW args
    PROVE  LET level == Levels(path, args)
           IN  /\ level[0] = Runs(path, args)
               /\ \A d \in 1 .. MaxDepth : level[d] = NextLevel(level[d - 1])
               /\ resolved(path, args) = level[MaxDepth]
<1> DEFINE first == Runs(path, args)
           Def(g, n) == g = [d \in 0 .. n |-> IF d = 0 THEN first ELSE NextLevel(g[d - 1])]
           S == {n \in Nat : \E g : Def(g, n)}
<1>0. MaxDepth \in Nat  BY ProgramMemoryAssumption
<1> HIDE DEF first
<1>1. 0 \in S
  <2> DEFINE g == [i \in 0 .. 0 |-> first]
  <2>1. Def(g, 0)  OBVIOUS
  <2> HIDE DEF g
  <2> QED  BY <2>1
<1>2. ASSUME NEW n \in Nat, n \in S  PROVE n + 1 \in S
  <2>1. PICK g : Def(g, n)  BY <1>2
  <2> DEFINE h == [i \in 0 .. n + 1 |-> IF i <= n THEN g[i] ELSE NextLevel(g[n])]
  <2>2. \A i \in 0 .. n : g[i] = IF i = 0 THEN first ELSE NextLevel(g[i - 1])  BY <2>1
  <2>3. \A i \in 0 .. n + 1 : h[i] = IF i = 0 THEN first ELSE NextLevel(h[i - 1])
    <3> SUFFICES ASSUME NEW i \in 0 .. n + 1
                 PROVE  h[i] = IF i = 0 THEN first ELSE NextLevel(h[i - 1])
      OBVIOUS
    <3>1. CASE i = 0  BY <2>2, <3>1
    <3>2. CASE i \in 1 .. n  BY <2>2, <3>2
    <3>3. CASE i = n + 1  BY <3>3
    <3> QED  BY <3>1, <3>2, <3>3
  <2>4. h = [i \in 0 .. n + 1 |-> h[i]]  OBVIOUS
  <2>5. Def(h, n + 1)  BY <2>3, <2>4
  <2> HIDE DEF h
  <2> QED  BY <2>5
<1> HIDE DEF S
<1>3. MaxDepth \in S  BY <1>0, <1>1, <1>2, NatSetInduction
<1>4. \E g : Def(g, MaxDepth)  BY <1>3 DEF S
<1>5. Levels(path, args) = CHOOSE g : Def(g, MaxDepth)  BY Zenon DEF Levels, NextLevel, first
<1>6. Def(Levels(path, args), MaxDepth)  BY <1>4, <1>5
<1>7. resolved(path, args) = Levels(path, args)[MaxDepth]  BY Zenon DEF resolved, Levels
<1> QED  BY <1>0, <1>6, <1>7 DEF first

\* A program that can be asked for: a file, with arguments.
ExecT(e) == e = Runs(e.path, e.args) /\ e.path \in Files /\ e.args \in Seq(DOMAIN Length)

\* An interpreter is a program that can be asked for,
LEMMA InterpretedType ==
    ASSUME NEW e, ExecT(e)
    PROVE  ExecT(NextLevel(e))
<1>1. CASE ~IsScript(e.path)  BY <1>1 DEF NextLevel
<1>2. CASE IsScript(e.path)
  <2> DEFINE f == File[e.path]
             rest == IF e.args = <<>> THEN <<>> ELSE Tail(e.args)
             all == <<f.interpreter>> \o f.opt_arg \o <<e.path>> \o rest
  <2>1. e.path \in Files /\ e.args \in Seq(DOMAIN Length) /\ Files \subseteq DOMAIN Length
    BY ProgramMemoryAssumption DEF ExecT
  <2>2. f.interpreter \in Files /\ f.opt_arg \in Seq(DOMAIN Length)
    BY <1>2, <2>1, ProgramMemoryAssumption DEF IsScript
  <2>3. rest \in Seq(DOMAIN Length)
    <3>1. CASE e.args = <<>>  BY <3>1
    <3>2. CASE e.args # <<>>
      <4>1. Tail(e.args) \in Seq(DOMAIN Length)  BY <2>1, <3>2, HeadTailProperties
      <4> QED  BY <3>2, <4>1
    <3> QED  BY <3>1, <3>2
  <2>4. NextLevel(e) = Runs(f.interpreter, all)  BY <1>2, Zenon DEF NextLevel, interpreted
  <2> HIDE DEF f, rest
  <2>5. all \in Seq(DOMAIN Length)
    <3>1. <<f.interpreter>> \in Seq(DOMAIN Length) /\ <<e.path>> \in Seq(DOMAIN Length)  BY <2>1, <2>2
    <3> QED  BY <2>2, <2>3, <3>1
  <2> HIDE DEF all
  <2> QED  BY <2>2, <2>4, <2>5 DEF ExecT, Runs
<1> QED  BY <1>1, <1>2

\* and so is the one that runs at last.
LEMMA ResolvedType ==
    ASSUME NEW path \in Files, NEW args \in Seq(DOMAIN Length)
    PROVE  ExecT(resolved(path, args))
<1> DEFINE level == Levels(path, args)
           S == {n \in Nat : n <= MaxDepth => ExecT(level[n])}
<1>1. MaxDepth \in Nat  BY ProgramMemoryAssumption
<1>2. /\ level[0] = Runs(path, args)
      /\ \A d \in 1 .. MaxDepth : level[d] = NextLevel(level[d - 1])
      /\ resolved(path, args) = level[MaxDepth]
  BY LevelsSteps
<1> HIDE DEF level
<1>3. 0 \in S  BY <1>2 DEF ExecT, Runs
<1>4. ASSUME NEW n \in Nat, n \in S  PROVE n + 1 \in S
  <2>1. CASE n + 1 <= MaxDepth
    <3>1. level[n + 1] = NextLevel(level[n])  BY <1>1, <1>2, <2>1
    <3>2. ExecT(level[n])  BY <1>1, <1>4, <2>1
    <3>3. ExecT(level[n + 1])  BY <3>1, <3>2, InterpretedType
    <3> QED  BY <3>3
  <2> QED  BY <2>1
<1> HIDE DEF S
<1>5. MaxDepth \in S  BY <1>1, <1>3, <1>4, NatSetInduction
<1> QED  BY <1>1, <1>2, <1>5 DEF S

-----------------------------------------------------------------------------
(* malloc, free and realloc *)

HeldBlock(base, b) == [addr |-> (b.ptr - Word) - base, size |-> b.size + Word, align |-> Word]
HeldRegion(b) == Region(b.ptr - Word, b.size + Word, b.size + Word)
BlocksOf(base, H) == {HeldBlock(base, b) : b \in H}
RegionsOf(H) == {HeldRegion(b) : b \in H}

\* The pointers H that a program holds, into the heap at base.
HeldT(base, H) ==
    /\ \A b \in H : /\ b = [ptr |-> b.ptr, size |-> b.size] /\ b.size \in Sizes
                    /\ b.ptr \in Nat /\ b.ptr < Space /\ b.ptr >= base + Word
    /\ IsFiniteSet(BlocksOf(base, H)) /\ IsFiniteSet(RegionsOf(H))
    /\ Cardinality(BlocksOf(base, H)) = Cardinality(RegionsOf(H))

\* The memory of a program that runs.
Memory(m, v, segs, H, args, env) ==
    /\ HeldT(v.base, H)
    /\ \E k, s : WholeIn(m, v, segs, k, s, BlocksOf(v.base, H), RegionsOf(H), args, env)

\* The block and the region of a pointer that malloc gave.
LEMMA HeldShape ==
    ASSUME NEW base \in Nat, NEW b, b.ptr \in Nat, b.ptr >= base + Word, b.size \in Sizes
    PROVE  /\ HeldBlock(base, b) \in Blk /\ HeldRegion(b) \in Rgn /\ Holds(base, HeldBlock(base, b), HeldRegion(b))
           /\ HeldRegion(b).start = b.ptr - Word /\ HeldRegion(b).len = b.size + Word /\ HeldRegion(b).word = b.size + Word
           /\ HeldBlock(base, b).addr = (b.ptr - Word) - base /\ HeldBlock(base, b).size = b.size + Word
           /\ Word \in Nat /\ Word > 0 /\ b.size \in Nat
<1>1. Word \in Nat /\ Word > 0 /\ b.size \in Nat  BY ProgramMemoryAssumption
<1>2. b.ptr - Word \in Nat /\ (b.ptr - Word) - base \in Nat /\ b.size + Word \in Nat  BY <1>1
<1> QED  BY <1>1, <1>2 DEF HeldBlock, HeldRegion, Region, Blk, Rgn, Holds

\* Different pointers have different blocks and regions.
Dropped(base, H, b) ==
    /\ BlocksOf(base, H \ {b}) = BlocksOf(base, H) \ {HeldBlock(base, b)}
    /\ RegionsOf(H \ {b}) = RegionsOf(H) \ {HeldRegion(b)}
    /\ HeldBlock(base, b) \in BlocksOf(base, H) /\ HeldRegion(b) \in RegionsOf(H)
    /\ HeldT(base, H \ {b})

\* They differ from those of the other pointers.
LEMMA HeldApart ==
    ASSUME NEW base \in Nat, NEW H, HeldT(base, H), NEW b \in H
    PROVE  Dropped(base, H, b)
<1>1. \A c \in H : /\ c = [ptr |-> c.ptr, size |-> c.size] /\ c.size \in Sizes
                   /\ c.ptr \in Nat /\ c.ptr < Space /\ c.ptr >= base + Word
  BY DEF HeldT
<1>2. ASSUME NEW c \in H, c # b  PROVE HeldBlock(base, c) # HeldBlock(base, b) /\ HeldRegion(c) # HeldRegion(b)
  <2>1. /\ HeldRegion(b).start = b.ptr - Word /\ HeldRegion(b).len = b.size + Word
        /\ HeldBlock(base, b).addr = (b.ptr - Word) - base /\ HeldBlock(base, b).size = b.size + Word
        /\ Word \in Nat /\ b.size \in Nat
    BY <1>1, HeldShape
  <2>2. /\ HeldRegion(c).start = c.ptr - Word /\ HeldRegion(c).len = c.size + Word
        /\ HeldBlock(base, c).addr = (c.ptr - Word) - base /\ HeldBlock(base, c).size = c.size + Word
        /\ c.size \in Nat
    BY <1>1, HeldShape
  <2>3. b.ptr # c.ptr \/ b.size # c.size  BY <1>1, <1>2
  <2>4. b.ptr \in Nat /\ c.ptr \in Nat  BY <1>1
  <2> QED  BY <2>1, <2>2, <2>3, <2>4
<1>3. BlocksOf(base, H \ {b}) = BlocksOf(base, H) \ {HeldBlock(base, b)}  BY <1>2 DEF BlocksOf
<1>4. RegionsOf(H \ {b}) = RegionsOf(H) \ {HeldRegion(b)}  BY <1>2 DEF RegionsOf
<1>5. HeldBlock(base, b) \in BlocksOf(base, H) /\ HeldRegion(b) \in RegionsOf(H)  BY DEF BlocksOf, RegionsOf
<1>6. /\ IsFiniteSet(BlocksOf(base, H)) /\ IsFiniteSet(RegionsOf(H))
      /\ Cardinality(BlocksOf(base, H)) = Cardinality(RegionsOf(H))
  BY DEF HeldT
<1>7. IsFiniteSet(BlocksOf(base, H \ {b})) /\ Cardinality(BlocksOf(base, H \ {b})) = Cardinality(BlocksOf(base, H)) - 1
  BY <1>3, <1>5, <1>6, FS_RemoveElement
<1>8. IsFiniteSet(RegionsOf(H \ {b})) /\ Cardinality(RegionsOf(H \ {b})) = Cardinality(RegionsOf(H)) - 1
  BY <1>4, <1>5, <1>6, FS_RemoveElement
<1>9. HeldT(base, H \ {b})
  <2>1. \A c \in H \ {b} : /\ c = [ptr |-> c.ptr, size |-> c.size] /\ c.size \in Sizes
                           /\ c.ptr \in Nat /\ c.ptr < Space /\ c.ptr >= base + Word
    BY <1>1
  <2>2. Cardinality(BlocksOf(base, H \ {b})) = Cardinality(RegionsOf(H \ {b}))  BY <1>6, <1>7, <1>8
  <2> QED  BY <1>7, <1>8, <2>1, <2>2 DEF HeldT
<1> QED  BY <1>3, <1>4, <1>5, <1>9 DEF Dropped

\* The regions of a program, one by one.
LEMMA RegionsLaid ==
    ASSUME NEW m, NEW v, NEW segs, NEW k, NEW s, NEW hb, NEW hr, Laid(m, v, segs, k, s, hb, hr)
    PROVE  /\ v.base \in Nat /\ v.len \in Nat /\ v.heap.next \in Nat /\ v.heap.next <= v.len
           /\ \A r \in m : r \in Rgn /\ r.start \in Nat /\ r.len \in Nat /\ r.start > 0
           /\ \A r \in s \cup hr : /\ \E b \in v.heap.live : Holds(v.base, b, r)
                                   /\ r.start >= v.base /\ r.start + r.len <= v.base + v.heap.next
<1>1. /\ v.base \in Nat /\ v.base > 0 /\ v.len \in Nat /\ v.heap.next \in Nat /\ v.heap.next <= v.len
      /\ v.heap.live \subseteq Blk /\ \A b \in v.heap.live : b.addr + b.size <= v.heap.next
  BY DEF Laid, SoundHeap, VirtualHeap, HeapT, Placed
<1>2. \A r \in m : r \in Rgn /\ r.start \in Nat /\ r.len \in Nat  BY DEF Laid, TypedMap, Rgn
<1>3. m = segs \cup s \cup hr  BY DEF Laid
<1>4. ASSUME NEW r \in s \cup hr
      PROVE  /\ \E b \in v.heap.live : Holds(v.base, b, r)
             /\ r.start >= v.base /\ r.start + r.len <= v.base + v.heap.next
  <2>1. PICK b \in v.heap.live : Holds(v.base, b, r)  BY DEF Laid
  <2>2. b.addr \in Nat /\ b.size \in Nat /\ b.addr + b.size <= v.heap.next  BY <1>1 DEF Blk
  <2>3. r.start = v.base + b.addr /\ r.len <= b.size  BY <2>1 DEF Holds
  <2>4. r.len \in Nat  BY <1>2, <1>3
  <2> QED  BY <1>1, <2>1, <2>2, <2>3, <2>4
<1>5. \A r \in m : r.start > 0
  <2>1. \A r \in segs : r.start > 0  BY DEF Laid
  <2>2. \A r \in s \cup hr : r.start > 0  BY <1>1, <1>2, <1>3, <1>4
  <2> QED  BY <1>3, <2>1, <2>2
<1> QED  BY <1>1, <1>2, <1>4, <1>5

\* A pointer that is held leads to its region and to no other.
LEMMA TryMapHeld ==
    ASSUME SizesKept, NEW m, NEW v, NEW segs, NEW H, NEW args, NEW env, Memory(m, v, segs, H, args, env), NEW b \in H
    PROVE  try_map(m, b.ptr) = {HeldRegion(b)}
<1> DEFINE r == HeldRegion(b)
<1>1. PICK k, s : Laid(m, v, segs, k, s, BlocksOf(v.base, H), RegionsOf(H))  BY DEF Memory, WholeIn
<1>2. v.base \in Nat /\ \A x \in m : x \in Rgn /\ x.start \in Nat /\ x.len \in Nat
  BY <1>1, RegionsLaid
<1>3. b.size \in Sizes /\ b.ptr \in Nat /\ b.ptr >= v.base + Word  BY DEF Memory, HeldT
<1>4. r \in Rgn /\ r.start = b.ptr - Word /\ r.len = b.size + Word /\ Word \in Nat /\ Word > 0 /\ b.size \in Nat
  BY <1>2, <1>3, HeldShape
<1>5. b.size # 0  BY <1>3 DEF SizesKept
<1>6. r \in m  BY <1>1 DEF Laid, RegionsOf
<1> HIDE DEF r
<1>7. b.ptr \in r.start .. get_virtual_end_inclusive(r)  BY <1>3, <1>4, <1>5 DEF get_virtual_end_inclusive
<1>8. ASSUME NEW x \in m, x # r, b.ptr \in x.start .. get_virtual_end_inclusive(x)  PROVE FALSE
  <2>1. Clear(x, r)  BY <1>1, <1>6, <1>8 DEF Laid
  <2>2. x.start <= b.ptr /\ b.ptr < x.start + x.len  BY <1>2, <1>3, <1>8 DEF get_virtual_end_inclusive
  <2> QED  BY <1>2, <1>3, <1>4, <1>5, <2>1, <2>2 DEF Clear
<1>9. try_map(m, b.ptr) = {r}  BY <1>6, <1>7, <1>8 DEF try_map
<1> QED  BY <1>9 DEF r

MallocDone(r, segs, H, size, args, env) ==
    /\ r = [map |-> r.map, va |-> r.va, ptr |-> r.ptr]
    /\ r.ptr = 0 => Memory(r.map, r.va, segs, H, args, env)
    /\ r.ptr # 0 => Memory(r.map, r.va, segs, H \cup {[ptr |-> r.ptr, size |-> size]}, args, env)

\* malloc: a new block and a new region, or neither.
LEMMA MallocMemory ==
    ASSUME SizesKept, NEW m, NEW v, NEW segs, NEW H, NEW args, NEW env, Memory(m, v, segs, H, args, env),
           NEW size \in Sizes
    PROVE  MallocDone(malloc(m, v, size), segs, H, size, args, env)
<1> DEFINE a == alloc(v, size + Word, Word)
           r == malloc(m, v, size)
           hb == BlocksOf(v.base, H)
           hr == RegionsOf(H)
<1>1. PICK k, s : WholeIn(m, v, segs, k, s, hb, hr, args, env)  BY DEF Memory
<1>2. /\ Laid(m, v, segs, k, s, hb, hr) /\ k # {}
      /\ v.base + v.len = Space - StackSize - 1
      /\ \A i \in DOMAIN args : \E x \in s : x.len = Length[args[i]] + 1
      /\ \A i \in DOMAIN env : \E x \in s : x.len = Length[env[i]] + 1
  BY <1>1 DEF WholeIn
<1>3. HeldT(v.base, H)  BY DEF Memory
<1>4. /\ SoundHeap(v) /\ v.base > 0 /\ v.base + v.len < Space
      /\ v.heap.live = k \cup hb /\ k \cap hb = {}
      /\ m = segs \cup s \cup hr
      /\ TypedMap(m)
      /\ \A x, y \in m : x = y \/ Clear(x, y)
      /\ \A x \in segs : x.start > 0 /\ x.len > 0 /\ (x.start + x.len <= v.base \/ x.start > v.base + v.len)
      /\ \A b \in k : \E x \in s : Holds(v.base, b, x)
      /\ \A x \in s : x.word = 0 /\ \E b \in k : Holds(v.base, b, x)
      /\ IsFiniteSet(s) /\ Cardinality(k) = Cardinality(s)
      /\ \A x \in hr : \E b \in hb : Holds(v.base, b, x)
  BY <1>2 DEF Laid
<1> HIDE DEF hb, hr
<1>5. Word \in Nat \ {0} /\ size \in Nat /\ size + Word \in Nat /\ size + Word > 0 /\ Space \in Nat
  BY ProgramMemoryAssumption
<1>6. v.base \in Nat /\ v.len \in Nat /\ v.heap.next \in Nat  BY <1>2, RegionsLaid
<1> DEFINE nb == [addr |-> a.ptr - v.base, size |-> size + Word, align |-> Word]
<1>7. /\ SoundHeap(a.va) /\ a.va.base = v.base /\ a.va.len = v.len
      /\ a.ptr = 0 /\ v.base > 0 => a.va.heap.live = v.heap.live
      /\ a.ptr # 0 =>
           /\ nb \in Blk /\ nb \notin v.heap.live /\ a.va.heap.live = v.heap.live \cup {nb}
           /\ a.ptr \in Nat /\ a.ptr >= v.base + v.heap.next /\ nb.addr + (size + Word) < v.len
  BY <1>4, <1>5, AllocEffect
<1>8. nb.addr = a.ptr - v.base  OBVIOUS
<1>9. CASE a.ptr = 0
  <2>1. r = [map |-> m, va |-> a.va, ptr |-> 0]  BY <1>9 DEF malloc
  <2> HIDE DEF r, a
  <2>2. r.map = m /\ r.va = a.va /\ r.ptr = 0 /\ r = [map |-> r.map, va |-> r.va, ptr |-> r.ptr]  BY <2>1
  <2>3. Laid(m, a.va, segs, k, s, hb, hr)  BY <1>4, <1>7, <1>9 DEF Laid
  <2>4. WholeIn(m, a.va, segs, k, s, hb, hr, args, env)  BY <1>2, <1>7, <2>3 DEF WholeIn
  <2>5. Memory(m, a.va, segs, H, args, env)  BY <1>3, <1>7, <2>4 DEF Memory, hb, hr
  <2>6. MallocDone(r, segs, H, size, args, env)  BY <2>2, <2>5 DEF MallocDone
  <2> QED  BY <2>6 DEF r
<1>10. CASE a.ptr # 0
  <2> DEFINE g == Region(a.ptr, size + Word, size + Word)
             p == [ptr |-> a.ptr + Word, size |-> size]
             H2 == H \cup {p}
             hb2 == hb \cup {nb}
             hr2 == hr \cup {g}
             m2 == m \cup {g}
  <2>1. /\ nb \in Blk /\ nb \notin v.heap.live /\ a.va.heap.live = v.heap.live \cup {nb}
        /\ a.ptr \in Nat /\ a.ptr >= v.base + v.heap.next /\ (a.ptr - v.base) + (size + Word) < v.len
    BY <1>7, <1>8, <1>10
  <2>2. r = [map |-> add_region(m, g).map, va |-> a.va, ptr |-> a.ptr + Word]  BY <1>10 DEF malloc
  <2> HIDE DEF r, a
  <2>3. g \in Rgn /\ g.start = a.ptr /\ g.len = size + Word /\ g.word = size + Word  BY <1>5, <2>1 DEF Region, Rgn
  <2>4. nb.addr = a.ptr - v.base /\ nb.size = size + Word  OBVIOUS
  <2>5. /\ p = [ptr |-> p.ptr, size |-> p.size] /\ p.size = size /\ p.ptr = a.ptr + Word
    OBVIOUS
  <2>6. HeldBlock(v.base, p) = nb
    <3>1. (p.ptr - Word) - v.base = a.ptr - v.base  BY <1>5, <1>6, <2>1, <2>5
    <3> QED  BY <2>5, <3>1 DEF HeldBlock
  <2>7. HeldRegion(p) = g
    <3>1. p.ptr - Word = a.ptr  BY <1>5, <2>1, <2>5
    <3> QED  BY <2>5, <3>1 DEF HeldRegion
  <2> HIDE DEF g, nb, p
  <2>8. Fresh(m, g)  BY <1>2, <1>5, <2>1, <2>3, NewRegionIsFresh
  <2>9. /\ g.start < Space /\ g \notin m /\ \A x \in m : Clear(x, g)
        /\ add_region(m, g) = [ok |-> TRUE, map |-> m \cup {g}]
    BY <2>8 DEF Fresh
  <2>10. r.map = m2 /\ r.va = a.va /\ r.ptr = a.ptr + Word /\ r = [map |-> r.map, va |-> r.va, ptr |-> r.ptr]
    <3>1. add_region(m, g).map = m2  BY <2>9
    <3> QED  BY <2>2, <3>1
  <2>11. BlocksOf(v.base, H2) = hb2 /\ RegionsOf(H2) = hr2
    <3>1. BlocksOf(v.base, H2) = BlocksOf(v.base, H) \cup {HeldBlock(v.base, p)}  BY DEF BlocksOf
    <3>2. RegionsOf(H2) = RegionsOf(H) \cup {HeldRegion(p)}  BY DEF RegionsOf
    <3> QED  BY <2>6, <2>7, <3>1, <3>2 DEF hb, hr
  <2>12. nb \notin k /\ nb \notin hb /\ g \notin hr  BY <1>4, <2>1, <2>9
  <2>13. Laid(m2, a.va, segs, k, s, hb2, hr2)
    <3>1. a.va.heap.live = k \cup hb2 /\ k \cap hb2 = {}  BY <1>4, <2>1, <2>12
    <3>2. m2 = segs \cup s \cup hr2  BY <1>4
    <3>3. TypedMap(m2)  BY <1>4, <2>3, <2>9 DEF TypedMap
    <3>4. \A x, y \in m2 : x = y \/ Clear(x, y)
      <4>1. \A x \in m : Clear(g, x)  BY <2>9 DEF Clear
      <4> QED  BY <1>4, <2>9, <4>1
    <3>5. Holds(v.base, nb, g)
      <4>1. v.base + (a.ptr - v.base) = a.ptr  BY <1>6, <2>1
      <4> QED  BY <1>5, <2>3, <2>4, <4>1 DEF Holds
    <3>6. \A x \in hr2 : \E b \in hb2 : Holds(v.base, b, x)  BY <1>4, <3>5
    <3> HIDE DEF m2, hb2, hr2
    <3>7. \A x \in segs : x.start > 0 /\ x.len > 0 /\ (x.start + x.len <= a.va.base \/ x.start > a.va.base + a.va.len)
      BY <1>4, <1>7
    <3>8. SoundHeap(a.va) /\ a.va.base > 0 /\ a.va.base + a.va.len < Space  BY <1>4, <1>7
    <3>9. /\ \A b \in k : \E x \in s : Holds(a.va.base, b, x)
          /\ \A x \in s : x.word = 0 /\ \E b \in k : Holds(a.va.base, b, x)
          /\ \A x \in hr2 : \E b \in hb2 : Holds(a.va.base, b, x)
      BY <1>4, <1>7, <3>6
    <3> QED  BY <1>4, <3>1, <3>2, <3>3, <3>4, <3>7, <3>8, <3>9 DEF Laid
  <2>14. HeldT(v.base, H2)
    <3>1. \A b \in H : /\ b = [ptr |-> b.ptr, size |-> b.size] /\ b.size \in Sizes
                       /\ b.ptr \in Nat /\ b.ptr < Space /\ b.ptr >= v.base + Word
      BY <1>3 DEF HeldT
    <3>2. p.size \in Sizes /\ p.ptr \in Nat /\ p.ptr < Space /\ p.ptr >= v.base + Word
      BY <1>4, <1>5, <1>6, <2>1, <2>5
    <3>3. IsFiniteSet(hb) /\ IsFiniteSet(hr) /\ Cardinality(hb) = Cardinality(hr)  BY <1>3 DEF HeldT, hb, hr
    <3>4. IsFiniteSet(hb2) /\ Cardinality(hb2) = Cardinality(hb) + 1  BY <2>12, <3>3, FS_AddElement
    <3>5. IsFiniteSet(hr2) /\ Cardinality(hr2) = Cardinality(hr) + 1  BY <2>12, <3>3, FS_AddElement
    <3>6. \A b \in H2 : /\ b = [ptr |-> b.ptr, size |-> b.size] /\ b.size \in Sizes
                        /\ b.ptr \in Nat /\ b.ptr < Space /\ b.ptr >= v.base + Word
      BY <2>5, <3>1, <3>2
    <3> HIDE DEF H2, hb2, hr2
    <3> QED  BY <2>11, <3>3, <3>4, <3>5, <3>6 DEF HeldT
  <2> HIDE DEF H2, hb2, hr2, m2
  <2>15. WholeIn(m2, a.va, segs, k, s, hb2, hr2, args, env)  BY <1>2, <1>7, <2>13 DEF WholeIn
  <2>16. Memory(r.map, r.va, segs, H2, args, env)  BY <1>7, <2>10, <2>11, <2>14, <2>15 DEF Memory
  <2>17. r.ptr # 0  BY <1>5, <2>1, <2>10
  <2>18. [ptr |-> r.ptr, size |-> size] = p  BY <2>10 DEF p
  <2>19. Memory(r.map, r.va, segs, H \cup {[ptr |-> r.ptr, size |-> size]}, args, env)  BY <2>16, <2>18 DEF H2
  <2>20. MallocDone(r, segs, H, size, args, env)  BY <2>10, <2>17, <2>19 DEF MallocDone
  <2> QED  BY <2>20 DEF r
<1> QED  BY <1>9, <1>10

FreeDone(r, segs, H, b, args, env) == Memory(r.map, r.va, segs, H \ {b}, args, env)

\* free: the block and the region of the pointer are given back, no other.
LEMMA FreeMemory ==
    ASSUME SizesKept, NEW m, NEW v, NEW segs, NEW H, NEW args, NEW env, Memory(m, v, segs, H, args, env),
           NEW b \in H
    PROVE  FreeDone(free(m, v, b.ptr), segs, H, b, args, env)
<1> DEFINE r == free(m, v, b.ptr)
           hb == BlocksOf(v.base, H)
           hr == RegionsOf(H)
           nb == HeldBlock(v.base, b)
           g == HeldRegion(b)
           w == [v EXCEPT !.heap = A!Freed(@, nb)]
           H2 == H \ {b}
<1>1. PICK k, s : WholeIn(m, v, segs, k, s, hb, hr, args, env)  BY DEF Memory
<1>2. /\ Laid(m, v, segs, k, s, hb, hr) /\ k # {}
      /\ v.base + v.len = Space - StackSize - 1
      /\ \A i \in DOMAIN args : \E x \in s : x.len = Length[args[i]] + 1
      /\ \A i \in DOMAIN env : \E x \in s : x.len = Length[env[i]] + 1
  BY <1>1 DEF WholeIn
<1>3. HeldT(v.base, H) /\ b.size \in Sizes /\ b.ptr \in Nat /\ b.ptr >= v.base + Word  BY DEF Memory, HeldT
<1>4. /\ SoundHeap(v) /\ v.base > 0 /\ v.base + v.len < Space
      /\ v.heap.live = k \cup hb /\ k \cap hb = {}
      /\ m = segs \cup s \cup hr
      /\ TypedMap(m)
      /\ \A x, y \in m : x = y \/ Clear(x, y)
      /\ \A x \in segs : x.start > 0 /\ x.len > 0 /\ (x.start + x.len <= v.base \/ x.start > v.base + v.len)
      /\ \A c \in k : \E x \in s : Holds(v.base, c, x)
      /\ \A x \in s : x.word = 0 /\ \E c \in k : Holds(v.base, c, x)
      /\ IsFiniteSet(s) /\ Cardinality(k) = Cardinality(s)
      /\ \A x \in hr : \E c \in hb : Holds(v.base, c, x)
  BY <1>2 DEF Laid
<1>5. v.base \in Nat /\ v.len \in Nat /\ v.heap.next \in Nat /\ \A x \in m : x \in Rgn /\ x.start \in Nat /\ x.len \in Nat
  <2> HIDE DEF hb, hr
  <2> QED  BY <1>2, RegionsLaid
<1>6. /\ BlocksOf(v.base, H2) = hb \ {nb} /\ RegionsOf(H2) = hr \ {g} /\ nb \in hb /\ g \in hr /\ HeldT(v.base, H2)
  <2>1. Dropped(v.base, H, b)  BY <1>3, <1>5, HeldApart
  <2> QED  BY <2>1, Zenon DEF Dropped
<1>7. /\ nb \in Blk /\ g \in Rgn /\ Holds(v.base, nb, g) /\ g.word = b.size + Word /\ g.len = b.size + Word
      /\ g.start = b.ptr - Word
      /\ nb.addr = (b.ptr - Word) - v.base /\ nb.size = b.size + Word
      /\ Word \in Nat /\ Word > 0 /\ b.size \in Nat
  BY <1>3, <1>5, HeldShape
<1>8. try_map(m, b.ptr) = {g}  BY TryMapHeld
<1>9. nb = [addr |-> (b.ptr - Word) - v.base, size |-> g.word, align |-> Word]  BY <1>7 DEF HeldBlock
<1> HIDE DEF hb, hr, nb, g
<1>10. r = [map |-> m \ {g}, va |-> dealloc(v, b.ptr - Word, g.word)]
  <2>1. {g} # {} /\ (CHOOSE x \in {g} : TRUE) = g  OBVIOUS
  <2>2. r = IF {g} = {} THEN [map |-> m, va |-> v]
            ELSE [map |-> m \ {CHOOSE x \in {g} : TRUE},
                  va |-> dealloc(v, b.ptr - Word, (CHOOSE x \in {g} : TRUE).word)]
    BY <1>8 DEF free
  <2> HIDE DEF r
  <2> QED  BY <2>1, <2>2
<1>11. dealloc(v, b.ptr - Word, g.word) = w  BY <1>9 DEF dealloc
<1>12. PICK other \in k : TRUE  BY <1>2
<1>13. nb \in v.heap.live /\ other \in v.heap.live /\ other # nb /\ nb.size > 0  BY <1>4, <1>6, <1>7, <1>12
<1>14. SoundHeap(w) /\ w.base = v.base /\ w.len = v.len /\ w.heap.live = v.heap.live \ {nb}
  BY <1>4, <1>13, FreedEffect
<1>15. r.map = m \ {g} /\ r.va = w  BY <1>10, <1>11
<1> HIDE DEF r, w
<1> DEFINE m2 == m \ {g}
           hb2 == hb \ {nb}
           hr2 == hr \ {g}
<1>16. g \notin segs /\ g \notin s
  <2>1. g \in m  BY <1>4, <1>6
  <2>2. g \notin s  BY <1>4, <1>7
  <2>3. \A x \in hr : x.start >= v.base /\ x.start + x.len <= v.base + v.heap.next /\ v.heap.next <= v.len
    BY <1>2, RegionsLaid
  <2>4. ASSUME g \in segs  PROVE FALSE
    <3>1. g.start + g.len <= v.base \/ g.start > v.base + v.len  BY <1>4, <2>4
    <3> QED  BY <1>3, <1>5, <1>6, <1>7, <2>3, <3>1
  <2> QED  BY <2>2, <2>4
<1>17. ASSUME NEW x \in hr2  PROVE \E c \in hb2 : Holds(v.base, c, x)
  <2>1. PICK c \in H2 : x = HeldRegion(c)  BY <1>6 DEF RegionsOf
  <2>2. HeldBlock(v.base, c) \in hb2  BY <1>6, <2>1 DEF BlocksOf
  <2>3. c.size \in Sizes /\ c.ptr \in Nat /\ c.ptr >= v.base + Word  BY <1>6 DEF HeldT
  <2>4. Holds(v.base, HeldBlock(v.base, c), HeldRegion(c))  BY <1>5, <2>3, HeldShape
  <2> HIDE DEF hb2
  <2> QED  BY <2>1, <2>2, <2>4
<1>18. Laid(m2, w, segs, k, s, hb2, hr2)
  <2>1. w.heap.live = k \cup hb2 /\ k \cap hb2 = {}  BY <1>4, <1>6, <1>14
  <2>2. m2 = segs \cup s \cup hr2  BY <1>4, <1>16
  <2>3. TypedMap(m2)  BY <1>4 DEF TypedMap
  <2>4. \A x, y \in m2 : x = y \/ Clear(x, y)  BY <1>4
  <2> HIDE DEF m2, hb2, hr2
  <2>5. SoundHeap(w) /\ w.base > 0 /\ w.base + w.len < Space  BY <1>4, <1>14
  <2>6. \A x \in segs : x.start > 0 /\ x.len > 0 /\ (x.start + x.len <= w.base \/ x.start > w.base + w.len)
    BY <1>4, <1>14
  <2>7. /\ \A c \in k : \E x \in s : Holds(w.base, c, x)
        /\ \A x \in s : x.word = 0 /\ \E c \in k : Holds(w.base, c, x)
        /\ \A x \in hr2 : \E c \in hb2 : Holds(w.base, c, x)
    BY <1>4, <1>14, <1>17
  <2> QED  BY <1>4, <2>1, <2>2, <2>3, <2>4, <2>5, <2>6, <2>7 DEF Laid
<1> HIDE DEF H2
<1>19. WholeIn(m2, w, segs, k, s, hb2, hr2, args, env)
  <2> HIDE DEF m2, hb2, hr2
  <2> QED  BY <1>2, <1>14, <1>18 DEF WholeIn
<1>20. Memory(r.map, r.va, segs, H2, args, env)
  <2>1. r.map = m2 /\ BlocksOf(w.base, H2) = hb2 /\ RegionsOf(H2) = hr2 /\ HeldT(w.base, H2)  BY <1>6, <1>14, <1>15
  <2> HIDE DEF m2, hb2, hr2
  <2> QED  BY <1>15, <1>19, <2>1 DEF Memory
<1>21. FreeDone(r, segs, H, b, args, env)  BY <1>20 DEF FreeDone, H2
<1> QED  BY <1>21 DEF r

\* realloc to the size a block has: it is freed, and a block of its size taken, with
\* the same header.
LEMMA ReallocMemory ==
    ASSUME SizesKept, NEW m, NEW v, NEW segs, NEW H, NEW args, NEW env, Memory(m, v, segs, H, args, env),
           NEW b \in H
    PROVE  MallocDone(realloc(m, v, b.ptr, b.size), segs, H \ {b}, b.size, args, env)
<1> DEFINE old == HeldRegion(b)
           freed == free(m, v, b.ptr)
           new == malloc(freed.map, freed.va, b.size)
           at == try_map(new.map, new.ptr)
           x == CHOOSE r \in at : TRUE
           r == realloc(m, v, b.ptr, b.size)
           G == H \ {b}
<1>1. try_map(m, b.ptr) = {old}  BY TryMapHeld
<1>2. b.size \in Sizes /\ b.ptr \in Nat /\ v.base \in Nat /\ b.ptr >= v.base + Word
  <2>1. PICK k, s : Laid(m, v, segs, k, s, BlocksOf(v.base, H), RegionsOf(H))  BY DEF Memory, WholeIn
  <2> QED  BY <2>1, RegionsLaid DEF Memory, HeldT
<1>3. old \in Rgn /\ old.len = b.size + Word /\ old.word = b.size + Word  BY <1>2, HeldShape
<1>4. r = IF at = {} THEN [new EXCEPT !.ptr = 0]
          ELSE [new EXCEPT !.map = (@ \ {x}) \cup {[old EXCEPT !.start = x.start]}]
  <2>1. {old} # {} /\ (CHOOSE y \in {old} : TRUE) = old  OBVIOUS
  <2> HIDE DEF old
  <2>2. r = IF {old} = {} THEN [map |-> m, va |-> v, ptr |-> 0]
            ELSE IF at = {} THEN [new EXCEPT !.ptr = 0]
            ELSE [new EXCEPT !.map = (@ \ {x}) \cup {[(CHOOSE y \in {old} : TRUE) EXCEPT !.start = x.start]}]
    BY <1>1, Zenon DEF realloc
  <2> HIDE DEF r, at, new, x
  <2> QED  BY <2>1, <2>2
<1>5. Memory(freed.map, freed.va, segs, G, args, env)  BY FreeMemory DEF FreeDone
<1> HIDE DEF freed, G
<1>6. MallocDone(new, segs, G, b.size, args, env)  BY <1>2, <1>5, MallocMemory
<1> HIDE DEF new, r, old
<1>7. new = [map |-> new.map, va |-> new.va, ptr |-> new.ptr]  BY <1>6 DEF MallocDone
<1>8. CASE new.ptr = 0
  <2>1. PICK k, s : Laid(new.map, new.va, segs, k, s, BlocksOf(new.va.base, G), RegionsOf(G))
    BY <1>6, <1>8 DEF MallocDone, Memory, WholeIn
  <2>2. \A y \in new.map : y.start \in Nat /\ y.start > 0  BY <2>1, RegionsLaid
  <2>3. at = {}  BY <1>8, <2>2 DEF try_map
  <2>4. r = new  BY <1>4, <1>7, <1>8, <2>3
  <2>5. MallocDone(r, segs, G, b.size, args, env)  BY <1>6, <2>4
  <2> QED  BY <2>5 DEF r, G
<1>9. CASE new.ptr # 0
  <2> DEFINE p == [ptr |-> new.ptr, size |-> b.size]
             G2 == G \cup {p}
             g == HeldRegion(p)
  <2>1. Memory(new.map, new.va, segs, G2, args, env)  BY <1>6, <1>9 DEF MallocDone
  <2>2. p \in G2 /\ p.ptr = new.ptr /\ p.size = b.size  OBVIOUS
  <2> HIDE DEF p, G2
  <2>3. try_map(new.map, p.ptr) = {g}  BY <2>1, <2>2, TryMapHeld
  <2>4. at = {g} /\ g \in new.map  BY <2>2, <2>3 DEF try_map
  <2>5. PICK k, s : Laid(new.map, new.va, segs, k, s, BlocksOf(new.va.base, G2), RegionsOf(G2))
    BY <2>1 DEF Memory, WholeIn
  <2>6. p.ptr \in Nat /\ p.size \in Sizes /\ p.ptr >= new.va.base + Word /\ new.va.base \in Nat
    BY <2>1, <2>2, <2>5, RegionsLaid DEF Memory, HeldT
  <2>7. g \in Rgn /\ g.len = b.size + Word /\ g.word = b.size + Word  BY <2>2, <2>6, HeldShape
  <2> HIDE DEF g, at
  <2>8. x = g  BY <2>4
  <2> HIDE DEF x
  <2>9. [old EXCEPT !.start = x.start] = g  BY <1>3, <2>7, <2>8 DEF Rgn
  <2>10. (new.map \ {x}) \cup {[old EXCEPT !.start = x.start]} = new.map  BY <2>4, <2>8, <2>9
  <2>11. r = [new EXCEPT !.map = new.map]  BY <1>4, <1>7, <2>4, <2>10
  <2>12. r = new  BY <1>7, <2>11
  <2>13. MallocDone(r, segs, G, b.size, args, env)  BY <1>6, <2>12
  <2> QED  BY <2>13 DEF r, G
<1> QED  BY <1>8, <1>9

-----------------------------------------------------------------------------
(* The invariant *)

ProgramSegments(program) == SegmentsOf(File[program].headers, Len(File[program].headers)) \cup {Stack}

\* A process that runs has the memory of its program and of the pointers it holds.
IInv ==
    /\ status \in {"running", "exited", "panic"}
    /\ TypedMap(regions) /\ SoundHeap(virtual_allocator)
    /\ asked.program \in Files /\ File[asked.program].type = "ELF"
    /\ argv \in Seq(DOMAIN Length) /\ asked.env \in Seq(DOMAIN Length)
    /\ HeldT(virtual_allocator.base, held)
    /\ Running => Memory(regions, virtual_allocator, ProgramSegments(asked.program), held, argv, asked.env)

\* A program that was just loaded holds no pointers.
LEMMA NothingHeld ==
    ASSUME NEW base
    PROVE  BlocksOf(base, {}) = {} /\ RegionsOf({}) = {} /\ HeldT(base, {})
<1>1. BlocksOf(base, {}) = {} /\ RegionsOf({}) = {}  BY DEF BlocksOf, RegionsOf
<1> QED  BY <1>1, FS_EmptySet DEF HeldT

\* The headers of a program end below the heap.
LEMMA HeadersFit ==
    ASSUME SegmentsFit, NEW path \in Files, File[path].type = "ELF"
    PROVE  /\ File[path].headers \in Seq(HeaderT)
           /\ \A i \in 1 .. Len(File[path].headers) : Fits(File[path].headers[i])
<1> DEFINE hs == File[path].headers
<1>1. hs \in Seq(HeaderT)  BY ProgramMemoryAssumption DEF HeaderT
<1>2. \A h \in Range(hs) : Fits(h)  BY DEF SegmentsFit, Fits
<1> HIDE DEF hs
<1>3. \A i \in 1 .. Len(hs) : hs[i] \in Range(hs)  BY <1>1 DEF Range
<1> QED  BY <1>1, <1>2, <1>3 DEF hs

\* A program that has been loaded has its memory, and holds nothing.
LEMMA LoadedMemory ==
    ASSUME SegmentsFit, NEW v, SoundHeap(v), NEW path \in Files, File[path].type = "ELF",
           NEW args \in Seq(DOMAIN Length), NEW env \in Seq(DOMAIN Length)
    PROVE  LET r == load(v, File[path].headers, args, env)
           IN  /\ r.ok \in BOOLEAN /\ SoundHeap(r.va) /\ TypedMap(r.map)
               /\ r.ok => Memory(r.map, r.va, ProgramSegments(path), {}, args, env)
<1> DEFINE hs == File[path].headers
           r == load(v, hs, args, env)
           segs == ProgramSegments(path)
<1>1. hs \in Seq(HeaderT) /\ \A i \in 1 .. Len(hs) : Fits(hs[i])  BY HeadersFit
<1>2. segs = SegmentsOf(hs, Len(hs)) \cup {Stack}  BY DEF ProgramSegments
<1> HIDE DEF hs, segs
<1>3. ProgramLoaded(r, hs, args, env)  BY <1>1, LoadProgram
<1> HIDE DEF r
<1>4. r.ok \in BOOLEAN /\ SoundHeap(r.va) /\ TypedMap(r.map)  BY <1>3 DEF ProgramLoaded
<1>5. ASSUME r.ok  PROVE Memory(r.map, r.va, segs, {}, args, env)
  <2>1. \E k, s : WholeIn(r.map, r.va, SegmentsOf(hs, Len(hs)) \cup {Stack}, k, s, {}, {}, args, env)
    BY <1>3, <1>5, Zenon DEF ProgramLoaded
  <2>2. \E k, s : WholeIn(r.map, r.va, segs, k, s, {}, {}, args, env)  BY <1>2, <2>1
  <2>3. BlocksOf(r.va.base, {}) = {} /\ RegionsOf({}) = {} /\ HeldT(r.va.base, {})  BY NothingHeld
  <2> QED  BY <2>2, <2>3, Zenon DEF Memory
<1> QED  BY <1>4, <1>5 DEF r, hs, segs

\* The first program is loaded whole.
LEMMA IInvInit == ASSUME SegmentsFit, Init  PROVE IInv
<1>1. PICK path \in Files, args \in Args, env \in Envs :
        /\ File[path].type = "ELF" /\ args # <<>>
        /\ LET r == load(BasicAlloc_from(0), File[path].headers, args, env)
           IN  r.ok /\ regions = r.map /\ virtual_allocator = r.va
        /\ argv = args /\ asked = [program |-> path, path |-> path, args |-> args, env |-> env]
        /\ held = {} /\ status = "running"
  BY DEF Init
<1>2. args \in Seq(DOMAIN Length) /\ env \in Seq(DOMAIN Length)  BY ProgramMemoryAssumption
<1>3. SoundHeap(BasicAlloc_from(0))
  <2>1. StackSize \in Nat /\ 0 + StackSize < Space  BY ProgramMemoryAssumption
  <2> QED  BY <2>1, NewAllocatorSound
<1>4. LET r == load(BasicAlloc_from(0), File[path].headers, args, env)
      IN  /\ r.ok \in BOOLEAN /\ SoundHeap(r.va) /\ TypedMap(r.map)
          /\ r.ok => Memory(r.map, r.va, ProgramSegments(path), {}, args, env)
  BY <1>1, <1>2, <1>3, LoadedMemory
<1>5. asked.program = path /\ asked.env = env /\ argv = args /\ held = {} /\ status = "running"  BY <1>1
<1>6. SoundHeap(virtual_allocator) /\ TypedMap(regions)
      /\ Memory(regions, virtual_allocator, ProgramSegments(path), {}, args, env)
  BY <1>1, <1>4
<1>7. HeldT(virtual_allocator.base, {})  BY NothingHeld
<1> QED  BY <1>1, <1>2, <1>5, <1>6, <1>7 DEF IInv

\* exec keeps the invariant: a new program or a process that has exited.
LEMMA IInvExec ==
    ASSUME SegmentsFit, IInv, NEW path \in Files, NEW args \in Args, NEW env \in Envs \cup {asked.env},
           Exec(path, args, env)
    PROVE  IInv'
<1> DEFINE e == resolved(path, args)
           r == load(virtual_allocator, File[e.path].headers, e.args, env)
<1>1. args \in Seq(DOMAIN Length) /\ env \in Seq(DOMAIN Length)  BY ProgramMemoryAssumption DEF IInv
<1>2. ExecT(e)  BY <1>1, ResolvedType
<1>3. /\ File[e.path].type = "ELF" /\ Replaced(r, e, path, args, env)
      /\ status' = IF r.ok THEN "running" ELSE "exited"
  BY DEF Exec
<1> HIDE DEF e
<1>4. e.path \in Files /\ e.args \in Seq(DOMAIN Length)  BY <1>2 DEF ExecT
<1>5. SoundHeap(virtual_allocator)  BY DEF IInv
<1>6. /\ r.ok \in BOOLEAN /\ SoundHeap(r.va) /\ TypedMap(r.map)
      /\ r.ok => Memory(r.map, r.va, ProgramSegments(e.path), {}, e.args, env)
  BY <1>1, <1>3, <1>4, <1>5, LoadedMemory
<1> HIDE DEF r
<1>7. /\ regions' = r.map /\ virtual_allocator' = r.va /\ argv' = e.args /\ held' = {}
      /\ asked' = [program |-> e.path, path |-> path, args |-> args, env |-> env]
  BY <1>3 DEF Replaced
<1>8. asked'.program = e.path /\ asked'.env = env  BY <1>7
<1>9. HeldT(r.va.base, {})  BY NothingHeld
<1>10. status' \in {"running", "exited", "panic"} /\ (Running' => r.ok)  BY <1>3, <1>6 DEF Running
<1>11. Running' => Memory(regions', virtual_allocator', ProgramSegments(asked'.program), held', argv', asked'.env)
  BY <1>6, <1>7, <1>8, <1>10
<1>12. TypedMap(regions') /\ SoundHeap(virtual_allocator') /\ HeldT(virtual_allocator'.base, held')
       /\ asked'.program \in Files /\ File[asked'.program].type = "ELF"
       /\ argv' \in Seq(DOMAIN Length) /\ asked'.env \in Seq(DOMAIN Length)
  BY <1>1, <1>3, <1>4, <1>6, <1>7, <1>8, <1>9
<1> QED  BY <1>10, <1>11, <1>12 DEF IInv, Running

\* What Memory says of the map, the heap and the pointers.
LEMMA SoundMemory ==
    ASSUME NEW m, NEW v, NEW segs, NEW H, NEW args, NEW env, Memory(m, v, segs, H, args, env)
    PROVE  TypedMap(m) /\ SoundHeap(v) /\ HeldT(v.base, H)
BY DEF Memory, WholeIn, Laid

\* What malloc, free and realloc leave alone.
LEMMA IInvHeap ==
    ASSUME IInv, Running, UNCHANGED <<status, argv, asked>>,
           Memory(regions', virtual_allocator', ProgramSegments(asked.program), held', argv, asked.env)
    PROVE  IInv'
<1>1. TypedMap(regions') /\ SoundHeap(virtual_allocator') /\ HeldT(virtual_allocator'.base, held')  BY SoundMemory
<1>2. status' = status /\ argv' = argv /\ asked' = asked  OBVIOUS
<1>3. /\ status \in {"running", "exited", "panic"}
      /\ asked.program \in Files /\ File[asked.program].type = "ELF"
      /\ argv \in Seq(DOMAIN Length) /\ asked.env \in Seq(DOMAIN Length)
  BY DEF IInv
<1>4. Memory(regions', virtual_allocator', ProgramSegments(asked'.program), held', argv', asked'.env)  BY <1>2
<1> QED  BY <1>1, <1>2, <1>3, <1>4 DEF IInv, Running

\* A pointer that malloc or realloc gives keeps the invariant.
LEMMA IInvGiven ==
    ASSUME IInv, Running, NEW r, NEW kept, NEW size, Given(r, kept, size),
           MallocDone(r, ProgramSegments(asked.program), kept, size, argv, asked.env)
    PROVE  IInv'
<1> DEFINE segs == ProgramSegments(asked.program)
<1>1. /\ regions' = r.map /\ virtual_allocator' = r.va /\ UNCHANGED <<status, argv, asked>>
      /\ held' = kept \cup (IF r.ptr = 0 THEN {} ELSE {[ptr |-> r.ptr, size |-> size]})
  BY DEF Given
<1>2. Memory(r.map, r.va, segs, held', argv, asked.env)
  <2> HIDE DEF segs
  <2>1. CASE r.ptr = 0
    <3>1. held' = kept  BY <1>1, <2>1
    <3> QED  BY <2>1, <3>1 DEF MallocDone, segs
  <2>2. CASE r.ptr # 0
    <3>1. held' = kept \cup {[ptr |-> r.ptr, size |-> size]}  BY <1>1, <2>2
    <3>2. Memory(r.map, r.va, segs, kept \cup {[ptr |-> r.ptr, size |-> size]}, argv, asked.env)
      BY <2>2, Zenon DEF MallocDone, segs
    <3> QED  BY <3>1, <3>2
  <2> QED  BY <2>1, <2>2
<1> QED  BY <1>1, <1>2, IInvHeap

\* So does every step.
LEMMA IInvNext == ASSUME SegmentsFit, SizesKept, IInv, [Next]_vars  PROVE IInv'
<1>1. CASE UNCHANGED vars  BY <1>1 DEF vars, IInv, Running
<1>2. ASSUME NEW path \in Files, NEW args \in Args, NEW env \in Envs \cup {asked.env}, Exec(path, args, env)
      PROVE  IInv'
  BY <1>2, IInvExec
<1>3. ASSUME NEW path \in Files, NEW args \in Args, ExecRefused(path, args)  PROVE IInv'
  BY <1>1, <1>3 DEF ExecRefused
<1>4. ASSUME NEW path \in Files, NEW args \in Args, ExecPanics(path, args)  PROVE IInv'
  BY <1>4 DEF ExecPanics, IInv, Running
<1>5. ASSUME NEW size \in Sizes, Malloc(size)  PROVE IInv'
  <2>1. Running /\ Given(malloc(regions, virtual_allocator, size), held, size)  BY <1>5 DEF Malloc, Running
  <2>2. Memory(regions, virtual_allocator, ProgramSegments(asked.program), held, argv, asked.env)
    BY <2>1 DEF IInv
  <2>3. MallocDone(malloc(regions, virtual_allocator, size), ProgramSegments(asked.program), held, size, argv, asked.env)
    BY <2>2, MallocMemory
  <2> QED  BY <2>1, <2>3, IInvGiven
<1>6. ASSUME NEW b \in held, Free(b)  PROVE IInv'
  <2> DEFINE r == free(regions, virtual_allocator, b.ptr)
  <2>1. /\ Running /\ regions' = r.map /\ virtual_allocator' = r.va /\ held' = held \ {b}
        /\ UNCHANGED <<status, argv, asked>>
    BY <1>6 DEF Free, Running
  <2>2. Memory(regions, virtual_allocator, ProgramSegments(asked.program), held, argv, asked.env)
    BY <2>1 DEF IInv
  <2>3. FreeDone(r, ProgramSegments(asked.program), held, b, argv, asked.env)  BY <2>2, FreeMemory
  <2> HIDE DEF r
  <2>4. Memory(regions', virtual_allocator', ProgramSegments(asked.program), held', argv, asked.env)
    BY <2>1, <2>3 DEF FreeDone
  <2> QED  BY <2>1, <2>4, IInvHeap
<1>7. ASSUME NEW b \in held, NEW size \in Sizes, Realloc(b, size)  PROVE IInv'
  <2>1. /\ Running /\ size = b.size
        /\ Given(realloc(regions, virtual_allocator, b.ptr, size), held \ {b}, size)
    BY <1>7 DEF Realloc, Running, SizesKept
  <2>2. Memory(regions, virtual_allocator, ProgramSegments(asked.program), held, argv, asked.env)
    BY <2>1 DEF IInv
  <2>3. MallocDone(realloc(regions, virtual_allocator, b.ptr, b.size), ProgramSegments(asked.program),
                   held \ {b}, b.size, argv, asked.env)
    BY <2>2, ReallocMemory
  <2> QED  BY <2>1, <2>3, IInvGiven
<1> QED  BY <1>1, <1>2, <1>3, <1>4, <1>5, <1>6, <1>7 DEF Next

\* The segments that the loader maps are those of the property.
LEMMA SegmentsAre ==
    ASSUME IInv
    PROVE  ProgramSegments(asked.program) = Segments \cup {Stack}
<1> DEFINE hs == File[asked.program].headers
<1>1. hs \in Seq(HeaderT)  BY ProgramMemoryAssumption DEF IInv, HeaderT
<1>2. Segments = {Region(h.addr, h.len, 0) : h \in {x \in Range(hs) : x.type = "LOAD"}}  BY DEF Segments
<1>3. ProgramSegments(asked.program) = SegmentsOf(hs, Len(hs)) \cup {Stack}  BY DEF ProgramSegments
<1> HIDE DEF hs
<1>4. Range(hs) = {hs[i] : i \in 1 .. Len(hs)}  BY <1>1 DEF Range
<1>5. SegmentsOf(hs, Len(hs)) = {Region(h.addr, h.len, 0) : h \in {x \in Range(hs) : x.type = "LOAD"}}
  BY <1>4 DEF SegmentsOf, SegmentOf
<1> QED  BY <1>2, <1>3, <1>5

\* Of the regions of a program exactly its strings and its blocks are in the heap.
LEMMA InTheHeap ==
    ASSUME Running, IInv
    PROVE  \E k, s : /\ WholeIn(regions, virtual_allocator, Segments \cup {Stack}, k, s,
                                BlocksOf(virtual_allocator.base, held), RegionsOf(held), argv, asked.env)
                     /\ {r \in regions : InHeap(r)} = s \cup RegionsOf(held)
                     /\ {r \in regions : ~InHeap(r)} = Segments \cup {Stack}
<1> DEFINE v == virtual_allocator
           segs == Segments \cup {Stack}
           hr == RegionsOf(held)
           hb == BlocksOf(v.base, held)
<1>1. segs = ProgramSegments(asked.program)  BY SegmentsAre
<1> HIDE DEF segs
<1>2. \E k, s : WholeIn(regions, v, segs, k, s, hb, hr, argv, asked.env)  BY <1>1 DEF IInv, Memory
<1> HIDE DEF hr, hb
<1>3. PICK k, s : WholeIn(regions, v, segs, k, s, hb, hr, argv, asked.env)  BY <1>2
<1>4. Laid(regions, v, segs, k, s, hb, hr)  BY <1>3 DEF WholeIn
<1>5. /\ v.base \in Nat /\ v.len \in Nat /\ v.heap.next \in Nat /\ v.heap.next <= v.len
      /\ \A r \in regions : r.start \in Nat /\ r.len \in Nat
      /\ \A r \in s \cup hr : r.start >= v.base /\ r.start + r.len <= v.base + v.heap.next
  BY <1>4, RegionsLaid
<1>6. /\ regions = segs \cup s \cup hr
      /\ \A r \in segs : r.start > 0 /\ r.len > 0 /\ (r.start + r.len <= v.base \/ r.start > v.base + v.len)
  BY <1>4 DEF Laid
<1>7. \A r \in s \cup hr : InHeap(r)  BY <1>5, <1>6 DEF InHeap
<1>8. \A r \in segs : ~InHeap(r)  BY <1>5, <1>6 DEF InHeap
<1>9. {r \in regions : InHeap(r)} = s \cup hr /\ {r \in regions : ~InHeap(r)} = segs  BY <1>6, <1>7, <1>8
<1> QED  BY <1>3, <1>9 DEF segs, hr, hb

\* The invariant gives the types,
LEMMA IInvTypes == ASSUME IInv  PROVE TypeOK
<1> DEFINE v == virtual_allocator
<1>1. /\ v.base \in Nat /\ v.len \in Nat /\ v.heap.next \in Nat /\ v.heap.next <= v.len
      /\ v.heap.count = Cardinality(v.heap.live)
  BY DEF IInv, SoundHeap, VirtualHeap, HeapT, Counted
<1>2. Space \in Nat /\ Word \in Nat /\ Word > 0  BY ProgramMemoryAssumption
<1>3. \A r \in regions : r.start \in 0 .. Space - 1 /\ r.len \in Nat /\ r.word \in Nat  BY <1>2 DEF IInv, TypedMap, Rgn
<1>4. \A b \in held : b.ptr \in 1 .. Space - 1 /\ b.size \in Sizes
  <2>1. \A b \in held : b.ptr \in Nat /\ b.ptr < Space /\ b.ptr >= v.base + Word /\ b.size \in Sizes  BY DEF IInv, HeldT
  <2> QED  BY <1>1, <1>2, <2>1
<1>5. status \in {"running", "exited", "panic"} /\ asked.program \in Files  BY DEF IInv
<1>6. virtual_allocator.heap.next \in 0 .. virtual_allocator.len  BY <1>1
<1> QED  BY <1>1, <1>3, <1>4, <1>5, <1>6 DEF TypeOK

\* the regions of the heap,
LEMMA IInvMirrors == ASSUME IInv  PROVE HeapMirrorsRegions
<1>1. TypeOK  BY IInvTypes
<1>2. CASE ~Running  BY <1>1, <1>2 DEF HeapMirrorsRegions, PointersMapped
<1>3. CASE Running
  <2> DEFINE v == virtual_allocator
             hb == BlocksOf(v.base, held)
             hr == RegionsOf(held)
             live == v.heap.live
             mapped == {r \in regions : InHeap(r)}
             segs == Segments \cup {Stack}
             holds(b, r) == r.start = v.base + b.addr /\ r.len <= b.size
  <2>1. PICK k, s : WholeIn(regions, v, segs, k, s, hb, hr, argv, asked.env) /\ mapped = s \cup hr
    BY <1>3, InTheHeap
  <2>2. HeldT(v.base, held)  BY DEF IInv
  <2>3. hr \subseteq mapped  BY <2>1
  <2>4. PointersMapped  BY <2>3 DEF RegionsOf, HeldRegion, PointersMapped
  <2>5. v.base \in Nat  BY DEF IInv, SoundHeap, VirtualHeap
  <2>6. \A b \in held : /\ HeldBlock(v.base, b) \in hb /\ HeldRegion(b) \in hr
                        /\ Holds(v.base, HeldBlock(v.base, b), HeldRegion(b)) /\ HeldRegion(b).word # 0
    <3> SUFFICES ASSUME NEW b \in held
                 PROVE  /\ HeldBlock(v.base, b) \in hb /\ HeldRegion(b) \in hr
                        /\ Holds(v.base, HeldBlock(v.base, b), HeldRegion(b)) /\ HeldRegion(b).word # 0
      OBVIOUS
    <3>1. HeldBlock(v.base, b) \in hb /\ HeldRegion(b) \in hr  BY DEF BlocksOf, RegionsOf
    <3>2. b.ptr \in Nat /\ b.ptr >= v.base + Word /\ b.size \in Sizes  BY <2>2 DEF HeldT
    <3> HIDE DEF hb, hr
    <3>3. /\ Holds(v.base, HeldBlock(v.base, b), HeldRegion(b)) /\ HeldRegion(b).word = b.size + Word
          /\ Word \in Nat /\ Word > 0 /\ b.size \in Nat
      BY <2>5, <3>2, HeldShape
    <3> QED  BY <3>1, <3>3
  <2>7. \A b \in hb : \E r \in hr : Holds(v.base, b, r)
    <3> SUFFICES ASSUME NEW b \in hb  PROVE \E r \in hr : Holds(v.base, b, r)  OBVIOUS
    <3>1. PICK c \in held : b = HeldBlock(v.base, c)  BY DEF BlocksOf
    <3> HIDE DEF hb, hr
    <3> QED  BY <2>6, <3>1
  <2>8. \A r \in hr : r.word # 0
    <3> SUFFICES ASSUME NEW r \in hr  PROVE r.word # 0  OBVIOUS
    <3>1. PICK c \in held : r = HeldRegion(c)  BY DEF RegionsOf
    <3> HIDE DEF hb, hr
    <3> QED  BY <2>6, <3>1
  <2>9. IsFiniteSet(hb) /\ IsFiniteSet(hr) /\ Cardinality(hb) = Cardinality(hr)  BY <2>2 DEF HeldT
  <2> HIDE DEF hb, hr, segs, mapped
  <2>10. /\ live = k \cup hb /\ k \cap hb = {} /\ IsFiniteSet(live)
         /\ \A b \in k : \E r \in s : Holds(v.base, b, r)
         /\ \A r \in s : r.word = 0 /\ \E b \in k : Holds(v.base, b, r)
         /\ IsFiniteSet(s) /\ Cardinality(k) = Cardinality(s)
         /\ \A r \in hr : \E b \in hb : Holds(v.base, b, r)
    BY <2>1 DEF WholeIn, Laid, SoundHeap, Counted
  <2>11. IsFiniteSet(k)
    <3>1. k \subseteq live  BY <2>10
    <3> QED  BY <2>10, <3>1, FS_Subset
  <2>12. s \cap hr = {}  BY <2>8, <2>10
  <2>13. Cardinality(live) = Cardinality(k) + Cardinality(hb)
    <3>1. Cardinality(k \cup hb) = Cardinality(k) + Cardinality(hb) - Cardinality(k \cap hb)  BY <2>9, <2>11, FS_Union
    <3>2. Cardinality(k \cap hb) = 0  BY <2>10, FS_EmptySet
    <3>3. Cardinality(k) \in Nat /\ Cardinality(hb) \in Nat  BY <2>9, <2>11, FS_CardinalityType
    <3> QED  BY <2>10, <3>1, <3>2, <3>3
  <2>14. Cardinality(mapped) = Cardinality(s) + Cardinality(hr)
    <3>1. Cardinality(s \cup hr) = Cardinality(s) + Cardinality(hr) - Cardinality(s \cap hr)  BY <2>9, <2>10, FS_Union
    <3>2. Cardinality(s \cap hr) = 0  BY <2>12, FS_EmptySet
    <3>3. Cardinality(s) \in Nat /\ Cardinality(hr) \in Nat  BY <2>9, <2>10, FS_CardinalityType
    <3> QED  BY <2>1, <3>1, <3>2, <3>3
  <2>15. Cardinality(live) = Cardinality(mapped)  BY <2>9, <2>10, <2>13, <2>14
  <2>16. \A b \in live : \E r \in mapped : Holds(v.base, b, r)  BY <2>1, <2>7, <2>10
  <2>17. \A r \in mapped : \E b \in live : Holds(v.base, b, r)  BY <2>1, <2>10
  <2>18. /\ \A b \in live : \E r \in mapped : holds(b, r)
         /\ \A r \in mapped : \E b \in live : holds(b, r)
    BY <2>16, <2>17, Zenon DEF Holds
  <2> QED  BY <1>1, <1>3, <2>4, <2>15, <2>18, Zenon DEF HeapMirrorsRegions, mapped
<1> QED  BY <1>2, <1>3

\* and the program as it was loaded.
LEMMA IInvWhole == ASSUME IInv  PROVE ProgramIsWhole
<1> SUFFICES ASSUME Running
             PROVE  /\ Segments \cup {Stack} = {r \in regions : ~InHeap(r)}
                    /\ \A r, s \in regions : r = s \/ ~overlaps_virtually_with(r, s)
                    /\ \A s \in Range(argv) \cup Range(asked.env) : \E r \in regions : InHeap(r) /\ r.len = Length[s] + 1
  BY DEF ProgramIsWhole
<1> DEFINE v == virtual_allocator
           hb == BlocksOf(v.base, held)
           hr == RegionsOf(held)
           segs == Segments \cup {Stack}
<1>1. PICK k, s : /\ WholeIn(regions, v, segs, k, s, hb, hr, argv, asked.env)
                  /\ {r \in regions : InHeap(r)} = s \cup hr
                  /\ {r \in regions : ~InHeap(r)} = segs
  BY InTheHeap
<1>2. /\ Laid(regions, v, segs, k, s, hb, hr)
      /\ \A i \in DOMAIN argv : \E x \in s : x.len = Length[argv[i]] + 1
      /\ \A i \in DOMAIN asked.env : \E x \in s : x.len = Length[asked.env[i]] + 1
  BY <1>1 DEF WholeIn
<1>3. \A r, t \in regions : r = t \/ ~overlaps_virtually_with(r, t)
  <2>1. \A r, t \in regions : (r = t \/ Clear(r, t)) /\ r \in Rgn  BY <1>2 DEF Laid, TypedMap
  <2> QED  BY <2>1, ClearIsNoOverlap
<1>4. \A x \in s : x \in regions /\ InHeap(x)  BY <1>1
<1>5. ASSUME NEW t \in Range(argv) \cup Range(asked.env)
      PROVE  \E r \in regions : InHeap(r) /\ r.len = Length[t] + 1
  <2>1. (\E i \in DOMAIN argv : t = argv[i]) \/ (\E i \in DOMAIN asked.env : t = asked.env[i])  BY DEF Range
  <2>2. \E x \in s : x.len = Length[t] + 1  BY <1>2, <2>1
  <2> QED  BY <1>4, <2>2
<1> QED  BY <1>1, <1>3, <1>5

\* The inductive invariant: for any programs whose segments fit, and programs that
\* ask for blocks of at least a byte and realloc them to the size they have.
THEOREM MemoryInvariant ==
    ASSUME SegmentsFit, SizesKept
    PROVE  Spec => []IInv
<1>1. Init => IInv  BY IInvInit
<1>2. IInv /\ [Next]_vars => IInv'  BY IInvNext
<1> QED  BY <1>1, <1>2, PTL DEF Spec

\* malloc, free, realloc and exec keep the virtual allocator and the regions of a
\* process in step: every block the allocator has given out holds one region and
\* every region of the heap is in such a block, so free() gives back both.
THEOREM MemoryMirrors ==
    ASSUME SegmentsFit, SizesKept
    PROVE  Spec => []HeapMirrorsRegions
<1>1. IInv => HeapMirrorsRegions  BY IInvMirrors
<1>2. Spec => []IInv  BY MemoryInvariant
<1> QED  BY <1>1, <1>2, PTL

\* A process that runs has all segments of its program, the stack, every argument
\* and every value of its environment, no address mapped twice: exec either loads
\* the whole program or the process exits.
THEOREM MemoryWhole ==
    ASSUME SegmentsFit, SizesKept
    PROVE  Spec => []ProgramIsWhole
<1>1. IInv => ProgramIsWhole  BY IInvWhole
<1>2. Spec => []IInv  BY MemoryInvariant
<1> QED  BY <1>1, <1>2, PTL

-----------------------------------------------------------------------------
(* The arguments of scripts *)

ScriptFile(s) == s \in Files /\ IsScript(s)
Rest(args) == IF args = <<>> THEN <<>> ELSE Tail(args)

\* The last elements of a are those of t.
EndsWith(a, t) == Len(a) >= Len(t) /\ \A j \in 1 .. Len(t) : a[(Len(a) - Len(t)) + j] = t[j]

\* The script at i follows its interpreter.
Named(a, i) ==
    LET before == i - 1 - Len(File[a[i]].opt_arg)
    IN  before >= 1 /\ a[before] = File[a[i]].interpreter

\* What an interpreter is given for the script path and its arguments args: the last
\* of the scripts, and in the end the path and the arguments.
Interprets(program, a, path, args) ==
    LET n == Len(a) - Len(Rest(args))
    IN  /\ a \in Seq(DOMAIN Length) /\ n >= 2
        /\ a[1] = program /\ a[n] = path
        /\ EndsWith(a, Rest(args))
        /\ \A i \in 2 .. Len(a) : ScriptFile(a[i]) => Named(a, i)

\* An interpreter, its options, the script and the arguments, one behind the other.
LEMMA ConcatFour ==
    ASSUME NEW S, NEW x \in S, NEW o \in Seq(S), NEW y \in S, NEW t \in Seq(S)
    PROVE  LET c == <<x>> \o o \o <<y>> \o t
           IN  /\ c \in Seq(S) /\ Len(c) = Len(o) + 2 + Len(t)
               /\ c[1] = x /\ c[Len(o) + 2] = y
               /\ \A j \in 1 .. Len(o) : c[1 + j] = o[j]
               /\ \A j \in 1 .. Len(t) : c[(Len(o) + 2) + j] = t[j]
<1> DEFINE a == <<x>> \o o
           b == a \o <<y>>
           c == b \o t
<1>1. Len(o) \in Nat /\ Len(t) \in Nat  OBVIOUS
<1>2. /\ a \in Seq(S) /\ Len(a) = Len(o) + 1 /\ a[1] = x /\ \A j \in 1 .. Len(o) : a[1 + j] = o[j]
  BY <1>1
<1> HIDE DEF a
<1>3. /\ b \in Seq(S) /\ Len(b) = Len(o) + 2 /\ b[Len(o) + 2] = y
      /\ \A j \in 1 .. Len(o) + 1 : b[j] = a[j]
  BY <1>1, <1>2
<1> HIDE DEF b
<1>4. /\ c \in Seq(S) /\ Len(c) = Len(o) + 2 + Len(t)
      /\ \A j \in 1 .. Len(o) + 2 : c[j] = b[j]
      /\ \A j \in 1 .. Len(t) : c[(Len(o) + 2) + j] = t[j]
  BY <1>1, <1>3
<1> HIDE DEF c
<1>5. c[1] = x /\ c[Len(o) + 2] = y  BY <1>1, <1>2, <1>3, <1>4
<1>6. \A j \in 1 .. Len(o) : c[1 + j] = o[j]
  <2> SUFFICES ASSUME NEW j \in 1 .. Len(o)  PROVE c[1 + j] = o[j]  OBVIOUS
  <2>1. 1 + j \in 1 .. Len(o) + 1 /\ 1 + j \in 1 .. Len(o) + 2  BY <1>1
  <2> QED  BY <1>2, <1>3, <1>4, <2>1
<1>7. /\ c \in Seq(S) /\ Len(c) = Len(o) + 2 + Len(t)
      /\ c[1] = x /\ c[Len(o) + 2] = y
      /\ \A j \in 1 .. Len(o) : c[1 + j] = o[j]
      /\ \A j \in 1 .. Len(t) : c[(Len(o) + 2) + j] = t[j]
  BY <1>4, <1>5, <1>6
<1> QED  BY <1>7 DEF c, b, a

\* Arguments without the first.
LEMMA RestOf ==
    ASSUME NEW S, NEW args \in Seq(S)
    PROVE  /\ Rest(args) \in Seq(S)
           /\ args = <<>> => Len(Rest(args)) = 0
           /\ args # <<>> => Len(Rest(args)) = Len(args) - 1 /\ Len(args) >= 1
           /\ \A j \in 1 .. Len(Rest(args)) : Rest(args)[j] = args[j + 1]
<1>1. CASE args = <<>>
  <2>1. Rest(args) = <<>>  BY <1>1 DEF Rest
  <2>2. Rest(args) \in Seq(S) /\ Len(Rest(args)) = 0  BY <2>1
  <2> QED  BY <1>1, <2>2
<1>2. CASE args # <<>>
  <2>1. Rest(args) = Tail(args)  BY <1>2 DEF Rest
  <2>2. /\ Tail(args) \in Seq(S) /\ Len(Tail(args)) = Len(args) - 1 /\ Len(args) \in Nat
        /\ \A i \in 1 .. Len(Tail(args)) : Tail(args)[i] = args[i + 1]
    BY <1>2, HeadTailProperties
  <2>3. Len(args) >= 1  BY <1>2, <2>2, EmptySeq
  <2> QED  BY <1>2, <2>1, <2>2, <2>3
<1> QED  BY <1>1, <1>2

\* EndsWith is IsSuffix.
LEMMA SuffixIs ==
    ASSUME NEW S, NEW a \in Seq(S), NEW t \in Seq(S), EndsWith(a, t)
    PROVE  /\ IsSuffix(t, a)
           /\ SubSeq(a, (Len(a) - Len(t)) + 1, Len(a)) = t
<1> DEFINE d == Len(a) - Len(t)
           u == Reverse(t)
           w == Reverse(a)
<1>1. Len(a) \in Nat /\ Len(t) \in Nat /\ d \in Nat /\ Len(a) = d + Len(t)  BY DEF EndsWith
<1>2. \A j \in 1 .. Len(t) : a[d + j] = t[j]  BY DEF EndsWith
<1> HIDE DEF d
<1>3. IsSuffix(t, a)
  <2>1. /\ u = [i \in 1 .. Len(t) |-> t[(Len(t) - i) + 1]]
        /\ w = [i \in 1 .. Len(a) |-> a[(Len(a) - i) + 1]]
    BY Zenon DEF Reverse
  <2>2. \A i \in 1 .. Len(t) : (Len(t) - i) + 1 \in 1 .. Len(t)  BY <1>1
  <2>3. \A i \in 1 .. Len(a) : (Len(a) - i) + 1 \in 1 .. Len(a)  BY <1>1
  <2>4. u \in Seq(S) /\ Len(u) = Len(t)  BY <1>1, <2>1, <2>2
  <2>5. w \in Seq(S) /\ Len(w) = Len(a)  BY <1>1, <2>1, <2>3
  <2>6. \A i \in 1 .. Len(t) : w[i] = u[i]
    <3> SUFFICES ASSUME NEW i \in 1 .. Len(t)  PROVE w[i] = u[i]  OBVIOUS
    <3>1. i \in 1 .. Len(a) /\ (Len(a) - i) + 1 = d + ((Len(t) - i) + 1)  BY <1>1
    <3>2. w[i] = a[d + ((Len(t) - i) + 1)]  BY <2>1, <3>1
    <3> QED  BY <1>2, <2>1, <2>2, <3>2
  <2> HIDE DEF u, w
  <2>7. SubSeq(u, 1, Len(u)) = SubSeq(w, 1, Len(u))
    <3>1. SubSeq(u, 1, Len(u)) = [i \in 1 .. Len(t) |-> u[i]]  BY <1>1, <2>4
    <3>2. SubSeq(w, 1, Len(u)) = [i \in 1 .. Len(t) |-> w[i]]  BY <1>1, <2>4, <2>5
    <3> QED  BY <2>6, <3>1, <3>2
  <2>8. IsPrefix(u, w)  BY <1>1, <2>4, <2>5, <2>7 DEF IsPrefix
  <2> QED  BY <2>8 DEF IsSuffix, u, w
<1>4. SubSeq(a, d + 1, Len(a)) = t
  <2> DEFINE q == SubSeq(a, d + 1, Len(a))
  <2>1. q \in Seq(S) /\ Len(q) = Len(t) /\ \A j \in 1 .. Len(t) : q[j] = a[d + j]  BY <1>1
  <2> HIDE DEF q
  <2>2. \A j \in 1 .. Len(t) : q[j] = t[j]  BY <1>2, <2>1
  <2>3. q = t  BY <2>1, <2>2, SeqEqual
  <2> QED  BY <2>3 DEF q
<1> QED  BY <1>3, <1>4 DEF d

\* What runs at some level.
Level(e, path, args) == e = Runs(path, args) \/ Interprets(e.path, e.args, path, args)

\* Positions move by the arguments that an interpreter puts in front.
LEMMA Shifted ==
    ASSUME NEW n \in Nat, NEW lc \in Nat, NEW lr \in Nat, NEW la \in Nat, n >= 2, lc - lr >= 2, la = (n - 1) + lc
    PROVE  /\ la - lr = (n - 1) + (lc - lr) /\ la - lr >= 2 /\ la >= lr /\ lc - lr \in 1 .. lc
           /\ \A j \in 1 .. lr : (lc - lr) + j \in 1 .. lc /\ (la - lr) + j = (n - 1) + ((lc - lr) + j)
           /\ \A i \in 2 .. la : i > n => i - (n - 1) \in 2 .. lc /\ (n - 1) + (i - (n - 1)) = i
OBVIOUS

\* One interpreter more.
LEMMA InterpretsStep ==
    ASSUME PlainArguments, NEW path \in Files, NEW args \in Args, NEW e, ExecT(e), IsScript(e.path),
           Level(e, path, args)
    PROVE  Interprets(NextLevel(e).path, NextLevel(e).args, path, args)
<1> DEFINE f == File[e.path]
           o == f.opt_arg
           t == Rest(e.args)
           a == <<f.interpreter>> \o o \o <<e.path>> \o t
           D == DOMAIN Length
           n == Len(o) + 2
           r == Rest(args)
<1>1. e.path \in Files /\ e.args \in Seq(D) /\ Files \subseteq D /\ args \in Seq(D)
  BY ProgramMemoryAssumption DEF ExecT
<1>2. f.interpreter \in Files /\ o \in Seq(D)  BY <1>1, ProgramMemoryAssumption DEF IsScript
<1>3. /\ t \in Seq(D) /\ (e.args # <<>> => Len(t) = Len(e.args) - 1)
      /\ \A j \in 1 .. Len(t) : t[j] = e.args[j + 1]
  BY <1>1, RestOf
<1>4. NextLevel(e) = Runs(f.interpreter, a)  BY Zenon DEF NextLevel, interpreted, Rest
<1>5. NextLevel(e).path = f.interpreter /\ NextLevel(e).args = a
  <2> HIDE DEF a, f
  <2> QED  BY <1>4 DEF Runs
<1>6. ScriptFile(e.path)  BY <1>1 DEF ScriptFile
<1>7. \A j \in 1 .. Len(o) : ~ScriptFile(o[j])  BY <1>6 DEF PlainArguments, ScriptFile
<1>8. r \in Seq(D)  BY <1>1, RestOf
<1>9. \A j \in 1 .. Len(r) : ~ScriptFile(r[j])
  <2> SUFFICES ASSUME NEW j \in 1 .. Len(r)  PROVE ~ScriptFile(r[j])  OBVIOUS
  <2>1. r[j] = args[j + 1] /\ (args # <<>> => Len(r) = Len(args) - 1) /\ (args = <<>> => Len(r) = 0)  BY <1>1, RestOf
  <2>2. Len(r) \in Nat /\ Len(args) \in Nat  BY <1>1, <1>8
  <2>3. j + 1 \in 2 .. Len(args)  BY <2>1, <2>2
  <2> QED  BY <2>1, <2>3 DEF PlainArguments, ScriptFile
<1> HIDE DEF t, r
<1>10. /\ a \in Seq(D) /\ Len(a) = Len(o) + 2 + Len(t)
       /\ a[1] = f.interpreter /\ a[Len(o) + 2] = e.path
       /\ \A j \in 1 .. Len(o) : a[1 + j] = o[j]
       /\ \A j \in 1 .. Len(t) : a[(Len(o) + 2) + j] = t[j]
  <2> HIDE DEF f, D, o
  <2>1. f.interpreter \in D /\ e.path \in D  BY <1>1, <1>2
  <2> QED  BY <1>2, <1>3, <2>1, ConcatFour
<1> HIDE DEF a
<1>11. Len(o) \in Nat /\ Len(t) \in Nat /\ Len(a) \in Nat /\ Len(e.args) \in Nat /\ Len(r) \in Nat
  <2> HIDE DEF o, D
  <2>1. Len(o) \in Nat  BY <1>2
  <2>2. Len(t) \in Nat  BY <1>3
  <2>3. Len(a) \in Nat  BY <1>10
  <2>4. Len(e.args) \in Nat  BY <1>1
  <2>5. Len(r) \in Nat  BY <1>8
  <2> QED  BY <2>1, <2>2, <2>3, <2>4, <2>5
<1>12. Named(a, n)
  <2>1. n - 1 - Len(o) = 1  BY <1>11
  <2>2. a[n] = e.path  BY <1>10
  <2> QED  BY <1>10, <2>1, <2>2 DEF Named
<1>13. n = Len(o) + 2 /\ n \in Nat /\ n >= 2 /\ Len(a) = n + Len(t)
  <2>1. Len(a) = Len(o) + 2 + Len(t)  BY <1>10
  <2> HIDE DEF o
  <2> QED  BY <1>11, <2>1
<1>14. a[n] = e.path  BY <1>10
<1>15. /\ \A j \in 1 .. Len(o) : a[1 + j] = o[j]
       /\ \A j \in 1 .. Len(t) : a[n + j] = t[j]
       /\ a[1] = f.interpreter /\ a \in Seq(D)
  BY <1>10
<1> HIDE DEF n, o, f, D
<1>16. \A i \in 2 .. n : ScriptFile(a[i]) => Named(a, i)
  <2> SUFFICES ASSUME NEW i \in 2 .. n, ScriptFile(a[i])  PROVE Named(a, i)  OBVIOUS
  <2>1. CASE i = n  BY <1>12, <2>1
  <2>2. CASE i # n
    <3>1. i - 1 \in 1 .. Len(o) /\ 1 + (i - 1) = i  BY <1>11, <1>13, <2>2
    <3>2. a[i] = o[i - 1]  BY <1>15, <3>1
    <3> QED  BY <1>7, <3>1, <3>2
  <2> QED  BY <2>1, <2>2
<1>17. CASE e = Runs(path, args)
  <2>1. e.path = path /\ e.args = args  BY <1>17 DEF Runs
  <2>2. t = r  BY <2>1 DEF t, r
  <2>3. Len(a) - Len(r) = n /\ Len(a) >= Len(r)  BY <1>11, <1>13, <2>2
  <2>4. EndsWith(a, r)  BY <1>15, <2>2, <2>3 DEF EndsWith
  <2>5. \A i \in 2 .. Len(a) : ScriptFile(a[i]) => Named(a, i)
    <3> SUFFICES ASSUME NEW i \in 2 .. Len(a), ScriptFile(a[i])  PROVE Named(a, i)  OBVIOUS
    <3>1. CASE i \in 2 .. n  BY <1>16, <3>1
    <3>2. CASE i > n
      <4>1. i - n \in 1 .. Len(r) /\ n + (i - n) = i  BY <1>11, <1>13, <2>2, <3>2
      <4>2. a[i] = r[i - n]  BY <1>15, <2>2, <4>1
      <4> QED  BY <1>9, <4>1, <4>2
    <3> QED  BY <1>11, <1>13, <3>1, <3>2
  <2>6. Interprets(f.interpreter, a, path, args)
    BY <1>13, <1>15, <1>14, <2>1, <2>3, <2>4, <2>5 DEF Interprets, r, D
  <2> QED  BY <1>5, <2>6
<1>18. CASE Interprets(e.path, e.args, path, args)
  <2> DEFINE c == e.args
             m == Len(c) - Len(r)
  <2>1. /\ c \in Seq(D) /\ m >= 2 /\ c[1] = e.path /\ c[m] = path /\ EndsWith(c, r)
        /\ \A i \in 2 .. Len(c) : ScriptFile(c[i]) => Named(c, i)
    BY <1>18 DEF Interprets, r, D
  <2>0. Len(c) \in Nat  BY <1>11
  <2>2. Len(c) >= 2 /\ c # <<>>  BY <1>11, <2>1
  <2>3. Len(t) = Len(c) - 1 /\ Len(a) = (n - 1) + Len(c)
    <3>1. Len(t) = Len(c) - 1  BY <1>3, <2>2
    <3> HIDE DEF c
    <3> QED  BY <1>11, <1>13, <2>0, <3>1
  <2>4. \A j \in 1 .. Len(c) : a[(n - 1) + j] = c[j]
    <3> SUFFICES ASSUME NEW j \in 1 .. Len(c)  PROVE a[(n - 1) + j] = c[j]  OBVIOUS
    <3>1. CASE j = 1
      <4>1. (n - 1) + j = n  BY <1>13, <3>1
      <4> QED  BY <1>14, <2>1, <3>1, <4>1
    <3>2. CASE j # 1
      <4>1. j - 1 \in 1 .. Len(t) /\ (n - 1) + j = n + (j - 1) /\ (j - 1) + 1 = j
        BY <1>11, <1>13, <2>3, <3>2
      <4> QED  BY <1>3, <1>15, <4>1
    <3> QED  BY <3>1, <3>2
  <2> DEFINE k == Len(a) - Len(r)
  <2>5. /\ k = (n - 1) + m /\ k >= 2 /\ Len(a) >= Len(r) /\ m \in 1 .. Len(c)
        /\ \A j \in 1 .. Len(r) : m + j \in 1 .. Len(c) /\ k + j = (n - 1) + (m + j)
        /\ \A i \in 2 .. Len(a) : i > n => i - (n - 1) \in 2 .. Len(c) /\ (n - 1) + (i - (n - 1)) = i
    <3>1. Len(c) - Len(r) >= 2 /\ Len(a) = (n - 1) + Len(c) /\ n >= 2  BY <1>13, <2>1, <2>3
    <3>2. n \in Nat /\ Len(r) \in Nat /\ Len(a) \in Nat  BY <1>11, <1>13
    <3> HIDE DEF c
    <3> QED  BY <2>0, <3>1, <3>2, Shifted
  <2>6. a[k] = path  BY <2>1, <2>4, <2>5
  <2>7. EndsWith(a, r)
    <3>1. \A j \in 1 .. Len(r) : a[k + j] = r[j]
      <4> SUFFICES ASSUME NEW j \in 1 .. Len(r)  PROVE a[k + j] = r[j]  OBVIOUS
      <4>2. c[m + j] = r[j]  BY <2>1 DEF EndsWith
      <4>1. m + j \in 1 .. Len(c) /\ k + j = (n - 1) + (m + j)  BY <2>5
      <4> QED  BY <2>4, <4>1, <4>2
    <3> QED  BY <2>5, <3>1 DEF EndsWith
  <2>8. \A i \in 2 .. Len(a) : ScriptFile(a[i]) => Named(a, i)
    <3> SUFFICES ASSUME NEW i \in 2 .. Len(a), ScriptFile(a[i])  PROVE Named(a, i)  OBVIOUS
    <3>1. CASE i \in 2 .. n  BY <1>16, <3>1
    <3>2. CASE i > n
      <4> DEFINE j == i - (n - 1)
                 p == j - 1 - Len(File[c[j]].opt_arg)
      <4>1. j \in 2 .. Len(c) /\ (n - 1) + j = i /\ j \in Nat
        <5>1. j \in 2 .. Len(c) /\ (n - 1) + j = i  BY <2>5, <3>2
        <5> HIDE DEF c, j
        <5> QED  BY <2>0, <5>1
      <4>2. a[i] = c[j]  BY <2>4, <4>1
      <4>3. ScriptFile(c[j])  BY <4>2
      <4>4. p >= 1 /\ c[p] = File[c[j]].interpreter
        <5>1. Named(c, j)  BY <2>1, <4>1, <4>3
        <5> QED  BY <5>1 DEF Named
      <4>5. Len(File[c[j]].opt_arg) \in Nat
        <5>1. File[c[j]].opt_arg \in Seq(D)  BY <4>3, ProgramMemoryAssumption DEF ScriptFile, IsScript, D
        <5> QED  BY <5>1
      <4> DEFINE lo == Len(File[c[j]].opt_arg)
      <4>6. p = j - 1 - lo /\ lo \in Nat /\ Len(File[a[i]].opt_arg) = lo  BY <4>2, <4>5
      <4>7. p \in 1 .. Len(c) /\ p \in Nat /\ i - 1 - lo = (n - 1) + p /\ (n - 1) + p >= 1
        <5> HIDE DEF c, j, p, lo
        <5>1. p <= j /\ p >= 1 /\ p \in Nat  BY <4>1, <4>4, <4>6
        <5>2. p \in 1 .. Len(c)  BY <2>0, <4>1, <5>1
        <5>3. i - 1 - lo = (n - 1) + p  BY <1>13, <4>1, <4>6, <5>1
        <5> QED  BY <1>13, <5>1, <5>2, <5>3
      <4>8. a[(n - 1) + p] = c[p]  BY <2>4, <4>7
      <4> HIDE DEF p, j, lo
      <4> QED  BY <4>2, <4>4, <4>6, <4>7, <4>8 DEF Named
    <3> QED  BY <1>11, <1>13, <3>1, <3>2
  <2>9. Interprets(f.interpreter, a, path, args)
    BY <1>15, <2>5, <2>6, <2>7, <2>8 DEF Interprets, r, D
  <2> QED  BY <1>5, <2>9
<1> QED  BY <1>17, <1>18 DEF Level

\* However many interpreters there are, each gets the script and its arguments.
LEMMA ResolvedLevel ==
    ASSUME PlainArguments, NEW path \in Files, NEW args \in Args
    PROVE  ExecT(resolved(path, args)) /\ Level(resolved(path, args), path, args)
<1> DEFINE level == Levels(path, args)
           At(n) == ExecT(level[n]) /\ Level(level[n], path, args)
           S == {n \in Nat : n <= MaxDepth => At(n)}
<1>1. MaxDepth \in Nat /\ args \in Seq(DOMAIN Length)  BY ProgramMemoryAssumption
<1>2. /\ level[0] = Runs(path, args)
      /\ \A d \in 1 .. MaxDepth : level[d] = NextLevel(level[d - 1])
      /\ resolved(path, args) = level[MaxDepth]
  BY LevelsSteps
<1> HIDE DEF level
<1>3. 0 \in S  BY <1>1, <1>2 DEF ExecT, Runs, Level
<1>4. ASSUME NEW n \in Nat, n \in S  PROVE n + 1 \in S
  <2>1. CASE n + 1 <= MaxDepth
    <3>1. level[n + 1] = NextLevel(level[n])  BY <1>1, <1>2, <2>1
    <3>2. ExecT(level[n]) /\ Level(level[n], path, args)  BY <1>1, <1>4, <2>1
    <3>3. ExecT(level[n + 1])  BY <3>1, <3>2, InterpretedType
    <3>4. CASE IsScript(level[n].path)
      <4>1. Interprets(NextLevel(level[n]).path, NextLevel(level[n]).args, path, args)
        BY <3>2, <3>4, InterpretsStep
      <4>2. Level(level[n + 1], path, args)  BY <3>1, <4>1 DEF Level
      <4> QED  BY <3>3, <4>2
    <3>5. CASE ~IsScript(level[n].path)
      <4>1. level[n + 1] = level[n]  BY <3>1, <3>5 DEF NextLevel
      <4> QED  BY <3>2, <4>1
    <3> QED  BY <3>4, <3>5
  <2> QED  BY <2>1
<1> HIDE DEF S
<1>5. MaxDepth \in S  BY <1>1, <1>3, <1>4, NatSetInduction
<1> QED  BY <1>1, <1>2, <1>5 DEF S

\* What argv has to do with what was asked for.
ArgumentsInv ==
    /\ asked.path \in Files /\ asked.args \in Args /\ argv \in Seq(DOMAIN Length)
    /\ Level(Runs(asked.program, argv), asked.path, asked.args)

\* The invariant says what InterpreterArguments says.
LEMMA ArgumentsInvIs == ASSUME ArgumentsInv  PROVE InterpreterArguments
<1> DEFINE args == asked.args
           rest == Rest(args)
           n == Len(argv) - Len(rest)
           D == DOMAIN Length
<1>1. args \in Seq(D) /\ argv \in Seq(D)  BY ProgramMemoryAssumption DEF ArgumentsInv
<1>2. /\ rest \in Seq(D)
      /\ args # <<>> => Len(rest) = Len(args) - 1 /\ Len(args) >= 1
      /\ \A j \in 1 .. Len(rest) : rest[j] = args[j + 1]
  BY <1>1, RestOf
<1>3. args # <<>> => Tail(args) = rest  BY DEF Rest
<1>4. rest = (IF args = <<>> THEN <<>> ELSE Tail(args))  BY DEF Rest
<1> HIDE DEF rest
<1>5. Len(argv) \in Nat /\ Len(rest) \in Nat /\ Len(args) \in Nat  BY <1>1, <1>2
<1>6. CASE Runs(asked.program, argv) = Runs(asked.path, args)
  <2>1. asked.program = asked.path /\ argv = args  BY <1>6 DEF Runs
  <2>2. args # <<>> => IsSuffix(Tail(args), argv)
    <3> SUFFICES ASSUME args # <<>>  PROVE IsSuffix(Tail(args), argv)  OBVIOUS
    <3>1. Len(rest) = Len(args) - 1  BY <1>2
    <3>2. \A j \in 1 .. Len(rest) : argv[(Len(argv) - Len(rest)) + j] = rest[j]
      <4> SUFFICES ASSUME NEW j \in 1 .. Len(rest)  PROVE argv[(Len(argv) - Len(rest)) + j] = rest[j]  OBVIOUS
      <4>1. (Len(argv) - Len(rest)) + j = j + 1  BY <1>5, <2>1, <3>1
      <4> QED  BY <1>2, <2>1, <4>1
    <3>3. EndsWith(argv, rest)  BY <1>5, <2>1, <3>1, <3>2 DEF EndsWith
    <3> HIDE DEF D
    <3>4. IsSuffix(rest, argv)  BY <1>1, <1>2, <3>3, SuffixIs
    <3> QED  BY <1>3, <3>4
  <2> QED  BY <2>1, <2>2 DEF InterpreterArguments
<1>7. CASE Interprets(asked.program, argv, asked.path, args)
  <2>1. /\ n >= 2 /\ argv[1] = asked.program /\ argv[n] = asked.path /\ EndsWith(argv, rest)
        /\ \A i \in 2 .. Len(argv) : ScriptFile(argv[i]) => Named(argv, i)
    BY <1>7 DEF Interprets, rest
  <2> HIDE DEF D
  <2>2. IsSuffix(rest, argv) /\ SubSeq(argv, n + 1, Len(argv)) = rest  BY <1>1, <1>2, <2>1, SuffixIs
  <2>3. DOMAIN argv = 1 .. Len(argv)  BY <1>1
  <2>4. n \in DOMAIN argv
    <3>1. n >= 2  BY <2>1
    <3> QED  BY <1>5, <2>3, <3>1
  <2> HIDE DEF n
  <2>5. \E i \in DOMAIN argv : argv[i] = asked.path /\ SubSeq(argv, i + 1, Len(argv)) = rest  BY <2>1, <2>2, <2>4
  <2>6. \A i \in DOMAIN argv \ {1} : argv[i] \in Files /\ IsScript(argv[i]) =>
          LET before == i - 1 - Len(File[argv[i]].opt_arg) IN argv[before] = File[argv[i]].interpreter
    <3> SUFFICES ASSUME NEW i \in DOMAIN argv \ {1}, argv[i] \in Files, IsScript(argv[i])
                 PROVE  argv[i - 1 - Len(File[argv[i]].opt_arg)] = File[argv[i]].interpreter
      OBVIOUS
    <3>1. i \in 2 .. Len(argv)  BY <1>5, <2>3
    <3>2. Named(argv, i)  BY <2>1, <3>1 DEF ScriptFile
    <3> QED  BY <3>2 DEF Named
  <2>7. asked.args # <<>> => IsSuffix(Tail(asked.args), argv)  BY <1>3, <2>2
  <2>8. \E i \in DOMAIN argv : argv[i] = asked.path /\ SubSeq(argv, i + 1, Len(argv)) = (IF asked.args = <<>> THEN <<>> ELSE Tail(asked.args))
    BY <1>4, <2>5
  <2> QED  BY <2>1, <2>6, <2>7, <2>8, Zenon DEF InterpreterArguments
<1> QED  BY <1>6, <1>7 DEF ArgumentsInv, Level, Runs

\* exec keeps it, and nothing else changes the arguments.
LEMMA ArgumentsInvNext == ASSUME PlainArguments, ArgumentsInv, [Next]_vars  PROVE ArgumentsInv'
<1>1. CASE UNCHANGED <<argv, asked>>  BY <1>1 DEF ArgumentsInv
<1>2. ASSUME NEW path \in Files, NEW args \in Args, NEW env, Exec(path, args, env)  PROVE ArgumentsInv'
  <2> DEFINE e == resolved(path, args)
  <2>1. ExecT(e) /\ Level(e, path, args)  BY ResolvedLevel
  <2>2. argv' = e.args /\ asked' = [program |-> e.path, path |-> path, args |-> args, env |-> env]
    BY <1>2 DEF Exec, Replaced
  <2> HIDE DEF e
  <2>3. asked'.program = e.path /\ asked'.path = path /\ asked'.args = args  BY <2>2
  <2>4. e = Runs(e.path, e.args) /\ e.args \in Seq(DOMAIN Length)  BY <2>1 DEF ExecT
  <2>5. Level(Runs(e.path, e.args), path, args)  BY <2>1, <2>4
  <2>6. Level(Runs(asked'.program, argv'), asked'.path, asked'.args)  BY <2>2, <2>3, <2>5
  <2> QED  BY <2>2, <2>3, <2>4, <2>6 DEF ArgumentsInv
<1>3. CASE \E path \in Files, args \in Args : \E env \in Envs \cup {asked.env} : Exec(path, args, env)  BY <1>2, <1>3
<1>4. CASE \E path \in Files, args \in Args : ExecRefused(path, args) \/ ExecPanics(path, args)
  BY <1>1, <1>4 DEF ExecRefused, ExecPanics, vars
<1>5. CASE \E size \in Sizes : Malloc(size)  BY <1>1, <1>5 DEF Malloc, Given
<1>6. CASE \E b \in held : Free(b)  BY <1>1, <1>6 DEF Free
<1>7. CASE \E b \in held : \E size \in Sizes : Realloc(b, size)  BY <1>1, <1>7 DEF Realloc, Given
<1>8. CASE UNCHANGED vars  BY <1>1, <1>8 DEF vars
<1> QED  BY <1>3, <1>4, <1>5, <1>6, <1>7, <1>8 DEF Next

\* exec of a script ends, after any number of interpreters that are scripts, with
\* every script behind its interpreter and the arguments of the call at the end.
THEOREM MemoryArguments ==
    ASSUME PlainArguments
    PROVE  Spec => []InterpreterArguments
<1>1. Init => ArgumentsInv
  <2> SUFFICES ASSUME Init  PROVE ArgumentsInv  OBVIOUS
  <2>1. PICK path \in Files, args \in Args, env \in Envs :
          argv = args /\ asked = [program |-> path, path |-> path, args |-> args, env |-> env]
    BY DEF Init
  <2>2. asked.program = path /\ asked.path = path /\ asked.args = args  BY <2>1
  <2>3. argv \in Seq(DOMAIN Length)  BY <2>1, ProgramMemoryAssumption
  <2> QED  BY <2>1, <2>2, <2>3 DEF ArgumentsInv, Level
<1>2. ArgumentsInv /\ [Next]_vars => ArgumentsInv'  BY ArgumentsInvNext
<1>3. ArgumentsInv => InterpreterArguments  BY ArgumentsInvIs
<1> QED  BY <1>1, <1>2, <1>3, PTL DEF Spec
=============================================================================
