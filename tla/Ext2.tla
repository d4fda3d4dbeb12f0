-------------------------------- MODULE Ext2 --------------------------------
(***************************************************************************)
(* The ext2 driver (ext2.rs): allocation of blocks and inodes in block     *)
(* groups, the tree of direct and indirect pointers of an inode, and files *)
(* that are opened, resized, read and written through it.                  *)
(*                                                                         *)
(* A block is BlockSize units of data, or Ppb pointers in as many of its   *)
(* units.                                                                  *)
(* The numbering of blocks in the bitmaps is the driver's own              *)
(* (get_number_of_special_blocks); the image is one whose bitmaps agree    *)
(* with it.  Device errors are not modelled: operations fail when the disk *)
(* is full or a pointer is null.                                           *)
(***************************************************************************)
EXTENDS Integers, Sequences, FiniteSets, FiniteSetsExt, TLC

CONSTANTS
  NDirect,         \* direct pointers of an inode (12)
  Ppb,             \* pointers_per_block (256)
  BlockSize,       \* get_block_size, in units (1024)
  InodeSize,       \* get_ondisk_inode_size, in units (128)
  Groups,          \* get_number_of_block_groups
  BlocksPerGroup, InodesPerGroup,
  Special,         \* get_number_of_special_blocks
  Reserved,        \* bits of each group's bitmap its own tables take
  ReservedInodes,  \* inodes of the image that are in use from the start, 1 and the root's
  Sizes,           \* the sizes each file is given, in units
  Offsets,         \* where writes begin
  MaxResizes,      \* bound on the number of resizes
  MaxWrites        \* bound on the number of writes of data

ASSUME Ext2Assumption ==
  /\ {NDirect, Ppb, BlockSize, InodeSize, Groups, BlocksPerGroup, InodesPerGroup, Special} \subseteq Nat \ {0}
  /\ Ppb <= BlockSize /\ BlockSize % InodeSize = 0
  /\ Reserved \subseteq 0..(BlocksPerGroup - 1)
  /\ 1 \in ReservedInodes /\ ReservedInodes \subseteq 1..(Groups * InodesPerGroup)
  /\ Sizes \in [1..(Groups * InodesPerGroup) -> SUBSET Nat]
  /\ Offsets \subseteq Nat /\ {MaxResizes, MaxWrites} \subseteq Nat

Group == 0..(Groups - 1)
Block == Special..(Special + Groups * BlocksPerGroup - 1)
Inode == 1..(Groups * InodesPerGroup)

VARIABLES
  fs,      \* blocks: bitmaps, free counts of the groups and of the superblock, contents
  itab,    \* inodes: likewise, and the inode tables
  handle,  \* the inode copy of an open file (Ext2File), NoHandle if not open
  leaky,   \* history: a resize failed, or gave up blocks of pointers it had
  stale,   \* history: a growth failed over what another failed growth had left
  holes,   \* history: the data blocks that resizes leave out or let go of, per file
  resizes, writes

history == <<leaky, stale, holes>>
vars == <<fs, itab, handle, leaky, stale, holes, resizes, writes>>

NoInode == [size |-> 0, direct |-> [i \in 0..(NDirect - 1) |-> 0],
            singly |-> 0, doubly |-> 0, triply |-> 0, links |-> 0]
NoHandle == [size |-> -1]
Zeroes == [i \in 0..(BlockSize - 1) |-> 0]

-----------------------------------------------------------------------------
(* Blocks *)

get_descriptor_index(number) == (number - Special) \div BlocksPerGroup
get_descriptor_subindex(number) == (number - Special) % BlocksPerGroup

Fail(f) == [ok |-> FALSE, fs |-> f, ptr |-> 0]

\* The first zero of the bitmap is set, the counts follow, the block is cleared.
\* A descriptor beyond the last is read as zeroes: nothing is free there.
alloc_block(f, g) ==
  IF f.free = 0 \/ g \notin Group THEN Fail(f)
  ELSE IF f.gfree[g] = 0 \/ f.bitmap[g] = 0..(BlocksPerGroup - 1) THEN Fail(f)
  ELSE LET bit == Min((0..(BlocksPerGroup - 1)) \ f.bitmap[g])
           ptr == bit + g * BlocksPerGroup + Special
       IN [ok |-> TRUE, ptr |-> ptr,
           fs |-> [f EXCEPT !.bitmap[g] = @ \cup {bit}, !.gfree[g] = @ - 1, !.free = @ - 1,
                            !.block[ptr] = Zeroes]]

\* The first group that has a block, from g on, never one before it.
alloc_block_close_to(f, g) ==
  LET able == {h \in g..(Groups - 1) : alloc_block(f, h).ok}
  IN IF able = {} THEN Fail(f) ELSE alloc_block(f, Min(able))

\* Mutant of dealloc_block: a block that is free already is counted again.
dealloc_block_twice(f, number) ==
  IF number < Special THEN f
  ELSE LET g == get_descriptor_index(number) IN
       [f EXCEPT !.bitmap[g] = @ \ {get_descriptor_subindex(number)}, !.gfree[g] = @ - 1, !.free = @ + 1]
\* Callers ignore its result.  The null pointer and a free block are left alone.
dealloc_block(f, number) ==
  IF number < Special \/ f.free = Groups * BlocksPerGroup THEN f
  ELSE LET g == get_descriptor_index(number)
           bit == get_descriptor_subindex(number)
       IN IF bit \notin f.bitmap[g] THEN f
          ELSE [f EXCEPT !.bitmap[g] = @ \ {bit}, !.gfree[g] = @ + 1, !.free = @ + 1]

-----------------------------------------------------------------------------
(* The tree of pointers.  A pointer that cannot be read is {}.              *)

\* The root of data block n and the indices from it to the data block.
path(n) ==
  LET s == n - NDirect
      d == s - Ppb
      t == d - Ppb * Ppb
  IN CASE n < NDirect -> [root |-> "direct", index |-> <<n>>]
       [] s >= 0 /\ s < Ppb -> [root |-> "singly", index |-> <<s>>]
       [] d >= 0 /\ d < Ppb * Ppb -> [root |-> "doubly", index |-> <<d \div Ppb, d % Ppb>>]
       [] t >= 0 -> [root |-> "triply",
                     index |-> <<t \div (Ppb * Ppb), (t % (Ppb * Ppb)) \div Ppb, (t % (Ppb * Ppb)) % Ppb>>]

\* The block at the end of all indices but the last; read_block(0) fails.
RECURSIVE last_level(_, _, _)
last_level(f, ptr, index) ==
  IF ptr = 0 THEN {}
  ELSE IF Len(index) = 1 THEN {ptr}
  ELSE last_level(f, f.block[ptr][index[1]], SubSeq(index, 2, Len(index)))

follow(f, ino, p) ==
  IF p.root = "direct" THEN {ino.direct[p.index[1]]}
  ELSE {f.block[b][p.index[Len(p.index)]] : b \in last_level(f, ino[p.root], p.index)}

read_data_block_pointer(f, ino, n) == follow(f, ino, path(n))

\* How far an operation on an inode has come: whether it goes on (the `?' of the
\* code), the disk, the inode, the data blocks still to be covered by indirect
\* blocks, and the block that was allocated last.
Start(f, ino) == [ok |-> TRUE, fs |-> f, ino |-> ino, need |-> 0, ptr |-> 0]
Failed(r) == [r EXCEPT !.ok = FALSE]

given(r, a) == [r EXCEPT !.ok = a.ok, !.fs = a.fs, !.ptr = a.ptr]
allocated(r, g) == given(r, alloc_block_close_to(r.fs, g))

\* The old block, if any, is deallocated.
write_indirect(r, at, k, ptr) ==
  IF at = {} THEN Failed(r)
  ELSE LET b == CHOOSE x \in at : TRUE
       IN [r EXCEPT !.fs = [dealloc_block(@, @.block[b][k]) EXCEPT !.block[b][k] = ptr]]

write_pointer(r, p, ptr) ==
  IF p.root = "direct"
  THEN [r EXCEPT !.fs = dealloc_block(@, r.ino.direct[p.index[1]]), !.ino.direct[p.index[1]] = ptr]
  ELSE write_indirect(r, last_level(r.fs, r.ino[p.root], p.index), p.index[Len(p.index)], ptr)

write_data_block_pointer(r, n, ptr) == write_pointer(r, path(n), ptr)

\* The number of the data block that holds the last unit, none for an empty file.
get_last_allocated(ino) == IF ino.size = 0 THEN {} ELSE {(ino.size - 1) \div BlockSize}

\* The group to allocate in: that of the last block, 0 for an empty file.
get_appropriate_descriptor_index(f, ino) ==
  IF ino.size = 0 THEN {0}
  ELSE {get_descriptor_index(p) :
          p \in {q \in UNION {read_data_block_pointer(f, ino, n) : n \in get_last_allocated(ino)} : q >= Special}}

set_new_pointer(r, n) == IF r.ok THEN write_data_block_pointer(r, n, r.ptr) ELSE r

alloc_in(r, n, at) == IF at = {} THEN Failed(r) ELSE set_new_pointer(allocated(r, CHOOSE g \in at : TRUE), n)

alloc_data_block(r, n) ==
  IF r.ok THEN alloc_in(r, n, get_appropriate_descriptor_index(r.fs, r.ino)) ELSE r

-----------------------------------------------------------------------------
(* Indirect blocks go when a file shrinks ...                               *)

empty(f, b) == f.block[b] = Zeroes

\* The children of block b are dropped from the last one down while they are
\* empty; a child that is not empty ends it.
RECURSIVE drop_empty_children(_, _, _)
drop_empty_children(f, b, k) ==
  IF k < 0 THEN f
  ELSE LET c == f.block[b][k]
       IN IF c = 0 THEN drop_empty_children(f, b, k - 1)
          ELSE IF ~empty(f, c) THEN f
          ELSE drop_empty_children([dealloc_block(f, c) EXCEPT !.block[b][k] = 0], b, k - 1)

\* The triply indirect block is walked forward, and left at the first child that
\* keeps anything: without writing that child, whose own children may be freed.
RECURSIVE drop_empty_trees(_, _, _)
drop_empty_trees(f, b, k) ==
  IF k = Ppb THEN f
  ELSE LET c == f.block[b][k]
           f1 == drop_empty_children(f, c, Ppb - 1)
       IN IF c = 0 THEN drop_empty_trees(f, b, k + 1)
          ELSE IF ~empty(f1, c) THEN [f1 EXCEPT !.block[c] = f.block[c]]
          ELSE drop_empty_trees([dealloc_block(f1, c) EXCEPT !.block[b][k] = 0], b, k + 1)

\* A root that is empty after its children were dropped is dropped too.
drop_root(r, root, f) ==
  IF empty(f, r.ino[root])
  THEN [r EXCEPT !.fs = dealloc_block(f, r.ino[root]), !.ino[root] = 0]
  ELSE [r EXCEPT !.fs = f]

shrink_singly(r) == IF r.ino.singly = 0 THEN r ELSE drop_root(r, "singly", r.fs)
shrink_doubly(r) ==
  IF r.ino.doubly = 0 THEN r ELSE drop_root(r, "doubly", drop_empty_children(r.fs, r.ino.doubly, Ppb - 1))
shrink_triply(r) ==
  IF r.ino.triply = 0 THEN r ELSE drop_root(r, "triply", drop_empty_trees(r.fs, r.ino.triply, 0))

\* Mutant of shrink_data_structure_to_fit: only the singly indirect block.
shrink_data_structure_to_fit_singly(r) == shrink_singly(r)
shrink_data_structure_to_fit(r) == shrink_triply(shrink_doubly(shrink_singly(r)))

-----------------------------------------------------------------------------
(* ... and come when it grows.                                              *)

block_count(len) == len \div BlockSize + (IF len % BlockSize # 0 THEN 1 ELSE 0)

\* A root that is missing is allocated.
rooted(r, root) == IF r.ok THEN [r EXCEPT !.ino[root] = r.ptr] ELSE r
root_for(r, root, g) == IF r.ino[root] = 0 THEN rooted(allocated(r, g), root) ELSE r

\* Entries 0.. of the doubly indirect block, read into a buffer, get new blocks for
\* Ppb data blocks each: also those that had one.  It is written back only if all
\* could be allocated.
RECURSIVE new_children(_, _, _, _)
new_child(r, buf, k, g) ==
  IF r.ok THEN new_children([r EXCEPT !.need = @ - Ppb], [buf EXCEPT ![k] = r.ptr], k + 1, g) ELSE r
new_children(r, buf, k, g) ==
  IF r.need <= 0 \/ k = Ppb THEN [r EXCEPT !.fs.block[r.ino.doubly] = buf]
  ELSE new_child(allocated(r, g), buf, k, g)

fill_doubly(r, g) == IF r.ok THEN new_children(r, r.fs.block[r.ino.doubly], 0, g) ELSE r

\* The same for the triply indirect block: a new doubly indirect block each, but
\* the pointers to its children go into the inode's doubly indirect block.
RECURSIVE new_trees(_, _, _, _)
new_tree(r, buf, k, g) ==
  IF r.ok THEN new_trees(fill_doubly(r, g), [buf EXCEPT ![k] = r.ptr], k + 1, g) ELSE r
new_trees(r, buf, k, g) ==
  IF ~r.ok THEN r
  ELSE IF r.need <= 0 \/ k = Ppb
  THEN [r EXCEPT !.fs.block[r.ino.triply] = buf, !.ok = r.need <= 0]
  ELSE new_tree(allocated(r, g), buf, k, g)

fill_triply(r, g) == IF r.ok THEN new_trees(r, r.fs.block[r.ino.triply], 0, g) ELSE r

grow_singly(r, g) == [root_for(r, "singly", g) EXCEPT !.need = @ - Ppb]
grow_doubly(r, g) == IF r.ok /\ r.need > 0 THEN fill_doubly(root_for(r, "doubly", g), g) ELSE r
grow_triply(r, g) == IF r.ok /\ r.need > 0 THEN fill_triply(root_for(r, "triply", g), g) ELSE r

grow_in(r, at) ==
  LET g == CHOOSE x \in at : TRUE
  IN IF ~r.ok \/ r.need <= 0 THEN r
     ELSE IF at = {} THEN Failed(r)
     ELSE grow_triply(grow_doubly(grow_singly(r, g), g), g)

grow_data_structure_by(r, nblocks) ==
  grow_in([r EXCEPT !.need = block_count(r.ino.size) + nblocks - NDirect],
          get_appropriate_descriptor_index(r.fs, r.ino))

-----------------------------------------------------------------------------
(* Resizing *)

RECURSIVE alloc_range(_, _, _)
alloc_range(r, from, to) ==
  IF from > to \/ ~r.ok THEN r ELSE alloc_range(alloc_data_block(r, from), from + 1, to)

RECURSIVE dealloc_range(_, _, _)
dealloc_range(r, from, count) ==
  IF count = 0 \/ ~r.ok THEN r
  ELSE dealloc_range(write_data_block_pointer(r, from, 0), from - 1, count - 1)

set_size(r, size) == IF r.ok THEN [r EXCEPT !.ino.size = size] ELSE r

shrink_by(r, n) ==
  LET size == r.ino.size
      used == IF size % BlockSize = 0 THEN BlockSize ELSE size % BlockSize
      remove == IF n >= used THEN 1 + (n - used) \div BlockSize ELSE 0
      fit(q) == IF q.ok THEN shrink_data_structure_to_fit(q) ELSE q
  IN set_size(fit(dealloc_range(r, (size - 1) \div BlockSize, remove)), size - n)

\* When the last block is full (or there is none) the next one is allocated first.
next_block(r) ==
  IF r.ino.size % BlockSize # 0 THEN r
  ELSE alloc_data_block(grow_data_structure_by(r, 1), IF r.ino.size = 0 THEN 0 ELSE (r.ino.size - 1) \div BlockSize + 1)

\* The others are counted from the last block the size tells of.
more_blocks(r, n) ==
  LET last == IF r.ino.size = 0 THEN 0 ELSE (r.ino.size - 1) \div BlockSize
      rest == n - (BlockSize - (r.ino.size % BlockSize))
      add == IF rest > 0 THEN block_count(rest) ELSE 0
  IN alloc_range(grow_data_structure_by(r, add), last + 1, last + add)

\* Mutant of grow_by: only the next block is allocated.
grow_by_floor(r, n) == set_size(next_block(r), r.ino.size + n)
\* Mutant of grow_by: the last block is allocated also when it exists.
grow_by_anew(r, n) ==
  LET block == r.ino.size \div BlockSize
      next(q) == IF (r.ino.size % BlockSize) + n > BlockSize THEN alloc_data_block(q, block + 1) ELSE q
  IN set_size(next(alloc_data_block(grow_data_structure_by(r, 1), block)), r.ino.size + n)
grow_by(r, n) == set_size(more_blocks(next_block(r), n), r.ino.size + n)

resize(r, size) ==
  IF size = r.ino.size THEN r
  ELSE IF size < r.ino.size THEN shrink_by(r, r.ino.size - size)
  ELSE grow_by(r, size - r.ino.size)

-----------------------------------------------------------------------------
(* Reading and writing data.  Both count the blocks from the length alone,  *)
(* not from where in a block the request begins.                            *)

ptr_of(f, ino, n) == LET p == read_data_block_pointer(f, ino, n) IN IF p = {} THEN 0 ELSE CHOOSE x \in p : TRUE

\* The units read_bytes returns, as a sequence; {} when it returns None.
read_bytes(f, ino, offset, len) ==
  LET start == offset \div BlockSize
      count == IF block_count(len) = 0 THEN 1 ELSE block_count(len)
      skip == offset % BlockSize
      have == Min({count * BlockSize - skip, len})
  IN IF offset + len > ino.size \/ \E k \in 0..(count - 1) : ptr_of(f, ino, start + k) = 0 THEN {}
     ELSE {[u \in 1..have |-> f.block[ptr_of(f, ino, start + (skip + u - 1) \div BlockSize)][(skip + u - 1) % BlockSize]]}

\* f with the blocks that data block start + k leads to replaced by new[k]; a null
\* pointer ends it.
replaced(f, ptr, new) ==
  LET reached == {k \in DOMAIN ptr : \A j \in 0..k : ptr[j] # 0}
  IN [f EXCEPT !.block = [b \in {ptr[k] : k \in reached} |-> new[CHOOSE k \in reached : ptr[k] = b]] @@ @]

\* Mutant of write_bytes: every block is overwritten from its beginning.
write_bytes_whole(f, ino, offset, len) ==
  LET blocks == 0..(block_count(len) - 1)
  IN replaced(f, [k \in blocks |-> ptr_of(f, ino, offset \div BlockSize + k)],
              [k \in blocks |-> [i \in 0..(BlockSize - 1) |->
                 IF k * BlockSize + i < len THEN k * BlockSize + i + 1 ELSE 0]])
\* The data are 1, 2, ... len.  The place in the first block is the offset modulo the
\* size of an inode; a block that is overwritten from its start is not read first.
write_bytes(f, ino, offset, len) ==
  LET count == block_count(len)
      skip == offset % InodeSize
      last == Min({skip + len, count * BlockSize}) - 1      \* the last unit that gets written
      ptr == [k \in 0..(count - 1) |-> ptr_of(f, ino, offset \div BlockSize + k)]
      kept(k) == ptr[k] # 0 /\ ((k = count - 1 /\ len % BlockSize # 0) \/ (k = 0 /\ skip # 0))
      new == [k \in DOMAIN ptr |-> [i \in 0..(BlockSize - 1) |->
                CASE k * BlockSize + i \in skip..last -> k * BlockSize + i - skip + 1
                  [] kept(k) /\ k * BlockSize + i \notin skip..last -> f.block[ptr[k]][i]
                  [] OTHER -> 0]]
  IN IF offset + len > ino.size THEN f ELSE replaced(f, ptr, new)

-----------------------------------------------------------------------------
(* Inodes *)

inode_group(a) == (a - 1) \div InodesPerGroup
inode_subindex(a) == (a - 1) % InodesPerGroup

\* As for blocks; inode 1 is never given out.
alloc_inode(t, g) ==
  IF t.free = 0 \/ g \notin Group THEN [ok |-> FALSE, tab |-> t, addr |-> 0]
  ELSE IF t.gfree[g] = 0 \/ t.bitmap[g] = 0..(InodesPerGroup - 1) THEN [ok |-> FALSE, tab |-> t, addr |-> 0]
  ELSE LET bit == Min((0..(InodesPerGroup - 1)) \ t.bitmap[g])
           addr == bit + InodesPerGroup * g + 1
       IN IF addr = 1 THEN [ok |-> FALSE, tab |-> t, addr |-> 0]
          ELSE [ok |-> TRUE, addr |-> addr,
                tab |-> [t EXCEPT !.bitmap[g] = @ \cup {bit}, !.gfree[g] = @ - 1, !.free = @ - 1,
                                  !.inode[addr] = NoInode]]

RECURSIVE alloc_inode_close_to(_, _)
alloc_inode_close_to(t, g) ==
  LET r == alloc_inode(t, g)
  IN IF r.ok \/ g + 1 > Groups THEN r ELSE alloc_inode_close_to(t, g + 1)

dealloc_inode(t, a) ==
  LET g == inode_group(a)
      bit == inode_subindex(a)
  IN IF t.free = Groups * InodesPerGroup \/ t.gfree[g] = InodesPerGroup \/ bit \notin t.bitmap[g]
     THEN [ok |-> FALSE, tab |-> t]
     ELSE [ok |-> TRUE, tab |-> [t EXCEPT !.bitmap[g] = @ \ {bit}, !.gfree[g] = @ + 1, !.free = @ + 1]]

Allocated(a) == inode_subindex(a) \in itab.bitmap[inode_group(a)]

-----------------------------------------------------------------------------
(* A fresh image: reserved inodes and group tables are taken, nothing else.  *)

Init ==
  /\ fs = [bitmap |-> [g \in Group |-> Reserved],
           gfree |-> [g \in Group |-> BlocksPerGroup - Cardinality(Reserved)],
           free |-> Groups * (BlocksPerGroup - Cardinality(Reserved)),
           block |-> [b \in Block |-> Zeroes]]
  /\ LET taken(g) == {inode_subindex(a) : a \in {b \in ReservedInodes : inode_group(b) = g}}
     IN itab = [bitmap |-> [g \in Group |-> taken(g)],
             gfree |-> [g \in Group |-> InodesPerGroup - Cardinality(taken(g))],
             free |-> Groups * InodesPerGroup - Cardinality(ReservedInodes),
             inode |-> [a \in Inode |-> NoInode]]
  /\ handle = [a \in Inode |-> NoHandle]
  /\ leaky = FALSE /\ stale = FALSE /\ holes = [a \in Inode |-> {}]
  /\ resizes = 0 /\ writes = 0

\* create_empty_child, the inode: allocated near its folder, then written.
Create(g) ==
  LET r == alloc_inode_close_to(itab, g)
  IN /\ r.ok
     /\ itab' = [r.tab EXCEPT !.inode[r.addr] = [NoInode EXCEPT !.links = 1]]
     /\ UNCHANGED <<fs, handle, history, resizes, writes>>

\* unlink_or_delete_empty_child, the inode: only a file without data goes away.
Unlink(a) ==
  /\ Allocated(a) /\ a \notin ReservedInodes /\ handle[a] = NoHandle
  /\ itab.inode[a].links = 1 /\ itab.inode[a].size = 0
  /\ LET r == dealloc_inode(itab, a)
     IN /\ r.ok
        /\ itab' = [r.tab EXCEPT !.inode[a].links = 0]
  /\ UNCHANGED <<fs, handle, history, resizes, writes>>

\* as_vfs_node: the handle owns a copy of the inode.  One handle per inode.
Open(a) ==
  /\ Allocated(a) /\ a \notin ReservedInodes /\ handle[a] = NoHandle
  /\ handle' = [handle EXCEPT ![a] = itab.inode[a]]
  /\ UNCHANGED <<fs, itab, history, resizes, writes>>

Close(a) ==
  /\ handle[a] # NoHandle
  /\ handle' = [handle EXCEPT ![a] = NoHandle]
  /\ UNCHANGED <<fs, itab, history, resizes, writes>>

\* A growth from the end of a full block by more than one block: grow_by counts
\* the others from the old size, gives the next block twice and leaves the last out.
LeavesOut(old, size) == old > 0 /\ old % BlockSize = 0 /\ size > old + BlockSize

\* A growth that gives entry 0 of the doubly indirect block a new block although it
\* has one: any growth of a file with data there, and one that calls
\* grow_data_structure_by twice on the way there.
Regrows(old, size) ==
  /\ size > old
  /\ \/ block_count(old) > NDirect + Ppb
     \/ block_count(old) = NDirect + Ppb /\ LeavesOut(old, size)

\* The data blocks of a file that a resize from old may leave without a block.
Holes(a, old, size, ok) ==
  LET last == block_count(IF ok THEN size ELSE old) - 1
  IN {n \in holes[a] : n <= last}
       \cup (IF ok /\ LeavesOut(old, size) THEN {last} ELSE {})
       \cup (IF Regrows(old, size) THEN (NDirect + Ppb)..(block_count(old) - 1) ELSE {})

\* A failed growth keeps the blocks it allocated in the copy, beyond the size.
Remains(ino) == ptr_of(fs, ino, block_count(ino.size)) # 0

\* Ext2File::resize: the copy and the blocks change even when it fails half way;
\* the inode on disk only when it succeeds.
Resize(a, size) ==
  /\ handle[a] # NoHandle /\ resizes < MaxResizes
  /\ \E r \in {resize(Start(fs, handle[a]), size)} :
        /\ fs' = r.fs
        /\ handle' = [handle EXCEPT ![a] = r.ino]
        /\ itab' = IF r.ok THEN [itab EXCEPT !.inode[a] = r.ino] ELSE itab
        /\ leaky' = (leaky \/ ~r.ok \/ Regrows(handle[a].size, size))
        /\ stale' = (stale \/ (~r.ok /\ size > handle[a].size /\ Remains(handle[a])))
        /\ holes' = [holes EXCEPT ![a] = Holes(a, handle[a].size, size, r.ok)]
  /\ resizes' = resizes + 1
  /\ UNCHANGED writes

\* Ext2File::write.
Write(a, offset, len) ==
  /\ handle[a] # NoHandle /\ writes < MaxWrites /\ offset + len <= handle[a].size
  /\ fs' = write_bytes(fs, handle[a], offset, len)
  /\ writes' = writes + 1
  /\ UNCHANGED <<itab, handle, history, resizes>>

Next ==
  \/ \E g \in Group : Create(g)
  \/ \E a \in Inode : Unlink(a) \/ Open(a) \/ Close(a)
  \/ \E a \in Inode : \E size \in Sizes[a] : Resize(a, size)
  \/ \E a \in Inode : \E offset \in Offsets, len \in Sizes[a] \ {0} : Write(a, offset, len)

Spec == Init /\ [][Next]_vars

-----------------------------------------------------------------------------
(* What the pointers of an inode reach: pairs of a place and a block.       *)

RECURSIVE Subtree(_, _, _)
Subtree(ptr, level, place) ==
  IF ptr = 0 THEN {}
  ELSE {<<place, ptr>>} \cup
       (IF level = 0 THEN {}
        ELSE UNION {Subtree(fs.block[ptr][k], level - 1, Append(place, k)) : k \in 0..(Ppb - 1)})

Reaches(ino) ==
  UNION {Subtree(ino.direct[k], 0, <<0, k>>) : k \in 0..(NDirect - 1)}
    \cup Subtree(ino.singly, 1, <<1>>) \cup Subtree(ino.doubly, 2, <<2>>) \cup Subtree(ino.triply, 3, <<3>>)

\* The pointers in use: those of the open copy, else those on disk.
Current(a) == IF handle[a] # NoHandle THEN handle[a] ELSE itab.inode[a]
Live == {a \in Inode \ ReservedInodes : Allocated(a)}
Uses == UNION {{<<a, u>> : u \in Reaches(Current(a))} : a \in Live}

Marked == {b \in Block : get_descriptor_subindex(b) \in fs.bitmap[get_descriptor_index(b)]
                         /\ get_descriptor_subindex(b) \notin Reserved}

\* Bitmaps, blocks and the sizes in inodes stay in range (Ext2RawInode, low32_size).
TypeOK ==
  /\ \A g \in Group : fs.bitmap[g] \subseteq 0..(BlocksPerGroup - 1) /\ itab.bitmap[g] \subseteq 0..(InodesPerGroup - 1)
  /\ fs.block \in [Block -> [0..(BlockSize - 1) -> Nat]]
  /\ \A a \in Inode : handle[a] # NoHandle => handle[a].size \in Sizes[a]
  /\ resizes \in 0..MaxResizes /\ writes \in 0..MaxWrites

\* No block has two users: no two pointers, of one file or of two, lead to it.
\* Resizes that fail half way, on a full disk, and files closed after them
\* included.
NoDoubleUse == \A x, y \in Uses : x[2][2] = y[2][2] => x = y

\* A block that is in use is marked in its bitmap, so it is not given out again.
UsedIsMarked == \A x \in Uses : x[2][2] \in Marked

\* The three records of free space agree: bitmap, group descriptor, superblock;
\* for blocks and for inodes.
CountsAgree ==
  /\ \A g \in Group : fs.gfree[g] = BlocksPerGroup - Cardinality(fs.bitmap[g])
  /\ \A g \in Group : itab.gfree[g] = InodesPerGroup - Cardinality(itab.bitmap[g])
  /\ fs.free = MapThenSumSet(LAMBDA g : fs.gfree[g], Group)
  /\ itab.free = MapThenSumSet(LAMBDA g : itab.gfree[g], Group)

\* Nothing is lost as long as no resize failed and none gave a doubly indirect
\* block new children: every marked block is in use.
NoLeak == leaky \/ Marked \subseteq {x[2][2] : x \in Uses}

\* A block is marked in use if and only if one pointer leads to it, whatever was
\* resized, and failed to be, before; after a failure, and after a growth of a file
\* that has a doubly indirect block, some may be marked in vain.  A second failed
\* growth (stale) ends this: it frees the blocks the first one left beyond the size,
\* to which the inode on disk may still point.
BitmapExact == TypeOK /\ (~stale => NoDoubleUse /\ UsedIsMarked) /\ NoLeak

\* Every block of a file up to its size exists, but for the last one after a growth
\* from a full block by more than one block, and for those behind the doubly
\* indirect block after a growth of a file that has some; until they are cut off.
BlocksExist ==
  ~stale => \A a \in Live : \A n \in (0..(block_count(Current(a).size) - 1)) \ holes[a] :
    ptr_of(fs, Current(a), n) # 0

\* What a file holds, unit by unit.
Contents(f, ino) ==
  [u \in 0..(ino.size - 1) |->
     LET p == ptr_of(f, ino, u \div BlockSize) IN IF p = 0 THEN -1 ELSE f.block[p][u % BlockSize]]

\* Behind the doubly indirect block.
Deep(u) == u \div BlockSize >= NDirect + Ppb

\* No operation on one file changes what another holds, and resizing a file keeps
\* what it held up to the smaller of its sizes; only a growth may lose what lies
\* behind the doubly indirect block, and nothing else of the file or the disk.
ContentsKept ==
  [][~stale' => \A a \in Live : LET after == IF handle'[a] # NoHandle THEN handle'[a] ELSE itab'.inode[a] IN
       Allocated(a)' /\ writes' = writes =>
         \A u \in DOMAIN Contents(fs, Current(a)) \cap DOMAIN Contents(fs', after) :
           \/ Contents(fs, Current(a))[u] = Contents(fs', after)[u]
           \/ Deep(u) /\ \E size \in Sizes[a] : size > Current(a).size /\ Resize(a, size)]_vars

\* Where a write at offset begins: in the block of the offset, but at the offset
\* modulo the size of an inode.
Place(offset) == offset - (offset % BlockSize) + (offset % InodeSize)

\* In every state of the pointers, a write over a file filled from end to end puts
\* its data in their order from Place(offset) on, as far as the blocks that its
\* length counts reach and exist, and leaves the rest of the file as it was; that
\* is where the data belong when the offset in the block is below the size of an
\* inode, at a block boundary for one.
WriteIsExact ==
  \A a \in {b \in Live : handle[b] # NoHandle} :
    LET ino == handle[a]
        filled == write_bytes(fs, ino, 0, ino.size)
        before == Contents(filled, ino)
        Exist(from, to) == \A n \in from..to : ptr_of(fs, ino, n) # 0
    IN \A offset \in 0..ino.size, len \in Sizes[a] :
         LET place == Place(offset)
             first == offset \div BlockSize
             Written(u) == /\ u \in place..(place + len - 1)
                           /\ u \div BlockSize < first + block_count(len)
                           /\ Exist(first, u \div BlockSize)
         IN offset + len <= ino.size =>
              /\ Contents(write_bytes(filled, ino, offset, len), ino) =
                   [u \in 0..(ino.size - 1) |-> IF Written(u) THEN u - place + 1 ELSE before[u]]
              /\ place = offset <=> offset % BlockSize < InodeSize

\* Every read within a file, of blocks that exist, gives a part of what the file
\* holds from the offset on, all of it if the request does not straddle more blocks
\* than it is long.
ReadsAreTrue ==
  \A a \in {b \in Live : handle[b] # NoHandle} :
    LET ino == handle[a] IN
    \A offset \in 0..ino.size, len \in Sizes[a] :
      LET first == offset \div BlockSize
          answer == read_bytes(fs, ino, offset, len)
      IN offset + len <= ino.size /\ 0 < len =>
           IF \E n \in first..(first + block_count(len) - 1) : ptr_of(fs, ino, n) = 0 THEN answer = {}
           ELSE \E r \in answer :
             /\ r = [u \in DOMAIN r |-> Contents(fs, ino)[offset + u - 1]]
             /\ (offset % BlockSize) + len <= block_count(len) * BlockSize => Len(r) = len

\* What a write leaves in a file and what a read takes from it, exactly (write_bytes
\* and read_bytes over every shape of pointer tree the run reaches).
TransfersExact == ~stale => ReadsAreTrue /\ WriteIsExact
=============================================================================
