----------------------------- MODULE OpenFiles -----------------------------
(***************************************************************************)
(* open, close, read, write and lseek on files (syscall.rs), over the open *)
(* nodes of processes (process.rs) and the handles of Ext2 (ext2.rs).  An  *)
(* open node has a cursor; the Ext2File it refers to has a copy of the     *)
(* inode, which every open makes anew and fork shares.                     *)
(*                                                                         *)
(* Files fit in one block: module Ext2 has the rest of them.  Descriptors, *)
(* dup and reference counts are in module Pipes: here a process has one    *)
(* open file at a time.                                                    *)
(***************************************************************************)
EXTENDS Integers, Sequences, FiniteSets, FiniteSetsExt

CONSTANTS
  Processes, Files,
  Blocks,       \* the blocks of the disk, numbers from 1
  BlockSize,    \* bytes in a block
  InodeSize,    \* get_ondisk_inode_size
  Values,       \* the bytes that are written; 0 is what a new block is full of
  Flags,        \* what open() is given: sets of "RD", "WR", "APPEND", "CREAT", "TRUNC"
  Counts,       \* the sizes of reads and writes
  Offsets,      \* what lseek is given
  Wide          \* 2^64: cursors wrap around

ASSUME OpenFilesAssumption ==
  /\ IsFiniteSet(Processes) /\ Blocks \subseteq Nat \ {0}
  /\ {BlockSize, InodeSize} \subseteq Nat \ {0} /\ Wide \in Nat /\ BlockSize < Wide
  /\ Values \subseteq Nat /\ Counts \subseteq Nat /\ Offsets \subseteq Int

VARIABLES
  disk,     \* the inodes on disk, NoInode for a file that does not exist
  used,     \* the block bitmap
  data,     \* what is in the blocks
  handle,   \* Ext2File: file, copy of its inode
  node,     \* ProcessNode: handle, cursor, flags
  got,      \* what the last step, if it was a read, has read
  parted,   \* history: a file was emptied or made longer while it had another handle
  panicked

vars == <<disk, used, data, handle, node, got, parted, panicked>>

NoInode == [size |-> -1, block |-> 0]
Empty == [size |-> 0, block |-> 0]
NoNode == [open |-> FALSE]
NoHandle == [open |-> FALSE]

\* At most one handle for each process.
Handles == 1..Cardinality(Processes)
\* Process p makes a call on its open file.
Calls(p) == ~panicked /\ node[p] # NoNode
\* File f has an open handle other than h.
Shared(f, h) == \E x \in Handles \ {h} : handle[x] # NoHandle /\ handle[x].file = f
Referenced(n) == {h \in Handles : \E p \in Processes : n[p] # NoNode /\ n[p].handle = h}

-----------------------------------------------------------------------------
(* Ext2File::resize, for files of one block at most: the copy of the inode,  *)
(* the bitmap and the new block; then write_inode.                         *)

\* Mutant of write_inode: only the inode of a new file is written.
write_inode_once(f, ino) == IF disk[f] = NoInode THEN [disk EXCEPT ![f] = ino] ELSE disk
write_inode(f, ino) == [disk EXCEPT ![f] = ino]

\* Mutant of dealloc_block: the bitmap is left alone.
dealloc_block_kept(b) == used
\* A block that is free already is left alone, and the result is ignored.
dealloc_block(b) == used \ {b}

resize(ino, size) ==
  IF size = ino.size \/ (size > ino.size /\ ino.block # 0)
  THEN [ok |-> TRUE, used |-> used, data |-> data, ino |-> [ino EXCEPT !.size = size]]
  ELSE IF size = 0
  THEN [ok |-> TRUE, used |-> dealloc_block(ino.block), data |-> data, ino |-> Empty]
  ELSE IF Blocks \subseteq used THEN [ok |-> FALSE, used |-> used, data |-> data, ino |-> ino]
  ELSE LET b == Min(Blocks \ used)
       IN [ok |-> TRUE, used |-> used \cup {b}, ino |-> [size |-> size, block |-> b],
           data |-> [data EXCEPT ![b] = [i \in 0..(BlockSize - 1) |-> 0]]]

-----------------------------------------------------------------------------
Init ==
  /\ disk = [f \in Files |-> NoInode]
  /\ used = {} /\ data = [b \in Blocks |-> [i \in 0..(BlockSize - 1) |-> 0]]
  /\ handle = [h \in Handles |-> NoHandle]
  /\ node = [p \in Processes |-> NoNode]
  /\ got = <<>> /\ parted = FALSE /\ panicked = FALSE

\* open: the node is looked up or created; a new handle reads the inode.
Open(p, f, flags) ==
  LET ino == IF disk[f] = NoInode THEN Empty ELSE disk[f]
      r == IF {"TRUNC", "WR"} \subseteq flags THEN resize(ino, 0)
           ELSE [ok |-> TRUE, used |-> used, data |-> data, ino |-> ino]
      h == Min({x \in Handles : handle[x] = NoHandle})
  IN /\ ~panicked /\ node[p] = NoNode
     /\ disk[f] # NoInode \/ "CREAT" \in flags
     /\ used' = r.used /\ data' = r.data
     /\ disk' = write_inode(f, r.ino)
     /\ handle' = [handle EXCEPT ![h] = [open |-> TRUE, file |-> f, ino |-> r.ino]]
     /\ node' = [node EXCEPT ![p] = [open |-> TRUE, handle |-> h, cursor |-> 0, flags |-> flags]]
     /\ parted' = (parted \/ (r.ino # ino /\ Shared(f, h)))
     /\ got' = <<>> /\ UNCHANGED panicked

\* close, and the drop of a process: the handle goes with the last node.
Close(p) ==
  /\ Calls(p)
  /\ node' = [node EXCEPT ![p] = NoNode]
  /\ handle' = [h \in Handles |-> IF h \in Referenced(node') THEN handle[h] ELSE NoHandle]
  /\ got' = <<>> /\ UNCHANGED <<disk, used, data, parted, panicked>>

\* fork clones the open nodes: cursors are copied, handles shared.
Fork(p, q) ==
  /\ Calls(p) /\ node[q] = NoNode
  /\ node' = [node EXCEPT ![q] = node[p]]
  /\ got' = <<>> /\ UNCHANGED <<disk, used, data, handle, parted, panicked>>

\* How many bytes the loop of read() gets, one at a time, before the end of the file.
bytes_read(n, count) ==
  LET size == handle[n.handle].ino.size
  IN IF n.cursor >= size THEN 0 ELSE Min({count, size - n.cursor})

Read(p, count) ==
  /\ Calls(p) /\ "RD" \in node[p].flags
  /\ LET index == bytes_read(node[p], count)
     IN /\ got' = [i \in 1..index |-> data[handle[node[p].handle].ino.block][node[p].cursor + i - 1]]
        /\ node' = [node EXCEPT ![p].cursor = @ + index]
  /\ UNCHANGED <<disk, used, data, handle, parted, panicked>>

\* Mutant of write_at: O_APPEND moves the cursor only if the file is at its beginning.
write_at_once(n) ==
  IF "APPEND" \in n.flags /\ n.cursor = 0 THEN handle[n.handle].ino.size ELSE n.cursor
\* Where a write begins.
write_at(n) == IF "APPEND" \in n.flags THEN handle[n.handle].ino.size ELSE n.cursor

\* Where write_bytes puts the first byte: in the first block (here the only one) it
\* goes by the size of an inode, not of a block.
offset_in_starting_block(at) == at % InodeSize

\* The file is made big enough, then written.  -1 leaves the cursor where O_APPEND
\* has put it.
Write(p, count, v) ==
  LET n == node[p]
      at == write_at(n)
      h == handle[n.handle]
      grows == at + count > h.ino.size
      r == IF grows THEN resize(h.ino, at + count)
           ELSE [ok |-> TRUE, used |-> used, data |-> data, ino |-> h.ino]
      start == offset_in_starting_block(at)
      written == IF r.ok /\ count > 0 THEN start..(start + count - 1) ELSE {}
  IN /\ Calls(p) /\ "WR" \in n.flags /\ at + count <= BlockSize
     /\ used' = r.used
     /\ handle' = [handle EXCEPT ![n.handle].ino = r.ino]
     /\ disk' = IF grows /\ r.ok THEN write_inode(h.file, r.ino) ELSE disk
     /\ data' = [b \in Blocks |-> IF b # r.ino.block THEN r.data[b]
                                  ELSE [i \in 0..(BlockSize - 1) |-> IF i \in written THEN v ELSE r.data[b][i]]]
     /\ node' = [node EXCEPT ![p].cursor = IF r.ok THEN at + count ELSE at]
     /\ parted' = (parted \/ (grows /\ r.ok /\ Shared(h.file, n.handle)))
     /\ got' = <<>> /\ UNCHANGED panicked

\* cursor + len overflows, which a debug build checks.
WritePanics(p, count) ==
  /\ Calls(p) /\ "WR" \in node[p].flags
  /\ write_at(node[p]) + count >= Wide
  /\ panicked' = TRUE
  /\ UNCHANGED <<disk, used, data, handle, node, got, parted>>

lseek(n, offset, whence) ==
  (offset + (CASE whence = "SET" -> 0 [] whence = "CUR" -> n.cursor [] whence = "END" -> handle[n.handle].ino.size)) % Wide

Seek(p, offset, whence) ==
  /\ Calls(p)
  /\ node' = [node EXCEPT ![p].cursor = lseek(node[p], offset, whence)]
  /\ got' = <<>> /\ UNCHANGED <<disk, used, data, handle, parted, panicked>>

Next ==
  \E p \in Processes :
    \/ \E f \in Files, flags \in Flags : Open(p, f, flags)
    \/ Close(p)
    \/ \E q \in Processes : Fork(p, q)
    \/ \E count \in Counts : Read(p, count) \/ WritePanics(p, count)
    \/ \E count \in Counts, v \in Values : Write(p, count, v)
    \/ \E offset \in Offsets, whence \in {"SET", "CUR", "END"} : Seek(p, offset, whence)

Spec == Init /\ [][Next]_vars

-----------------------------------------------------------------------------
(* Properties *)

\* Types, and every open node has a handle that is open.
TypeOK ==
  /\ \A f \in Files : disk[f].size \in -1..BlockSize /\ disk[f].block \in Blocks \cup {0}
  /\ used \subseteq Blocks
  /\ \A p \in Processes : node[p] # NoNode =>
       handle[node[p].handle] # NoHandle /\ node[p].cursor \in 0..(Wide - 1)

\* The copy of the inode a handle works with is the inode on disk, whichever of the
\* processes that share the handle made the file grow, and with the file opened any
\* number of times: copies part only when a file that has a second handle is
\* truncated or made longer through one of them.
HandlesFresh ==
  ~parted => \A h \in Handles : handle[h] # NoHandle => handle[h].ino = disk[handle[h].file]

\* A block is in use if and only if it is the block of one file, which then is not
\* empty: truncating gives it back, a failed write takes none.  (Copies that have
\* parted may write to a block that was given back, and give it back again.)
BlocksOwned ==
  ~parted =>
    /\ TypeOK
    /\ used = {disk[f].block : f \in Files} \ {0}
    /\ \A f, g \in Files : disk[f].block = disk[g].block => f = g \/ disk[f].block = 0
    /\ \A f \in Files : disk[f].block = 0 <=> disk[f].size <= 0

\* What programs see: the bytes of a file are those of its block up to the size.
Bytes(d, D, f) == [i \in 1..d[f].size |-> D[d[f].block][i - 1]]
View == [f \in Files |-> [exists |-> disk[f] # NoInode, bytes |-> Bytes(disk, data, f)]]
Descs == [p \in Processes |-> IF node[p] = NoNode THEN [open |-> FALSE]
                              ELSE [open |-> TRUE, file |-> handle[node[p].handle].file,
                                    pos |-> node[p].cursor, flags |-> node[p].flags]]
F == INSTANCE FileSpec WITH contents <- View, desc <- Descs
\* Programs see files as FileSpec has them, as long as copies have not parted: copies
\* of inodes, cursors, blocks and growth before a write do not show, and neither does
\* a second open of a file.
ImplementsFileSpec == F!Init /\ [][parted' \/ F!Next]_<<View, Descs, got>>
=============================================================================
