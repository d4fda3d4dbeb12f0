-------------------------- MODULE OpenFilesProofs --------------------------
(***************************************************************************)
(* Proofs about OpenFiles, for any number of processes, files and blocks   *)
(* and any number of opens of a file, until copies of an inode have        *)
(* parted: handles stay fresh, a block belongs to one file, and what       *)
(* programs see is FileSpec.                                               *)
(*                                                                         *)
(* Files in the middle of a call (resize, then the loop of write) are not  *)
(* the variables, so what holds of them is stated of any inodes d, bitmap  *)
(* u and blocks D.                                                         *)
(***************************************************************************)
EXTENDS OpenFiles, SlotsProofs, TLAPS, FiniteSetTheorems

(***************************************************************************)
(* The inductive invariant                                                 *)
(***************************************************************************)

Inode == [size : -1..BlockSize, block : Blocks \cup {0}]
Block == [0..(BlockSize - 1) -> Nat]
HandleType == [open : {TRUE}, file : Files, ino : Inode]
NodeType == [open : {TRUE}, handle : Handles, cursor : 0..(Wide - 1), flags : Flags]

\* A block is in use if and only if it is the block of one file, which is not empty.
Owned(d, u) ==
    /\ u = {d[f].block : f \in Files} \ {0}
    /\ \A f, g \in Files : d[f].block = d[g].block => f = g \/ d[f].block = 0
    /\ \A f \in Files : d[f].block = 0 <=> d[f].size <= 0

\* What lies beyond the end of a file is zero, so that a file which grows within its
\* block is filled up with zeroes.
Zeroed(d, D) ==
    \A f \in Files : d[f].block # 0 =>
        \A i \in 0..(BlockSize - 1) : i >= d[f].size => D[d[f].block][i] = 0

FilesInv(d, u, D) ==
    /\ d \in [Files -> Inode] /\ u \subseteq Blocks /\ D \in [Blocks -> Block]
    /\ Owned(d, u) /\ Zeroed(d, D)

\* The handles that are open are those of open nodes.
HandlesInv ==
    /\ handle \in [Handles -> HandleType \cup {NoHandle}]
    /\ node \in [Processes -> NodeType \cup {NoNode}]
    /\ Referenced(node) = {h \in Handles : handle[h] # NoHandle}
    /\ \A h \in Handles : handle[h] # NoHandle => handle[h].ino.size >= 0

\* Copies of inodes are as on disk.
Fresh == \A h \in Handles : handle[h] # NoHandle => handle[h].ino = disk[handle[h].file]

OpenInv == FilesInv(disk, used, data) /\ HandlesInv /\ Fresh

(***************************************************************************)
(* Files                                                                   *)
(***************************************************************************)

\* The inode of a file that is opened or written to.
Current(f, ino) == ino = IF disk[f] = NoInode THEN Empty ELSE disk[f]

\* resize has made r of inode ino of f: the file has the new size, its old bytes as far
\* as they go and zeroes after them, and no other file has changed.
Resized(f, ino, size, r) ==
    /\ r.ok /\ r.ino \in Inode /\ r.ino.size = size
    /\ FilesInv([disk EXCEPT ![f] = r.ino], r.used, r.data)
    /\ \A i \in 0..(size - 1) :
         r.data[r.ino.block][i] = IF i < ino.size THEN data[ino.block][i] ELSE 0
    /\ \A g \in Files : g # f /\ disk[g].block # 0 => r.data[disk[g].block] = data[disk[g].block]

\* What the invariant says of the inode of a file that is opened or written to.
LEMMA CurrentInode ==
    ASSUME FilesInv(disk, used, data), NEW f \in Files, NEW ino, Current(f, ino)
    PROVE  /\ ino \in Inode /\ ino.size \in 0..BlockSize /\ ino.block \in Blocks \cup {0}
           /\ ino.block = 0 <=> ino.size = 0
           /\ ino.block = disk[f].block
           /\ disk[f].size > 0 => ino = disk[f]
           /\ disk[f] # NoInode => ino = disk[f]
<1>1. disk[f] \in Inode /\ (disk[f].block = 0 <=> disk[f].size <= 0)  BY DEF FilesInv, Owned
<1>2. CASE disk[f] = NoInode
  <2>1. ino = Empty  BY <1>2 DEF Current
  <2> QED  BY <1>1, <1>2, <2>1, OpenFilesAssumption DEF Empty, NoInode, Inode
<1>3. CASE disk[f] # NoInode
  <2>1. ino = disk[f]  BY <1>3 DEF Current
  <2>2. ino.size # -1
    <3>1. ASSUME ino.size = -1  PROVE FALSE
      <4>1. ino.block = 0  BY <1>1, <2>1, <3>1
      <4>2. ino = NoInode  BY <1>1, <2>1, <3>1, <4>1 DEF Inode, NoInode
      <4> QED  BY <1>3, <2>1, <4>2
    <3> QED  BY <3>1
  <2>3. ino.size \in -1..BlockSize /\ ino.block \in Blocks \cup {0}  BY <1>1, <2>1 DEF Inode
  <2> QED  BY <1>1, <2>1, <2>2, <2>3, OpenFilesAssumption
<1> QED  BY <1>2, <1>3

\* One inode changes: to one without a block, or with the block it had, or with a
\* block nobody had.
LEMMA InodeChange ==
    ASSUME FilesInv(disk, used, data), NEW f \in Files, NEW new \in Inode,
           new.block = 0 <=> new.size <= 0,
           new.block = 0 \/ new.block = disk[f].block \/ new.block \notin used,
           NEW u, u = (used \ {disk[f].block}) \cup ({new.block} \ {0}),
           NEW D \in [Blocks -> Block],
           \A g \in Files : g # f /\ disk[g].block # 0 => D[disk[g].block] = data[disk[g].block],
           new.block # 0 => \A i \in 0..(BlockSize - 1) : i >= new.size => D[new.block][i] = 0
    PROVE  FilesInv([disk EXCEPT ![f] = new], u, D)
<1> DEFINE d == [disk EXCEPT ![f] = new]
<1>1. /\ disk \in [Files -> Inode] /\ used \subseteq Blocks
      /\ used = {disk[g].block : g \in Files} \ {0}
      /\ \A g, h \in Files : disk[g].block = disk[h].block => g = h \/ disk[g].block = 0
      /\ \A g \in Files : disk[g].block = 0 <=> disk[g].size <= 0
      /\ Zeroed(disk, data)
  BY DEF FilesInv, Owned
<1>2. d \in [Files -> Inode] /\ d[f] = new /\ \A g \in Files : g # f => d[g] = disk[g]
  BY <1>1
<1> HIDE DEF d
<1>3. new.block \in Blocks \cup {0}  BY DEF Inode
<1>4. \A g \in Files : g # f /\ new.block = disk[g].block => new.block = 0  BY <1>1
<1>5. \A g, h \in Files : d[g].block = d[h].block => g = h \/ d[g].block = 0
  <2> SUFFICES ASSUME NEW g \in Files, NEW h \in Files, d[g].block = d[h].block, g # h
               PROVE  d[g].block = 0
    OBVIOUS
  <2>1. CASE g = f  BY <1>2, <1>4, <2>1
  <2>2. CASE h = f  BY <1>2, <1>4, <2>2
  <2>3. CASE g # f /\ h # f  BY <1>1, <1>2, <2>3
  <2> QED  BY <2>1, <2>2, <2>3
<1>6. u = {d[g].block : g \in Files} \ {0}
  <2>1. ASSUME NEW b \in u  PROVE b \in {d[g].block : g \in Files} \ {0}
    <3>1. CASE b \in {new.block} \ {0}  BY <1>2, <3>1
    <3>2. CASE b \in used \ {disk[f].block}
      <4>1. PICK g \in Files : b = disk[g].block /\ b # 0  BY <1>1, <3>2
      <4>2. d[g].block = b  BY <1>2, <3>2, <4>1
      <4> QED  BY <4>1, <4>2
    <3> QED  BY <3>1, <3>2
  <2>2. ASSUME NEW g \in Files, d[g].block # 0  PROVE d[g].block \in u
    <3>1. CASE g = f  BY <1>2, <2>2, <3>1
    <3>2. CASE g # f
      <4>1. d[g].block = disk[g].block  BY <1>2, <3>2
      <4>2. disk[g].block \in used /\ disk[g].block # disk[f].block  BY <1>1, <2>2, <3>2, <4>1
      <4> QED  BY <4>1, <4>2
    <3> QED  BY <3>1, <3>2
  <2> QED  BY <2>1, <2>2
<1>7. \A g \in Files : d[g].block = 0 <=> d[g].size <= 0  BY <1>1, <1>2
<1>8. u \subseteq Blocks  BY <1>1, <1>3
<1>9. Zeroed(d, D)
  <2> SUFFICES ASSUME NEW g \in Files, d[g].block # 0, NEW i \in 0..(BlockSize - 1), i >= d[g].size
               PROVE  D[d[g].block][i] = 0
    BY DEF Zeroed
  <2>1. CASE g = f  BY <1>2, <2>1
  <2>2. CASE g # f
    <3>1. d[g] = disk[g] /\ D[disk[g].block] = data[disk[g].block]  BY <1>2, <2>2
    <3>2. data[disk[g].block][i] = 0  BY <1>1, <3>1 DEF Zeroed
    <3> QED  BY <3>1, <3>2
  <2> QED  BY <2>1, <2>2
<1> QED  BY <1>2, <1>5, <1>6, <1>7, <1>8, <1>9 DEF FilesInv, Owned, d

\* open without truncating: a new file is empty, an old one is as it was.
LEMMA KeptFile ==
    ASSUME FilesInv(disk, used, data), NEW f \in Files, NEW ino, Current(f, ino),
           NEW r, r = [ok |-> TRUE, used |-> used, data |-> data, ino |-> ino]
    PROVE  Resized(f, ino, ino.size, r)
<1>1. /\ ino \in Inode /\ ino.size \in 0..BlockSize /\ (ino.block = 0 <=> ino.size = 0)
      /\ ino.block = disk[f].block /\ (disk[f].size > 0 => ino = disk[f])
  BY CurrentInode
<1>2. /\ data \in [Blocks -> Block] /\ Owned(disk, used) /\ Zeroed(disk, data)
      /\ disk[f] \in Inode
  BY DEF FilesInv
<1>3. used = (used \ {disk[f].block}) \cup ({ino.block} \ {0})
  <2>1. 0 \notin used /\ (disk[f].block # 0 => disk[f].block \in used)  BY <1>2 DEF Owned
  <2> QED  BY <1>1, <2>1
<1>4. ino.block = 0 <=> ino.size <= 0  BY <1>1
<1>5. ino.block # 0 => \A i \in 0..(BlockSize - 1) : i >= ino.size => data[ino.block][i] = 0
  <2>1. ino.block # 0 => ino = disk[f]
    <3>1. disk[f].block # 0 => ~(disk[f].size <= 0)  BY <1>2 DEF Owned
    <3>2. disk[f].size \in Int  BY <1>2, OpenFilesAssumption DEF Inode
    <3> QED  BY <1>1, <3>1, <3>2
  <2> QED  BY <1>2, <2>1 DEF Zeroed
<1>6. FilesInv([disk EXCEPT ![f] = ino], used, data)
  BY <1>1, <1>2, <1>3, <1>4, <1>5, InodeChange
<1>7. r.ok /\ r.used = used /\ r.data = data /\ r.ino = ino  OBVIOUS
<1>8. \A i \in 0..(ino.size - 1) : i < ino.size  BY <1>1
<1> QED  BY <1>1, <1>6, <1>7, <1>8 DEF Resized

\* open with truncating gives the block back.
LEMMA TruncatedFile ==
    ASSUME FilesInv(disk, used, data), NEW f \in Files, NEW ino, Current(f, ino),
           NEW r, r = resize(ino, 0)
    PROVE  Resized(f, ino, 0, r)
<1>1. /\ ino \in Inode /\ ino.size \in 0..BlockSize /\ (ino.block = 0 <=> ino.size = 0)
      /\ ino.block = disk[f].block
  BY CurrentInode
<1>2. /\ data \in [Blocks -> Block] /\ Owned(disk, used)
  BY DEF FilesInv
<1>3. CASE ino.size = 0
  <2>1. r = [ok |-> TRUE, used |-> used, data |-> data, ino |-> [ino EXCEPT !.size = 0]]
    BY <1>3 DEF resize
  <2>2. [ino EXCEPT !.size = 0] = ino  BY <1>1, <1>3 DEF Inode
  <2>3. r = [ok |-> TRUE, used |-> used, data |-> data, ino |-> ino]  BY <2>1, <2>2
  <2>4. Resized(f, ino, ino.size, r)  BY <2>3, KeptFile
  <2> QED  BY <1>3, <2>4
<1>4. CASE ino.size # 0
  <2>1. ino.size > 0 /\ ino.block # 0  BY <1>1, <1>4
  <2>2. r = [ok |-> TRUE, used |-> used \ {ino.block}, data |-> data, ino |-> Empty]
    <3>1. ino.size \in Nat  BY <1>1, OpenFilesAssumption
    <3>2. ~(0 = ino.size \/ (0 > ino.size /\ ino.block # 0))  BY <2>1, <3>1
    <3> QED  BY <3>2, Zenon DEF resize, dealloc_block
  <2>4. Empty \in Inode /\ Empty.block = 0 /\ Empty.size = 0  BY OpenFilesAssumption DEF Empty, Inode
  <2>5. used \ {ino.block} = (used \ {disk[f].block}) \cup ({Empty.block} \ {0})  BY <1>1, <2>4
  <2> DEFINE e == Empty
             u == used \ {ino.block}
  <2> HIDE DEF e, u
  <2>6. FilesInv([disk EXCEPT ![f] = e], u, data)
    <3>1. e \in Inode /\ e.block = 0 /\ e.size = 0 /\ u = (used \ {disk[f].block}) \cup ({e.block} \ {0})
      BY <2>4, <2>5 DEF e, u
    <3>2. e.block = 0 <=> e.size <= 0  BY <3>1
    <3> QED  BY <1>2, <3>1, <3>2, InodeChange
  <2>7. r.ok /\ r.used = u /\ r.data = data /\ r.ino = e
    <3>1. r = [ok |-> TRUE, used |-> u, data |-> data, ino |-> e]  BY <2>2, Zenon DEF e, u
    <3> QED  BY <3>1
  <2>8. \A i \in 0..(0 - 1) : FALSE  OBVIOUS
  <2> QED  BY <2>4, <2>6, <2>7, <2>8 DEF Resized, e
<1> QED  BY <1>3, <1>4

\* write makes the file bigger: in its block, or with its first block.
LEMMA GrownFile ==
    ASSUME FilesInv(disk, used, data), NEW f \in Files, NEW ino, Current(f, ino),
           NEW size \in 1..BlockSize, size > ino.size, NEW r, r = resize(ino, size), r.ok
    PROVE  Resized(f, ino, size, r)
<1>1. /\ ino \in Inode /\ ino.size \in 0..BlockSize /\ (ino.block = 0 <=> ino.size = 0)
      /\ ino.block \in Blocks \cup {0} /\ ino.block = disk[f].block
      /\ (disk[f].size > 0 => ino = disk[f])
  BY CurrentInode
<1>2. /\ data \in [Blocks -> Block] /\ Owned(disk, used) /\ Zeroed(disk, data)
      /\ disk[f] \in Inode /\ used \subseteq Blocks
  BY DEF FilesInv
<1>3. size \in Nat /\ BlockSize \in Nat /\ 0 \notin Blocks /\ size # 0 /\ ino.size \in Nat
  BY <1>1, OpenFilesAssumption
<1>4. CASE ino.block # 0
  <2> DEFINE new == [ino EXCEPT !.size = size]
  <2>1. r = [ok |-> TRUE, used |-> used, data |-> data, ino |-> new]  BY <1>4 DEF resize
  <2>2. new \in Inode /\ new.size = size /\ new.block = ino.block  BY <1>1, <1>3 DEF Inode
  <2> HIDE DEF new
  <2>3. new.block = 0 <=> new.size <= 0  BY <1>3, <1>4, <2>2
  <2>4. used = (used \ {disk[f].block}) \cup ({new.block} \ {0})
    BY <1>1, <1>2, <1>4, <2>2 DEF Owned
  <2>5. disk[f] = ino
    <3>1. disk[f].block # 0 => ~(disk[f].size <= 0)  BY <1>2 DEF Owned
    <3>2. disk[f].size \in Int  BY <1>2, <1>3 DEF Inode
    <3> QED  BY <1>1, <1>4, <3>1, <3>2
  <2>6. \A i \in 0..(BlockSize - 1) : i >= ino.size => data[ino.block][i] = 0
    BY <1>2, <1>4, <2>5 DEF Zeroed
  <2>7. \A i \in 0..(BlockSize - 1) : i >= new.size => data[new.block][i] = 0
    BY <1>3, <2>2, <2>6
  <2>8. FilesInv([disk EXCEPT ![f] = new], used, data)
    BY <1>1, <1>2, <2>2, <2>3, <2>4, <2>7, InodeChange
  <2>9. \A i \in 0..(size - 1) : data[new.block][i] = IF i < ino.size THEN data[ino.block][i] ELSE 0
    BY <1>3, <2>2, <2>6
  <2> QED  BY <2>1, <2>2, <2>8, <2>9 DEF Resized
<1>5. CASE ino.block = 0
  <2> DEFINE free == Blocks \ used
             b == Min(free)
             new == [size |-> size, block |-> b]
             zeroes == [i \in 0..(BlockSize - 1) |-> 0]
             D == [data EXCEPT ![b] = zeroes]
  <2>1. ino.size = 0 /\ ~(size = ino.size \/ (size > ino.size /\ ino.block # 0))
    BY <1>1, <1>3, <1>5
  <2>2. ~(Blocks \subseteq used)  BY <1>3, <2>1 DEF resize
  <2>3. r = [ok |-> TRUE, used |-> used \cup {b}, ino |-> new, data |-> D]
    BY <1>3, <2>1, <2>2 DEF resize
  <2>4. b \in Blocks /\ b \notin used /\ b # 0
    <3>1. free \in SUBSET Nat /\ free # {}  BY <2>2, OpenFilesAssumption
    <3> HIDE DEF free
    <3>2. b \in free  BY <3>1, MinOfIndices
    <3> QED  BY <1>3, <3>2 DEF free
  <2> HIDE DEF b
  <2>5. new \in Inode /\ new.size = size /\ new.block = b  BY <1>3, <2>4 DEF Inode
  <2>6. zeroes \in Block  BY DEF Block
  <2>7. D \in [Blocks -> Block] /\ D[b] = zeroes /\ \A c \in Blocks : c # b => D[c] = data[c]
    BY <1>2, <2>4, <2>6
  <2> HIDE DEF D, new
  <2>8. new.block = 0 <=> new.size <= 0  BY <1>3, <2>4, <2>5
  <2>9. used \cup {b} = (used \ {disk[f].block}) \cup ({new.block} \ {0})
    BY <1>1, <1>2, <1>3, <1>5, <2>4, <2>5
  <2>10. \A g \in Files : g # f /\ disk[g].block # 0 => D[disk[g].block] = data[disk[g].block]
    <3> SUFFICES ASSUME NEW g \in Files, disk[g].block # 0
                 PROVE  D[disk[g].block] = data[disk[g].block]
      OBVIOUS
    <3>1. disk[g].block \in used  BY <1>2 DEF Owned
    <3> QED  BY <1>2, <2>4, <2>7, <3>1
  <2>11. \A i \in 0..(BlockSize - 1) : D[b][i] = 0  BY <2>7
  <2> DEFINE u == used \cup {b}
  <2> HIDE DEF u, zeroes
  <2>12. FilesInv([disk EXCEPT ![f] = new], u, D)
    <3>1. u = (used \ {disk[f].block}) \cup ({new.block} \ {0})  BY <2>9 DEF u
    <3>2. new.block # 0 => \A i \in 0..(BlockSize - 1) : i >= new.size => D[new.block][i] = 0
      BY <2>5, <2>11
    <3>3. new.block \notin used  BY <2>4, <2>5
    <3> QED  BY <2>5, <2>7, <2>8, <2>10, <3>1, <3>2, <3>3, InodeChange
  <2>13. \A i \in 0..(size - 1) : D[b][i] = IF i < ino.size THEN data[ino.block][i] ELSE 0
    <3>1. \A i \in 0..(size - 1) : i \in 0..(BlockSize - 1) /\ ~(i < ino.size)  BY <1>3, <2>1
    <3> QED  BY <2>11, <3>1
  <2> QED  BY <2>3, <2>5, <2>10, <2>12, <2>13 DEF Resized, u
<1> QED  BY <1>4, <1>5

\* The loop of write: the bytes of a file within its size.
Written(D, b, range, v) ==
    [c \in Blocks |-> IF c # b THEN D[c]
                      ELSE [i \in 0..(BlockSize - 1) |-> IF i \in range THEN v ELSE D[c][i]]]

LEMMA WrittenFile ==
    ASSUME NEW d, NEW u, NEW D, FilesInv(d, u, D), NEW f \in Files, NEW v \in Nat,
           NEW range, \A i \in range : i \in 0..(d[f].size - 1)
    PROVE  /\ FilesInv(d, u, Written(D, d[f].block, range, v))
           /\ \A g \in Files : g # f /\ d[g].block # 0 =>
                Written(D, d[f].block, range, v)[d[g].block] = D[d[g].block]
           /\ \A i \in 0..(d[f].size - 1) :
                Written(D, d[f].block, range, v)[d[f].block][i] =
                    IF i \in range THEN v ELSE D[d[f].block][i]
<1> DEFINE b == d[f].block
           E == Written(D, b, range, v)
<1>1. /\ d \in [Files -> Inode] /\ u \subseteq Blocks /\ D \in [Blocks -> Block]
      /\ Owned(d, u) /\ Zeroed(d, D)
  BY DEF FilesInv
<1>2. d[f] \in Inode /\ BlockSize \in Nat /\ 0 \notin Blocks  BY <1>1, OpenFilesAssumption
<1>3. b \in Blocks \cup {0} /\ d[f].size \in -1..BlockSize  BY <1>2 DEF Inode
<1>4. \A c \in Blocks : c # b => E[c] = D[c]  BY DEF Written
<1>5. b \in Blocks => \A i \in 0..(BlockSize - 1) : E[b][i] = IF i \in range THEN v ELSE D[b][i]
  BY DEF Written
<1>6. E \in [Blocks -> Block]
  <2>1. \A c \in Blocks : [i \in 0..(BlockSize - 1) |-> IF i \in range THEN v ELSE D[c][i]] \in Block
    BY <1>1 DEF Block
  <2> QED  BY <1>1, <2>1 DEF Written
<1> HIDE DEF E
<1>7. \A g \in Files : d[g].block # 0 => d[g].block \in Blocks  BY <1>1 DEF Owned
<1>8. \A g \in Files : g # f /\ d[g].block # 0 => d[g].block # b  BY <1>1 DEF Owned
<1>9. \A g \in Files : g # f /\ d[g].block # 0 => E[d[g].block] = D[d[g].block]
  BY <1>4, <1>7, <1>8
<1>10. d[f].size > 0 => b \in Blocks  BY <1>1, <1>3, <1>7 DEF Owned
<1>11. \A i \in 0..(d[f].size - 1) : E[b][i] = IF i \in range THEN v ELSE D[b][i]
  <2> SUFFICES ASSUME NEW i \in 0..(d[f].size - 1)
               PROVE  E[b][i] = IF i \in range THEN v ELSE D[b][i]
    OBVIOUS
  <2>1. d[f].size > 0 /\ i \in 0..(BlockSize - 1)  BY <1>2, <1>3
  <2> QED  BY <1>5, <1>10, <2>1
<1>12. Zeroed(d, E)
  <2> SUFFICES ASSUME NEW g \in Files, d[g].block # 0, NEW i \in 0..(BlockSize - 1), i >= d[g].size
               PROVE  E[d[g].block][i] = 0
    BY DEF Zeroed
  <2>1. D[d[g].block][i] = 0  BY <1>1 DEF Zeroed
  <2>2. CASE g # f  BY <1>9, <2>1, <2>2
  <2>3. CASE g = f
    <3>1. i \notin range  BY <1>2, <1>3, <2>3
    <3> QED  BY <1>5, <1>7, <2>1, <2>3, <3>1
  <2> QED  BY <2>2, <2>3
<1> QED  BY <1>1, <1>6, <1>9, <1>11, <1>12 DEF FilesInv, E

(***************************************************************************)
(* Handles                                                                 *)
(***************************************************************************)

\* A process that has no file open finds a handle that is free.
LEMMA FreeHandle ==
    ASSUME HandlesInv, NEW p \in Processes, node[p] = NoNode,
           NEW h, h = Min({x \in Handles : handle[x] = NoHandle})
    PROVE  h \in Handles /\ handle[h] = NoHandle
<1> DEFINE free == {x \in Handles : handle[x] = NoHandle}
           Q == {q \in Processes : node[q] # NoNode}
           R == Referenced(node)
           g == [q \in Q |-> node[q].handle]
<1>1. /\ node \in [Processes -> NodeType \cup {NoNode}]
      /\ R = {x \in Handles : handle[x] # NoHandle}
  BY DEF HandlesInv
<1>2. free # {}
  <2> SUFFICES ASSUME free = {}  PROVE FALSE  OBVIOUS
  <2> DEFINE n == Cardinality(Processes)
  <2>1. n \in Nat  BY OpenFilesAssumption, FS_CardinalityType
  <2>2. R = 1..n  BY <1>1 DEF Handles
  <2>3. \A q \in Q : node[q].handle \in R
    <3> SUFFICES ASSUME NEW q \in Q  PROVE node[q].handle \in R  OBVIOUS
    <3>1. node[q] \in NodeType  BY <1>1
    <3>2. node[q].handle \in Handles  BY <3>1 DEF NodeType
    <3> QED  BY <3>2 DEF Referenced
  <2>4. \A k \in R : \E q \in Q : node[q].handle = k  BY DEF Referenced
  <2>5. g \in [Q -> R] /\ \A k \in R : \E q \in Q : g[q] = k  BY <2>3, <2>4
  <2>6. Q \in SUBSET (Processes \ {p})  OBVIOUS
  <2> HIDE DEF Q, R, g
  <2>7. g \in Surjection(Q, R)  BY <2>5 DEF Surjection
  <2>8. IsFiniteSet(Processes \ {p}) /\ Cardinality(Processes \ {p}) = n - 1
    BY OpenFilesAssumption, FS_RemoveElement
  <2> HIDE DEF n
  <2>9. IsFiniteSet(Q) /\ Cardinality(Q) <= n - 1  BY <2>6, <2>8, FS_Subset
  <2>10. Cardinality(R) <= Cardinality(Q) /\ IsFiniteSet(R)  BY <2>7, <2>9, FS_Surjection
  <2>11. Cardinality(R) = n
    <3>1. Cardinality(1..n) = IF 1 > n THEN 0 ELSE n - 1 + 1  BY <2>1, FS_Interval
    <3> QED  BY <2>1, <2>2, <3>1
  <2>12. Cardinality(Q) \in Nat  BY <2>9, FS_CardinalityType
  <2> QED  BY <2>1, <2>9, <2>10, <2>11, <2>12
<1>3. free \in SUBSET Nat
  <2>1. Cardinality(Processes) \in Nat  BY OpenFilesAssumption, FS_CardinalityType
  <2> QED  BY <2>1 DEF Handles
<1> HIDE DEF free
<1>4. Min(free) \in free  BY <1>2, <1>3, MinOfIndices
<1> QED  BY <1>4 DEF free

\* What the invariant says of the open file of a process.
LEMMA OpenFile ==
    ASSUME OpenInv, NEW p \in Processes, node[p] # NoNode
    PROVE  /\ node[p] \in NodeType /\ node[p].handle \in Handles
           /\ node[p].cursor \in 0..(Wide - 1) /\ node[p].flags \in Flags
           /\ handle[node[p].handle] # NoHandle /\ handle[node[p].handle] \in HandleType
           /\ handle[node[p].handle].file \in Files
           /\ handle[node[p].handle].ino = disk[handle[node[p].handle].file]
           /\ handle[node[p].handle].ino.size \in 0..BlockSize
           /\ disk[handle[node[p].handle].file] # NoInode
<1>1. HandlesInv /\ Fresh /\ FilesInv(disk, used, data)  BY DEF OpenInv
<1>2. node[p] \in NodeType  BY <1>1 DEF HandlesInv
<1>3. node[p].handle \in Handles /\ node[p].cursor \in 0..(Wide - 1) /\ node[p].flags \in Flags
  BY <1>2 DEF NodeType
<1> DEFINE h == node[p].handle
<1>4. h \in Referenced(node)  BY <1>3 DEF Referenced
<1> HIDE DEF h
<1>5. handle[h] # NoHandle /\ handle[h] \in HandleType /\ handle[h].ino.size >= 0
  BY <1>1, <1>4 DEF HandlesInv
<1>6. handle[h].file \in Files /\ handle[h].ino \in Inode  BY <1>5 DEF HandleType
<1>7. handle[h].ino.size \in 0..BlockSize  BY <1>5, <1>6, OpenFilesAssumption DEF Inode
<1>8. handle[h].ino = disk[handle[h].file]  BY <1>1, <1>3, <1>5 DEF Fresh, h
<1>9. disk[handle[h].file] # NoInode  BY <1>7, <1>8, OpenFilesAssumption DEF NoInode
<1> QED  BY <1>2, <1>3, <1>5, <1>6, <1>7, <1>8, <1>9 DEF h

LEMMA InitOpen == Init => OpenInv
<1> SUFFICES ASSUME Init  PROVE OpenInv  OBVIOUS
<1>1. /\ disk = [f \in Files |-> NoInode] /\ used = {}
      /\ data = [b \in Blocks |-> [i \in 0..(BlockSize - 1) |-> 0]]
      /\ handle = [h \in Handles |-> NoHandle] /\ node = [p \in Processes |-> NoNode]
  BY DEF Init
<1>2. NoInode \in Inode /\ NoInode.block = 0 /\ NoInode.size = -1
  BY OpenFilesAssumption DEF NoInode, Inode
<1>3. disk \in [Files -> Inode] /\ data \in [Blocks -> Block]  BY <1>1, <1>2 DEF Block
<1>4. \A f \in Files : disk[f].block = 0 /\ disk[f].size = -1  BY <1>1, <1>2
<1>5. Owned(disk, used)  BY <1>1, <1>4 DEF Owned
<1>6. Zeroed(disk, data)  BY <1>4 DEF Zeroed
<1>7. FilesInv(disk, used, data)  BY <1>1, <1>3, <1>5, <1>6 DEF FilesInv
<1>8. /\ handle \in [Handles -> HandleType \cup {NoHandle}]
      /\ node \in [Processes -> NodeType \cup {NoNode}]
      /\ \A h \in Handles : handle[h] = NoHandle
      /\ \A p \in Processes : node[p] = NoNode
  BY <1>1
<1>9. Referenced(node) = {h \in Handles : handle[h] # NoHandle}  BY <1>8 DEF Referenced
<1>10. HandlesInv /\ Fresh  BY <1>8, <1>9 DEF HandlesInv, Fresh
<1> QED  BY <1>7, <1>10 DEF OpenInv

\* A cursor moves: nothing else of the open nodes changes.
Moved(p, c) ==
    /\ node'[p] = [node[p] EXCEPT !.cursor = c]
    /\ \A q \in Processes : q # p => node'[q] = node[q]

LEMMA CursorMoves ==
    ASSUME HandlesInv, NEW p \in Processes, node[p] # NoNode, NEW c \in 0..(Wide - 1),
           node' = [node EXCEPT ![p].cursor = c]
    PROVE  /\ node' \in [Processes -> NodeType \cup {NoNode}]
           /\ Referenced(node') = Referenced(node)
           /\ Moved(p, c)
           /\ \A q \in Processes : /\ node'[q] = NoNode <=> node[q] = NoNode
                                   /\ node[q] # NoNode => /\ node'[q].handle = node[q].handle
                                                          /\ node'[q].flags = node[q].flags
           /\ node'[p].cursor = c
<1>1. node \in [Processes -> NodeType \cup {NoNode}]  BY DEF HandlesInv
<1>2. node[p] \in NodeType  BY <1>1
<1> DEFINE m == [node[p] EXCEPT !.cursor = c]
<1>3. /\ m \in NodeType /\ m.handle = node[p].handle /\ m.flags = node[p].flags
      /\ m.cursor = c /\ m.open = TRUE
  BY <1>2 DEF NodeType
<1>4. node' = [node EXCEPT ![p] = m]  BY <1>1
<1> HIDE DEF m
<1>5. m # NoNode
  <2>1. NoNode.open = FALSE  BY DEF NoNode
  <2> QED  BY <1>3, <2>1
<1>6. /\ node' \in [Processes -> NodeType \cup {NoNode}] /\ node'[p] = m
      /\ \A q \in Processes : q # p => node'[q] = node[q]
  BY <1>1, <1>3, <1>4
<1>7. \A q \in Processes : /\ node'[q] = NoNode <=> node[q] = NoNode
                           /\ node[q] # NoNode => /\ node'[q].handle = node[q].handle
                                                  /\ node'[q].flags = node[q].flags
  BY <1>3, <1>5, <1>6
<1>8. Referenced(node') = Referenced(node)
  <2> DEFINE n1 == node'
  <2>1. \A q \in Processes : /\ n1[q] = NoNode <=> node[q] = NoNode
                             /\ node[q] # NoNode => n1[q].handle = node[q].handle
    BY <1>7
  <2> HIDE DEF n1
  <2>2. Referenced(n1) = Referenced(node)  BY <2>1 DEF Referenced
  <2> QED  BY <2>2 DEF n1
<1> QED  BY <1>3, <1>6, <1>7, <1>8 DEF Moved, m

\* A step that only moves a cursor.
LEMMA CursorKeeps ==
    ASSUME OpenInv, NEW p \in Processes, node[p] # NoNode, NEW c \in 0..(Wide - 1),
           node' = [node EXCEPT ![p].cursor = c], UNCHANGED <<disk, used, data, handle>>
    PROVE  OpenInv'
<1>1. FilesInv(disk, used, data) /\ HandlesInv /\ Fresh  BY DEF OpenInv
<1>2. node' \in [Processes -> NodeType \cup {NoNode}] /\ Referenced(node') = Referenced(node)
  BY <1>1, CursorMoves
<1>3. HandlesInv'  BY <1>1, <1>2 DEF HandlesInv
<1>4. Fresh'  BY <1>1 DEF Fresh
<1>5. FilesInv(disk', used', data')  BY <1>1
<1> QED  BY <1>3, <1>4, <1>5 DEF OpenInv

\* The inode of an open file changes, on disk and in its only handle, and a cursor moves.
LEMMA GrowthKeeps ==
    ASSUME OpenInv, NEW p \in Processes, node[p] # NoNode, NEW c \in 0..(Wide - 1),
           node' = [node EXCEPT ![p].cursor = c],
           NEW h, h = node[p].handle, NEW new \in Inode, new.size >= 0,
           handle' = [handle EXCEPT ![h].ino = new],
           disk' = [disk EXCEPT ![handle[h].file] = new],
           new = disk[handle[h].file] \/ ~Shared(handle[h].file, h),
           FilesInv(disk', used', data')
    PROVE  OpenInv'
<1>1. /\ HandlesInv /\ Fresh /\ disk \in [Files -> Inode]
  BY DEF OpenInv, FilesInv
<1>2. node' \in [Processes -> NodeType \cup {NoNode}] /\ Referenced(node') = Referenced(node)
  BY <1>1, CursorMoves
<1>3. h \in Handles /\ handle[h] # NoHandle /\ handle[h] \in HandleType /\ handle[h].file \in Files
  BY OpenFile
<1> DEFINE f == handle[h].file
           k == [handle[h] EXCEPT !.ino = new]
<1>4. k \in HandleType /\ k.file = f /\ k.ino = new /\ k.open = TRUE  BY <1>3 DEF HandleType
<1>5. k # NoHandle
  <2>1. NoHandle.open = FALSE  BY DEF NoHandle
  <2> QED  BY <1>4, <2>1
<1>6. handle \in [Handles -> HandleType \cup {NoHandle}]  BY <1>1 DEF HandlesInv
<1>7. handle' = [handle EXCEPT ![h] = k]  BY <1>6
<1> HIDE DEF k, f
<1>8. /\ handle' \in [Handles -> HandleType \cup {NoHandle}] /\ handle'[h] = k
      /\ \A x \in Handles : x # h => handle'[x] = handle[x]
  BY <1>3, <1>4, <1>6, <1>7
<1>9. disk'[f] = new /\ \A g \in Files : g # f => disk'[g] = disk[g]  BY <1>1, <1>3 DEF f
<1>10. \A x \in Handles : /\ handle'[x] = NoHandle <=> handle[x] = NoHandle
                          /\ handle[x] # NoHandle => handle'[x].file = handle[x].file
  BY <1>3, <1>4, <1>5, <1>8 DEF f
<1>11. HandlesInv'
  <2>1. Referenced(node') = {x \in Handles : handle'[x] # NoHandle}
    BY <1>1, <1>2, <1>10 DEF HandlesInv
  <2>3. \A x \in Handles : handle'[x] # NoHandle => handle'[x].ino.size >= 0
    BY <1>1, <1>4, <1>8, <1>10 DEF HandlesInv
  <2> QED  BY <1>2, <1>8, <2>1, <2>3 DEF HandlesInv
<1>12. Fresh'
  <2> SUFFICES ASSUME NEW x \in Handles, handle'[x] # NoHandle
               PROVE  handle'[x].ino = disk'[handle'[x].file]
    BY DEF Fresh
  <2>1. CASE x = h  BY <1>4, <1>8, <1>9, <2>1
  <2>2. CASE x # h
    <3>1. handle'[x] = handle[x] /\ handle[x] # NoHandle /\ handle[x].ino = disk[handle[x].file]
      BY <1>1, <1>8, <2>2 DEF Fresh
    <3>2. handle[x].file = f => new = disk[f]  BY <2>2, <3>1 DEF Shared, f
    <3>3. handle[x] \in HandleType  BY <1>6, <3>1
    <3>4. handle[x].file \in Files  BY <3>3 DEF HandleType
    <3> QED  BY <1>9, <3>1, <3>2, <3>4
  <2> QED  BY <2>1, <2>2
<1> QED  BY <1>11, <1>12 DEF OpenInv

(***************************************************************************)
(* The actions                                                             *)
(***************************************************************************)

Truncates(flags) == {"TRUNC", "WR"} \subseteq flags

\* What open does, with the inode ino it has read, resized to r, and handle h.
Opened(p, f, flags, ino, r, h) ==
    /\ Current(f, ino) /\ Resized(f, ino, IF Truncates(flags) THEN 0 ELSE ino.size, r)
    /\ h \in Handles /\ handle[h] = NoHandle
    /\ disk' = [disk EXCEPT ![f] = r.ino] /\ used' = r.used /\ data' = r.data
    /\ handle' = [handle EXCEPT ![h] = [open |-> TRUE, file |-> f, ino |-> r.ino]]
    /\ node' = [node EXCEPT ![p] = [open |-> TRUE, handle |-> h, cursor |-> 0, flags |-> flags]]
    /\ ~parted' => r.ino = ino \/ ~Shared(f, h)
    /\ got' = <<>>

LEMMA OpenOpens ==
    ASSUME OpenInv, NEW p \in Processes, NEW f \in Files, NEW flags \in Flags, Open(p, f, flags)
    PROVE  \E ino, r, h : Opened(p, f, flags, ino, r, h)
<1> DEFINE ino == IF disk[f] = NoInode THEN Empty ELSE disk[f]
           r == IF Truncates(flags) THEN resize(ino, 0)
                ELSE [ok |-> TRUE, used |-> used, data |-> data, ino |-> ino]
           h == Min({x \in Handles : handle[x] = NoHandle})
           size == IF Truncates(flags) THEN 0 ELSE ino.size
<1>1. FilesInv(disk, used, data) /\ HandlesInv  BY DEF OpenInv
<1>2. /\ node[p] = NoNode /\ used' = r.used /\ data' = r.data
      /\ disk' = [disk EXCEPT ![f] = r.ino]
      /\ handle' = [handle EXCEPT ![h] = [open |-> TRUE, file |-> f, ino |-> r.ino]]
      /\ node' = [node EXCEPT ![p] = [open |-> TRUE, handle |-> h, cursor |-> 0, flags |-> flags]]
      /\ parted' = (parted \/ (r.ino # ino /\ Shared(f, h)))
      /\ got' = <<>>
  BY Zenon DEF Open, write_inode, Truncates
<1>3. Current(f, ino)  BY DEF Current
<1> HIDE DEF ino
<1>4. Resized(f, ino, size, r)
  <2>1. CASE Truncates(flags)
    <3>1. r = resize(ino, 0)  BY <2>1
    <3> HIDE DEF r
    <3>2. Resized(f, ino, 0, r)  BY <1>1, <1>3, <3>1, TruncatedFile
    <3> QED  BY <2>1, <3>2
  <2>2. CASE ~Truncates(flags)
    <3>1. r = [ok |-> TRUE, used |-> used, data |-> data, ino |-> ino]  BY <2>2
    <3> HIDE DEF r
    <3>2. Resized(f, ino, ino.size, r)  BY <1>1, <1>3, <3>1, KeptFile
    <3> QED  BY <2>2, <3>2
  <2> QED  BY <2>1, <2>2
<1> HIDE DEF r
<1>5. ~parted' => r.ino = ino \/ ~Shared(f, h)  BY <1>2, Zenon
<1>6. h \in Handles /\ handle[h] = NoHandle  BY <1>1, <1>2, FreeHandle
<1> HIDE DEF h
<1>7. Opened(p, f, flags, ino, r, h)  BY <1>2, <1>3, <1>4, <1>5, <1>6 DEF Opened
<1> QED  BY <1>7

LEMMA OpenKeeps ==
    ASSUME OpenInv, NEW p \in Processes, NEW f \in Files, NEW flags \in Flags,
           Open(p, f, flags), ~parted'
    PROVE  OpenInv'
<1>1. PICK ino, r, h : Opened(p, f, flags, ino, r, h)  BY OpenOpens
<1>2. /\ HandlesInv /\ Fresh /\ disk \in [Files -> Inode] /\ FilesInv(disk, used, data)
      /\ handle \in [Handles -> HandleType \cup {NoHandle}]
      /\ node \in [Processes -> NodeType \cup {NoNode}]
  BY DEF OpenInv, FilesInv, HandlesInv
<1>3. node[p] = NoNode /\ Current(f, ino) /\ (r.ino = ino \/ ~Shared(f, h))
  BY <1>1 DEF Open, Opened
<1>4. /\ r.ino \in Inode /\ FilesInv([disk EXCEPT ![f] = r.ino], r.used, r.data)
      /\ h \in Handles /\ handle[h] = NoHandle
      /\ disk' = [disk EXCEPT ![f] = r.ino] /\ used' = r.used /\ data' = r.data
  BY <1>1 DEF Opened, Resized
<1>5. r.ino.size >= 0
  <2>1. ino.size \in 0..BlockSize  BY <1>1, <1>2, CurrentInode DEF Opened
  <2>2. r.ino.size = IF Truncates(flags) THEN 0 ELSE ino.size  BY <1>1 DEF Opened, Resized
  <2> QED  BY <2>1, <2>2, OpenFilesAssumption
<1> DEFINE k == [open |-> TRUE, file |-> f, ino |-> r.ino]
           m == [open |-> TRUE, handle |-> h, cursor |-> 0, flags |-> flags]
<1>6. handle' = [handle EXCEPT ![h] = k] /\ node' = [node EXCEPT ![p] = m]  BY <1>1 DEF Opened
<1>7. k \in HandleType /\ k.file = f /\ k.ino = r.ino /\ k # NoHandle
  <2>1. k.open = TRUE /\ NoHandle.open = FALSE  BY DEF NoHandle
  <2>2. k # NoHandle  BY <2>1
  <2> QED  BY <1>4, <2>2 DEF HandleType
<1>8. m \in NodeType /\ m.handle = h /\ m # NoNode
  <2>1. m.open = TRUE /\ NoNode.open = FALSE  BY DEF NoNode
  <2>2. m # NoNode  BY <2>1
  <2> QED  BY <1>4, <2>2, OpenFilesAssumption DEF NodeType
<1> HIDE DEF k, m
<1>9. /\ handle' \in [Handles -> HandleType \cup {NoHandle}] /\ handle'[h] = k
      /\ \A x \in Handles : x # h => handle'[x] = handle[x]
      /\ node' \in [Processes -> NodeType \cup {NoNode}] /\ node'[p] = m
      /\ \A q \in Processes : q # p => node'[q] = node[q]
  BY <1>2, <1>4, <1>6, <1>7, <1>8
<1>10. disk'[f] = r.ino /\ \A g \in Files : g # f => disk'[g] = disk[g]  BY <1>2, <1>4
<1>11. HandlesInv'
  <2>1. Referenced(node') = Referenced(node) \cup {h}
    <3> DEFINE n1 == node'
    <3>1. n1[p] # NoNode /\ n1[p].handle = h /\ \A q \in Processes : q # p => n1[q] = node[q]
      BY <1>8, <1>9
    <3> HIDE DEF n1
    <3>2. Referenced(n1) = Referenced(node) \cup {h}  BY <1>3, <1>4, <3>1 DEF Referenced
    <3> QED  BY <3>2 DEF n1
  <2>2. Referenced(node') = {x \in Handles : handle'[x] # NoHandle}
    BY <1>2, <1>4, <1>7, <1>9, <2>1 DEF HandlesInv
  <2>4. \A x \in Handles : handle'[x] # NoHandle => handle'[x].ino.size >= 0
    BY <1>2, <1>5, <1>7, <1>9 DEF HandlesInv
  <2> QED  BY <1>9, <2>2, <2>4 DEF HandlesInv
<1>12. Fresh'
  <2> SUFFICES ASSUME NEW x \in Handles, handle'[x] # NoHandle
               PROVE  handle'[x].ino = disk'[handle'[x].file]
    BY DEF Fresh
  <2>1. CASE x = h  BY <1>7, <1>9, <1>10, <2>1
  <2>2. CASE x # h
    <3>1. handle'[x] = handle[x] /\ handle[x] # NoHandle /\ handle[x].ino = disk[handle[x].file]
      BY <1>2, <1>9, <2>2 DEF Fresh
    <3>2. handle[x] \in HandleType  BY <1>2, <3>1
    <3>3. handle[x].file \in Files  BY <3>2 DEF HandleType
    <3>4. CASE handle[x].file # f  BY <1>10, <3>1, <3>3, <3>4
    <3>5. CASE handle[x].file = f
      <4>1. r.ino = ino  BY <1>3, <2>2, <3>1, <3>5 DEF Shared
      <4>2. disk[f].size >= 0  BY <1>2, <3>1, <3>5 DEF HandlesInv
      <4>3. disk[f] # NoInode  BY <4>2 DEF NoInode
      <4>4. ino = disk[f]  BY <1>3, <4>3 DEF Current
      <4> QED  BY <1>10, <3>1, <3>5, <4>1, <4>4
    <3> QED  BY <3>4, <3>5
  <2> QED  BY <2>1, <2>2
<1>13. FilesInv(disk', used', data')  BY <1>4
<1> QED  BY <1>11, <1>12, <1>13 DEF OpenInv

LEMMA CloseKeeps == ASSUME OpenInv, NEW p \in Processes, Close(p)  PROVE OpenInv'
<1>1. FilesInv(disk, used, data) /\ HandlesInv /\ Fresh  BY DEF OpenInv
<1>2. /\ handle \in [Handles -> HandleType \cup {NoHandle}]
      /\ node \in [Processes -> NodeType \cup {NoNode}]
      /\ Referenced(node) = {x \in Handles : handle[x] # NoHandle}
  BY <1>1 DEF HandlesInv
<1>3. /\ node' = [node EXCEPT ![p] = NoNode]
      /\ handle' = [h \in Handles |-> IF h \in Referenced(node') THEN handle[h] ELSE NoHandle]
      /\ UNCHANGED <<disk, used, data>>
  BY DEF Close
<1>4. /\ node' \in [Processes -> NodeType \cup {NoNode}] /\ node'[p] = NoNode
      /\ \A q \in Processes : q # p => node'[q] = node[q]
  BY <1>2, <1>3
<1>5. Referenced(node') \subseteq Referenced(node)
  <2> DEFINE n1 == node'
  <2>1. n1[p] = NoNode /\ \A q \in Processes : q # p => n1[q] = node[q]  BY <1>4
  <2> HIDE DEF n1
  <2>2. Referenced(n1) \subseteq Referenced(node)  BY <2>1 DEF Referenced
  <2> QED  BY <2>2 DEF n1
<1> DEFINE R == Referenced(node')
<1>6. R \subseteq Handles  BY <1>2, <1>5
<1> HIDE DEF R
<1>7. /\ handle' \in [Handles -> HandleType \cup {NoHandle}]
      /\ \A x \in Handles : handle'[x] = IF x \in R THEN handle[x] ELSE NoHandle
  BY <1>2, <1>3 DEF R
<1>8. \A x \in Handles : handle'[x] # NoHandle => handle'[x] = handle[x]  BY <1>7
<1>9. R = {x \in Handles : handle'[x] # NoHandle}  BY <1>2, <1>5, <1>6, <1>7 DEF R
<1>10. HandlesInv'
  <2>1. \A x \in Handles : handle'[x] # NoHandle => handle'[x].ino.size >= 0
    BY <1>1, <1>8 DEF HandlesInv
  <2> QED  BY <1>4, <1>7, <1>9, <2>1 DEF HandlesInv, R
<1>11. Fresh'  BY <1>1, <1>3, <1>8 DEF Fresh
<1>12. FilesInv(disk', used', data')  BY <1>1, <1>3
<1> QED  BY <1>10, <1>11, <1>12 DEF OpenInv

LEMMA ForkKeeps ==
    ASSUME OpenInv, NEW p \in Processes, NEW q \in Processes, Fork(p, q)  PROVE OpenInv'
<1>1. FilesInv(disk, used, data) /\ HandlesInv /\ Fresh  BY DEF OpenInv
<1>2. node \in [Processes -> NodeType \cup {NoNode}]  BY <1>1 DEF HandlesInv
<1>3. /\ node[p] # NoNode /\ node[q] = NoNode
      /\ node' = [node EXCEPT ![q] = node[p]] /\ UNCHANGED <<disk, used, data, handle>>
  BY DEF Fork, Calls
<1>4. /\ node' \in [Processes -> NodeType \cup {NoNode}] /\ node'[q] = node[p]
      /\ \A x \in Processes : x # q => node'[x] = node[x]
  BY <1>2, <1>3
<1>5. Referenced(node') = Referenced(node)
  <2> DEFINE n1 == node'
  <2>1. n1[q] = node[p] /\ \A x \in Processes : x # q => n1[x] = node[x]  BY <1>4
  <2> HIDE DEF n1
  <2>2. Referenced(n1) = Referenced(node)  BY <1>3, <2>1 DEF Referenced
  <2> QED  BY <2>2 DEF n1
<1>6. HandlesInv'  BY <1>1, <1>3, <1>4, <1>5 DEF HandlesInv
<1>7. Fresh'  BY <1>1, <1>3 DEF Fresh
<1>8. FilesInv(disk', used', data')  BY <1>1, <1>3
<1> QED  BY <1>6, <1>7, <1>8 DEF OpenInv

\* The loop of read() gets the bytes up to the end of the file.
LEMMA BytesRead ==
    ASSUME OpenInv, NEW p \in Processes, node[p] # NoNode, NEW count \in Counts,
           NEW index, index = bytes_read(node[p], count), NEW size, size = handle[node[p].handle].ino.size
    PROVE  /\ index = IF node[p].cursor >= size THEN 0
                      ELSE IF node[p].cursor + count < size THEN count ELSE size - node[p].cursor
           /\ index \in Nat /\ node[p].cursor + index \in 0..(Wide - 1)
<1> DEFINE c == node[p].cursor
           S == {count, size - c}
<1>1. c \in 0..(Wide - 1) /\ size \in 0..BlockSize  BY OpenFile
<1>2. count \in Nat /\ BlockSize \in Nat /\ Wide \in Nat /\ BlockSize < Wide
  BY OpenFilesAssumption
<1>3. index = IF c >= size THEN 0 ELSE Min(S)  BY DEF bytes_read
<1> HIDE DEF c
<1>4. ASSUME ~(c >= size)  PROVE Min(S) = IF c + count < size THEN count ELSE size - c
  <2>1. S \in SUBSET Nat /\ S # {}  BY <1>1, <1>2, <1>4
  <2>2. \A x \in S : x = count \/ x = size - c  OBVIOUS
  <2>3. count \in S /\ size - c \in S  OBVIOUS
  <2> HIDE DEF S
  <2>4. Min(S) \in S /\ \A x \in S : Min(S) <= x  BY <2>1, MinOfIndices
  <2> DEFINE m == Min(S)
  <2>5. m \in S /\ m <= count /\ m <= size - c /\ (m = count \/ m = size - c)
    BY <2>2, <2>3, <2>4
  <2> HIDE DEF m
  <2>6. m = IF c + count < size THEN count ELSE size - c  BY <1>1, <1>2, <2>5
  <2> QED  BY <2>6 DEF m
<1> HIDE DEF S
<1>5. index = IF c >= size THEN 0 ELSE IF c + count < size THEN count ELSE size - c
  BY <1>3, <1>4
<1> QED  BY <1>1, <1>2, <1>5 DEF c

LEMMA ReadKeeps ==
    ASSUME OpenInv, NEW p \in Processes, NEW count \in Counts, Read(p, count)  PROVE OpenInv'
<1> DEFINE index == bytes_read(node[p], count)
           c == node[p].cursor + index
<1>1. node[p] # NoNode /\ UNCHANGED <<disk, used, data, handle>>  BY DEF Read, Calls
<1>2. c \in 0..(Wide - 1)  BY <1>1, BytesRead
<1>3. node' = [node EXCEPT ![p].cursor = c]  BY DEF Read
<1> HIDE DEF c
<1> QED  BY <1>1, <1>2, <1>3, CursorKeeps

LEMMA SeekKeeps ==
    ASSUME OpenInv, NEW p \in Processes, NEW offset \in Offsets, NEW whence \in {"SET", "CUR", "END"},
           Seek(p, offset, whence)
    PROVE  OpenInv'
<1> DEFINE c == lseek(node[p], offset, whence)
<1>1. node[p] # NoNode /\ UNCHANGED <<disk, used, data, handle>>  BY DEF Seek, Calls
<1>2. /\ node[p].cursor \in Int /\ handle[node[p].handle].ino.size \in Int /\ offset \in Int
      /\ Wide \in Nat /\ Wide > 0
  BY <1>1, OpenFile, OpenFilesAssumption
<1>3. c \in 0..(Wide - 1)
  <2> DEFINE from == CASE whence = "SET" -> 0 [] whence = "CUR" -> node[p].cursor
                       [] whence = "END" -> handle[node[p].handle].ino.size
  <2>1. from \in Int  BY <1>2
  <2>2. c = (offset + from) % Wide  BY DEF lseek
  <2> HIDE DEF from, c
  <2> QED  BY <1>2, <2>1, <2>2
<1>4. node' = [node EXCEPT ![p].cursor = c]  BY DEF Seek
<1> HIDE DEF c
<1> QED  BY <1>1, <1>3, <1>4, CursorKeeps

\* A write begins where it should in the first InodeSize bytes, otherwise before.
LEMMA StartOfWrite ==
    ASSUME NEW at \in Nat
    PROVE  /\ offset_in_starting_block(at) \in 0..at
           /\ at < InodeSize => offset_in_starting_block(at) = at
<1> DEFINE q == at \div InodeSize
           r == at % InodeSize
<1>1. InodeSize \in Nat \ {0}  BY OpenFilesAssumption
<1>2. q \in Nat /\ r \in 0..(InodeSize - 1) /\ at = InodeSize * q + r  BY <1>1, SMTT(30)
<1> HIDE DEF q, r
<1>3. InodeSize * q \in Nat  BY <1>1, <1>2, SMTT(30)
<1>4. r \in 0..at  BY <1>1, <1>2, <1>3
<1>5. at < InodeSize => q = 0
  <2>1. q >= 1 => InodeSize * q >= InodeSize  BY <1>1, <1>2, SMTT(30)
  <2> QED  BY <1>1, <1>2, <2>1
<1>6. at < InodeSize => r = at  BY <1>1, <1>2, <1>5, SMTT(30)
<1> QED  BY <1>4, <1>6 DEF offset_in_starting_block, r

\* What a write that succeeds does: new is the inode it leaves.
Wrote(p, count, v, new) ==
    LET h == node[p].handle
        f == handle[h].file
        ino == handle[h].ino
        at == write_at(node[p])
        start == offset_in_starting_block(at)
    IN  /\ new \in Inode /\ new.size = IF at + count > ino.size THEN at + count ELSE ino.size
        /\ disk' = [disk EXCEPT ![f] = new] /\ handle' = [handle EXCEPT ![h].ino = new]
        /\ node' = [node EXCEPT ![p].cursor = at + count]
        /\ FilesInv(disk', used', data')
        /\ \A i \in 0..(new.size - 1) :
             data'[new.block][i] = IF i \in start..(start + count - 1) THEN v
                                   ELSE IF i < ino.size THEN data[ino.block][i] ELSE 0
        /\ \A g \in Files : g # f /\ disk[g].block # 0 => data'[disk[g].block] = data[disk[g].block]
        /\ ~parted' => new = ino \/ ~Shared(f, h)

\* A write that finds no block leaves only the cursor moved.
WroteNothing(p) ==
    /\ node' = [node EXCEPT ![p].cursor = write_at(node[p])]
    /\ UNCHANGED <<disk, used, data, handle>>

LEMMA WriteWrites ==
    ASSUME OpenInv, NEW p \in Processes, NEW count \in Counts, NEW v \in Values, Write(p, count, v)
    PROVE  (\E new : Wrote(p, count, v, new)) \/ WroteNothing(p)
<1> DEFINE k == node[p].handle
           h == handle[k]
           f == h.file
           ino == h.ino
           at == write_at(node[p])
           grows == at + count > ino.size
           r == IF grows THEN resize(ino, at + count)
                ELSE [ok |-> TRUE, used |-> used, data |-> data, ino |-> ino]
           start == offset_in_starting_block(at)
           written == IF r.ok /\ count > 0 THEN start..(start + count - 1) ELSE {}
           size == IF grows THEN at + count ELSE ino.size
<1>1. /\ node[p] # NoNode /\ at + count <= BlockSize
      /\ used' = r.used /\ handle' = [handle EXCEPT ![k].ino = r.ino]
      /\ disk' = IF grows /\ r.ok THEN [disk EXCEPT ![f] = r.ino] ELSE disk
      /\ data' = Written(r.data, r.ino.block, written, v)
      /\ node' = [node EXCEPT ![p].cursor = IF r.ok THEN at + count ELSE at]
      /\ parted' = (parted \/ (grows /\ r.ok /\ Shared(f, k)))
  BY Zenon DEF Write, Calls, write_inode, Written
<1>2. /\ FilesInv(disk, used, data) /\ disk \in [Files -> Inode] /\ data \in [Blocks -> Block]
      /\ handle \in [Handles -> HandleType \cup {NoHandle}]
  BY SMTT(30) DEF OpenInv, FilesInv, HandlesInv
<1>3. /\ node[p].cursor \in 0..(Wide - 1) /\ k \in Handles /\ h \in HandleType /\ f \in Files
      /\ ino = disk[f] /\ ino.size \in 0..BlockSize /\ disk[f] # NoInode
  BY <1>1, OpenFile, Zenon
<1>4. at \in Nat /\ count \in Nat /\ v \in Nat /\ BlockSize \in Nat /\ 0 \notin Blocks /\ ino.size \in Nat
  BY <1>3, OpenFilesAssumption DEF write_at
<1>5. Current(f, ino)  BY <1>3 DEF Current
<1>8. start \in 0..at  BY <1>4, StartOfWrite
<1>9. ~parted' => ~grows \/ ~r.ok \/ ~Shared(f, k)  BY <1>1, Zenon
<1> HIDE DEF h, f, ino, at, start
<1>6. CASE r.ok
  <2>1. Resized(f, ino, size, r)
    <3>1. CASE grows
      <4>1. r = resize(ino, at + count) /\ size = at + count  BY <3>1
      <4>2. at + count \in 1..BlockSize /\ at + count > ino.size  BY <1>1, <1>4, <3>1
      <4> DEFINE n == at + count
      <4> HIDE DEF n, r, size
      <4>3. n \in 1..BlockSize /\ n > ino.size /\ r = resize(ino, n)  BY <4>1, <4>2 DEF n
      <4>4. Resized(f, ino, n, r)  BY <1>2, <1>3, <1>5, <1>6, <4>3, GrownFile
      <4> QED  BY <4>1, <4>4 DEF n
    <3>2. CASE ~grows
      <4>1. r = [ok |-> TRUE, used |-> used, data |-> data, ino |-> ino] /\ size = ino.size  BY <3>2
      <4> HIDE DEF r, size
      <4>2. Resized(f, ino, ino.size, r)  BY <1>2, <1>3, <1>5, <4>1, KeptFile
      <4> QED  BY <4>1, <4>2
    <3> QED  BY <3>1, <3>2
  <2>2. written = start..(start + count - 1)
    <3>1. count = 0 => start..(start + count - 1) = {}  BY <1>4, <1>8
    <3>2. count = 0 \/ count > 0  BY <1>4
    <3> HIDE DEF r
    <3> QED  BY <1>6, <3>1, <3>2
  <2>3. disk' = [disk EXCEPT ![f] = r.ino]
    <3>1. CASE grows  BY <1>1, <1>6, <3>1
    <3>2. CASE ~grows
      <4>1. r.ino = disk[f]  BY <1>3, <3>2
      <4> HIDE DEF r
      <4>2. [disk EXCEPT ![f] = r.ino] = disk  BY <1>2, <4>1
      <4> QED  BY <1>1, <3>2, <4>2
    <3> QED  BY <3>1, <3>2
  <2>4. size \in Nat /\ size >= at + count /\ size <= BlockSize  BY <1>1, <1>3, <1>4
  <2> DEFINE new == r.ino
             d == [disk EXCEPT ![f] = new]
             range == start..(start + count - 1)
             D == Written(r.data, new.block, range, v)
  <2>5. /\ new \in Inode /\ new.size = size /\ FilesInv(d, r.used, r.data)
        /\ \A i \in 0..(size - 1) :
             r.data[new.block][i] = IF i < ino.size THEN data[ino.block][i] ELSE 0
        /\ \A g \in Files : g # f /\ disk[g].block # 0 => r.data[disk[g].block] = data[disk[g].block]
    BY <2>1 DEF Resized
  <2>6. disk' = d /\ used' = r.used /\ data' = D /\ handle' = [handle EXCEPT ![k].ino = new]
        /\ node' = [node EXCEPT ![p].cursor = at + count]
    BY <1>1, <1>6, <2>2, <2>3
  <2>7. d[f] = new /\ \A g \in Files : g # f => d[g] = disk[g]  BY <1>2, <1>3
  <2>8. \A i \in range : i \in 0..(d[f].size - 1)  BY <1>4, <1>8, <2>4, <2>5, <2>7
  <2>15. ~parted' => new = ino \/ ~Shared(f, k)
    <3>1. ~grows => new = ino  OBVIOUS
    <3> QED  BY <1>6, <1>9, <3>1
  <2> DEFINE u == r.used
             E == r.data
  <2> HIDE DEF r, d, range, written, u, E
  <2>9. /\ FilesInv(d, u, Written(E, d[f].block, range, v))
        /\ \A g \in Files : g # f /\ d[g].block # 0 =>
             Written(E, d[f].block, range, v)[d[g].block] = E[d[g].block]
        /\ \A i \in 0..(d[f].size - 1) :
             Written(E, d[f].block, range, v)[d[f].block][i] =
                 IF i \in range THEN v ELSE E[d[f].block][i]
    <3>1. FilesInv(d, u, E)  BY <2>5 DEF u, E
    <3> QED  BY <1>3, <1>4, <2>8, <3>1, WrittenFile
  <2>10. D = Written(E, d[f].block, range, v)  BY <2>7 DEF E
  <2> HIDE DEF D, new, size
  <2>11. FilesInv(d, r.used, D)  BY <2>9, <2>10 DEF u
  <2>12. \A g \in Files : g # f /\ disk[g].block # 0 => D[disk[g].block] = data[disk[g].block]
    BY <2>5, <2>7, <2>9, <2>10 DEF E
  <2>13. \A i \in 0..(new.size - 1) :
           D[new.block][i] = IF i \in range THEN v ELSE IF i < ino.size THEN data[ino.block][i] ELSE 0
    BY <2>5, <2>7, <2>9, <2>10, SMTT(30) DEF E
  <2>14. Wrote(p, count, v, new)
    BY <2>5, <2>6, <2>11, <2>12, <2>13, <2>15 DEF Wrote, d, range, size, h, f, ino, at, start
  <2> QED  BY <2>14
<1>7. CASE ~r.ok
  <2>1. grows /\ r = resize(ino, at + count)  BY <1>7
  <2>2. at + count # ino.size /\ at + count # 0  BY <1>4, <2>1
  <2>3. r = [ok |-> FALSE, used |-> used, data |-> data, ino |-> ino]
    BY <1>7, <2>1, <2>2 DEF resize
  <2>5. ino.block = 0
    <3>1. ino.block # 0 => r.ok  BY <2>1 DEF resize
    <3> QED  BY <1>7, <3>1
  <2> HIDE DEF r
  <2>4. r.used = used /\ r.data = data /\ r.ino = ino  BY <2>3
  <2>6. written = {}  BY <1>7
  <2>7. data' = data
    <3>1. data' = Written(data, 0, {}, v)  BY <1>1, <2>4, <2>5, <2>6
    <3>2. Written(data, 0, {}, v) = data  BY <1>2, <1>4 DEF Written
    <3> QED  BY <3>1, <3>2
  <2>8. handle' = handle
    <3>1. handle' = [handle EXCEPT ![k].ino = ino]  BY <1>1, <2>4
    <3>2. [h EXCEPT !.ino = ino] = h  BY <1>3 DEF HandleType, ino
    <3>3. [handle EXCEPT ![k] = h] = handle  BY <1>2, <1>3 DEF h
    <3>4. [handle EXCEPT ![k].ino = ino] = [handle EXCEPT ![k] = [h EXCEPT !.ino = ino]]  BY DEF h
    <3> QED  BY <3>1, <3>2, <3>3, <3>4
  <2>9. used' = used /\ disk' = disk /\ node' = [node EXCEPT ![p].cursor = at]
    BY <1>1, <1>7, <2>4
  <2> QED  BY <2>7, <2>8, <2>9 DEF WroteNothing, at
<1> QED  BY <1>6, <1>7, SMTT(30)

\* Where a write begins, and where it leaves the cursor.
LEMMA WriteAt ==
    ASSUME OpenInv, NEW p \in Processes, node[p] # NoNode
    PROVE  write_at(node[p]) \in 0..(Wide - 1)
<1>1. node[p].cursor \in 0..(Wide - 1) /\ handle[node[p].handle].ino.size \in 0..BlockSize
  BY OpenFile
<1> QED  BY <1>1, OpenFilesAssumption DEF write_at

LEMMA WriteKeeps ==
    ASSUME OpenInv, NEW p \in Processes, NEW count \in Counts, NEW v \in Values,
           Write(p, count, v), ~parted'
    PROVE  OpenInv'
<1> DEFINE at == write_at(node[p])
<1>1. node[p] # NoNode /\ at + count <= BlockSize  BY DEF Write, Calls
<1>2. at \in 0..(Wide - 1)  BY <1>1, WriteAt
<1>3. ASSUME NEW new, Wrote(p, count, v, new)  PROVE OpenInv'
  <2> DEFINE h == node[p].handle
             c == at + count
  <2>1. /\ new \in Inode /\ node' = [node EXCEPT ![p].cursor = c]
        /\ new.size = IF c > handle[h].ino.size THEN c ELSE handle[h].ino.size
        /\ handle' = [handle EXCEPT ![h].ino = new] /\ disk' = [disk EXCEPT ![handle[h].file] = new]
        /\ FilesInv(disk', used', data')
        /\ new = handle[h].ino \/ ~Shared(handle[h].file, h)
    BY <1>3 DEF Wrote
  <2>2. handle[h].ino.size \in 0..BlockSize /\ handle[h].ino = disk[handle[h].file]
    BY <1>1, OpenFile
  <2>3. c \in 0..(Wide - 1)  BY <1>1, <1>2, OpenFilesAssumption
  <2> HIDE DEF c, h
  <2>4. new.size >= 0  BY <2>1, <2>2, <2>3, OpenFilesAssumption
  <2>5. new = disk[handle[h].file] \/ ~Shared(handle[h].file, h)  BY <2>1, <2>2
  <2> QED  BY <1>1, <2>1, <2>3, <2>4, <2>5, GrowthKeeps DEF h
<1>4. ASSUME WroteNothing(p)  PROVE OpenInv'
  <2>1. node' = [node EXCEPT ![p].cursor = at] /\ UNCHANGED <<disk, used, data, handle>>
    BY <1>4 DEF WroteNothing
  <2> HIDE DEF at
  <2> QED  BY <1>1, <1>2, <2>1, CursorKeeps
<1> QED  BY <1>3, <1>4, WriteWrites, SMTT(30)

LEMMA UnchangedKeeps ==
    ASSUME OpenInv, UNCHANGED <<disk, used, data, handle, node>>  PROVE OpenInv'
BY DEF OpenInv, HandlesInv, Fresh

LEMMA OpenStep == ASSUME OpenInv, [Next]_vars, ~parted'  PROVE OpenInv'
<1>1. CASE UNCHANGED vars  BY <1>1, UnchangedKeeps DEF vars
<1>2. ASSUME NEW p \in Processes, NEW f \in Files, NEW flags \in Flags, Open(p, f, flags)
      PROVE  OpenInv'
  BY <1>2, OpenKeeps
<1>3. ASSUME NEW p \in Processes, Close(p)  PROVE OpenInv'  BY <1>3, CloseKeeps
<1>4. ASSUME NEW p \in Processes, NEW q \in Processes, Fork(p, q)  PROVE OpenInv'
  BY <1>4, ForkKeeps
<1>5. ASSUME NEW p \in Processes, NEW count \in Counts, Read(p, count)  PROVE OpenInv'
  BY <1>5, ReadKeeps
<1>6. ASSUME NEW p \in Processes, NEW count \in Counts, WritePanics(p, count)  PROVE OpenInv'
  BY <1>6, UnchangedKeeps DEF WritePanics
<1>7. ASSUME NEW p \in Processes, NEW count \in Counts, NEW v \in Values, Write(p, count, v)
      PROVE  OpenInv'
  BY <1>7, WriteKeeps
<1>8. ASSUME NEW p \in Processes, NEW offset \in Offsets, NEW whence \in {"SET", "CUR", "END"},
             Seek(p, offset, whence)
      PROVE  OpenInv'
  BY <1>8, SeekKeeps
<1> QED  BY <1>1, <1>2, <1>3, <1>4, <1>5, <1>6, <1>7, <1>8 DEF Next

\* Copies that have parted stay so.
LEMMA PartedStays == ASSUME [Next]_vars, parted  PROVE parted'
<1>1. CASE UNCHANGED vars  BY <1>1 DEF vars
<1>2. ASSUME NEW p \in Processes, NEW f \in Files, NEW flags \in Flags, Open(p, f, flags)
      PROVE  parted'
  BY <1>2, Zenon DEF Open
<1>3. ASSUME NEW p \in Processes, NEW count \in Counts, NEW v \in Values, Write(p, count, v)
      PROVE  parted'
  BY <1>3, Zenon DEF Write
<1>4. ASSUME NEW p \in Processes,
             \/ Close(p)
             \/ \E q \in Processes : Fork(p, q)
             \/ \E count \in Counts : Read(p, count) \/ WritePanics(p, count)
             \/ \E offset \in Offsets, whence \in {"SET", "CUR", "END"} : Seek(p, offset, whence)
      PROVE  parted'
  BY <1>4 DEF Close, Fork, Read, WritePanics, Seek
<1> QED  BY <1>1, <1>2, <1>3, <1>4 DEF Next

\* Inodes, bitmap, blocks, handles and open nodes agree, whatever the processes call,
\* until copies of an inode have parted.
THEOREM FilesInvariant == Spec => [](~parted => OpenInv)
<1>1. Init => (~parted => OpenInv)  BY InitOpen
<1>2. (~parted => OpenInv) /\ [Next]_vars => (~parted => OpenInv)'  BY OpenStep, PartedStays
<1> QED  BY <1>1, <1>2, PTL DEF Spec

\* The copy of the inode a handle works with is the inode on disk, whichever of the
\* processes that share it made the file grow and however often the file was opened,
\* until a file with a second handle is truncated or made longer.
THEOREM HandlesStayFresh == Spec => []HandlesFresh
<1>1. (~parted => OpenInv) => HandlesFresh  BY DEF OpenInv, HandlesFresh, Fresh
<1> QED  BY <1>1, FilesInvariant, PTL

\* The bitmap has exactly the blocks of files, a block belongs to one file, and open
\* nodes refer to open handles, until copies have parted.
THEOREM BlocksHaveOneOwner == Spec => []BlocksOwned
<1>1. (~parted => OpenInv) => BlocksOwned
  <2> SUFFICES ASSUME OpenInv
               PROVE  /\ TypeOK
                      /\ used = {disk[f].block : f \in Files} \ {0}
                      /\ \A f, g \in Files : disk[f].block = disk[g].block => f = g \/ disk[f].block = 0
                      /\ \A f \in Files : disk[f].block = 0 <=> disk[f].size <= 0
    BY DEF BlocksOwned
  <2>1. disk \in [Files -> Inode] /\ used \subseteq Blocks /\ Owned(disk, used)
    BY DEF OpenInv, FilesInv
  <2>2. \A f \in Files : disk[f].size \in -1..BlockSize /\ disk[f].block \in Blocks \cup {0}
    BY <2>1 DEF Inode
  <2>3. \A p \in Processes : node[p] # NoNode =>
          handle[node[p].handle] # NoHandle /\ node[p].cursor \in 0..(Wide - 1)
    BY OpenFile
  <2>4. TypeOK  BY <2>1, <2>2, <2>3 DEF TypeOK
  <2> QED  BY <2>1, <2>4 DEF Owned
<1> QED  BY <1>1, FilesInvariant, PTL

(***************************************************************************)
(* The refinement: what programs see                                       *)
(***************************************************************************)

\* The actions of FileSpec, of the view.
LEMMA SeenOpen ==
    ASSUME NEW p, NEW f, NEW flags, Descs[p] = [open |-> FALSE], View[f].exists \/ "CREAT" \in flags,
           View' = [View EXCEPT ![f] =
             [exists |-> TRUE, bytes |-> IF {"TRUNC", "WR"} \subseteq flags THEN <<>> ELSE @.bytes]],
           Descs' = [Descs EXCEPT ![p] = [open |-> TRUE, file |-> f, pos |-> 0, flags |-> flags]],
           got' = <<>>
    PROVE  F!Open(p, f, flags)
BY Zenon DEF F!Open, F!Closed, F!Nothing, View, Descs, Bytes

LEMMA SeenClose ==
    ASSUME NEW p, Descs[p] # [open |-> FALSE], Descs' = [Descs EXCEPT ![p] = [open |-> FALSE]],
           got' = <<>>, View' = View
    PROVE  F!Close(p)
BY Zenon DEF F!Close, F!Closed, F!Nothing, View, Descs, Bytes

LEMMA SeenFork ==
    ASSUME NEW p, NEW q, Descs[p] # [open |-> FALSE], Descs[q] = [open |-> FALSE],
           Descs' = [Descs EXCEPT ![q] = Descs[p]], got' = <<>>, View' = View
    PROVE  F!Fork(p, q)
BY Zenon DEF F!Fork, F!Closed, F!Nothing, View, Descs, Bytes

LEMMA SeenRead ==
    ASSUME NEW p, NEW count, Descs[p] # [open |-> FALSE], "RD" \in Descs[p].flags,
           LET s == View[Descs[p].file].bytes
               end == IF Descs[p].pos + count < Len(s) THEN Descs[p].pos + count ELSE Len(s)
           IN  got' = SubSeq(s, Descs[p].pos + 1, end),
           Descs' = [Descs EXCEPT ![p].pos = @ + Len(got')], View' = View
    PROVE  F!Read(p, count)
BY Zenon DEF F!Read, F!Closed, F!bytes, View, Descs, Bytes

LEMMA SeenWrite ==
    ASSUME NEW p, NEW count, NEW v, Descs[p] # [open |-> FALSE], "WR" \in Descs[p].flags,
           LET f == Descs[p].file
               s == View[f].bytes
               at == IF "APPEND" \in Descs[p].flags THEN Len(s) ELSE Descs[p].pos
               len == IF at + count > Len(s) THEN at + count ELSE Len(s)
           IN  /\ \E start \in 0..at :
                    /\ at < InodeSize => start = at
                    /\ View' = [View EXCEPT ![f].bytes =
                         [i \in 1..len |-> IF i \in (start + 1)..(start + count) THEN v
                                           ELSE IF i <= Len(s) THEN s[i] ELSE 0]]
               /\ Descs' = [Descs EXCEPT ![p].pos = at + count],
           got' = <<>>
    PROVE  F!Write(p, count, v)
BY Zenon DEF F!Write, F!Closed, F!Nothing, F!bytes, View, Descs, Bytes

LEMMA SeenWriteFails ==
    ASSUME NEW p, Descs[p] # [open |-> FALSE],
           \E pos \in {Descs[p].pos, Len(View[Descs[p].file].bytes)} : Descs' = [Descs EXCEPT ![p].pos = pos],
           got' = <<>>, View' = View
    PROVE  F!WriteFails(p)
BY Zenon DEF F!WriteFails, F!Closed, F!Nothing, F!bytes, View, Descs, Bytes

LEMMA SeenSeek ==
    ASSUME NEW p, NEW offset, Descs[p] # [open |-> FALSE],
           \E from \in {0, Descs[p].pos, Len(View[Descs[p].file].bytes)} :
             Descs' = [Descs EXCEPT ![p].pos = (from + offset) % Wide],
           got' = <<>>, View' = View
    PROVE  F!Seek(p, offset)
BY Zenon DEF F!Seek, F!Closed, F!Nothing, F!bytes, View, Descs, Bytes

\* The bytes of a file that exists, or that open creates.
LEMMA BytesSeen ==
    ASSUME OpenInv, NEW f \in Files, NEW ino, Current(f, ino)
    PROVE  /\ View[f].bytes = Bytes(disk, data, f)
           /\ View[f].bytes \in Seq(Nat) /\ Len(View[f].bytes) = ino.size
           /\ DOMAIN View[f].bytes = 1..ino.size
           /\ \A i \in 1..ino.size : View[f].bytes[i] = data[ino.block][i - 1]
<1>1. FilesInv(disk, used, data) /\ data \in [Blocks -> Block] /\ disk[f] \in Inode
  BY DEF OpenInv, FilesInv
<1>2. /\ ino.size \in 0..BlockSize /\ ino.block \in Blocks \cup {0} /\ (ino.block = 0 <=> ino.size = 0)
      /\ ino.block = disk[f].block /\ (disk[f].size > 0 => ino = disk[f])
      /\ (disk[f] # NoInode => ino = disk[f])
  BY <1>1, CurrentInode
<1>3. BlockSize \in Nat /\ disk[f].size \in -1..BlockSize  BY <1>1, OpenFilesAssumption DEF Inode
<1>4. 1..disk[f].size = 1..ino.size
  <2>1. CASE disk[f] # NoInode  BY <1>2, <2>1
  <2>2. CASE disk[f] = NoInode
    <3>1. disk[f].size = -1 /\ ino.size = 0  BY <2>2 DEF NoInode, Empty, Current
    <3> QED  BY <3>1
  <2> QED  BY <2>1, <2>2
<1> DEFINE b == View[f].bytes
           n == ino.size
<1>5. b = Bytes(disk, data, f)  BY DEF View
<1>6. b = [i \in 1..n |-> data[ino.block][i - 1]]  BY <1>2, <1>4, <1>5 DEF Bytes
<1>7. \A i \in 1..n : data[ino.block][i - 1] \in Nat
  <2> SUFFICES ASSUME NEW i \in 1..n  PROVE data[ino.block][i - 1] \in Nat  OBVIOUS
  <2>1. i - 1 \in 0..(BlockSize - 1) /\ ino.block \in Blocks  BY <1>2, <1>3
  <2>2. data[ino.block] \in Block  BY <1>1, <2>1
  <2> QED  BY <2>1, <2>2 DEF Block
<1> HIDE DEF b, n
<1>8. n \in Nat  BY <1>2, <1>3 DEF n
<1>9. b \in Seq(Nat) /\ Len(b) = n /\ DOMAIN b = 1..n /\ \A i \in 1..n : b[i] = data[ino.block][i - 1]
  BY <1>6, <1>7, <1>8
<1> QED  BY <1>5, <1>9 DEF b, n

\* One file changes: what programs see of the others stays.
LEMMA ViewChange ==
    ASSUME OpenInv, NEW f \in Files, disk'[f] # NoInode,
           \A g \in Files : g # f => disk'[g] = disk[g],
           \A g \in Files : g # f /\ disk[g].block # 0 => data'[disk[g].block] = data[disk[g].block],
           NEW s, Bytes(disk', data', f) = s
    PROVE  View' = [View EXCEPT ![f] = [exists |-> TRUE, bytes |-> s]]
<1>1. disk \in [Files -> Inode] /\ Owned(disk, used)  BY DEF OpenInv, FilesInv
<1>2. ASSUME NEW g \in Files, g # f  PROVE Bytes(disk', data', g) = Bytes(disk, data, g)
  <2>1. disk'[g] = disk[g]  BY <1>2
  <2>2. CASE disk[g].block # 0
    <3>1. data'[disk[g].block] = data[disk[g].block]  BY <1>2, <2>2
    <3> QED  BY <2>1, <3>1 DEF Bytes
  <2>3. CASE disk[g].block = 0
    <3>1. disk[g].size <= 0  BY <1>1, <2>3 DEF Owned
    <3>2. disk[g].size \in Int  BY <1>1, OpenFilesAssumption DEF Inode
    <3>3. 1..disk[g].size = {}  BY <3>1, <3>2
    <3> QED  BY <2>1, <3>3 DEF Bytes
  <2> QED  BY <2>2, <2>3
<1> DEFINE x == [exists |-> TRUE, bytes |-> s]
           V(g) == [exists |-> disk[g] # NoInode, bytes |-> Bytes(disk, data, g)]
           W(g) == [exists |-> disk'[g] # NoInode, bytes |-> Bytes(disk', data', g)]
<1>3. W(f) = x
  <2>1. (disk'[f] # NoInode) = TRUE  OBVIOUS
  <2> QED  BY <2>1, Zenon
<1>4. \A g \in Files : g # f => W(g) = V(g)
  <2> SUFFICES ASSUME NEW g \in Files, g # f  PROVE W(g) = V(g)  OBVIOUS
  <2>1. (disk'[g] # NoInode) = (disk[g] # NoInode)  OBVIOUS
  <2>2. Bytes(disk', data', g) = Bytes(disk, data, g)  BY <1>2
  <2> QED  BY <2>1, <2>2, Zenon
<1>5. View = [g \in Files |-> V(g)]  BY Zenon DEF View
<1>6. View' = [g \in Files |-> W(g)]  BY Zenon DEF View
<1> HIDE DEF V, W, x
<1>7. [[g \in Files |-> V(g)] EXCEPT ![f] = x] = [g \in Files |-> W(g)]  BY <1>3, <1>4
<1> QED  BY <1>5, <1>6, <1>7 DEF x

LEMMA ViewKept == ASSUME UNCHANGED <<disk, data>>  PROVE View' = View
BY DEF View, Bytes

\* What programs see of an open file.
LEMMA DescSeen ==
    ASSUME OpenInv, NEW p \in Processes, node[p] # NoNode
    PROVE  /\ Descs[p] # [open |-> FALSE] /\ Descs[p].file = handle[node[p].handle].file
           /\ Descs[p].pos = node[p].cursor /\ Descs[p].flags = node[p].flags
           /\ Len(View[Descs[p].file].bytes) = handle[node[p].handle].ino.size
           /\ Current(Descs[p].file, handle[node[p].handle].ino)
<1> DEFINE d == [open |-> TRUE, file |-> handle[node[p].handle].file,
                 pos |-> node[p].cursor, flags |-> node[p].flags]
           n == [open |-> FALSE]
<1>1. Descs[p] = d  BY DEF Descs
<1>2. d.open = TRUE /\ n.open = FALSE  OBVIOUS
<1>3. d # n  BY <1>2
<1> DEFINE f == handle[node[p].handle].file
           ino == handle[node[p].handle].ino
<1>4. f \in Files /\ ino = disk[f] /\ disk[f] # NoInode  BY OpenFile
<1> HIDE DEF f, ino
<1>5. Current(f, ino)  BY <1>4 DEF Current
<1>6. Len(View[f].bytes) = ino.size  BY <1>4, <1>5, BytesSeen
<1> QED  BY <1>1, <1>3, <1>5, <1>6 DEF f, ino

\* A cursor moves: so does the position.
LEMMA PositionMoves ==
    ASSUME OpenInv, NEW p \in Processes, node[p] # NoNode, NEW c \in 0..(Wide - 1),
           node' = [node EXCEPT ![p].cursor = c],
           \A h \in Handles : handle[h] # NoHandle => handle'[h].file = handle[h].file
    PROVE  Descs' = [Descs EXCEPT ![p].pos = c]
<1>1. HandlesInv  BY DEF OpenInv
<1>2. /\ \A q \in Processes : /\ node'[q] = NoNode <=> node[q] = NoNode
                              /\ node[q] # NoNode => /\ node'[q].handle = node[q].handle
                                                     /\ node'[q].flags = node[q].flags
      /\ node'[p].cursor = c /\ Moved(p, c)
  BY <1>1, CursorMoves
<1>3. \A q \in Processes : node[q] # NoNode => handle'[node[q].handle].file = handle[node[q].handle].file
  BY OpenFile
<1> DEFINE V(q) == IF node[q] = NoNode THEN [open |-> FALSE]
                   ELSE [open |-> TRUE, file |-> handle[node[q].handle].file,
                         pos |-> node[q].cursor, flags |-> node[q].flags]
           W(q) == IF node'[q] = NoNode THEN [open |-> FALSE]
                   ELSE [open |-> TRUE, file |-> handle'[node'[q].handle].file,
                         pos |-> node'[q].cursor, flags |-> node'[q].flags]
<1>4. Descs = [q \in Processes |-> V(q)] /\ Descs' = [q \in Processes |-> W(q)]  BY DEF Descs
<1>5. \A q \in Processes : q # p => W(q) = V(q)  BY <1>2, <1>3, ZenonT(40) DEF Moved
<1>6. W(p) = [V(p) EXCEPT !.pos = c]
  <2> DEFINE f == handle[node[p].handle].file
             l == node[p].flags
             o == TRUE
  <2>1. V(p) = [open |-> o, file |-> f, pos |-> node[p].cursor, flags |-> l]  OBVIOUS
  <2>2. W(p) = [open |-> o, file |-> f, pos |-> c, flags |-> l]  BY <1>2, <1>3
  <2> HIDE DEF V, W, f, l, o
  <2>3. [[open |-> o, file |-> f, pos |-> node[p].cursor, flags |-> l] EXCEPT !.pos = c] =
        [open |-> o, file |-> f, pos |-> c, flags |-> l]
    OBVIOUS
  <2> QED  BY <2>1, <2>2, <2>3, Zenon
<1> HIDE DEF V, W
<1>7. [q \in Processes |-> W(q)] = [[q \in Processes |-> V(q)] EXCEPT ![p].pos = c]
  BY <1>5, <1>6
<1> QED  BY <1>4, <1>7

\* open, as programs see it.
LEMMA OpenSeen ==
    ASSUME OpenInv, NEW p \in Processes, NEW f \in Files, NEW flags \in Flags, Open(p, f, flags)
    PROVE  F!Open(p, f, flags)
<1>1. PICK ino, r, h : Opened(p, f, flags, ino, r, h)  BY OpenOpens
<1>2. /\ FilesInv(disk, used, data) /\ HandlesInv /\ disk \in [Files -> Inode]
      /\ handle \in [Handles -> HandleType \cup {NoHandle}]
      /\ node \in [Processes -> NodeType \cup {NoNode}]
  BY DEF OpenInv, FilesInv, HandlesInv
<1>3. node[p] = NoNode /\ (disk[f] # NoInode \/ "CREAT" \in flags)  BY DEF Open
<1>4. /\ Current(f, ino) /\ Resized(f, ino, IF Truncates(flags) THEN 0 ELSE ino.size, r)
      /\ h \in Handles /\ handle[h] = NoHandle
      /\ disk' = [disk EXCEPT ![f] = r.ino] /\ data' = r.data /\ got' = <<>>
      /\ handle' = [handle EXCEPT ![h] = [open |-> TRUE, file |-> f, ino |-> r.ino]]
      /\ node' = [node EXCEPT ![p] = [open |-> TRUE, handle |-> h, cursor |-> 0, flags |-> flags]]
  BY <1>1 DEF Opened
<1> DEFINE s == IF Truncates(flags) THEN <<>> ELSE View[f].bytes
<1>5. /\ r.ino \in Inode /\ r.ino.size = IF Truncates(flags) THEN 0 ELSE ino.size
      /\ \A i \in 0..(r.ino.size - 1) :
           r.data[r.ino.block][i] = IF i < ino.size THEN data[ino.block][i] ELSE 0
      /\ \A g \in Files : g # f /\ disk[g].block # 0 => r.data[disk[g].block] = data[disk[g].block]
  BY <1>4 DEF Resized
<1>6. disk'[f] = r.ino /\ \A g \in Files : g # f => disk'[g] = disk[g]  BY <1>2, <1>4
<1>7. ino.size \in 0..BlockSize /\ BlockSize \in Nat  BY <1>2, <1>4, CurrentInode, OpenFilesAssumption
<1>8. disk'[f] # NoInode
  <2>1. disk'[f].size # -1  BY <1>5, <1>6, <1>7
  <2> QED  BY <2>1 DEF NoInode
<1>9. Bytes(disk', data', f) = s
  <2>1. CASE Truncates(flags)
    <3>1. disk'[f].size = 0 /\ s = <<>>  BY <1>5, <1>6, <2>1
    <3>2. Bytes(disk', data', f) = [i \in 1..0 |-> data'[disk'[f].block][i - 1]]  BY <3>1 DEF Bytes
    <3>3. [i \in 1..0 |-> data'[disk'[f].block][i - 1]] = <<>>  OBVIOUS
    <3> QED  BY <3>1, <3>2, <3>3
  <2>2. CASE ~Truncates(flags)
    <3> DEFINE n == ino.size
               b == View[f].bytes
    <3>1. disk'[f].size = n /\ s = b /\ data' = r.data /\ disk'[f].block = r.ino.block
      BY <1>4, <1>5, <1>6, <2>2
    <3>2. b \in Seq(Nat) /\ Len(b) = n /\ DOMAIN b = 1..n /\ \A i \in 1..n : b[i] = data[ino.block][i - 1]
      BY <1>4, BytesSeen
    <3> HIDE DEF b
    <3>3. n \in Nat  BY <1>7
    <3>4. \A i \in 0..(n - 1) : r.data[r.ino.block][i] = data[ino.block][i]
      BY <1>5, <2>2, <3>3
    <3> HIDE DEF n
    <3>5. \A i \in 1..n : r.data[r.ino.block][i - 1] = b[i]
      <4> SUFFICES ASSUME NEW i \in 1..n  PROVE r.data[r.ino.block][i - 1] = b[i]  OBVIOUS
      <4>1. i - 1 \in 0..(n - 1)  BY <3>3
      <4> QED  BY <3>2, <3>4, <4>1
    <3>6. Bytes(disk', data', f) = [i \in 1..n |-> r.data[r.ino.block][i - 1]]  BY <3>1 DEF Bytes
    <3>7. b = [i \in 1..n |-> b[i]]  BY <3>2
    <3> QED  BY <3>1, <3>5, <3>6, <3>7
  <2> QED  BY <2>1, <2>2
<1> HIDE DEF s
<1>10. View' = [View EXCEPT ![f] = [exists |-> TRUE, bytes |-> s]]
  BY <1>4, <1>5, <1>6, <1>8, <1>9, ViewChange
<1>11. View' = [View EXCEPT ![f] =
         [exists |-> TRUE, bytes |-> IF {"TRUNC", "WR"} \subseteq flags THEN <<>> ELSE @.bytes]]
  BY <1>10, Zenon DEF s, Truncates
<1>12. View[f].exists \/ "CREAT" \in flags
  <2>1. View[f].exists = (disk[f] # NoInode)  BY Zenon DEF View
  <2> QED  BY <1>3, <2>1
<1>13. Descs[p] = [open |-> FALSE]  BY <1>3 DEF Descs
<1> DEFINE k == [open |-> TRUE, file |-> f, ino |-> r.ino]
           m == [open |-> TRUE, handle |-> h, cursor |-> 0, flags |-> flags]
           d == [open |-> TRUE, file |-> f, pos |-> 0, flags |-> flags]
           V(q) == IF node[q] = NoNode THEN [open |-> FALSE]
                   ELSE [open |-> TRUE, file |-> handle[node[q].handle].file,
                         pos |-> node[q].cursor, flags |-> node[q].flags]
           W(q) == IF node'[q] = NoNode THEN [open |-> FALSE]
                   ELSE [open |-> TRUE, file |-> handle'[node'[q].handle].file,
                         pos |-> node'[q].cursor, flags |-> node'[q].flags]
<1>14. m # NoNode
  <2>1. m.open = TRUE /\ NoNode.open = FALSE  BY DEF NoNode
  <2> QED  BY <2>1
<1>15. /\ m.handle = h /\ m.cursor = 0 /\ m.flags = flags /\ k.file = f  OBVIOUS
<1>16. /\ node'[p] = m /\ \A q \in Processes : q # p => node'[q] = node[q]
       /\ handle'[h] = k /\ \A x \in Handles : x # h => handle'[x] = handle[x]
  BY <1>2, <1>4
<1> HIDE DEF k, m
<1>17. W(p) = d  BY <1>14, <1>15, <1>16
<1>18. \A q \in Processes : q # p => W(q) = V(q)
  <2> SUFFICES ASSUME NEW q \in Processes, q # p  PROVE W(q) = V(q)  OBVIOUS
  <2>1. node'[q] = node[q]  BY <1>16
  <2>2. node[q] # NoNode => node[q].handle \in Handles /\ handle[node[q].handle] # NoHandle
    BY OpenFile
  <2>3. node[q] # NoNode => handle'[node[q].handle] = handle[node[q].handle]  BY <1>4, <1>16, <2>2
  <2> QED  BY <2>1, <2>3
<1>19. Descs = [q \in Processes |-> V(q)] /\ Descs' = [q \in Processes |-> W(q)]  BY DEF Descs
<1> HIDE DEF V, W, d
<1>20. [[q \in Processes |-> V(q)] EXCEPT ![p] = d] = [q \in Processes |-> W(q)]  BY <1>17, <1>18
<1>21. Descs' = [Descs EXCEPT ![p] = d]  BY <1>19, <1>20
<1>22. got' = <<>>  BY <1>4
<1> QED  BY <1>11, <1>12, <1>13, <1>21, <1>22, SeenOpen DEF d

\* close, as programs see it: a handle that goes away is nobody's.
LEMMA CloseSeen == ASSUME OpenInv, NEW p \in Processes, Close(p)  PROVE F!Close(p)
<1>1. node \in [Processes -> NodeType \cup {NoNode}]  BY DEF OpenInv, HandlesInv
<1>2. /\ node[p] # NoNode /\ node' = [node EXCEPT ![p] = NoNode]
      /\ handle' = [h \in Handles |-> IF h \in Referenced(node') THEN handle[h] ELSE NoHandle]
      /\ got' = <<>> /\ UNCHANGED <<disk, data>>
  BY DEF Close, Calls
<1>3. node'[p] = NoNode /\ \A q \in Processes : q # p => node'[q] = node[q]  BY <1>1, <1>2
<1>4. ASSUME NEW q \in Processes, node'[q] # NoNode
      PROVE  node'[q] = node[q] /\ handle'[node[q].handle] = handle[node[q].handle]
  <2>1. node'[q] = node[q] /\ node[q] # NoNode  BY <1>3, <1>4
  <2>2. node[q].handle \in Handles  BY <2>1, OpenFile
  <2> DEFINE n1 == node'
  <2>3. n1[q] # NoNode /\ n1[q].handle = node[q].handle  BY <1>4, <2>1
  <2> HIDE DEF n1
  <2>4. node[q].handle \in Referenced(n1)  BY <2>2, <2>3 DEF Referenced
  <2>5. node[q].handle \in Referenced(node')  BY <2>4 DEF n1
  <2> QED  BY <1>2, <2>1, <2>2, <2>5
<1> DEFINE V(q) == IF node[q] = NoNode THEN [open |-> FALSE]
                   ELSE [open |-> TRUE, file |-> handle[node[q].handle].file,
                         pos |-> node[q].cursor, flags |-> node[q].flags]
           W(q) == IF node'[q] = NoNode THEN [open |-> FALSE]
                   ELSE [open |-> TRUE, file |-> handle'[node'[q].handle].file,
                         pos |-> node'[q].cursor, flags |-> node'[q].flags]
           d == [open |-> FALSE]
<1>5. W(p) = d  BY <1>3
<1>6. \A q \in Processes : q # p => W(q) = V(q)
  <2> SUFFICES ASSUME NEW q \in Processes, q # p  PROVE W(q) = V(q)  OBVIOUS
  <2>1. node'[q] = node[q]  BY <1>3
  <2>2. node'[q] # NoNode => handle'[node[q].handle] = handle[node[q].handle]  BY <1>4
  <2> QED  BY <2>1, <2>2
<1>7. Descs = [q \in Processes |-> V(q)] /\ Descs' = [q \in Processes |-> W(q)]  BY DEF Descs
<1> HIDE DEF V, W, d
<1>8. [[q \in Processes |-> V(q)] EXCEPT ![p] = d] = [q \in Processes |-> W(q)]  BY <1>5, <1>6
<1>9. Descs' = [Descs EXCEPT ![p] = d]  BY <1>7, <1>8
<1>10. Descs[p] # [open |-> FALSE]  BY <1>2, DescSeen
<1>11. View' = View /\ got' = <<>>  BY <1>2, ViewKept
<1> QED  BY <1>9, <1>10, <1>11, SeenClose DEF d

LEMMA ForkSeen ==
    ASSUME OpenInv, NEW p \in Processes, NEW q \in Processes, Fork(p, q)  PROVE F!Fork(p, q)
<1>1. node \in [Processes -> NodeType \cup {NoNode}]  BY DEF OpenInv, HandlesInv
<1>2. /\ node[p] # NoNode /\ node[q] = NoNode /\ node' = [node EXCEPT ![q] = node[p]]
      /\ got' = <<>> /\ UNCHANGED <<disk, data, handle>>
  BY DEF Fork, Calls
<1>3. node'[q] = node[p] /\ \A x \in Processes : x # q => node'[x] = node[x]  BY <1>1, <1>2
<1> DEFINE V(n) == IF n = NoNode THEN [open |-> FALSE]
                   ELSE [open |-> TRUE, file |-> handle[n.handle].file,
                         pos |-> n.cursor, flags |-> n.flags]
<1>4. Descs = [x \in Processes |-> V(node[x])]  BY DEF Descs
<1>5. Descs' = [x \in Processes |-> V(node'[x])]  BY <1>2 DEF Descs
<1> HIDE DEF V
<1>6. Descs' = [Descs EXCEPT ![q] = Descs[p]]  BY <1>3, <1>4, <1>5
<1>7. Descs[p] # [open |-> FALSE]  BY <1>2, DescSeen
<1>8. Descs[q] = [open |-> FALSE]  BY <1>2 DEF Descs
<1>9. View' = View /\ got' = <<>>  BY <1>2, ViewKept
<1> QED  BY <1>6, <1>7, <1>8, <1>9, SeenFork

LEMMA SubSeqIs ==
    ASSUME NEW s \in Seq(Nat), NEW m \in Nat, NEW n \in Nat, m >= 1, m <= n, n <= Len(s)
    PROVE  SubSeq(s, m, n) = [i \in 1..(n - m + 1) |-> s[i + m - 1]]
BY SMTT(30)

\* read, as programs see it: the loop gets the bytes from the position on.
LEMMA ReadSeen ==
    ASSUME OpenInv, NEW p \in Processes, NEW count \in Counts, Read(p, count)  PROVE F!Read(p, count)
<1> DEFINE c == node[p].cursor
           ino == handle[node[p].handle].ino
           n == ino.size
           f == Descs[p].file
           s == View[f].bytes
           index == bytes_read(node[p], count)
           end == IF c + count < Len(s) THEN c + count ELSE Len(s)
<1>1. /\ node[p] # NoNode /\ "RD" \in node[p].flags
      /\ got' = [i \in 1..index |-> data[ino.block][c + i - 1]]
      /\ node' = [node EXCEPT ![p].cursor = c + index]
      /\ UNCHANGED <<disk, data, handle>>
  BY DEF Read, Calls
<1>2. /\ c \in 0..(Wide - 1) /\ n \in 0..BlockSize /\ handle[node[p].handle].file \in Files
  BY <1>1, OpenFile
<1>3. /\ Descs[p] # [open |-> FALSE] /\ f = handle[node[p].handle].file
      /\ Descs[p].pos = c /\ Descs[p].flags = node[p].flags /\ Current(f, ino)
  BY <1>1, DescSeen
<1>4. /\ index = IF c >= n THEN 0 ELSE IF c + count < n THEN count ELSE n - c
      /\ index \in Nat /\ c + index \in 0..(Wide - 1)
  BY <1>1, BytesRead
<1>5. s \in Seq(Nat) /\ Len(s) = n /\ \A i \in 1..n : s[i] = data[ino.block][i - 1]
  BY <1>2, <1>3, BytesSeen
<1>6. c \in Nat /\ n \in Nat /\ count \in Nat  BY <1>2, OpenFilesAssumption
<1> HIDE DEF c, n, s, f, index, ino
<1>7. end \in Nat /\ end <= Len(s) /\ (c + 1 > end => index = 0) /\ (c + 1 <= end => index = end - c)
  BY <1>4, <1>5, <1>6
<1> HIDE DEF end
<1>8. SubSeq(s, c + 1, end) = [i \in 1..index |-> s[c + i]]
  <2>1. CASE c + 1 > end
    <3>1. SubSeq(s, c + 1, end) = <<>>  BY <1>5, <1>6, <1>7, <2>1
    <3>2. [i \in 1..0 |-> s[c + i]] = <<>>  OBVIOUS
    <3> QED  BY <1>7, <2>1, <3>1, <3>2
  <2>2. CASE c + 1 <= end
    <3>1. index = end - c  BY <1>7, <2>2
    <3> DEFINE m == c + 1
    <3>2. m \in Nat /\ m >= 1 /\ m <= end /\ index = end - m + 1  BY <1>6, <1>7, <2>2, <3>1
    <3> HIDE DEF m
    <3>3. SubSeq(s, m, end) = [i \in 1..index |-> s[i + m - 1]]
      <4>1. s \in Seq(Nat) /\ m \in Nat /\ m >= 1 /\ end \in Nat /\ m <= end /\ end <= Len(s)
        BY <1>5, <1>7, <3>2
      <4>2. SubSeq(s, m, end) = [i \in 1..(end - m + 1) |-> s[i + m - 1]]  BY <4>1, SubSeqIs
      <4> QED  BY <3>2, <4>2
    <3>4. \A i \in 1..index : i + m - 1 = c + i  BY <1>6 DEF m
    <3> QED  BY <3>3, <3>4 DEF m
  <2> QED  BY <1>6, <1>7, <2>1, <2>2
<1>9. \A i \in 1..index : s[c + i] = data[ino.block][c + i - 1]
  <2> SUFFICES ASSUME NEW i \in 1..index  PROVE s[c + i] = data[ino.block][c + i - 1]  OBVIOUS
  <2> DEFINE j == c + i
  <2>1. j \in 1..n  BY <1>4, <1>6
  <2> HIDE DEF j
  <2>2. s[j] = data[ino.block][j - 1]  BY <1>5, <2>1
  <2>3. j - 1 = c + i - 1  BY <1>4, <1>6 DEF j
  <2> QED  BY <2>2, <2>3 DEF j
<1>10. got' = SubSeq(s, c + 1, end)  BY <1>1, <1>8, <1>9
<1>11. Len(got') = index
  <2> DEFINE g == [i \in 1..index |-> s[c + i]]
  <2>1. \A i \in 1..index : s[c + i] \in Nat
    <3> SUFFICES ASSUME NEW i \in 1..index  PROVE s[c + i] \in Nat  OBVIOUS
    <3>1. c + i \in 1..n  BY <1>4, <1>6
    <3> QED  BY <1>5, <3>1
  <2>2. g \in Seq(Nat) /\ Len(g) = index  BY <1>4, <2>1
  <2> QED  BY <1>8, <1>10, <2>2
<1>12. Descs' = [Descs EXCEPT ![p].pos = c + index]
  <2> DEFINE x == c + index
  <2>1. x \in 0..(Wide - 1) /\ node' = [node EXCEPT ![p].cursor = x]  BY <1>1, <1>4
  <2> HIDE DEF x
  <2>2. \A h \in Handles : handle'[h].file = handle[h].file  BY <1>1
  <2>3. Descs' = [Descs EXCEPT ![p].pos = x]  BY <1>1, <2>1, <2>2, PositionMoves
  <2> QED  BY <2>3 DEF x
<1>13. Descs' = [Descs EXCEPT ![p].pos = @ + Len(got')]
  <2>1. Descs[p].pos + Len(got') = c + index  BY <1>3, <1>11
  <2> QED  BY <1>12, <2>1
<1>14. View' = View  BY <1>1, ViewKept
<1>15. got' = SubSeq(View[Descs[p].file].bytes, Descs[p].pos + 1,
                     IF Descs[p].pos + count < Len(View[Descs[p].file].bytes)
                     THEN Descs[p].pos + count ELSE Len(View[Descs[p].file].bytes))
  BY <1>3, <1>10, Zenon DEF s, f, end
<1>16. "RD" \in Descs[p].flags  BY <1>1, <1>3
<1> QED  BY <1>3, <1>13, <1>14, <1>15, <1>16, SeenRead

LEMMA SeekSeen ==
    ASSUME OpenInv, NEW p \in Processes, NEW offset \in Offsets, NEW whence \in {"SET", "CUR", "END"},
           Seek(p, offset, whence)
    PROVE  F!Seek(p, offset)
<1> DEFINE c == lseek(node[p], offset, whence)
           n == handle[node[p].handle].ino.size
           len == Len(View[Descs[p].file].bytes)
           from == CASE whence = "SET" -> 0 [] whence = "CUR" -> node[p].cursor [] whence = "END" -> n
<1>1. /\ node[p] # NoNode /\ UNCHANGED <<disk, data, handle>> /\ got' = <<>>
      /\ node' = [node EXCEPT ![p].cursor = c]
  BY DEF Seek, Calls
<1>2. /\ node[p].cursor \in Int /\ n \in Int /\ offset \in Int /\ Wide \in Nat /\ Wide > 0
  BY <1>1, OpenFile, OpenFilesAssumption
<1>3. Descs[p] # [open |-> FALSE] /\ Descs[p].pos = node[p].cursor /\ len = n  BY <1>1, DescSeen
<1> HIDE DEF n, len
<1>4. from \in Int /\ from \in {0, Descs[p].pos, len}  BY <1>2, <1>3
<1>5. c = (from + offset) % Wide
  <2>1. c = (offset + from) % Wide  BY DEF lseek, n
  <2> HIDE DEF from, c
  <2> QED  BY <1>2, <1>4, <2>1
<1> HIDE DEF from, c
<1>6. c \in 0..(Wide - 1)  BY <1>2, <1>4, <1>5
<1>7. \A h \in Handles : handle'[h].file = handle[h].file  BY <1>1
<1>8. Descs' = [Descs EXCEPT ![p].pos = c]  BY <1>1, <1>6, <1>7, PositionMoves
<1>9. Descs' = [Descs EXCEPT ![p].pos = (from + offset) % Wide]  BY <1>5, <1>8
<1>10. \E x \in {0, Descs[p].pos, len} : Descs' = [Descs EXCEPT ![p].pos = (x + offset) % Wide]
  BY <1>4, <1>9
<1>11. View' = View /\ got' = <<>>  BY <1>1, ViewKept
<1> QED  BY <1>3, <1>10, <1>11, SeenSeek DEF len

\* write, as programs see it: growing the file and filling it up does not show.
LEMMA WroteSeen ==
    ASSUME OpenInv, NEW p \in Processes, NEW count \in Counts, NEW v \in Values, Write(p, count, v),
           NEW new, Wrote(p, count, v, new)
    PROVE  F!Write(p, count, v)
<1> DEFINE h == node[p].handle
           f == handle[h].file
           ino == handle[h].ino
           n == ino.size
           at == write_at(node[p])
           start == offset_in_starting_block(at)
           s == View[f].bytes
           len == IF at + count > n THEN at + count ELSE n
           X == [i \in 1..len |-> IF i \in (start + 1)..(start + count) THEN v
                                  ELSE IF i <= n THEN s[i] ELSE 0]
<1>1. node[p] # NoNode /\ "WR" \in node[p].flags /\ at + count <= BlockSize /\ got' = <<>>
  BY DEF Write, Calls
<1>2. /\ new \in Inode /\ new.size = len
      /\ disk' = [disk EXCEPT ![f] = new] /\ handle' = [handle EXCEPT ![h].ino = new]
      /\ node' = [node EXCEPT ![p].cursor = at + count]
      /\ \A i \in 0..(len - 1) :
           data'[new.block][i] = IF i \in start..(start + count - 1) THEN v
                                 ELSE IF i < n THEN data[ino.block][i] ELSE 0
      /\ \A g \in Files : g # f /\ disk[g].block # 0 => data'[disk[g].block] = data[disk[g].block]
  BY DEF Wrote
<1>3. /\ h \in Handles /\ f \in Files /\ n \in 0..BlockSize /\ node[p].cursor \in 0..(Wide - 1)
      /\ handle[h] \in HandleType /\ disk[f] # NoInode
  BY <1>1, OpenFile
<1>4. /\ disk \in [Files -> Inode] /\ handle \in [Handles -> HandleType \cup {NoHandle}]
  BY DEF OpenInv, FilesInv, HandlesInv
<1>5. /\ Descs[p] # [open |-> FALSE] /\ Descs[p].file = f
      /\ Descs[p].pos = node[p].cursor /\ Descs[p].flags = node[p].flags /\ Current(f, ino)
  BY <1>1, DescSeen, SMTT(30)
<1>6. s \in Seq(Nat) /\ Len(s) = n /\ \A i \in 1..n : s[i] = data[ino.block][i - 1]
  BY <1>3, <1>5, BytesSeen
<1>7. n \in Nat /\ count \in Nat /\ BlockSize \in Nat /\ Wide \in Nat /\ BlockSize < Wide
  BY <1>3, OpenFilesAssumption
<1>8. at \in Nat /\ at = IF "APPEND" \in Descs[p].flags THEN Len(s) ELSE Descs[p].pos
  <2>1. at = IF "APPEND" \in node[p].flags THEN n ELSE node[p].cursor  BY DEF write_at
  <2> HIDE DEF at, n, s
  <2> QED  BY <1>3, <1>5, <1>6, <1>7, <2>1
<1>9. \A k \in Handles : handle[k] # NoHandle => handle'[k].file = handle[k].file
  <2>1. [handle[h] EXCEPT !.ino = new].file = f  BY <1>3 DEF HandleType
  <2>2. handle'[h] = [handle[h] EXCEPT !.ino = new] /\ \A k \in Handles : k # h => handle'[k] = handle[k]
    BY <1>2, <1>3, <1>4
  <2> QED  BY <2>1, <2>2
<1>19. start \in 0..at /\ (at < InodeSize => start = at)  BY <1>8, StartOfWrite
<1> HIDE DEF h, f, ino, n, at, s, start
<1>10. len \in Nat  BY <1>7, <1>8
<1>11. disk'[f] = new /\ \A g \in Files : g # f => disk'[g] = disk[g]  BY <1>2, <1>3, <1>4
<1>12. disk'[f] # NoInode
  <2>1. new.size # -1  BY <1>2, <1>10
  <2> QED  BY <1>11, <2>1 DEF NoInode
<1>13. Bytes(disk', data', f) = X
  <2>1. Bytes(disk', data', f) = [i \in 1..len |-> data'[new.block][i - 1]]
    BY <1>2, <1>11 DEF Bytes
  <2>2. ASSUME NEW i \in 1..len
        PROVE  data'[new.block][i - 1] = IF i \in (start + 1)..(start + count) THEN v
                                         ELSE IF i <= n THEN s[i] ELSE 0
    <3> HIDE DEF len
    <3>1. i - 1 \in 0..(len - 1) /\ i \in Nat /\ i >= 1  BY <1>10
    <3>2. data'[new.block][i - 1] = IF i - 1 \in start..(start + count - 1) THEN v
                                    ELSE IF i - 1 < n THEN data[ino.block][i - 1] ELSE 0
      BY <1>2, <3>1
    <3>3. i - 1 \in start..(start + count - 1) <=> i \in (start + 1)..(start + count)
      BY <1>7, <1>8, <1>19, <3>1
    <3>4. (i - 1 < n <=> i <= n) /\ (i <= n => i \in 1..n)  BY <1>7, <3>1
    <3>5. i <= n => data[ino.block][i - 1] = s[i]  BY <1>6, <3>4
    <3> QED  BY <3>2, <3>3, <3>4, <3>5
  <2> HIDE DEF len
  <2> QED  BY <2>1, <2>2
<1> HIDE DEF X
<1>14. View' = [View EXCEPT ![f] = [exists |-> TRUE, bytes |-> X]]
  BY <1>2, <1>3, <1>11, <1>12, <1>13, ViewChange
<1>15. View' = [View EXCEPT ![f].bytes = X]
  <2> DEFINE o == TRUE
  <2>1. View[f] = [exists |-> o, bytes |-> s]
    <3>1. (disk[f] # NoInode) = TRUE  BY <1>3 DEF f
    <3>2. View[f] = [exists |-> disk[f] # NoInode, bytes |-> Bytes(disk, data, f)]  BY <1>3, Zenon DEF View
    <3>3. s = Bytes(disk, data, f)  BY <1>3, <1>5, BytesSeen DEF s
    <3> QED  BY <3>1, <3>2, <3>3, Zenon
  <2>2. View' = [View EXCEPT ![f] = [exists |-> o, bytes |-> X]]  BY <1>14
  <2> HIDE DEF o
  <2>3. [View[f] EXCEPT !.bytes = X] = [exists |-> o, bytes |-> X]
    <3>1. [[exists |-> o, bytes |-> s] EXCEPT !.bytes = X] = [exists |-> o, bytes |-> X]  OBVIOUS
    <3> QED  BY <2>1, <3>1, Zenon
  <2>4. [View EXCEPT ![f].bytes = X] = [View EXCEPT ![f] = [View[f] EXCEPT !.bytes = X]]  OBVIOUS
  <2> QED  BY <2>2, <2>3, <2>4
<1>16. Descs' = [Descs EXCEPT ![p].pos = at + count]
  <2> DEFINE c == at + count
  <2>1. c \in 0..(Wide - 1) /\ node' = [node EXCEPT ![p].cursor = c]
    BY <1>1, <1>2, <1>7, <1>8 DEF at
  <2> HIDE DEF c
  <2>2. Descs' = [Descs EXCEPT ![p].pos = c]  BY <1>1, <1>9, <2>1, PositionMoves
  <2> QED  BY <2>2 DEF c
<1>17. LET g == Descs[p].file
           t == View[g].bytes
           a == IF "APPEND" \in Descs[p].flags THEN Len(t) ELSE Descs[p].pos
           l == IF a + count > Len(t) THEN a + count ELSE Len(t)
       IN  /\ \E b \in 0..a :
                /\ a < InodeSize => b = a
                /\ View' = [View EXCEPT ![g].bytes =
                     [i \in 1..l |-> IF i \in (b + 1)..(b + count) THEN v
                                     ELSE IF i <= Len(t) THEN t[i] ELSE 0]]
           /\ Descs' = [Descs EXCEPT ![p].pos = a + count]
  <2> DEFINE g == Descs[p].file
             t == View[g].bytes
             a == IF "APPEND" \in Descs[p].flags THEN Len(t) ELSE Descs[p].pos
             l == IF a + count > Len(t) THEN a + count ELSE Len(t)
             Y(b) == [i \in 1..l |-> IF i \in (b + 1)..(b + count) THEN v
                                     ELSE IF i <= Len(t) THEN t[i] ELSE 0]
  <2>1. g = f /\ t = s  BY <1>5 DEF s
  <2> HIDE DEF g, t
  <2>2. a = at /\ Len(t) = n  BY <1>6, <1>8, <2>1
  <2> HIDE DEF a
  <2>3. l = len  BY <2>2
  <2>4. Y(start) = X  BY <2>1, <2>2, <2>3 DEF X
  <2> HIDE DEF l, Y
  <2>5. /\ \E b \in 0..a : (a < InodeSize => b = a) /\ View' = [View EXCEPT ![g].bytes = Y(b)]
        /\ Descs' = [Descs EXCEPT ![p].pos = a + count]
    BY <1>15, <1>16, <1>19, <2>1, <2>2, <2>4
  <2> QED  BY <2>5, Zenon DEF g, t, a, l, Y
<1>18. "WR" \in Descs[p].flags  BY <1>1, <1>5
<1> QED  BY <1>1, <1>5, <1>17, <1>18, SeenWrite, ZenonT(40)

LEMMA WriteSeen ==
    ASSUME OpenInv, NEW p \in Processes, NEW count \in Counts, NEW v \in Values, Write(p, count, v)
    PROVE  F!Write(p, count, v) \/ F!WriteFails(p)
<1>1. node[p] # NoNode /\ got' = <<>>  BY DEF Write, Calls
<1>2. ASSUME WroteNothing(p)  PROVE F!WriteFails(p)
  <2> DEFINE at == write_at(node[p])
             n == handle[node[p].handle].ino.size
             len == Len(View[Descs[p].file].bytes)
  <2>1. node' = [node EXCEPT ![p].cursor = at] /\ UNCHANGED <<disk, data, handle>>
    BY <1>2 DEF WroteNothing
  <2>2. at \in 0..(Wide - 1)  BY <1>1, WriteAt
  <2>3. Descs[p] # [open |-> FALSE] /\ Descs[p].pos = node[p].cursor /\ len = n
    BY <1>1, DescSeen
  <2>4. at = n \/ at = node[p].cursor  BY DEF write_at
  <2> HIDE DEF at, n, len
  <2>5. \A h \in Handles : handle'[h].file = handle[h].file  BY <2>1
  <2>6. Descs' = [Descs EXCEPT ![p].pos = at]  BY <1>1, <2>1, <2>2, <2>5, PositionMoves
  <2>7. \E pos \in {Descs[p].pos, len} : Descs' = [Descs EXCEPT ![p].pos = pos]
    BY <2>3, <2>4, <2>6
  <2>8. View' = View  BY <2>1, ViewKept
  <2> QED  BY <1>1, <2>3, <2>7, <2>8, SeenWriteFails DEF len
<1> QED  BY <1>2, WroteSeen, WriteWrites, SMTT(30)

\* What programs see at the start is a file system without files.
LEMMA InitSeen == Init => F!Init
<1> SUFFICES ASSUME Init  PROVE F!Init  OBVIOUS
<1>1. /\ disk = [f \in Files |-> NoInode] /\ node = [p \in Processes |-> NoNode] /\ got = <<>>
  BY DEF Init
<1>2. \A f \in Files : disk[f] = NoInode /\ disk[f].size = -1  BY <1>1 DEF NoInode
<1>3. ASSUME NEW f \in Files
      PROVE  [exists |-> disk[f] # NoInode, bytes |-> Bytes(disk, data, f)] = [exists |-> FALSE, bytes |-> <<>>]
  <2>1. (disk[f] # NoInode) = FALSE  BY <1>2
  <2>2. Bytes(disk, data, f) = <<>>
    <3>1. Bytes(disk, data, f) = [i \in 1..(-1) |-> data[disk[f].block][i - 1]]  BY <1>2 DEF Bytes
    <3>2. [i \in 1..(-1) |-> data[disk[f].block][i - 1]] = <<>>  OBVIOUS
    <3> QED  BY <3>1, <3>2
  <2> QED  BY <2>1, <2>2, Zenon
<1>4. View = [f \in Files |-> [exists |-> FALSE, bytes |-> <<>>]]  BY <1>3, Zenon DEF View
<1>5. Descs = [p \in Processes |-> [open |-> FALSE]]  BY <1>1 DEF Descs
<1> QED  BY <1>1, <1>4, <1>5, Zenon DEF F!Init, F!Closed, F!Nothing, View, Descs, Bytes

\* Every step is a step of FileSpec, or does not show.
LEMMA StepSeen ==
    ASSUME OpenInv, [Next]_vars
    PROVE  \/ F!Next
           \/ View' = View /\ Descs' = Descs /\ got' = got
<1>1. CASE UNCHANGED vars
  <2>1. UNCHANGED <<disk, data, handle, node, got>>  BY <1>1 DEF vars
  <2> QED  BY <2>1, ViewKept DEF Descs
<1>2. ASSUME NEW p \in Processes, NEW f \in Files, NEW flags \in Flags, Open(p, f, flags)
      PROVE  F!Next
  <2>1. F!Open(p, f, flags)  BY <1>2, OpenSeen
  <2> QED  BY <2>1, Zenon DEF F!Next
<1>3. ASSUME NEW p \in Processes, Close(p)  PROVE F!Next
  <2>1. F!Close(p)  BY <1>3, CloseSeen
  <2> QED  BY <2>1, Zenon DEF F!Next
<1>4. ASSUME NEW p \in Processes, NEW q \in Processes, Fork(p, q)  PROVE F!Next
  <2>1. F!Fork(p, q)  BY <1>4, ForkSeen
  <2> QED  BY <2>1, Zenon DEF F!Next
<1>5. ASSUME NEW p \in Processes, NEW count \in Counts, Read(p, count)  PROVE F!Next
  <2>1. F!Read(p, count)  BY <1>5, ReadSeen
  <2> QED  BY <2>1, Zenon DEF F!Next
<1>6. ASSUME NEW p \in Processes, NEW count \in Counts, WritePanics(p, count)
      PROVE  View' = View /\ Descs' = Descs /\ got' = got
  <2>1. UNCHANGED <<disk, data, handle, node, got>>  BY <1>6 DEF WritePanics
  <2> QED  BY <2>1, ViewKept DEF Descs
<1>7. ASSUME NEW p \in Processes, NEW count \in Counts, NEW v \in Values, Write(p, count, v)
      PROVE  F!Next
  <2>1. F!Write(p, count, v) \/ F!WriteFails(p)  BY <1>7, WriteSeen
  <2> QED  BY <2>1, Zenon DEF F!Next
<1>8. ASSUME NEW p \in Processes, NEW offset \in Offsets, NEW whence \in {"SET", "CUR", "END"},
             Seek(p, offset, whence)
      PROVE  F!Next
  <2>1. F!Seek(p, offset)  BY <1>8, SeekSeen
  <2> QED  BY <2>1, Zenon DEF F!Next
<1> QED  BY <1>1, <1>2, <1>3, <1>4, <1>5, <1>6, <1>7, <1>8 DEF Next

\* open, close, fork, read, write and lseek over handles, copies of inodes and blocks are
\* the operations of FileSpec, until copies have parted: files are sequences of bytes,
\* open files have positions, and a write below InodeSize goes where it should.
THEOREM FilesAreFileSpec == Spec => ImplementsFileSpec
<1>1. Init => F!Init  BY InitSeen
<1>2. (~parted => OpenInv) /\ [Next]_vars => [parted' \/ F!Next]_<<View, Descs, got>>
  BY StepSeen, PartedStays
<1>3. Spec => [](~parted => OpenInv)  BY FilesInvariant
<1> QED  BY <1>1, <1>2, <1>3, PTL DEF Spec, ImplementsFileSpec
=============================================================================
