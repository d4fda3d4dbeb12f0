------------------------------ MODULE Ext2Dir -------------------------------
(***************************************************************************)
(* The entries of an ext2 folder (Ext2Folder in ext2.rs).  A folder is its *)
(* size and the chain of its entries, each with the inode it names, the    *)
(* bytes it takes up to the next, and a name.  Every entry in use has an   *)
(* inode; names are shorter than 256 bytes.                                *)
(***************************************************************************)
EXTENDS Integers, Sequences, FiniteSetsExt

CONSTANTS
  BlockSize,
  Header,     \* get_ondisk_directory_entry_header_size (8)
  Length      \* bytes of a name

ASSUME Ext2DirAssumption ==
  /\ {BlockSize, Header} \subseteq Nat \ {0} /\ BlockSize % 4 = 0
  /\ Length \in [DOMAIN Length -> Nat]

\* Where entry i starts.
Offset(f, i) ==
  LET end[j \in 0..Len(f.entries)] == IF j = 0 THEN 0 ELSE end[j - 1] + f.entries[j].size
  IN end[i - 1]

\* Header and name, up to a multiple of four.
\* Mutant of space_used: not aligned.
space_used_unaligned(e) == Header + Length[e.name]
space_used(e) == LET n == Header + Length[e.name] IN IF n % 4 = 0 THEN n ELSE n + (4 - (n % 4))

\* A new entry goes behind the last one, into what that does not use if there is
\* enough of it, and is grown to the end of its block: by a whole block if it
\* ends there already.
create_entry(f, name, addr) ==
  LET n == Len(f.entries)
      last == f.entries[n]
      need == Header + Length[name]
      kept == IF last.size - space_used(last) >= need THEN space_used(last) ELSE last.size
      first == Offset(f, n) + kept
      size == need + (BlockSize - ((first + need) % BlockSize))
  IN [size |-> first + size,
      entries |-> Append([f.entries EXCEPT ![n].size = kept], [addr |-> addr, size |-> size, name |-> name])]

\* Mutant of unlink_entry: the entry before takes over the rest of the folder.
unlink_entry_rest(f, i) ==
  [f EXCEPT !.entries = [SubSeq(@, 1, i - 1) EXCEPT ![i - 1].size = f.size - Offset(f, i - 1)]]
\* The entry before i takes over its bytes.
unlink_entry(f, i) ==
  [f EXCEPT !.entries = SubSeq([f.entries EXCEPT ![i - 1].size = @ + f.entries[i].size], 1, i - 1)
                          \o SubSeq(@, i + 1, Len(@))]

\* The first entry of the name, 0 if there is none.
find_entry(f, name) ==
  LET found == {i \in DOMAIN f.entries : f.entries[i].name = name}
  IN IF found = {} THEN 0 ELSE Min(found)

\* The entries cover the folder from its first byte to its last without a gap,
\* each has room for its name and starts at a multiple of four.
TilesFolder(f) ==
  /\ Offset(f, Len(f.entries) + 1) = f.size
  /\ \A i \in DOMAIN f.entries :
       f.entries[i].size >= Header + Length[f.entries[i].name] /\ Offset(f, i) % 4 = 0
=============================================================================
