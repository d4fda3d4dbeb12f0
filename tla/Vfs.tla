-------------------------------- MODULE Vfs ---------------------------------
(***************************************************************************)
(* Paths and the tree of nodes (vfs.rs, devfs.rs).  A path is the sequence *)
(* of parts its "/" separate: "/" is <<"", "">>, "/a" is <<"", "a">>, "a/" *)
(* is <<"a", "">>.  The root file system is a tree of folders that may     *)
(* each carry a mounted file system, whose children hide its own.          *)
(***************************************************************************)
EXTENDS Integers, Sequences, FiniteSetsExt, Functions

CONSTANT Trimmed   \* a name without the blanks around it

root == <<"", "">>
absolute(p) == Len(p) > 1 /\ p[1] = ""
ends_with_slash(p) == p[Len(p)] = ""

\* filter: the elements of s that are in S.
filter(s, S) ==
  LET kept[i \in 0..Len(s)] ==
        IF i = 0 THEN <<>> ELSE IF s[i] \in S THEN Append(kept[i - 1], s[i]) ELSE kept[i - 1]
  IN kept[Len(s)]

names(p) == filter(p, Range(p) \ {""})
last(p) == IF names(p) = <<>> THEN "" ELSE names(p)[Len(names(p))]

\* Backwards over the parts: ".." cancels the next part that is a name.
\* Mutant of cancel: several ".." in a row cancel one name.
cancel_once(acc, part) ==
  CASE part \in {".", ""} -> acc
    [] part = ".." -> [skip |-> 1, parts |-> acc.parts]
    [] OTHER -> [skip |-> 0, parts |-> IF acc.skip > 0 THEN acc.parts ELSE <<part>> \o acc.parts]
cancel(acc, part) ==
  CASE part \in {".", ""} -> acc
    [] part = ".." -> [skip |-> acc.skip + 1, parts |-> acc.parts]
    [] OTHER -> IF acc.skip > 0 THEN [skip |-> acc.skip - 1, parts |-> acc.parts]
                ELSE [skip |-> 0, parts |-> <<part>> \o acc.parts]

canonicalize(p) ==
  LET back[i \in 0..Len(p)] ==
        IF i = 0 THEN [skip |-> 0, parts |-> <<>>] ELSE cancel(back[i - 1], p[Len(p) + 1 - i])
      parts == back[Len(p)].parts
  IN IF parts = <<>> THEN root ELSE <<"">> \o parts

\* Up to and with the last "/", but never the first one.
del_last(p) == IF Len(p) <= 2 THEN root ELSE SubSeq(p, 1, Len(p) - 1)

append_str(p, s) == (IF ends_with_slash(p) THEN SubSeq(p, 1, Len(p) - 1) ELSE p) \o s

\* TryFrom<&str>: the caller has seen that s is absolute; one "/" at its end goes.
try_from(s) == IF s # root /\ ends_with_slash(s) THEN SubSeq(s, 1, Len(s) - 1) ELSE s

\* A path as the user typed it, absolute or below the current folder.
path_of(cur, s) == IF absolute(s) THEN try_from(s) ELSE append_str(cur, s)

-----------------------------------------------------------------------------
(* The tree.  A node is a folder of the root file system, a folder or a file *)
(* of a mounted file system, or the lack of one.                             *)

NoNode == [kind |-> "none", id |-> 0]
Panic == [kind |-> "panic", id |-> 0]     \* expect_folder on a file
Node(kind, id) == [kind |-> kind, id |-> id]
RootNode == Node("rootfs", 1)
IsFolder(n) == n.kind \in {"rootfs", "folder"}

\* The first child of the name among a sequence of pairs of name and node.
find(children, name) ==
  LET found == {i \in DOMAIN children : children[i][1] = name}
  IN IF found = {} THEN NoNode ELSE children[Min(found)][2]

\* Children of folder id of the root file system: those of what is mounted,
\* then its own that are not hidden by a name.
rootfs_children(tree, id, mounted) ==
  LET own == filter(tree.kids[id], {k \in Range(tree.kids[id]) : find(mounted, tree.name[k]) = NoNode})
  IN mounted \o [i \in DOMAIN own |-> <<tree.name[own[i]], Node("rootfs", own[i])>>]

\* Path::get_rootfs_node: the folders of the root file system only.
rootfs_child(tree, id, part) ==
  LET found == filter(tree.kids[id], {k \in Range(tree.kids[id]) : tree.name[k] = Trimmed[part]})
  IN IF id = 0 \/ found = <<>> THEN 0 ELSE found[1]

get_rootfs_node(tree, p) ==
  LET ns == names(p)
      at[i \in 0..Len(ns)] == IF i = 0 THEN 1 ELSE rootfs_child(tree, at[i - 1], ns[i])
  IN at[Len(ns)]

\* RootFSNode::del_folder: the first folder of the name among the empty ones.
del_folder(tree, id, name, empty) ==
  LET found == filter(tree.kids[id], {k \in empty : tree.name[k] = name})
  IN IF found = <<>> THEN tree
     ELSE [tree EXCEPT !.kids[id] = filter(@, Range(@) \ {found[1]})]
=============================================================================
