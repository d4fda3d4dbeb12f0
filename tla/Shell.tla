------------------------------- MODULE Shell --------------------------------
(***************************************************************************)
(* The shell's built-in commands and a program's open (main.rs,            *)
(* syscall.rs), on the tree of Vfs with a device file system and one ext2  *)
(* image whose folders are those of Ext2Dir.                               *)
(*                                                                         *)
(* An argument is a path; one that is not the last on its line keeps the   *)
(* blank behind it (split_inclusive), so names with a blank are arguments  *)
(* too.  The image is mounted at one place at a time and not reached       *)
(* through its own "." and "..": every folder then has one copy of its     *)
(* inode.  Blocks and data of files are in Ext2: a file is empty or not.   *)
(***************************************************************************)
EXTENDS Vfs, Ext2Dir, FiniteSets

CONSTANTS
  Name,      \* names of arguments
  Args,      \* arguments that are paths
  Sources,   \* arguments that name what to mount
  Dotted,    \* arguments of open with "." and ".." in them
  Image,     \* the image: inode 2 its root folder, its other folders, all their entries
  Inodes,    \* inodes a file can get
  MaxNodes,  \* bound on the folders of the root file system
  MaxFolder  \* bound on the size of a folder

\* The parts of paths.
Part == DOMAIN Length \cup {""}

\* The entries that name inode i.
Naming(fs, i) ==
  UNION {{<<a, k>> : k \in {k \in DOMAIN fs[a].entries : fs[a].entries[k].addr = i}} : a \in DOMAIN fs}

\* Folders as get_entries can read them, at least with their ".".
FoldersRead(fs, inodes) ==
  \A a \in DOMAIN fs :
    /\ fs[a] \in [size : 0..MaxFolder, entries : Seq([addr : inodes, size : Nat \ {0}, name : DOMAIN Length])]
    /\ fs[a].entries # <<>> /\ TilesFolder(fs[a]) /\ fs[a].size % BlockSize = 0

\* The image is sound when it is mounted first.
ASSUME ShellAssumption ==
  /\ "" \notin DOMAIN Length /\ Name \subseteq DOMAIN Length /\ Trimmed \in [Part -> Part]
  /\ Args \cup Sources \cup Dotted \subseteq Seq(Part) \ {<<>>}
  /\ {MaxNodes, MaxFolder} \subseteq Nat \ {0, 1}
  /\ Inodes \subseteq DOMAIN Image.links \cap Nat
  /\ IsFiniteSet(DOMAIN Image.folders) /\ 2 \in DOMAIN Image.folders
  /\ FoldersRead(Image.folders, DOMAIN Image.links)
  /\ Image.links \in [DOMAIN Image.links -> Nat]
  /\ \A i \in DOMAIN Image.links : Cardinality(Naming(Image.folders, i)) = Image.links[i]

VARIABLES
  tree,      \* root file system: kids, name and mount of each folder
  folders,   \* the folders of the image, by inode
  links,     \* hard_links_to_inode, 0 for a free inode
  data,      \* the inodes of files that are not empty
  cur_dir,
  ro,        \* whether the mounted image is read-only
  panicked,
  failed     \* whether a folder could not grow

vars == <<tree, folders, links, data, cur_dir, ro, panicked, failed>>

Devices == <<<<"hda", Node("device", 1)>>>>       \* DevFS::get_children

\* Ext2Folder::get_children: the entries in order, each a folder or a file.
Listing(a) ==
  [i \in DOMAIN folders[a].entries |->
     LET e == folders[a].entries[i]
     IN <<e.name, Node(IF e.addr \in DOMAIN folders THEN "folder" ELSE "file", e.addr)>>]

Mounted(id) ==
  CASE tree.mount[id] = "dev" -> Devices [] tree.mount[id] = "ext2" -> Listing(2) [] OTHER -> <<>>

Children(n) == IF n.kind = "rootfs" THEN rootfs_children(tree, n.id, Mounted(n.id)) ELSE Listing(n.id)

\* Path::get_node.
node_child(node, part) ==
  IF node \in {NoNode, Panic} THEN node
  ELSE IF IsFolder(node) THEN find(Children(node), Trimmed[part]) ELSE Panic

get_node(p) ==
  LET ns == names(p)
      at[i \in 0..Len(ns)] == IF i = 0 THEN RootNode ELSE node_child(at[i - 1], ns[i])
  IN at[Len(ns)]

\* The IFolder calls of a folder of the root file system go to what is mounted
\* there; only the image takes them.
Target(n) ==
  CASE n.kind = "folder" -> n.id
    [] n.kind = "rootfs" /\ tree.mount[n.id] = "ext2" -> 2
    [] OTHER -> 0

MountPoints == {id \in DOMAIN tree.mount : tree.mount[id] = "ext2"}

Init ==
  /\ tree = [kids |-> [id \in 1..MaxNodes |-> IF id = 1 THEN <<2>> ELSE <<>>],
             name |-> [id \in 1..MaxNodes |-> IF id = 2 THEN "dev" ELSE ""],
             mount |-> [id \in 1..MaxNodes |-> IF id = 2 THEN "dev" ELSE "no"]]
  /\ folders = Image.folders /\ links = Image.links /\ data = {}
  /\ cur_dir = root /\ ro = FALSE /\ panicked = FALSE /\ failed = FALSE

Crash == panicked' = TRUE /\ UNCHANGED <<tree, folders, links, data, cur_dir, ro, failed>>

-----------------------------------------------------------------------------
(* Ext2Folder::create_empty_child and unlink_or_delete_empty_child           *)

Free(a) == links[a] = 0

\* The inode is allocated and written before the folder grows: it stays so when
\* there is no room.  A folder without entries cannot get any.
create_empty_child(a, name) ==
  IF ro \/ folders[a].entries = <<>> \/ ~(\E i \in Inodes : Free(i))
  THEN UNCHANGED <<folders, links, data, failed>>
  ELSE LET i == Min({j \in Inodes : Free(j)})
           new == create_entry(folders[a], name, i)
       IN /\ links' = [links EXCEPT ![i] = 1]
          /\ data' = data \ {i}
          /\ \/ new.size <= MaxFolder /\ folders' = [folders EXCEPT ![a] = new] /\ UNCHANGED failed
             \/ new.size > folders[a].size /\ failed' = TRUE /\ UNCHANGED folders

\* Mutant of unlink_child: the inode goes with the entry, whatever its other links.
unlink_child_all(a, name, full) ==
  LET k == find_entry(folders[a], name)
  IN IF a = 0 \/ k <= 1 THEN UNCHANGED <<folders, links>>
     ELSE /\ links' = [links EXCEPT ![folders[a].entries[k].addr] = 0]
          /\ folders' = [folders EXCEPT ![a] = unlink_entry(folders[a], k)]
\* The first entry has none before it that could take its bytes.  The last link
\* to a child with contents stays.
unlink_child(a, name, full) ==
  LET k == find_entry(folders[a], name)
      child == folders[a].entries[k].addr
  IN IF a = 0 \/ k <= 1 THEN UNCHANGED <<folders, links>>
     ELSE IF links[child] = 1 /\ child \in full THEN UNCHANGED <<folders, links>>
     ELSE /\ links' = [links EXCEPT ![child] = IF @ >= 1 THEN @ - 1 ELSE @]
          /\ folders' = [folders EXCEPT ![a] = unlink_entry(folders[a], k)]

-----------------------------------------------------------------------------
(* Commands *)

\* cd: kept only if there is such a node, file or folder.
cd(arg) ==
  LET dir == path_of(cur_dir, [i \in DOMAIN arg |-> Trimmed[arg[i]]])
  IN /\ ~panicked
     /\ \/ get_node(dir) = Panic /\ Crash
        \/ /\ get_node(dir) # Panic
           /\ cur_dir' = IF get_node(dir) = NoNode THEN cur_dir ELSE dir
           /\ UNCHANGED <<tree, folders, links, data, ro, panicked, failed>>

\* ls, and the look at the current folder of every command that needs one.
ls ==
  ~panicked /\ ~IsFolder(get_node(cur_dir)) /\ Crash

\* mkrootfsdir: no check for a folder of that name.
mkrootfsdir(name) ==
  LET at == get_rootfs_node(tree, cur_dir)
      unused == {id \in 2..MaxNodes : tree.name[id] = ""}
  IN /\ ~panicked
     /\ \/ at = 0 /\ Crash
        \/ /\ at # 0 /\ unused # {}
           /\ tree' = [tree EXCEPT !.kids[at] = Append(@, Min(unused)), !.name[Min(unused)] = name]
           /\ UNCHANGED <<folders, links, data, cur_dir, ro, panicked, failed>>

\* Mutant of rmrootfsdir: what is mounted on the folder does not count.
rmrootfsdir_own(name) ==
  LET at == get_rootfs_node(tree, cur_dir)
  IN /\ ~panicked /\ at # 0
     /\ tree' = del_folder(tree, at, name, {id \in 2..MaxNodes : tree.kids[id] = <<>>})
     /\ UNCHANGED <<folders, links, data, cur_dir, ro, panicked, failed>>
\* rmrootfsdir: the first folder of the name must be empty, with what is mounted
\* on it; the first one that is goes.
rmrootfsdir(name) ==
  LET at == get_rootfs_node(tree, cur_dir)
      empty == {id \in 2..MaxNodes : Children(Node("rootfs", id)) = <<>>}
      named == filter(tree.kids[at], {k \in Range(tree.kids[at]) : tree.name[k] = name})
  IN /\ ~panicked
     /\ \/ at = 0 /\ Crash
        \/ /\ at # 0
           /\ named # <<>> /\ named[1] \in empty
           /\ tree' = del_folder(tree, at, name, empty)
           /\ UNCHANGED <<folders, links, data, cur_dir, ro, panicked, failed>>

\* mount.ext2: the source is a device; whether Ext2FS::new takes it, and whether
\* for writing too, is up to its superblock.
mount_ext2(source, point) ==
  LET file == get_node(path_of(cur_dir, source))
      at == get_rootfs_node(tree, path_of(cur_dir, point))
  IN /\ ~panicked
     /\ \/ file = Panic /\ Crash
        \/ /\ file.kind = "device" /\ at # 0 /\ MountPoints \subseteq {at}
           /\ tree' = [tree EXCEPT !.mount[at] = "ext2"]
           /\ ro' \in BOOLEAN
           /\ UNCHANGED <<folders, links, data, cur_dir, panicked, failed>>

umount(point) ==
  LET at == get_rootfs_node(tree, path_of(cur_dir, point))
  IN /\ ~panicked /\ at # 0
     /\ tree' = [tree EXCEPT !.mount[at] = "no"]
     /\ UNCHANGED <<folders, links, data, cur_dir, ro, panicked, failed>>

\* touch: no check for a file of that name.
touch(arg) ==
  LET p == path_of(cur_dir, arg)
      parent == get_node(del_last(p))
  IN /\ ~panicked /\ last(p) # ""
     /\ \/ parent = Panic /\ Crash
        \/ /\ IsFolder(parent) /\ Target(parent) # 0
           /\ create_empty_child(Target(parent), last(p))
           /\ UNCHANGED <<tree, cur_dir, ro, panicked>>

\* rm: the data go first; then the entry of the argument as it was typed, which
\* is the file's name only if it was not a path.
rm(arg) ==
  LET p == path_of(cur_dir, arg)
      parent == get_node(del_last(p))
      child == find(Children(parent), last(p))
      typed == IF Len(arg) = 1 THEN arg[1] ELSE ""
  IN /\ ~panicked
     /\ \/ parent = Panic /\ Crash
        \/ /\ IsFolder(parent) /\ child.kind = "file" /\ ~ro
           /\ data' = data \ {child.id}
           /\ unlink_child(Target(parent), typed, data \ {child.id})
           /\ UNCHANGED <<tree, cur_dir, ro, panicked, failed>>

\* puts with a redirection, to a file that exists: resized, then written.
puts(arg, empty) ==
  LET file == get_node(path_of(cur_dir, arg))
  IN /\ ~panicked
     /\ \/ file = Panic /\ Crash
        \/ /\ file.kind = "file" /\ ~ro
           /\ data' = IF empty THEN data \ {file.id} ELSE data \cup {file.id}
           /\ UNCHANGED <<tree, folders, links, cur_dir, ro, panicked, failed>>

\* open of a program started from cur_dir: here the path is canonical.
open(arg, trunc, creat) ==
  LET p == canonicalize(IF absolute(arg) THEN arg ELSE append_str(cur_dir, arg))
      parent == get_node(del_last(p))
      node == find(Children(parent), last(p))
  IN /\ ~panicked /\ last(p) # ""
     /\ \/ parent = Panic /\ Crash
        \/ /\ IsFolder(parent) /\ node.kind = "file" /\ trunc /\ ~ro
           /\ data' = data \ {node.id}
           /\ UNCHANGED <<tree, folders, links, cur_dir, ro, panicked, failed>>
        \/ /\ IsFolder(parent) /\ node = NoNode /\ creat /\ Target(parent) # 0
           /\ create_empty_child(Target(parent), last(p))
           /\ UNCHANGED <<tree, cur_dir, ro, panicked>>

Next ==
  \/ ls
  \/ \E arg \in Args : cd(arg) \/ umount(arg) \/ touch(arg) \/ rm(arg)
  \/ \E source \in Sources, arg \in Args : mount_ext2(source, arg)
  \/ \E name \in Name : mkrootfsdir(name) \/ rmrootfsdir(name)
  \/ \E arg \in Args, b \in BOOLEAN : puts(arg, b)
  \/ \E arg \in Args \cup Dotted, b \in BOOLEAN : open(arg, b, ~b)

Spec == Init /\ [][Next]_vars

-----------------------------------------------------------------------------
(* Properties *)

\* Every folder and file has its type: names, inodes and sizes in range, a
\* current path that is absolute, and only files hold data.
TypeOK ==
  /\ \A id \in 1..MaxNodes : /\ Range(tree.kids[id]) \subseteq 2..MaxNodes
                             /\ tree.mount[id] \in {"no", "dev", "ext2"}
  /\ \A a \in DOMAIN folders : \A e \in Range(folders[a].entries) :
       e.addr \in DOMAIN links /\ e.size \in 1..MaxFolder /\ e.name # ""
  /\ links \in [DOMAIN links -> Nat]
  /\ data \subseteq Inodes \cup DOMAIN links /\ data \cap DOMAIN folders = {}
  /\ absolute(cur_dir)
  /\ {ro, panicked, failed} \subseteq BOOLEAN

\* get_entries steps from entry to entry by their sizes and stops at the size of
\* the folder: whatever was created and unlinked, the entries cover the folder
\* from its first byte to its last in whole blocks, each with room for its name.
EntriesTile ==
  /\ TypeOK
  /\ \A a \in DOMAIN folders : TilesFolder(folders[a]) /\ folders[a].size % BlockSize = 0

\* The link count of an inode is the number of entries that name it: none is freed
\* while an entry is left (get_children would panic or show another file under its
\* name) and none is kept without one, but for a child whose folder could not grow.
LinksMatch ==
  \A i \in DOMAIN links :
    /\ Cardinality(Naming(folders, i)) <= links[i]
    /\ ~failed => Cardinality(Naming(folders, i)) = links[i]

\* The folders of the root file system that can be reached from its root.
Reachable ==
  {id \in 1..MaxNodes :
     \A S \in SUBSET (1..MaxNodes) : 1 \in S /\ (\A k \in S : Range(tree.kids[k]) \subseteq S) => id \in S}

\* get_node takes the first child of a name, rmrootfsdir and mkrootfsdir look at the
\* folders of the root file system only: a folder of it that get_children lists is
\* never behind a mounted node of the same name.
OneNodePerName ==
  \A id \in Reachable :
    LET children == Children(Node("rootfs", id))
    IN \A i \in DOMAIN children :
         children[i][2].kind = "rootfs" =>
           \A j \in DOMAIN children : children[j][1] = children[i][1] => children[j][2].kind = "rootfs"

\* rmrootfsdir removes empty folders only: a folder that carries a file system or
\* folders of its own is never cut off from the root, also when several have the
\* same name, and none is hidden behind what is mounted.
NothingCutOff ==
  /\ \A id \in 1..MaxNodes : tree.mount[id] # "no" \/ tree.kids[id] # <<>> => id \in Reachable
  /\ OneNodePerName

\* What a path means by POSIX: from the root on, ".." leaves a folder and does
\* nothing in the root.
Walked(dir, part) ==
  CASE part \in {".", ""} -> dir
    [] part = ".." -> IF dir = <<>> THEN dir ELSE SubSeq(dir, 1, Len(dir) - 1)
    [] OTHER -> Append(dir, part)
Resolved(p) ==
  LET dir[i \in 0..Len(p)] == IF i = 0 THEN <<>> ELSE Walked(dir[i - 1], p[i])
  IN dir[Len(p)]

\* canonicalize goes backwards and counts the ".." it meets: whatever the current
\* folder, the path a program opens is the one a forward walk resolves.
CanonicalIsResolved ==
  \A arg \in Args \cup Dotted : names(canonicalize(append_str(cur_dir, arg))) = Resolved(append_str(cur_dir, arg))

\* Which names are in which folders, and for which inodes.
Named(fs) == UNION {{<<a, e.name, e.addr>> : e \in Range(fs[a].entries)} : a \in DOMAIN fs}

\* A step of the shell or of a program changes one folder by one entry: the others
\* keep name and inode, in all folders.
OneEntryAtATime ==
  [][Cardinality(Named(folders) \ Named(folders')) + Cardinality(Named(folders') \ Named(folders)) <= 1]_vars
=============================================================================
