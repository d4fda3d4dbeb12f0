------------------------------- MODULE MCExt2 -------------------------------
(***************************************************************************)
(* An instance for TLC: nine free blocks in three groups, two files.  One  *)
(* of them grows, in one step or several, to four or five data blocks, the *)
(* last ones behind the doubly indirect block: room enough for the new     *)
(* children a second growth there takes.  The other has one block at most  *)
(* and grows within it; the disk fills up and resizes fail half way.       *)
(***************************************************************************)
EXTENDS Ext2

MCReserved == {0}
MCReservedInodes == {1, 2, 4, 6}
MCSizes == [a \in 1..6 |-> IF a = 3 THEN {0, 4, 12, 13, 16, 17} ELSE {0, 3, 4}]
=============================================================================
