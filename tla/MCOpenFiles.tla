---------------------------- MODULE MCOpenFiles ----------------------------
(***************************************************************************)
(* An instance of OpenFiles for TLC: the flags of readers, writers and     *)
(* appenders, with and without creating and truncating.  Processes and     *)
(* files can be exchanged.                                                 *)
(***************************************************************************)
EXTENDS OpenFiles, TLC

MCFlags == {{"RD"}, {"RD", "WR", "CREAT"}, {"WR", "TRUNC"}, {"RD", "WR", "APPEND", "CREAT"}}
MCOffsets == {-1, 1}
MCSymmetry == Permutations(Processes) \cup Permutations(Files)
\* Once copies of an inode have parted the properties say nothing more.
MCNotParted == ~parted
=============================================================================
