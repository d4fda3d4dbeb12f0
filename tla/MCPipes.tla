------------------------------ MODULE MCPipes ------------------------------
(***************************************************************************)
(* Small instances of Pipes for TLC.                                       *)
(***************************************************************************)
EXTENDS Pipes, TLC

\* Processes are interchangeable; only safety runs use the symmetry.
Symmetry == Permutations(Procs)
=============================================================================
