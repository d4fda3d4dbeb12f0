------------------------------- MODULE Slots -------------------------------
(***************************************************************************)
(* Vectors of Option values used as tables of slots (Vec<Option<T>>).  The *)
(* kernel keeps its tasks, signal queues, pipes, open nodes and file       *)
(* descriptors this way: an index is a name, so an entry in the middle is  *)
(* set to None and only the None's at the end are popped.                  *)
(* In each operator, some is the set of indices of the Some entries of s.  *)
(***************************************************************************)
EXTENDS Naturals, Sequences, FiniteSetsExt

\* Mutant of the next definition: one None too many is popped.
DrainOneTooMany(s, some) == SubSeq(s, 1, Max({1} \cup some) - 1)

\* "Drain None's if it wouldn't affect the indices of elements that are Some":
\* what is left of s when everything above the last of its Some entries is popped.
Drain(s, some) == SubSeq(s, 1, Max({0} \cup some))

\* The index a new entry gets where the code takes the first None, and pushes
\* if there is none.
FirstFree(s, some) == Min((1..Len(s) + 1) \ some)

\* Entry k of s set to x, where k is at most one above the end of s.
Put(s, k, x) == [j \in 1..Len(s) \cup {k} |-> IF j = k THEN x ELSE s[j]]
=============================================================================
