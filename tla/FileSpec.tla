------------------------------ MODULE FileSpec ------------------------------
(***************************************************************************)
(* What programs can rely on of files: a file is a sequence of bytes, an   *)
(* open file has a position in it.  A read gives the bytes from the        *)
(* position on; a write makes the file reach from the position, or from    *)
(* its end if it was opened for appending, as far as the bytes would, with *)
(* zeroes in between, and puts them there: but only if that is within the  *)
(* first InodeSize bytes, otherwise somewhere before.  A forked process    *)
(* has positions of its own.                                               *)
(***************************************************************************)
EXTENDS Integers, Sequences

CONSTANTS Files, Processes, Values, Flags, Counts, Offsets, Wide, InodeSize

VARIABLES
  contents,   \* [Files -> [exists, bytes]]
  desc,       \* [Processes -> the open file, or Closed]
  got         \* what the last step, if it was a read, has read

Closed == [open |-> FALSE]
Nothing == <<>>
bytes(f) == contents[f].bytes

Init ==
  /\ contents = [f \in Files |-> [exists |-> FALSE, bytes |-> <<>>]]
  /\ desc = [p \in Processes |-> Closed]
  /\ got = Nothing

Open(p, f, flags) ==
  /\ desc[p] = Closed /\ (contents[f].exists \/ "CREAT" \in flags)
  /\ contents' = [contents EXCEPT ![f] =
       [exists |-> TRUE, bytes |-> IF {"TRUNC", "WR"} \subseteq flags THEN <<>> ELSE @.bytes]]
  /\ desc' = [desc EXCEPT ![p] = [open |-> TRUE, file |-> f, pos |-> 0, flags |-> flags]]
  /\ got' = Nothing

Close(p) ==
  /\ desc[p] # Closed /\ desc' = [desc EXCEPT ![p] = Closed]
  /\ got' = Nothing /\ UNCHANGED contents

Fork(p, q) ==
  /\ desc[p] # Closed /\ desc[q] = Closed /\ desc' = [desc EXCEPT ![q] = desc[p]]
  /\ got' = Nothing /\ UNCHANGED contents

Read(p, count) ==
  /\ desc[p] # Closed /\ "RD" \in desc[p].flags
  /\ LET s == bytes(desc[p].file)
         end == IF desc[p].pos + count < Len(s) THEN desc[p].pos + count ELSE Len(s)
     IN /\ got' = SubSeq(s, desc[p].pos + 1, end)
        /\ desc' = [desc EXCEPT ![p].pos = @ + Len(got')]
  /\ UNCHANGED contents

Write(p, count, v) ==
  /\ desc[p] # Closed /\ "WR" \in desc[p].flags
  /\ LET f == desc[p].file
         s == bytes(f)
         at == IF "APPEND" \in desc[p].flags THEN Len(s) ELSE desc[p].pos
         len == IF at + count > Len(s) THEN at + count ELSE Len(s)
     IN /\ \E start \in 0..at :
             /\ at < InodeSize => start = at
             /\ contents' = [contents EXCEPT ![f].bytes =
                  [i \in 1..len |-> IF i \in (start + 1)..(start + count) THEN v ELSE IF i <= Len(s) THEN s[i] ELSE 0]]
        /\ desc' = [desc EXCEPT ![p].pos = at + count]
  /\ got' = Nothing

\* For want of space; a file opened for appending may have moved to its end.
WriteFails(p) ==
  /\ desc[p] # Closed
  /\ \E pos \in {desc[p].pos, Len(bytes(desc[p].file))} : desc' = [desc EXCEPT ![p].pos = pos]
  /\ got' = Nothing /\ UNCHANGED contents

\* From the beginning, the position or the end of the file; positions wrap around.
Seek(p, offset) ==
  /\ desc[p] # Closed
  /\ \E from \in {0, desc[p].pos, Len(bytes(desc[p].file))} :
       desc' = [desc EXCEPT ![p].pos = (from + offset) % Wide]
  /\ got' = Nothing /\ UNCHANGED contents

Next ==
  \E p \in Processes :
    \/ \E f \in Files, flags \in Flags : Open(p, f, flags)
    \/ Close(p) \/ (\E q \in Processes : Fork(p, q))
    \/ (\E n \in Counts : Read(p, n)) \/ (\E n \in Counts, v \in Values : Write(p, n, v)) \/ WriteFails(p)
    \/ \E offset \in Offsets : Seek(p, offset)

Spec == Init /\ [][Next]_<<contents, desc, got>>
=============================================================================
