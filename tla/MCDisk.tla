------------------------------- MODULE MCDisk -------------------------------
EXTENDS Disk
CONSTANTS hda, hdb
MCDrives == {hda, hdb}
\* A drive with a partition between its table and its last sector, a drive without.
NoPart == [first |-> 0, count |-> 0]
MCPartitions ==
  [d \in MCDrives |-> [p \in 1..4 |-> IF d = hda /\ p = 2 THEN [first |-> 1, count |-> 1] ELSE NoPart]]
=============================================================================
