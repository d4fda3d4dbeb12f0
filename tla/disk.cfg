SPECIFICATION Spec
CONSTANTS
  hda = hda
  hdb = hdb
  Drives <- MCDrives
  Partitions <- MCPartitions
  SectorSize = 4
  NSectors = 3
  Byte = 4
  Nibble = 2
  MaxLen = 9
  MaxWrites = 1
INVARIANT WritesAreHonest
PROPERTIES ImplementsByteDevice PartitionsConfined
CHECK_DEADLOCK FALSE
