SPECIFICATION Spec
CONSTANTS
  NDirect = 1
  Ppb = 2
  BlockSize = 4
  InodeSize = 2
  Groups = 3
  BlocksPerGroup = 4
  InodesPerGroup = 2
  Special = 1
  Reserved <- MCReserved
  ReservedInodes <- MCReservedInodes
  Sizes <- MCSizes
  Offsets = {0, 3}
  MaxResizes = 5
  MaxWrites = 1
INVARIANTS BitmapExact CountsAgree BlocksExist TransfersExact
PROPERTY ContentsKept
CHECK_DEADLOCK FALSE
