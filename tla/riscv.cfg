\* Every parcel decoded, and every instruction of the instance executed once.
CONSTANTS
  XLen = 8
  Registers = {0, 1, 2}
  Mapped = {0, 1, 2, 3, 4, 5, 6, 7, 8, 9, 10, 11}
  InitialPc = {0, 4, 126, 254}
  InitialValue = {0, 1, 2, 7, 9, 127, 128, 131, 255}
  Instructions <- MCInstructions
  SraBit = 8
  MaxTicks = 1
  Parcels <- MCParcels
  Followers <- MCFollowers
  FullWords <- MCFullWords
SPECIFICATION MCSpec
INVARIANTS OperationAsInManual ImmediateAsInManual
PROPERTY ImplementsIsa
\* A decoded word, and a machine after its tick, are the end of a behaviour.
CHECK_DEADLOCK FALSE
