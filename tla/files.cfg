\* Two processes, two files, one block for both of them.
CONSTANTS
    Processes = {p, q}
    Files = {f, g}
    Blocks = {1}
    BlockSize = 3
    InodeSize = 2
    Values = {1}
    Flags <- MCFlags
    Counts = {0, 1, 2}
    Offsets <- MCOffsets
    Wide = 4
SYMMETRY MCSymmetry
CONSTRAINT MCNotParted
SPECIFICATION Spec
INVARIANTS HandlesFresh BlocksOwned
PROPERTY ImplementsFileSpec
\* A kernel panic stops the machine.
CHECK_DEADLOCK FALSE
