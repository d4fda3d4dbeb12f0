\* Two processes that share two pipes and have an open file each.
CONSTANTS
    Procs = {p1, p2}
    StdFds = 1
    MaxFds = 3
    MaxNodes = 1
    MaxPipes = 2
    MaxBuf = 0
    Counts = {1}
SPECIFICATION Spec
SYMMETRY Symmetry
INVARIANTS ReferencesExact NoDanglingIndex TablesInBounds AllPipesFreed
\* A process can wait for data only it could write, and a panic stops the machine.
CHECK_DEADLOCK FALSE
