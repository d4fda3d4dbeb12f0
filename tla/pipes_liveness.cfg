\* Two processes that have the keyboard and one pipe: who waits for data or for the
\* end of the file gets it.
CONSTANTS
    Procs = {p1, p2}
    StdFds = 1
    MaxFds = 3
    MaxNodes = 0
    MaxPipes = 1
    MaxBuf = 1
    Counts = {1}
SPECIFICATION FairSpec
PROPERTY ReadersWake
\* A process can wait for data only it could write, and a panic stops the machine.
CHECK_DEADLOCK FALSE
