\* A parent that exits without waiting for its one child.
CONSTANTS
    MaxTasks = 2
    MaxLaunches = 1
    ExitCodes = {0}
    WaitPids = {2}
    SIGILL = SIGILL
    NoOutcome = NoOutcome
SPECIFICATION FairSpec
PROPERTY ShellResumes
