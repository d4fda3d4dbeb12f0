\* Two programs one after the other in up to three slots, every pid a wait can name.
CONSTANTS
    MaxTasks = 3
    MaxLaunches = 2
    ExitCodes = {0, 1}
    WaitPids = {1, 2, 3, 4}
    SIGILL = SIGILL
    NoOutcome = NoOutcome
SPECIFICATION FairSpec
INVARIANTS QueuePerProcess TickInBounds ReportedOnce
PROPERTIES NoStaleParent DeadStaysDead WaitIsHonest RoundRobin WaitFinishes
\* A kernel panic stops the machine.
CHECK_DEADLOCK FALSE
