\* Words of two bytes, blocks of one and two bytes, two at a time.
CONSTANTS
    Word = 2
    Space = 52
    StackSize = 3
    StashSize = 2
    Sizes = {1, 2}
    AnySize = FALSE
    MaxHeld = 2
    MaxDepth = 2
    Files <- MCFiles
    File <- MCFile
    Args <- MCArgs
    Envs <- MCEnvs
    Length <- MCLength
SPECIFICATION Spec
INVARIANTS HeapMirrorsRegions ProgramIsWhole InterpreterArguments
\* A process that has exited does nothing more.
CHECK_DEADLOCK FALSE
