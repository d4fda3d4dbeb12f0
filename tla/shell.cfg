\* The image on one of two folders, two inodes to give.
CONSTANTS
    BlockSize = 24
    Header = 8
    Length <- MCLength
    Trimmed <- MCTrimmed
    Name <- MCName
    Args <- MCArgs
    Sources <- MCSources
    Dotted <- MCDotted
    Image <- MCImage
    Inodes = {5, 6}
    MaxNodes = 3
    MaxFolder = 72
SPECIFICATION Spec
INVARIANTS EntriesTile LinksMatch NothingCutOff CanonicalIsResolved
PROPERTY OneEntryAtATime
\* A kernel panic stops the machine.
CHECK_DEADLOCK FALSE
