\* A heap of nine bytes with two places to stash a block.
CONSTANTS
    Base = 6
    HeapLen = 9
    StashSize = 2
    Sizes = {1, 2, 3}
    Aligns = {1, 2, 4}
SPECIFICATION Spec
INVARIANTS BlocksDisjoint CountExact HeapWellFormed StashTriedIsTheLoop
