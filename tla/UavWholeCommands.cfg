\* Every command arrives in one piece; three of them.
CONSTANTS
    Ctl = ctl
    BufLen = 5
    Chunks <- WholeCommands
    MaxStream = 12
    MaxFaults = 1
    Readers <- OneReader
    Writers <- NoWriters
SPECIFICATION PathFairSpec
INVARIANTS
    OneCommandInOrder
PROPERTIES
    NewestApplied
    ChunkReadOrReplaced
