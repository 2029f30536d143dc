\* Commands arrive in pieces of any size.
CONSTANTS
    Ctl = ctl
    BufLen = 5
    Chunks <- AnyPieces
    MaxStream = 8
    MaxFaults = 1
    Readers <- OneReader
    Writers <- NoWriters
SPECIFICATION PathSpec
INVARIANTS
    NumbersInPlace
