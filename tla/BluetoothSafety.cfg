\* Chunks of one to three bytes, so that shorter chunks fall on top of longer ones.
CONSTANTS
    r1 = r1
    r2 = r2
    w1 = w1
    w2 = w2
    BufLen = 4
    Chunks <- ChunkSizes
    MaxStream = 5
    MaxFaults = 1
    Readers <- TwoReaders
    Writers <- TwoWriters
SYMMETRY Tasks
SPECIFICATION SerialSpec
INVARIANTS
    SerialTypeOK
    TextInOnePiece
    ReadsAdvance
    WriteFaithful
PROPERTIES
    ImplementsMailbox
