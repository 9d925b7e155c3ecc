CONSTANTS
    a = a
    b = b
    c1 = c1
    c2 = c2
    NoChunk = NoChunk
    Files = {a, b}
    ModeOf <- MCModeOf
    NonBlock = {}
    Frag = 1
    NumFrag = 4
    MaxAdvance = 1
    MaxXfer = 1
    Chunks = {c1, c2}
    AllocFails = TRUE
    Signals = TRUE
SPECIFICATION Spec
SYMMETRY ChunkSymmetry
INVARIANT TypeOK OpenExclusive
