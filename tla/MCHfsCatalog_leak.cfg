\* Two threads creating the same name while B-tree inserts may fail.
CONSTANTS
    t1 = t1
    t2 = t2
    t3 = t3
    n1 = n1
    n2 = n2
    Root = Root
    NoThread = NoThread
    NoEntry = NoEntry
    NoName = NoName
    NoRec = NoRec
    Threads <- MCThreads2
    Names <- MCNames1
    MaxEntries = 1
    ChunkSize = 1
    MaxValence = 1
    FirstCnid = 16
    MaxCnid = 17
    FailSites <- MCAllSites
    HolderDirties = FALSE
    Syncers <- MCNoSyncers
    DotDot = FALSE
    Hdr <- MCNoHdr1
    Renames = FALSE
SYMMETRY ThreadSymmetry2
SPECIFICATION Spec
INVARIANT CacheAgreesWithDisk
