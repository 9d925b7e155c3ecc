\* Two threads sharing one name of the root, B-tree failures on, holders
\* that do not dirty their entries (see MCHfsCatalog_writeback.cfg).
\* No symmetry: NoLostWakeup is a liveness property.
CONSTANTS
    t1 = t1
    t2 = t2
    t3 = t3
    n1 = n1
    n2 = n2
    Root = Root
    NoThread = NoThread
    NoEntry = NoEntry
    NoName = NoName
    NoRec = NoRec
    Threads <- MCThreads2
    Names <- MCNames1
    MaxEntries = 2
    ChunkSize = 1
    MaxValence = 1
    FirstCnid = 16
    MaxCnid = 17
    FailSites <- MCAllSites
    HolderDirties = FALSE
    Syncers <- MCNoSyncers
    DotDot = FALSE
    Hdr <- MCNoHdr1
    Renames = FALSE
SPECIFICATION Spec
INVARIANT TypeOK QuiescentValence UniqueHashed RefCountExact DirHasThread
PROPERTY NoLostWakeup
