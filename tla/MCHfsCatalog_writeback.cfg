\* One user thread and one syncer (hfs_cat_commit), two names, holders that
\* dirty and rename their entries: write-back by hfs_cat_put, hfs_cat_move
\* (write_entry of a rekeyed entry) and hfs_cat_commit.  n2 is "%n1" (the
\* AppleDouble header name of n1); directory holders look up "..".  Only the
\* rename's B-tree calls may fail.
CONSTANTS
    t1 = t1
    t2 = t2
    t3 = t3
    n1 = n1
    n2 = n2
    Root = Root
    NoThread = NoThread
    NoEntry = NoEntry
    NoName = NoName
    NoRec = NoRec
    Threads <- MCThreads2
    Names <- MCNames2
    MaxEntries = 2
    ChunkSize = 2
    MaxValence = 2
    FirstCnid = 16
    MaxCnid = 17
    FailSites <- MCMoveSites
    HolderDirties = TRUE
    Syncers <- MCSyncers2
    DotDot = TRUE
    Hdr <- MCHdr2
    Renames = TRUE
SPECIFICATION Spec
INVARIANT CacheAgreesWithDisk RefCountExact DirtyListed
