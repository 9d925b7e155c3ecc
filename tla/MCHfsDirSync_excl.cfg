CONSTANTS
    t1 = t1
    t2 = t2
    t3 = t3
    d1 = d1
    Threads <- MCThreads
    Dirs <- MCDirs
SYMMETRY ThreadSymmetry
SPECIFICATION Spec
INVARIANT ReadWriteExclusion
