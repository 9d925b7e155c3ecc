\* Both users may release; the network loses nothing.
CONSTANTS
    c = c
    s = s
    Client <- c
    Server <- s
    SeqMod = 4
    MaxData = 1
    Senders <- MCClientOnly
    MaxRetries = 1
    MaxLoss = 0
    RcvBuf = 2
    AllocFails = FALSE
SPECIFICATION Spec
INVARIANT NoTimerAfterRelease
CHECK_DEADLOCK FALSE
