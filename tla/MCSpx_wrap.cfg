\* The sequence number wraps (SeqMod stands for 2^16) while data is queued; lossless network.
CONSTANTS
    c = c
    s = s
    Client <- c
    Server <- s
    SeqMod = 2
    MaxData = 2
    Senders <- MCClientOnly
    MaxRetries = 1
    MaxLoss = 0
    RcvBuf = 2
    AllocFails = FALSE
SPECIFICATION Spec
PROPERTY AckedLeavesRetransmitQueue
CHECK_DEADLOCK FALSE
