\* A sendmsg and the ACK of the packet before it race on a lossless network.
CONSTANTS
    c = c
    s = s
    Client <- c
    Server <- s
    SeqMod = 4
    MaxData = 2
    Senders <- MCClientOnly
    MaxRetries = 1
    MaxLoss = 0
    RcvBuf = 2
    AllocFails = FALSE
SPECIFICATION Spec
INVARIANT TxqBehindRtq
CHECK_DEADLOCK FALSE
