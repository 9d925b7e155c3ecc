\* Client sends one packet over a network that may lose one: outstanding data is acknowledged or the connection closed.
CONSTANTS
    c = c
    s = s
    Client <- c
    Server <- s
    SeqMod = 4
    MaxData = 1
    Senders <- MCClientOnly
    MaxRetries = 1
    MaxLoss = 1
    RcvBuf = 2
    AllocFails = FALSE
SPECIFICATION Spec
PROPERTY DataAcked
CHECK_DEADLOCK FALSE
