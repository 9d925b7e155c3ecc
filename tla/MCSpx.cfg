\* Client connects to a listening Server and sends over a network that may lose one packet; skb_clone may fail.
CONSTANTS
    c = c
    s = s
    Client <- c
    Server <- s
    SeqMod = 4
    MaxData = 2
    Senders <- MCClientOnly
    MaxRetries = 1
    MaxLoss = 1
    RcvBuf = 2
    AllocFails = TRUE
SPECIFICATION Spec
INVARIANT TypeOK InOrderDelivery
CHECK_DEADLOCK FALSE
