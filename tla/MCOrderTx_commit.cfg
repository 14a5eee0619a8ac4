\* Two callers, a pool of one connection: COMMIT may take effect and its
\* acknowledgement be lost.  Deadlock checking is off: once the ids are
\* used up no call can start, which only the bound causes.
CONSTANTS
    w1 = w1
    w2 = w2
    o1 = o1
    o2 = o2
    o3 = o3
    w3 = w3
    NoOrder = NoOrder
    Callers <- MCCallers
    OrderIds <- MCOrderIds
    MaxItems = 2
    MaxOpenConns = 1
SPECIFICATION Spec

INVARIANT ErrorMeansNoOrder

CHECK_DEADLOCK FALSE
