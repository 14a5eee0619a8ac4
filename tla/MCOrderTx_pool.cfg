\* Three callers and a pool of two connections (the code has 25 and any
\* number of callers): transactions queue for the pool.
\* Deadlock checking is off: once the ids are used up no call can start,
\* which only the bound causes.
CONSTANTS
    w1 = w1
    w2 = w2
    o1 = o1
    o2 = o2
    o3 = o3
    w3 = w3
    NoOrder = NoOrder
    Callers <- MCCallers3
    OrderIds <- MCOrderIds
    MaxItems = 2
    MaxOpenConns = 2
SPECIFICATION Spec
PROPERTY CreateOrderReturns
CHECK_DEADLOCK FALSE
