\* Two concurrent callers, three order ids, items slices of length 0..2,
\* and a pool of one connection, so one transaction waits for the other;
\* CreateOrderReturns: the waiting call is served once the other returns.
\* Deadlock checking is off: once the ids are used up no call can start,
\* which only the bound causes.
CONSTANTS
    w1 = w1
    w2 = w2
    o1 = o1
    o2 = o2
    o3 = o3
    w3 = w3
    NoOrder = NoOrder
    Callers <- MCCallers
    OrderIds <- MCOrderIds
    MaxItems = 2
    MaxOpenConns = 1
SPECIFICATION Spec
INVARIANT TypeOK
INVARIANT OkMeansCommitted
PROPERTY StoreSpec
PROPERTY CreateOrderReturns
CHECK_DEADLOCK FALSE
