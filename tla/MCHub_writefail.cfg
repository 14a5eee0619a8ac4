CONSTANTS
    c1 = c1
    c2 = c2
    c3 = c3
    NoClient = NoClient
    Clients <- MCClients
    MaxMsgs = 3
    QueueCap = 1
    BcastCap = 1

SPECIFICATION Spec

PROPERTY WriteFailureTearsDown

\* Run never returns: a state with no enabled step is the server idle in
\* its select, not a deadlock.  What must finish is TeardownCompletes.
CHECK_DEADLOCK FALSE
