\* Liveness is checked with two messages (one fewer than the safety run):
\* with queues of one slot that still fills a queue and evicts a client.
CONSTANTS
    c1 = c1
    c2 = c2
    c3 = c3
    NoClient = NoClient
    Clients <- MCClients
    MaxMsgs = 2
    QueueCap = 1
    BcastCap = 1

SPECIFICATION Spec

PROPERTY TeardownCompletes

\* Run never returns: a state with no enabled step is the server idle in
\* its select, not a deadlock.  Fairness makes the properties below say what must finish.
CHECK_DEADLOCK FALSE
