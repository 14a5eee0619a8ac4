\* Three connections, so that one fan-out can evict two clients while a
\* third stays live.  Only invariants are checked here, under client
\* symmetry (which TLC does not apply soundly to liveness).
CONSTANTS
    c1 = c1
    c2 = c2
    c3 = c3
    NoClient = NoClient
    Clients <- MCClients3
    MaxMsgs = 2
    QueueCap = 1
    BcastCap = 1

SPECIFICATION Spec
SYMMETRY ClientSymmetry3

INVARIANT NoPanic
INVARIANT Lifecycle
INVARIANT GapFreeDelivery
INVARIANT WireFIFO

\* Run never returns: a state with no enabled step is the server idle in
\* its select, not a deadlock.  What must finish is stated in MCHub_live.cfg.
CHECK_DEADLOCK FALSE
