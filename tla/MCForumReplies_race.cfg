CONSTANTS
    t1 = t1
    t2 = t2
    p1 = p1
    p2 = p2
    p3 = p3
    w1 = w1
    w2 = w2
    NoThread = NoThread
    Threads <- MCThreads
    Posts <- MCPosts
    Callers <- TwoCallers
    UpdateMayFail = FALSE
    ReplyMayBeLost = FALSE
    CascadeDelete = TRUE

SPECIFICATION Spec

INVARIANT ReplyCountConsistent

\* The bounded post ids run out: a state with no enabled step is every
\* caller idle after all creates and deletes, not a stuck caller.
CHECK_DEADLOCK FALSE
