\* Three concurrent callers and a pool of two connections of which one may
\* stay idle (the code: 25 open, 5 idle; more callers than connections, and
\* fewer idle slots than connections, so calls queue for the pool and
\* released connections are closed).  Result sets of up to one row and
\* transactions of up to two statements: every return path is reached.
CONSTANTS
    r1 = r1
    r2 = r2
    r3 = r3
    Callers <- MCCallers
    MaxOpenConns = 2
    MaxIdleConns = 1
    MaxRows = 1
    MaxStmts = 2
SPECIFICATION Spec
INVARIANT TypeOK
INVARIANT ConnAccounting
PROPERTY EveryCallReturns
\* Deadlock checking is off so that a state in which callers wait for a
\* connection nobody gives back is reported as a violation of
\* EveryCallReturns, with its trace; an idle caller can always call, so
\* every stuck state has a caller that never returns.
CHECK_DEADLOCK FALSE
