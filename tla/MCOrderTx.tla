----------------------------- MODULE MCOrderTx -----------------------------
EXTENDS OrderTx

CONSTANTS w1, w2, w3, o1, o2, o3

MCCallers == {w1, w2}
MCCallers3 == {w1, w2, w3}
MCOrderIds == {o1, o2, o3}
=============================================================================
