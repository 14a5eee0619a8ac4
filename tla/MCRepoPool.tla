----------------------------- MODULE MCRepoPool -----------------------------
(* Three goroutines calling repository methods through one pool.           *)
EXTENDS RepoPool

CONSTANTS r1, r2, r3

MCCallers == {r1, r2, r3}
==============================================================================
