------------------------------- MODULE MCHub -------------------------------
(* Model of the hub for TLC: two or three connections, two or three       *)
(* messages, and channel capacities of 1 so that a full Client.send       *)
(* (eviction) and a full Hub.broadcast (dropped message) are both reached. *)
(* Clients are interchangeable model values: nothing in hub.go orders or  *)
(* names them, so permuting them is a symmetry of every invariant.        *)
EXTENDS Hub, TLC

CONSTANTS c1, c2, c3

MCClients == {c1, c2}
MCClients3 == {c1, c2, c3}

ClientSymmetry == Permutations(MCClients)
ClientSymmetry3 == Permutations(MCClients3)
=============================================================================
