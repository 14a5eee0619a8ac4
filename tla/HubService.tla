----------------------------- MODULE HubService -----------------------------
(***************************************************************************)
(* What the hub promises its clients (spec sections 4.3 and 5), without    *)
(* goroutines, channels or capacities: clients join once and leave once;   *)
(* published messages wait in a FIFO; one fan-out step hands the oldest    *)
(* one to every live client except those it evicts, which leave for good.  *)
(* Which clients are evicted is left open: that is the backpressure policy *)
(* the implementation decides.                                             *)
(***************************************************************************)
EXTENDS Sequences

CONSTANTS Clients, Msgs

VARIABLES
    live,     \* clients currently registered
    gone,     \* clients removed (unregistered or evicted)
    pending,  \* messages accepted for fan-out, oldest first
    log       \* log[c]: the messages handed to c, in order

svars == <<live, gone, pending, log>>

Init ==
    /\ live = {}
    /\ gone = {}
    /\ pending = <<>>
    /\ log = [c \in Clients |-> <<>>]

Join(c) ==
    /\ c \notin live \cup gone
    /\ live' = live \cup {c}
    /\ UNCHANGED <<gone, pending, log>>

Leave(c) ==
    /\ c \in live
    /\ live' = live \ {c}
    /\ gone' = gone \cup {c}
    /\ UNCHANGED <<pending, log>>

Publish(m) ==
    /\ pending' = Append(pending, m)
    /\ UNCHANGED <<live, gone, log>>

FanOut ==
    /\ pending # <<>>
    /\ \E evicted \in SUBSET live :
          /\ live' = live \ evicted
          /\ gone' = gone \cup evicted
          /\ log' = [c \in Clients |->
                        IF c \in live \ evicted THEN Append(log[c], Head(pending))
                        ELSE log[c]]
    /\ pending' = Tail(pending)

Next ==
    \/ \E c \in Clients : Join(c) \/ Leave(c)
    \/ \E m \in Msgs : Publish(m)
    \/ FanOut

(* Every accepted message is eventually fanned out.                        *)
Spec == Init /\ [][Next]_svars /\ WF_svars(FanOut)
=============================================================================
