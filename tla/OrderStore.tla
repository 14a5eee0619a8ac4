---------------------------- MODULE OrderStore ----------------------------
(***************************************************************************)
(* What OrderRepository.CreateOrder promises the readers of orders and     *)
(* order_items (GetOrderByID, GetUserOrders): a call either makes one new  *)
(* order visible together with every item it was given, in one step, or   *)
(* makes nothing visible.                                                  *)
(***************************************************************************)
EXTENDS Integers

CONSTANTS Callers, OrderIds, MaxItems, NoReq

VARIABLES
    req,      \* req[w]: item count of w's CreateOrder in progress, or NoReq
    orders,   \* the committed orders rows
    itemsOf   \* itemsOf[o]: the committed order_items rows of order o

svars == <<req, orders, itemsOf>>

SInit ==
    /\ req = [w \in Callers |-> NoReq]
    /\ orders = {}
    /\ itemsOf = [o \in OrderIds |-> 0]

Request(w, n) ==
    /\ req[w] = NoReq
    /\ req' = [req EXCEPT ![w] = n]
    /\ UNCHANGED <<orders, itemsOf>>

Create(w, o) ==
    /\ req[w] # NoReq
    /\ o \notin orders
    /\ orders' = orders \cup {o}
    /\ itemsOf' = [itemsOf EXCEPT ![o] = req[w]]
    /\ req' = [req EXCEPT ![w] = NoReq]

Abort(w) ==
    /\ req[w] # NoReq
    /\ req' = [req EXCEPT ![w] = NoReq]
    /\ UNCHANGED <<orders, itemsOf>>

SNext ==
    \E w \in Callers :
        \/ \E n \in 0..MaxItems : Request(w, n)
        \/ \E o \in OrderIds : Create(w, o)
        \/ Abort(w)

Spec == SInit /\ [][SNext]_svars
=============================================================================
