------------------------------ MODULE OrderTx ------------------------------
(***************************************************************************)
(* OrderRepositoryImpl.CreateOrder (src/backend/repository/order.go): a    *)
(* transaction that inserts the order row, one order_items row per item,   *)
(* then commits, with tx.Rollback deferred.  Callers run concurrently; each *)
(* statement is one atomic step and may fail.  Under PostgreSQL's default  *)
(* READ COMMITTED, rows written by an open transaction are invisible to    *)
(* other sessions, so the visible state is what has been committed; the    *)
(* transaction's own rows are kept per caller until commit or rollback.   *)
(* Prices, quantities, user and status are data the question does not     *)
(* tell apart and are left out; an item is counted.                        *)
(***************************************************************************)
EXTENDS Integers, FiniteSets

CONSTANTS
    Callers,    \* concurrent callers of CreateOrder
    OrderIds,   \* ids uuid.New() may return for orders
    MaxItems,   \* longest items slice a caller passes
    MaxOpenConns, \* database.Init: DB.SetMaxOpenConns(25)
    NoOrder     \* no order row inserted yet in the transaction

ASSUME /\ NoOrder \notin OrderIds
       /\ MaxOpenConns \in Nat \ {0}

VARIABLES
    orders,    \* committed orders rows
    itemsOf,   \* committed order_items rows per order
    used,      \* order ids uuid.New() has returned
    pc,        \* where each caller is in CreateOrder
    want,      \* len(items) of the caller's call
    k,         \* index of the range loop over items
    txOrder,   \* the order row inserted in the caller's open transaction
    txItems,   \* order_items rows inserted in the caller's open transaction
    orderID,   \* order.ID of the caller's *models.Order, set by CreateOrder
    ret        \* what the caller's last CreateOrder returned: none, ok, err

ovars == <<orders, itemsOf, used, pc, want, k, txOrder, txItems, orderID, ret>>

TypeOK ==
    /\ orders \subseteq OrderIds
    /\ itemsOf \in [OrderIds -> 0..MaxItems]
    /\ used \subseteq OrderIds
    /\ pc \in [Callers -> {"idle", "begin", "order", "items"}]
    /\ want \in [Callers -> 0..MaxItems]
    /\ k \in [Callers -> 0..MaxItems]
    /\ txOrder \in [Callers -> OrderIds \cup {NoOrder}]
    /\ txItems \in [Callers -> 0..MaxItems]
    /\ orderID \in [Callers -> OrderIds \cup {NoOrder}]
    /\ ret \in [Callers -> {"none", "ok", "err"}]

Init ==
    /\ orders = {}
    /\ itemsOf = [o \in OrderIds |-> 0]
    /\ used = {}
    /\ pc = [w \in Callers |-> "idle"]
    /\ want = [w \in Callers |-> 0]
    /\ k = [w \in Callers |-> 0]
    /\ txOrder = [w \in Callers |-> NoOrder]
    /\ txItems = [w \in Callers |-> 0]
    /\ orderID = [w \in Callers |-> NoOrder]
    /\ ret = [w \in Callers |-> "none"]

(* Returning from CreateOrder: the deferred Rollback discards whatever the *)
(* transaction wrote (after a Commit it is a no-op).                       *)
Finish(w) ==
    /\ pc' = [pc EXCEPT ![w] = "idle"]
    /\ txOrder' = [txOrder EXCEPT ![w] = NoOrder]
    /\ txItems' = [txItems EXCEPT ![w] = 0]

(* An early return: return nil, err.                                       *)
Fail(w) ==
    /\ Finish(w)
    /\ ret' = [ret EXCEPT ![w] = "err"]

(* An open transaction holds one of the *sql.DB pool's connections from  *)
(* BeginTx until Commit or Rollback; the pool opens at most MaxOpenConns,  *)
(* and BeginTx waits (with context.Background, for ever) while all are in  *)
(* use.                                                                    *)
PoolFull ==
    Cardinality({w \in Callers : pc[w] \in {"order", "items"}}) >= MaxOpenConns

(* Model bound: a call is only started while an unused order id is left    *)
(* for it, since uuid.New() never runs out.                                *)
IdsLeft ==
    Cardinality(used) + Cardinality({w \in Callers : pc[w] \in {"begin", "order"}})
        < Cardinality(OrderIds)

-----------------------------------------------------------------------------
(* A caller enters CreateOrder with an items slice of length n.            *)
CreateOrder(w, n) ==
    /\ pc[w] = "idle"
    /\ IdsLeft
    /\ pc' = [pc EXCEPT ![w] = "begin"]
    /\ want' = [want EXCEPT ![w] = n]
    /\ k' = [k EXCEPT ![w] = 0]
    /\ orderID' = [orderID EXCEPT ![w] = NoOrder]
    /\ ret' = [ret EXCEPT ![w] = "none"]
    /\ UNCHANGED <<orders, itemsOf, used, txOrder, txItems>>

(* r.db.BeginTx takes a pool connection once one is free and starts the    *)
(* transaction, or fails and the method returns nil, err.                 *)
BeginTx(w) ==
    /\ pc[w] = "begin"
    /\ ~PoolFull
    /\ \/ /\ pc' = [pc EXCEPT ![w] = "order"]
          /\ UNCHANGED ret
       \/ /\ pc' = [pc EXCEPT ![w] = "idle"]
          /\ ret' = [ret EXCEPT ![w] = "err"]
    /\ UNCHANGED <<orders, itemsOf, used, want, k, txOrder, txItems, orderID>>

(* Seeded fault: the error of the orders INSERT is not checked.            *)
InsertOrderNoCheck(w) ==
    /\ pc[w] = "order"
    /\ \E o \in OrderIds \ used :
          /\ used' = used \cup {o}
          /\ orderID' = [orderID EXCEPT ![w] = o]
          /\ \/ txOrder' = [txOrder EXCEPT ![w] = o]
             \/ UNCHANGED txOrder
    /\ pc' = [pc EXCEPT ![w] = "items"]
    /\ UNCHANGED <<orders, itemsOf, want, k, txItems, ret>>

(* order.ID = uuid.New(), then INSERT INTO orders inside the transaction;  *)
(* on error return, and the deferred Rollback ends the transaction.        *)
InsertOrder(w) ==
    /\ pc[w] = "order"
    /\ \E o \in OrderIds \ used :
          /\ used' = used \cup {o}
          /\ orderID' = [orderID EXCEPT ![w] = o]
          /\ \/ /\ txOrder' = [txOrder EXCEPT ![w] = o]
                /\ pc' = [pc EXCEPT ![w] = "items"]
                /\ UNCHANGED <<txItems, ret>>
             \/ Fail(w)
    /\ UNCHANGED <<orders, itemsOf, want, k>>

(* Seeded fault: the loop breaks on an item error instead of returning,   *)
(* so the transaction goes on to Commit without the failed item.          *)
InsertItemBreak(w) ==
    /\ pc[w] = "items"
    /\ k[w] < want[w]
    /\ \/ txItems' = [txItems EXCEPT ![w] = @ + 1]
       \/ UNCHANGED txItems
    /\ k' = [k EXCEPT ![w] = @ + 1]
    /\ UNCHANGED <<orders, itemsOf, used, pc, want, txOrder, orderID, ret>>

(* Seeded fault: the item INSERT goes through r.db instead of tx, so it   *)
(* needs a second pool connection while the transaction holds one.        *)
InsertItemOnPool(w) ==
    /\ ~PoolFull
    /\ pc[w] = "items"
    /\ k[w] < want[w]
    /\ \/ /\ txItems' = [txItems EXCEPT ![w] = @ + 1]
          /\ k' = [k EXCEPT ![w] = @ + 1]
          /\ UNCHANGED <<pc, txOrder, ret>>
       \/ /\ Fail(w)
          /\ UNCHANGED k
    /\ UNCHANGED <<orders, itemsOf, used, want, orderID>>

(* One iteration of the range over items: INSERT INTO order_items; on      *)
(* error return (rolled back).                                             *)
InsertItem(w) ==
    /\ pc[w] = "items"
    /\ k[w] < want[w]
    /\ \/ /\ txItems' = [txItems EXCEPT ![w] = @ + 1]
          /\ k' = [k EXCEPT ![w] = @ + 1]
          /\ UNCHANGED <<pc, txOrder, ret>>
       \/ /\ Fail(w)
          /\ UNCHANGED k
    /\ UNCHANGED <<orders, itemsOf, used, want, orderID>>

(* COMMIT takes effect in the database: the order and its items become    *)
(* visible at once.                                                        *)
Apply(w) ==
    /\ orders' = orders \cup {txOrder[w]}
    /\ itemsOf' = [itemsOf EXCEPT ![txOrder[w]] = txItems[w]]

(* The loop has ended: if err := tx.Commit(); err != nil return nil, err,  *)
(* else return order, nil.  A COMMIT either takes effect and is           *)
(* acknowledged, or fails and the rows are discarded, or takes effect and  *)
(* its acknowledgement is lost with the connection: lib/pq then returns an *)
(* error although the order is committed.                                  *)
Commit(w) ==
    /\ pc[w] = "items"
    /\ k[w] = want[w]
    /\ \/ Apply(w) /\ ret' = [ret EXCEPT ![w] = "ok"]
       \/ Apply(w) /\ ret' = [ret EXCEPT ![w] = "err"]
       \/ UNCHANGED <<orders, itemsOf>> /\ ret' = [ret EXCEPT ![w] = "err"]
    /\ Finish(w)
    /\ UNCHANGED <<used, want, k, orderID>>

Next ==
    \E w \in Callers :
        \/ \E n \in 0..MaxItems : CreateOrder(w, n)
        \/ BeginTx(w)
        \/ InsertOrder(w)
        \/ InsertItem(w)
        \/ Commit(w)

(* Every database call of an open transaction eventually returns (the     *)
(* server answers or the connection breaks), so the transaction's steps    *)
(* are weakly fair.  A caller waiting in BeginTx is enabled only while a   *)
(* connection is free; database/sql hands a released connection to a      *)
(* waiting request picked at random, so that step is strongly fair.       *)
Fairness ==
    \A w \in Callers :
        /\ SF_ovars(BeginTx(w))
        /\ WF_ovars(InsertOrder(w))
        /\ WF_ovars(InsertItem(w))
        /\ WF_ovars(Commit(w))

Spec == Init /\ [][Next]_ovars /\ Fairness

-----------------------------------------------------------------------------
NoReq == -1   \* no CreateOrder in progress (item counts are >= 0)

(* Readers of orders and order_items only ever see what OrderStore allows: *)
(* each CreateOrder makes its order and all of its items visible in one    *)
(* step, or nothing, whatever statement fails and however the callers'     *)
(* transactions interleave.  A caller in the middle of CreateOrder is a    *)
(* pending request of len(items) items.                                    *)
Store == INSTANCE OrderStore
            WITH req <- [w \in Callers |->
                           IF pc[w] = "idle" THEN NoReq ELSE want[w]]

StoreSpec == Store!Spec

(* Every CreateOrder call returns, also when more callers than pool         *)
(* connections are in it at once: a transaction never waits for a second   *)
(* connection while it holds one, so the pool cannot deadlock.             *)
CreateOrderReturns == \A w \in Callers : pc[w] # "idle" ~> pc[w] = "idle"

(* A CreateOrder that returned order, nil has committed the order whose id *)
(* it wrote into order.ID, with every item of the slice it was given: no   *)
(* item error is swallowed on the way to tx.Commit().                      *)
OkMeansCommitted ==
    \A w \in Callers :
        ret[w] = "ok" => /\ orderID[w] \in orders
                         /\ itemsOf[orderID[w]] = want[w]

(* The usual reading of Go's nil, err: a CreateOrder that returned an      *)
(* error created no order, so a caller may safely call it again.  The      *)
(* order id is the one CreateOrder wrote into the caller's order.ID.       *)
ErrorMeansNoOrder ==
    \A w \in Callers : ret[w] = "err" => orderID[w] \notin orders
============================================================================
