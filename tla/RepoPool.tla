------------------------------ MODULE RepoPool ------------------------------
(***************************************************************************)
(* The one *sql.DB of src/backend/database/db.go, shared by every          *)
(* repository of src/backend/repository, and how each repository method    *)
(* holds and gives back its connection.  database.Init caps the pool with  *)
(* SetMaxOpenConns(25) and SetMaxIdleConns(5).  Every method has one of    *)
(* four shapes, which its signature in interfaces.go gives away:           *)
(*   "row"  returns a record: r.db.QueryRow(...).Scan(...); Scan closes  *)
(*          the row and so gives the connection back;                      *)
(*   "exec" returns only an error: r.db.Exec(...) gives it back on return; *)
(*   "rows" returns a slice: r.db.Query, defer rows.Close(), a loop of     *)
(*          rows.Next and rows.Scan, holding the connection throughout;    *)
(*   "tx"   CreateOrder: r.db.BeginTx, defer tx.Rollback(), statements on  *)
(*          tx, tx.Commit().                                               *)
(* The pool follows database/sql: a call takes an idle connection, or      *)
(* opens one while fewer than MaxOpenConns are open, or waits; a released  *)
(* connection goes straight to one waiting call, else back to the idle     *)
(* list if it has room, else it is closed.  Row data is left out.          *)
(***************************************************************************)
EXTENDS Naturals, FiniteSets, Functions

CONSTANTS
    Callers,       \* goroutines calling repository methods
    MaxOpenConns,  \* DB.SetMaxOpenConns(25)
    MaxIdleConns,  \* DB.SetMaxIdleConns(5)
    MaxRows,       \* bound: rows a result set returns
    MaxStmts       \* bound: statements of one transaction, 1 + len(items)

ASSUME /\ MaxOpenConns \in Nat \ {0}
       /\ MaxIdleConns \in 1..MaxOpenConns
       /\ MaxRows \in Nat /\ MaxStmts \in Nat \ {0}

VARIABLES
    numOpen,   \* connections the pool has open (db.numOpen)
    idle,      \* of them, idle in the pool (len(db.freeConn))
    pc,        \* where each caller is
    shape,     \* shape of each caller's current call
    scanned,   \* rows the caller's loop has scanned
    left       \* statements left in the caller's transaction

vars == <<numOpen, idle, pc, shape, scanned, left>>

(* The repository interfaces, each method with the shape of its body.      *)
UserRepository ==
    [GetUserByID |-> "row", GetUserByUsername |-> "row", GetUserByEmail |-> "row",
     CreateUser |-> "row", UpdateUser |-> "row", DeleteUser |-> "exec",
     ListUsers |-> "rows"]
ProductRepository ==
    [GetProductByID |-> "row", GetProductsByCategory |-> "rows",
     CreateProduct |-> "row", UpdateProduct |-> "row", DeleteProduct |-> "exec",
     ListProducts |-> "rows"]
StoreCategoryRepository ==
    [GetCategoryByID |-> "row", GetCategoryByName |-> "row", CreateCategory |-> "row",
     UpdateCategory |-> "row", DeleteCategory |-> "exec", ListCategories |-> "rows"]
ForumCategoryRepository ==
    [GetCategoryByID |-> "row", GetCategoryByName |-> "row", CreateCategory |-> "row",
     UpdateCategory |-> "row", DeleteCategory |-> "exec", ListCategories |-> "rows"]
CartRepository ==
    [GetCartItem |-> "row", GetUserCart |-> "rows", AddToCart |-> "row",
     UpdateCartItem |-> "row", RemoveFromCart |-> "exec", ClearCart |-> "exec"]
OrderRepository ==
    [CreateOrder |-> "tx", GetOrderByID |-> "row", GetUserOrders |-> "rows",
     UpdateOrderStatus |-> "row"]
ForumThreadRepository ==
    [GetThreadByID |-> "row", GetCategoryThreads |-> "rows", CreateThread |-> "row",
     UpdateThread |-> "row", DeleteThread |-> "exec", IncrementViewCount |-> "exec"]
ForumPostRepository ==  \* CreatePost and DeletePost: statements one after another
    [GetPostByID |-> "row", GetThreadPosts |-> "rows", CreatePost |-> "row",
     UpdatePost |-> "row", DeletePost |-> "row"]

Shapes ==
    UNION {Range(r) : r \in {UserRepository, ProductRepository, StoreCategoryRepository,
                             CartRepository, OrderRepository, ForumCategoryRepository,
                             ForumThreadRepository, ForumPostRepository}}

(* Where a call goes once it holds a connection.                           *)
Start == [row |-> "row", exec |-> "exec", rows |-> "query", tx |-> "begin"]

Waiting == {c \in Callers : pc[c] = "wait"}
Holding == {c \in Callers : pc[c] \notin {"idle", "wait"}}

TypeOK ==
    /\ numOpen \in 0..MaxOpenConns
    /\ idle \in 0..MaxIdleConns
    /\ pc \in [Callers -> {"idle", "wait"} \cup Range(Start) \cup {"rows", "tx"}]
    /\ shape \in [Callers -> Shapes]
    /\ scanned \in [Callers -> 0..MaxRows]
    /\ left \in [Callers -> 0..MaxStmts]

(* database.Init: DB.Ping() opens the first connection and leaves it idle *)
(* in the pool; the caps set after it keep it (MaxIdleConns >= 1).         *)
Init ==
    /\ numOpen = 1
    /\ idle = 1
    /\ pc = [c \in Callers |-> "idle"]
    /\ shape = [c \in Callers |-> "row"]
    /\ scanned = [c \in Callers |-> 0]
    /\ left = [c \in Callers |-> 0]

-----------------------------------------------------------------------------
(* database/sql's putConn: the caller c is done with its connection.  It   *)
(* goes to a waiting call, chosen at random, which proceeds with it; with  *)
(* nobody waiting it goes back to the idle list, or is closed when that    *)
(* list already holds MaxIdleConns.                                        *)
PutConn(c) ==
    \/ \E w \in Waiting :
          /\ pc' = [pc EXCEPT ![c] = "idle", ![w] = Start[shape[w]]]
          /\ UNCHANGED <<numOpen, idle>>
    \/ /\ Waiting = {}
       /\ pc' = [pc EXCEPT ![c] = "idle"]
       /\ IF idle < MaxIdleConns
             THEN idle' = idle + 1 /\ UNCHANGED numOpen
             ELSE numOpen' = numOpen - 1 /\ UNCHANGED idle

(* Seeded fault: DB.SetMaxOpenConns is not called, so the pool opens a    *)
(* new connection whenever none is idle and never queues a call.           *)
CallNoCap(c, s) ==
    /\ pc[c] = "idle"
    /\ shape' = [shape EXCEPT ![c] = s]
    /\ pc' = [pc EXCEPT ![c] = Start[s]]
    /\ \/ idle > 0 /\ idle' = idle - 1 /\ UNCHANGED numOpen
       \/ idle = 0 /\ numOpen' = numOpen + 1 /\ UNCHANGED idle
    /\ UNCHANGED <<scanned, left>>

(* A repository method is called.  db.conn takes an idle connection, or    *)
(* opens a new one below MaxOpenConns, or queues the call.  A dial that    *)
(* fails returns an error and changes nothing, so it is left out.          *)
Call(c, s) ==
    /\ pc[c] = "idle"
    /\ shape' = [shape EXCEPT ![c] = s]
    /\ \/ /\ idle > 0
          /\ idle' = idle - 1
          /\ pc' = [pc EXCEPT ![c] = Start[s]]
          /\ UNCHANGED numOpen
       \/ /\ idle = 0 /\ numOpen < MaxOpenConns
          /\ numOpen' = numOpen + 1
          /\ pc' = [pc EXCEPT ![c] = Start[s]]
          /\ UNCHANGED idle
       \/ /\ idle = 0 /\ numOpen = MaxOpenConns
          /\ pc' = [pc EXCEPT ![c] = "wait"]
          /\ UNCHANGED <<numOpen, idle>>
    /\ UNCHANGED <<scanned, left>>

(* GetUserByID and every "row" method: the statement runs, Scan reads the  *)
(* row or gets sql.ErrNoRows or another error, and in every case closes    *)
(* the row, giving the connection back, before the method returns.         *)
QueryRowScan(c) ==
    /\ pc[c] = "row"
    /\ PutConn(c)
    /\ UNCHANGED <<shape, scanned, left>>

(* RemoveFromCart and every "exec" method: Exec runs the statement and     *)
(* gives the connection back whether it succeeds or fails.                 *)
ExecStmt(c) ==
    /\ pc[c] = "exec"
    /\ PutConn(c)
    /\ UNCHANGED <<shape, scanned, left>>

(* ListProducts and every "rows" method: r.db.Query runs the query.  On    *)
(* error it returns nil, err, and database/sql has given the connection   *)
(* back; otherwise rows.Close() is deferred and the loop starts.           *)
QueryStart(c) ==
    /\ pc[c] = "query"
    /\ \/ PutConn(c)
       \/ pc' = [pc EXCEPT ![c] = "rows"] /\ UNCHANGED <<numOpen, idle>>
    /\ scanned' = [scanned EXCEPT ![c] = 0]
    /\ UNCHANGED <<shape, left>>

(* Seeded fault: rows.Close() is not deferred, so the return on a Scan     *)
(* error leaves the result set open and its connection taken.              *)
RowsNextNoClose(c) ==
    /\ pc[c] = "rows"
    /\ \/ /\ scanned[c] < MaxRows
          /\ scanned' = [scanned EXCEPT ![c] = @ + 1]
          /\ UNCHANGED <<numOpen, idle, pc>>
       \/ /\ scanned[c] < MaxRows
          /\ pc' = [pc EXCEPT ![c] = "idle"]
          /\ UNCHANGED <<numOpen, idle, scanned>>
       \/ PutConn(c) /\ UNCHANGED scanned
    /\ UNCHANGED <<shape, left>>

(* One turn of for rows.Next(): a row is scanned and appended; or Scan     *)
(* fails and the method returns nil, err, the deferred rows.Close() giving *)
(* the connection back; or rows.Next() is false (the result set ended, or  *)
(* reading it failed), which closes the rows itself, and the method        *)
(* returns the slice with rows.Err().                                      *)
RowsNext(c) ==
    /\ pc[c] = "rows"
    /\ \/ /\ scanned[c] < MaxRows
          /\ scanned' = [scanned EXCEPT ![c] = @ + 1]
          /\ UNCHANGED <<numOpen, idle, pc>>
       \/ /\ scanned[c] < MaxRows
          /\ PutConn(c)
          /\ UNCHANGED scanned
       \/ PutConn(c) /\ UNCHANGED scanned
    /\ UNCHANGED <<shape, left>>

(* CreateOrder: r.db.BeginTx starts the transaction on the connection, to  *)
(* run the orders INSERT and one INSERT per item; on error it returns and  *)
(* the connection goes back.                                               *)
BeginTx(c) ==
    /\ pc[c] = "begin"
    /\ \/ /\ pc' = [pc EXCEPT ![c] = "tx"]
          /\ \E n \in 1..MaxStmts : left' = [left EXCEPT ![c] = n]
          /\ UNCHANGED <<numOpen, idle>>
       \/ PutConn(c) /\ UNCHANGED left
    /\ UNCHANGED <<shape, scanned>>

(* Seeded fault: tx.Rollback() is not deferred, so a return on a statement *)
(* error leaves the transaction open on its connection.                    *)
TxStmtNoRollback(c) ==
    /\ pc[c] = "tx"
    /\ left[c] > 0
    /\ \/ left' = [left EXCEPT ![c] = @ - 1] /\ UNCHANGED <<numOpen, idle, pc>>
       \/ /\ pc' = [pc EXCEPT ![c] = "idle"]
          /\ left' = [left EXCEPT ![c] = 0]
          /\ UNCHANGED <<numOpen, idle>>
    /\ UNCHANGED <<shape, scanned>>

(* One statement on tx: it succeeds, or CreateOrder returns nil, err and   *)
(* the deferred tx.Rollback() ends the transaction, giving the connection  *)
(* back.                                                                   *)
TxStmt(c) ==
    /\ pc[c] = "tx"
    /\ left[c] > 0
    /\ \/ left' = [left EXCEPT ![c] = @ - 1] /\ UNCHANGED <<numOpen, idle, pc>>
       \/ PutConn(c) /\ left' = [left EXCEPT ![c] = 0]
    /\ UNCHANGED <<shape, scanned>>

(* tx.Commit(): committed or not, the transaction is over and its          *)
(* connection goes back; the deferred Rollback is then a no-op.            *)
TxCommit(c) ==
    /\ pc[c] = "tx"
    /\ left[c] = 0
    /\ PutConn(c)
    /\ UNCHANGED <<shape, scanned, left>>

(* The steps a caller takes while it holds a connection.                   *)
Step(c) ==
    \/ QueryRowScan(c) \/ ExecStmt(c) \/ QueryStart(c) \/ RowsNext(c)
    \/ BeginTx(c) \/ TxStmt(c) \/ TxCommit(c)

Next ==
    \E c \in Callers :
        \/ \E s \in Shapes : Call(c, s)
        \/ Step(c)

(* A caller is not obliged to call, but once it holds a connection every   *)
(* statement returns (the server answers or the connection breaks): its    *)
(* steps are weakly fair.  A waiting call is served only when another      *)
(* gives a connection back, and putConn picks the waiting request at       *)
(* random, so being served is strongly fair.                               *)
Fairness ==
    \A c \in Callers :
        /\ WF_vars(Step(c))
        /\ SF_vars(Next /\ pc[c] = "wait" /\ pc'[c] # "wait")

Spec == Init /\ [][Next]_vars /\ Fairness

-----------------------------------------------------------------------------
(* No connection is lost or counted twice: every open connection is either *)
(* idle in the pool or held by exactly one call in progress, whichever of  *)
(* its return paths each earlier call took (errors, sql.ErrNoRows, Scan    *)
(* errors, a rolled-back transaction) and whoever it was handed to.        *)
ConnAccounting == numOpen = idle + Cardinality(Holding)

(* Every repository call returns, also while more calls than MaxOpenConns  *)
(* are in progress and some wait for the pool.                             *)
EveryCallReturns == \A c \in Callers : pc[c] # "idle" ~> pc[c] = "idle"

==============================================================================
