# TLA+ models of the skaia backend

This directory holds TLA+ models of `src/backend` (Go) and the TLC
configurations that check them. The concurrency in this code is the websocket
hub (`src/backend/websocket/hub.go`), and it is modelled first and in full. The
repositories are SQL CRUD code: their multi-statement methods are modelled
statement by statement, and every method is modelled by how it holds and gives
back a connection of the one pool they share.

## 1. Inventory

### Components

| Component | Source | State | Operations |
|---|---|---|---|
| Message envelope | `hub.go` 16-46 | `Type`, `UserID`, raw `Payload` | none; JSON encode/decode |
| Hub coordinator | `hub.go` 48-117 | `clients map[*Client]bool`, `broadcast chan *Message` (cap 256), unbuffered `register`/`unregister`, an `RWMutex` | `Run` (select over register / unregister / broadcast), `Broadcast` (non-blocking send to `broadcast`) |
| Client adapter | `hub.go` 57-63, 154-186 | `conn`, `send chan *Message` (cap 256), `UserID` | `readPump` (read, `UserID = msg.UserID`, `Broadcast`; on error, deferred `unregister <- c` and `conn.Close()`), `writePump` (`range c.send`, write each; a close frame when the channel closes) |
| Entry point | `hub.go` 119-152, `main.go` 83-85 | none | `HandleConnection`: upgrade, build a Client, `register <- client`, start both pumps |
| Forum repositories | `repository/forum_post.go`, `forum_thread.go` | rows of `forum_posts`, `forum_threads` (`reply_count`, `view_count`) | `CreatePost` (INSERT, then a separate UPDATE `reply_count+1` whose error is ignored), `DeletePost` (SELECT thread, DELETE, UPDATE `reply_count-1`), thread CRUD, `IncrementViewCount` |
| Order repository | `repository/order.go` | `orders`, `order_items` | `CreateOrder` (transaction: order row, one row per item, commit; deferred rollback), reads, `UpdateOrderStatus` |
| Cart repository | `repository/cart.go` | `cart_items` | `AddToCart` (upsert adding to the quantity), `UpdateCartItem`, `RemoveFromCart`, `ClearCart` |
| Other repositories | `user.go`, `product.go`, `store_category.go`, `forum_category.go` | rows | one SQL statement per method |
| HTTP server | `main.go` | `AppContext` | wiring, `go hub.Run()`, routes; the handlers are stubs or single list queries |
| Database | `database/db.go` | `*sql.DB` pool | `Init`, `Close` |

### How they interact

`main` creates the hub and runs `Run` in its own goroutine. Each `/ws` request
runs `HandleConnection` in an HTTP goroutine. It blocks on the unbuffered
`register` channel until `Run` takes the client, then starts `readPump` and
`writePump`.

- `readPump` passes every message it reads to `Hub.Broadcast`. That call drops
  the message when the 256-slot `broadcast` channel is full.
- `Run` takes each message and tries a non-blocking send to every client's
  `send` channel. When a client's channel is full, `Run` closes it and deletes
  the client from the map. That is eviction.
- `writePump` drains `send` onto the wire.
- When a read fails, `readPump`'s defer sends the client on `unregister`.
  `Run` deletes and closes the client only if it is still in the map. Then
  `readPump` closes the connection.

`h.clients` is touched only by the `Run` goroutine. So the `RWMutex` is never
contended. Spec §5 describes a race between eviction under the read lock and
concurrent registration, but that race cannot occur in this code: every map
access is in the one `Run` goroutine. The repositories share no Go state. They
interact only through the database, one autocommit statement at a time, except
for `CreateOrder`'s transaction.

### What is hard

- **Interleavings.** A client can be evicted by a broadcast and then
  unregistered by its own `readPump`. Closing its channel twice would panic the
  hub.
- **Map mutation during fan-out.** `Run` deletes clients while it ranges over
  the map.
- **Bounded queues.** A full `send` channel evicts the client. A full
  `broadcast` channel silently drops the message.
- **Ignored errors.** `writePump` ignores errors from `Encode` and `w.Close()`,
  and it returns on a `NextWriter` error without tearing anything down.
- **Teardown.** It takes several steps in two goroutines: unregister,
  `conn.Close`, then the writer drains and exits.
- **Repositories.** `CreatePost` and `DeletePost` keep `reply_count` with a
  second, non-transactional statement whose error is ignored, and two callers
  can delete the same post concurrently. `CreateOrder` can fail between its
  statements.

### What makes each component correct

- **Hub.** The properties are:
  - no double close and no send on a closed channel;
  - every admitted client is either live with an open queue or removed with a
    closed one;
  - the messages a client's queue receives are exactly those `Run` processed
    while the client was live, with no gaps, so one slow client costs the
    others nothing;
  - each wire is FIFO;
  - a failed read always leads to full teardown;
  - an evicted client is torn down (spec §3).
- **Forum repositories.** `reply_count` equals the number of the thread's
  posts whenever no call is in flight.
- **Order repository.** Either a committed order has all of its items, or
  nothing of it is visible.
- **Cart repository.** Concurrent adds of the same product sum their
  quantities. This is the database's upsert, and it is not checked.
- **All repositories and the pool.** Every return path of every method gives
  its pool connection back, so the pool neither leaks nor gets stuck, and
  every call returns.

## 2. Modules and how state maps to code

### `Hub.tla`: the hub, its clients and the entry point

The variables are:

- `handler`, `reader` and `writer` are the program counters of
  `HandleConnection`, `readPump` and `writePump` for each client;
- `conn` is the connection;
- `clients` is `Hub.clients`;
- `send` and `closed` are the contents of `c.send` and its closed flag;
- `bcast` is `Hub.broadcast`;
- `panicked` records a close of, or send on, a closed channel (Go panics);
- `server` is `main`'s progress: `"starting"`, `"serving"`, or `"exited"`.
  `"exited"` is the process ending in `log.Fatal` before any connection is
  accepted;
- `nextMsg` and `origin` identify the messages that peers send.

Five history variables exist only for the properties:

- `processed` is Run's order of messages;
- `joinedAt` and `leftAt` are each client's membership interval;
- `enqueued` is everything Run put into `c.send`;
- `delivered` is everything written on the wire;
- `writeErr` records that a client's writePump returned on a `NextWriter`
  error.

Each action is one step of one goroutine:

| Action | Code |
|---|---|
| `Main` | `main.go` 35-127: `database.Init`, `NewHub`, `go hub.Run()`, routes, `ListenAndServe`; a failure ends in `log.Fatal` |
| `HandleConnection(c)` | upgrade ok, client built (126-146); only once `server = "serving"` |
| `RunRegister(c)` | `Run` register case, plus the handler starting both pumps (79-83, 148-151) |
| `ReadPumpRead(c)` | `ReadJSON` ok, then `Broadcast` (162-171, 110-117) |
| `ReadPumpFail(c)` | `ReadJSON` error, return into the defer (164-167) |
| `RunUnregister(c)` | `Run` unregister case with its membership check (85-92) |
| `ReadPumpClose(c)` | deferred `conn.Close()` (158) |
| `RunBroadcast` | `Run` broadcast case: fan-out with eviction (94-106) |
| `WritePumpWrite(c)` | one `range` iteration: written / error ignored / `NextWriter` error (176-184) |
| `WritePumpExit(c)` | channel closed and drained, close frame (176, 185) |

Each case of `Run` is one atomic step. This is exact: only `Run` touches the
map, and every send inside a case is non-blocking.

The model leaves some data out:

- A message is an id. The hub never interprets a message's type or payload.
- `UserID` is written by `readPump` but only read by log lines.

### `HubService.tla`: what the hub promises

This is the abstract service of spec §4.3. Clients join once and leave once.
Messages wait in a FIFO. One fan-out step hands the oldest message to every
live client except an arbitrary set that is evicted. `Hub` implements it under
the refinement mapping `live <- clients`, `gone <- Admitted \ clients`,
`pending <- bcast`, `log <- enqueued` (see `Service` in `Hub.tla`).

### `ForumReplies.tla`: `reply_count` under posts and threads

This module models `forum_post.go` and the thread rows of `forum_thread.go`. Each SQL statement is one atomic step of a
caller goroutine, and callers run concurrently over the `*sql.DB` pool.

- `live` holds the `forum_threads` rows, and `threadUsed` the thread ids
  handed out.
- `thread[p]` is the `thread_id` of post row `p`. It is `NoThread` when the
  row does not exist.
- `used` holds the post ids that `uuid.New()` has returned.
- `replyCount` is `forum_threads.reply_count`.
- `pc`, `argPost` and `argThread` are each caller's position and locals.
  `argThread` is the thread id that `DeletePost` read before its `DELETE`.
- `lostInc` and `lostDec` are history. They count the increments and
  decrements a thread's counter missed on an error path: an ignored `UPDATE`
  error, or an INSERT or DELETE that took effect and lost its reply.

| Action | Code |
|---|---|
| `CreatePostInsert(w, t)` | INSERT (58-66); with `InsertReplyLost` the row is written but `Scan` errs and the increment is skipped (68, 73) |
| `CreatePostIncrement(w)` | `reply_count + 1`, error ignored (68-73) |
| `DeletePostSelect(w, p)` | SELECT `thread_id`; `ErrNoRows` returns (87-93) |
| `DeletePostDelete(w)` | DELETE; an error returns (95-102), with the row untouched or, reply lost, deleted |
| `DeletePostDecrement(w)` | `reply_count - 1`, error ignored (97-100) |
| `CreateThread(t)` | `forum_thread.go` 59-70: INSERT; `reply_count` starts at its default, 0 |
| `DeleteThread(t)` | `forum_thread.go` 83-86: DELETE |

The constant `UpdateMayFail` decides whether the trailing `UPDATE` can fail.
The constant `ReplyMayBeLost` decides whether an INSERT or DELETE can take
effect and still return an error, because the connection broke before its
reply arrived (the outcome `OrderTx` gives a lost COMMIT acknowledgement).
The method then skips its `UPDATE`, exactly as for a statement that failed.
A `reply_count` UPDATE on a deleted thread matches no row.

The schema is not in the repository, so two things are assumptions:

- **The foreign key from posts to their thread.** A post INSERT into a
  missing thread fails. Its `ON DELETE` behaviour is the constant
  `CascadeDelete`:
  - `TRUE`: `DeleteThread` removes the thread's posts too;
  - `FALSE` (the default NO ACTION): `DeleteThread` fails while the thread has
    posts.

  The concurrent runs use CASCADE and the serial runs NO ACTION, so both are
  checked.
- **The column default for `reply_count`.** It is taken to be 0.

Content, user, timestamps and `view_count` are left out. `UpdatePost`,
`UpdateThread` and `IncrementViewCount` change only those, so they are not
actions.

### `OrderTx.tla` and `OrderStore.tla`: `CreateOrder`'s transaction

`OrderTx` models `order.go` 20-57, one step per statement:

| Action | Code |
|---|---|
| `CreateOrder(w, n)` | a call with `len(items) = n` (20) |
| `BeginTx` | 21-25: waits for a pool connection; succeeds or returns |
| `InsertOrder` | the order INSERT (27-37) |
| `InsertItem` | one iteration of the item loop (39-50) |
| `Commit` | 52-56 |

Any statement may fail. A failure runs `Fail`, the `return nil, err` into the
deferred `Rollback` (`Finish`), which discards the transaction's rows. `Commit`
has three outcomes: the COMMIT takes effect and is acknowledged; it fails; or
it takes effect (`Apply`) and its acknowledgement is lost with the connection,
so lib/pq returns an error.

- `orders` and `itemsOf` are the committed rows, the only rows other sessions
  see under READ COMMITTED.
- `txOrder` and `txItems` are the open transaction's own rows.
- `want` is `len(items)`, and `k` is the loop index.
- `orderID` is the caller's `order.ID`, which line 27 sets and which keeps its
  value after an error. `ret` is what the call returned: `"ok"` or `"err"`.
- `PoolFull` is `database/sql`'s limit from `db.go` 30,
  `SetMaxOpenConns(25)`. An open transaction holds one connection from
  `BeginTx` to `Commit` or `Rollback`.
- `IdsLeft` is a model bound, not code. A call starts only while an unused
  order id is left for it, because `uuid.New()` never runs out.

`OrderStore` is the promise to readers: an order and all of its items appear
in one step, or nothing does. `OrderTx` refines it. A caller inside
`CreateOrder` maps to a pending request of `want` items. An item is a count:
prices, quantities and status are left out.

### `RepoPool.tla`: the connection pool shared by every repository

`main.go` 43-52 builds every repository on the one `database.DB`.
`database.Init` caps that pool at 25 open and 5 idle connections.
`RepoPool` records each method of `interfaces.go` with the shape of its body:

- `"row"`: `QueryRow(...).Scan`;
- `"exec"`: `Exec`;
- `"rows"`: `Query`, a deferred `rows.Close()` and the `rows.Next` loop;
- `"tx"`: `CreateOrder`'s transaction.

Each caller calls methods of any shape, one after another.

- `numOpen` and `idle` are `database/sql`'s open count and idle list.
- `Call` is `db.conn`: it takes an idle connection, opens one below the cap,
  or queues the call.
- `PutConn` is `putConn`: the connection goes to a waiting call, else to the
  idle list while it has room, else it is closed.

| Action | Code |
|---|---|
| `QueryRowScan` | `GetUserByID` (`user.go` 19-31); `Scan` gives the connection back on every outcome |
| `ExecStmt` | `RemoveFromCart` (`cart.go` 85-91) |
| `QueryStart` | `ListProducts` (`product.go` 87-97): a `Query` error returns at once |
| `RowsNext` | the loop (99-110): a row scanned, a `Scan` error returning through the deferred `Close`, or `Next` false, which closes the rows itself |
| `BeginTx`, `TxStmt`, `TxCommit` | `CreateOrder` (`order.go` 21-56) at the level of the pool: the transaction holds one connection until `Commit` or the deferred `Rollback` |

The other methods of each shape have the same control flow as the one named.
The rows they read or write are left out.

### `MCHub.tla`, `MCForumReplies.tla`, `MCOrderTx.tla`, `MCRepoPool.tla`

These modules instantiate the specifications with model values.

## 3. Runs

| Run | Config | Checks | Result |
|---|---|---|---|
| `hub_safety` | `MCHub_three.cfg` | `NoPanic`, `Lifecycle`, `GapFreeDelivery`, `WireFIFO`, with 3 clients under symmetry | pass, 1,135,322 states |
| `hub_liveness` | `MCHub_live.cfg` | `TeardownCompletes` | pass, 34,474 states |
| `hub_write_failure_not_torn_down` | `MCHub_writefail.cfg` | `WriteFailureTearsDown` | violation (finding) |
| `hub_refines_service` | `MCHub_refine.cfg` | `ServiceSpec` (refinement of `HubService`, fairness included) | pass |
| `hub_evicted_keeps_publishing` | `MCHub_evict.cfg` | `EvictedClientSilent` | violation (finding) |
| `forum_concurrent` | `MCForumReplies.cfg` | `TypeOK`, `ReplyCountNeverOver`, every fault enabled | pass, 827,437 states |
| `forum_serial` | `MCForumReplies_serial.cfg` | `ReplyCountOffOnlyByErrors`, with one caller and every fault enabled | pass, 17,493 states |
| `forum_double_delete` | `MCForumReplies_race.cfg` | `ReplyCountConsistent`, with two callers | violation (finding) |
| `forum_lost_update` | `MCForumReplies_lost.cfg` | `ReplyCountConsistent`, with failing UPDATEs | violation (finding) |
| `order_refines_store` | `MCOrderTx.cfg` | `TypeOK`, `OkMeansCommitted`, `StoreSpec` (refinement of `OrderStore`), `CreateOrderReturns` | pass, 28,495 states |
| `order_commit_ack_lost` | `MCOrderTx_commit.cfg` | `ErrorMeansNoOrder` | violation (finding) |
| `repo_pool` | `MCRepoPool.cfg` | `TypeOK`, `ConnAccounting`, `EveryCallReturns` | pass, 18,945 states |

**Finding.** Eviction (`hub.go` 101-102) only closes `c.send`. The connection
and `readPump` stay alive, so an evicted client keeps publishing through
`Hub.Broadcast`, and `Run` fans those messages out to whoever is live. Spec §3 says an
evicted client is torn down, with its queue and its connection closed. The
counterexample has eight steps:

1. Client 1 connects.
2. Its echo of its own message fills its one-slot queue.
3. Its next message evicts it.
4. It publishes a third message anyway.

**Finding: a write failure does not tear the client down.** When
`NextWriter` fails (`hub.go` 179), `writePump` just returns. It does not
unregister the client or close the connection. `readPump` has no read deadline
(line 161), so only a read error from the peer ends the client. Spec §7 says a
write failure is fatal to the client and triggers immediate teardown. In TLC's
counterexample, client 2's writer fails and its peer then stays silent, so the
client stays in `Hub.clients` with its connection open for ever. Spec §5 lets a
*silent* connection stay registered, but this connection has already failed.

No property claims that a queued message is eventually written. `writePump`
sets no write deadline (177-183), so a write to a peer that stops reading can
block in `w.Close()` for ever. That is the slow consumer that eviction exists
for. Only a write on a closed connection is assumed to return, because it
fails at once.

**Finding: an error from `CreateOrder` does not mean that no order exists.**
A COMMIT can take effect and then lose its acknowledgement when the connection
breaks. `tx.Commit()` then returns an error, and `CreateOrder` returns
`nil, err` (`order.go` 52-53). But the order is committed, under the id that
line 27 wrote into the caller's `order.ID`. Every call draws a fresh
`uuid.New()`, so a caller that retries on error creates a second order. The
spec puts the repositories out of scope and says nothing about this case.
TLC's trace takes four steps: call, `BeginTx`, the order INSERT, and a
`Commit` that applies but reports an error. `OkMeansCommitted` is the other
direction, and it holds: a call that returned the order has committed it with
every item.

**Findings in `forum_post.go`.**

- **Double delete.** Two concurrent `DeletePost` calls on the same post both
  pass the SELECT. Both DELETEs succeed, because deleting no row is not an
  error. Both decrement, so `reply_count` ends one below the number of posts,
  and at -1 for a thread with one post (line 96).
- **Lost update.** The `reply_count` UPDATEs ignore their errors (lines 70 and
  99). One failure leaves the counter wrong for good.

- **Lost reply.** An INSERT or DELETE that took effect but lost its reply
  makes the method return an error and skip its `UPDATE`. This is the same
  kind of drift as a lost update.

`ReplyCountNeverOver` holds in all three cases: `CreatePost` alone never makes
the count run ahead of the rows. `ReplyCountOffOnlyByErrors` shows that with
one caller at a time the counter drifts by nothing but these error paths:
when no call is in flight it equals the posts minus the skipped increments
plus the skipped decrements. A DELETE that fails, or deletes nothing, must not
cost a decrement.

`order_refines_store` shows that `CreateOrder`'s early returns and deferred
`Rollback` make it all-or-nothing. This holds for a failure at any statement
and under any interleaving of two callers.

The same run shows that every `CreateOrder` call returns even when more calls
than pool connections are active: a transaction never waits for
a second connection while it holds one. The seeded fault issues the item
INSERT on `r.db` instead of `tx`. TLC then finds a transaction that holds the
only connection and waits for another one forever.

Every property has a seeded fault in its module that TLC finds: a missing
membership check, a missing delete, a fan-out that aborts at the first full
client, a retried write and a missing `close`. `Hub`'s `TypeOK` is not
checked by a run: Go enforces a channel's capacity itself, so no fault in
`hub.go` could break it. The repository modules add an unchecked `ErrNoRows`, an unchecked INSERT error, a decrement after a failed DELETE, an item loop that breaks instead of
returning, and an item INSERT issued outside the transaction. `RepoPool`'s
seeded faults are a `rows.Close()` that is not deferred, a `tx.Rollback()`
that is not deferred, and a missing `SetMaxOpenConns`, which lets the pool
open connections without bound. The pool starts as `database.Init` leaves
it: `Ping` has opened one connection and left it idle.

### Bounds

`hub_safety` uses three clients, two messages, and capacities of 1 for `send`
and `broadcast`, where the code has 256 and 256. These bounds reach every
interesting case:

- a queue that is full at a broadcast, so eviction happens;
- a full ingress channel, so a message is dropped;
- eviction of one client while the other stays live and must still get the
  message;
- eviction followed by the evicted client's unregister;
- a write after `conn.Close`.

It uses client symmetry (`Permutations`: the code never tells two
connections apart). Three clients reach one fan-out that evicts two clients, deleting them from the map Run
ranges over, while the third still gets the message. Three clients with three
messages did not finish in 10 minutes even with symmetry. `MCHub.cfg` keeps
the earlier instance of two clients and three messages (528,882 states) for
checking by hand. The refinement and eviction runs use two clients and three
messages. The liveness run
uses two clients and two messages: that still covers a full queue, eviction,
a write failure and teardown, and it keeps the check with the temporal
properties to seconds. Symmetry is not used in the liveness runs. Capacity 1 is the smallest value at which "full" and "not full" both
occur. Larger capacities only lengthen the traces.

The forum runs use 2 threads, 3 post ids and 1 or 2 callers. That is enough
for two posts in one thread, and for two callers working on the same post.
The order runs use item slices of length 0 to 2 and 3 order ids. That
includes an empty order and a failure after the first item.

- The refinement run has 2 callers and 1 connection. One transaction waits
  for the other, so more calls than connections are active.
- `MCOrderTx_pool.cfg` keeps a larger instance for checking by hand: 3
  callers and 2 connections, where callers queue while two transactions are
  open at once. `CreateOrderReturns` holds there too (110,679 states).

The pool runs use three callers and a pool of two connections with one idle
slot. This is the code's ratio of 25 open to 5 idle in small: calls queue, a
released connection sometimes goes to a waiter, sometimes to the idle list,
and sometimes is closed. Result sets have up to one row and transactions up
to two statements, so every return path happens: `Query` error, `Scan`
error, end of rows, statement error and `Commit`.

### Fairness

`main`, Run, writePump's exit and the tail of readPump (the unregister send
and `conn.Close`) are weakly fair. A write by writePump is weakly fair only
once the connection is closed: it then fails at once, while a write on an
open connection has no deadline and may block for ever on a peer that does
not read. Two facts justify the rest:

- Go's scheduler eventually runs every runnable goroutine.
- `select` picks uniformly among ready cases, so a case that stays enabled is
  eventually taken.

Peers get no fairness: a connection may stay open and silent forever (spec §5).
Deadlock checking is off because `Run` never returns. A state with no enabled
step is the server idling in `select`. What must finish is stated by
`TeardownCompletes` instead.

`ForumReplies` assumes no fairness and states no liveness. `OrderTx` has
two fairness conditions:

- **Transaction steps are weakly fair.** Every database call eventually
  returns: the server answers or the connection breaks.
- **`BeginTx` is strongly fair.** It is enabled only while a pool connection
  is free, and other callers take and release connections all the time.
  `database/sql` hands a released connection to a waiting request picked at
  random, so a waiter is not passed over forever.

`RepoPool` has the same two conditions. A caller's steps while it holds a
connection are weakly fair, because every statement returns. Being served
while waiting is strongly fair, because `putConn` picks a waiting request at
random. Callers are not obliged to call. Deadlock checking is off in
`repo_pool`, so that a state in which callers wait for a connection nobody
gives back is reported as a call that never returns. An idle caller can
always call, so no other kind of stuck state exists.

Deadlock checking is off in the `OrderTx` runs. Once the bounded set
of uuids is used up, no call can start, and only the bound causes that.

## 4. Not modelled, and why

- **JSON encoding and the `UserID` trust issue (spec §9).** These are data
  only. `UserID` is used for logging and nothing else.
- **Upgrade failure.** It returns before any state exists.
- **What single-statement repositories write.** This covers the cart, users,
  products, store and forum categories, `UpdateThread`, `UpdatePost`,
  `IncrementViewCount`, the order reads and `UpdateOrderStatus`. `RepoPool`
  models how each of them uses the pool, but not the rows.
  - Each method is one SQL statement. PostgreSQL runs each one atomically, and
    there is no Go-side state.
  - The cart upsert is one `INSERT ... ON CONFLICT (user_id, product_id) DO
    UPDATE`. It needs a unique index on those columns, so concurrent adds
    cannot duplicate a row or lose a quantity.
  - A model would restate each statement, and no property of it could fail.
- **The HTTP handlers.** Apart from `/ws`, every handler is a stub that
  writes a fixed JSON reply, or one list query. None calls a repository that
  changes state, and none calls `Hub.Broadcast`. Spec §4 says every
  durable change is handed to the hub as an event, but nothing in `main.go`
  does so yet.
- **`db.go` beyond the pool.** `Open` and `Ping` failures are the failed
  startup in `Main`. `Close` is only deferred in `main`. A dial that fails
  returns an error and changes nothing in the pool.
- **The data models.** `models.go` holds plain structs with no behaviour.
- **A retry of `CreateOrder`.** Nothing calls `CreateOrder` yet. The finding
  shows why a retry would be unsafe.
- **Heartbeats and idle timeouts.** The code has none, and spec §5 accepts
  that a silent connection stays registered. The model lets a peer stay silent
  for ever. The one case the spec does not accept, a client whose write
  already failed, is the `hub_write_failure_not_torn_down` finding.

## 5. Plan

1. Done: `Hub`, `HubService`, the refinement, the eviction finding, and
   `main`'s startup.
2. Done: `ForumReplies`, covering posts and thread rows, with the
   double-delete and lost-update findings.
3. Done: `OrderTx` refining `OrderStore`, and the pool liveness.
4. Done: the hub with three clients and the write-failure finding.
5. Done: what `CreateOrder` returns (`OkMeansCommitted` and the lost-COMMIT
   finding), and `RepoPool`, the pool shared by every repository.
6. `Server.tla`: HTTP publishers calling `Hub.Broadcast`, once handlers do
   so, as spec §4 asks. The check would be that publishers never block.
7. A caller of the repositories in `main.go`, once its handlers call a
   method that writes and then publish to the hub.
