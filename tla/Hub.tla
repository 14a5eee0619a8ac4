-------------------------------- MODULE Hub --------------------------------
(***************************************************************************)
(* The websocket hub of src/backend/websocket/hub.go and the goroutines    *)
(* around it: one HandleConnection per accepted connection, the hub's Run  *)
(* loop, and one readPump and one writePump per registered Client.         *)
(*                                                                         *)
(* Run is the only goroutine that touches Hub.clients; each case of its    *)
(* select is one atomic step here (a send inside a case is a non-blocking  *)
(* select, so a case never waits once it has started).  The unbuffered     *)
(* register/unregister channels are rendezvous steps of Run with the       *)
(* sender.  The buffered channels Hub.broadcast and Client.send are        *)
(* sequences bounded by their capacities.  A message is an id; payload,    *)
(* type and UserID are not interpreted by the hub and are left out.        *)
(***************************************************************************)
EXTENDS Naturals, Sequences, FiniteSets

CONSTANTS
    Clients,    \* the connections that may be accepted (one Client each)
    MaxMsgs,    \* bound on the number of messages read from all peers
    QueueCap,   \* capacity of Client.send (256 in HandleConnection)
    BcastCap,   \* capacity of Hub.broadcast (256 in NewHub)
    NoClient    \* origin of a message id not read yet

ASSUME /\ MaxMsgs \in Nat
       /\ QueueCap \in Nat \ {0}
       /\ BcastCap \in Nat \ {0}
       /\ NoClient \notin Clients

Msgs == 1..MaxMsgs

VARIABLES
    server,     \* main: "starting", "serving", or "exited" (log.Fatal)
    handler,    \* HandleConnection of c: "idle", "registering", "started"
    conn,       \* c.conn: "none", "open", "closed"
    reader,     \* readPump of c: "idle", "reading", "unregistering", "closing", "done"
    writer,     \* writePump of c: "idle", "running", "done"
    clients,    \* Hub.clients
    send,       \* buffered contents of c.send
    closed,     \* c.send has been closed
    bcast,      \* buffered contents of Hub.broadcast
    panicked,   \* a goroutine closed or sent on a closed channel
    nextMsg,    \* id of the next message a peer sends
    origin,     \* history: the client whose readPump read message m
    processed,  \* history: messages in the order Run took them from bcast
    joinedAt,   \* history: Len(processed) when c was registered
    leftAt,     \* history: Len(processed) c should have had when removed
    enqueued,   \* history: every message Run put into c.send, in order
    delivered,  \* history: every message writePump wrote on c's wire
    writeErr    \* history: c's writePump returned on a NextWriter error

vars == <<server, handler, conn, reader, writer, clients, send, closed, bcast,
          panicked, nextMsg, origin, processed, joinedAt, leftAt,
          enqueued, delivered, writeErr>>

TypeOK ==
    /\ server \in {"starting", "serving", "exited"}
    /\ handler \in [Clients -> {"idle", "registering", "started"}]
    /\ conn \in [Clients -> {"none", "open", "closed"}]
    /\ reader \in [Clients -> {"idle", "reading", "unregistering", "closing", "done"}]
    /\ writer \in [Clients -> {"idle", "running", "done"}]
    /\ clients \subseteq Clients
    /\ send \in [Clients -> Seq(Msgs)]
    /\ \A c \in Clients : Len(send[c]) <= QueueCap
    /\ closed \in [Clients -> BOOLEAN]
    /\ bcast \in Seq(Msgs)
    /\ Len(bcast) <= BcastCap
    /\ panicked \in BOOLEAN
    /\ nextMsg \in 1..MaxMsgs + 1
    /\ origin \in [Msgs -> Clients \cup {NoClient}]
    /\ processed \in Seq(Msgs)
    /\ joinedAt \in [Clients -> Nat]
    /\ leftAt \in [Clients -> Nat]
    /\ enqueued \in [Clients -> Seq(Msgs)]
    /\ delivered \in [Clients -> Seq(Msgs)]
    /\ writeErr \in [Clients -> BOOLEAN]

Init ==
    /\ server = "starting"
    /\ handler = [c \in Clients |-> "idle"]
    /\ conn = [c \in Clients |-> "none"]
    /\ reader = [c \in Clients |-> "idle"]
    /\ writer = [c \in Clients |-> "idle"]
    /\ clients = {}
    /\ send = [c \in Clients |-> <<>>]
    /\ closed = [c \in Clients |-> FALSE]
    /\ bcast = <<>>
    /\ panicked = FALSE
    /\ nextMsg = 1
    /\ origin = [m \in Msgs |-> NoClient]
    /\ processed = <<>>
    /\ joinedAt = [c \in Clients |-> 0]
    /\ leftAt = [c \in Clients |-> 0]
    /\ enqueued = [c \in Clients |-> <<>>]
    /\ delivered = [c \in Clients |-> <<>>]
    /\ writeErr = [c \in Clients |-> FALSE]

-----------------------------------------------------------------------------
(* close(c.send) for every c in S: closing a closed channel panics.        *)
CloseSend(S) ==
    /\ closed' = [c \in Clients |-> closed[c] \/ c \in S]
    /\ panicked' = (panicked \/ \E c \in S : closed[c])

(* Hub.Broadcast: a non-blocking send on Hub.broadcast; dropped when full. *)
Broadcast(m) ==
    \/ /\ Len(bcast) < BcastCap
       /\ bcast' = Append(bcast, m)
    \/ /\ Len(bcast) >= BcastCap
       /\ UNCHANGED bcast

(* main: database.Init, the repositories, NewHub, go hub.Run(), the      *)
(* routes (/ws calls HandleConnection), then http.ListenAndServe.  A       *)
(* failed database.Init or ListenAndServe ends the process in log.Fatal   *)
(* before any connection is accepted; otherwise the server serves from    *)
(* then on (nothing in main ever stops it).                                *)
Main ==
    /\ server = "starting"
    /\ server' \in {"serving", "exited"}
    /\ UNCHANGED <<writeErr, handler, conn, reader, writer, clients, send, closed, bcast,
                   panicked, nextMsg, origin, processed, joinedAt, leftAt,
                   enqueued, delivered>>

(* HandleConnection: the upgrade succeeded and the handler is now blocked  *)
(* on hub.register <- client.  A failed upgrade returns and changes        *)
(* nothing.                                                                *)
HandleConnection(c) ==
    /\ server = "serving"
    /\ handler[c] = "idle"
    /\ handler' = [handler EXCEPT ![c] = "registering"]
    /\ conn' = [conn EXCEPT ![c] = "open"]
    /\ UNCHANGED <<server, writeErr, reader, writer, clients, send, closed, bcast, panicked,
                   nextMsg, origin, processed, joinedAt, leftAt, enqueued,
                   delivered>>

(* Run's register case takes the client; the handler then starts readPump *)
(* and writePump.                                                          *)
RunRegister(c) ==
    /\ handler[c] = "registering"
    /\ clients' = clients \cup {c}
    /\ handler' = [handler EXCEPT ![c] = "started"]
    /\ reader' = [reader EXCEPT ![c] = "reading"]
    /\ writer' = [writer EXCEPT ![c] = "running"]
    /\ joinedAt' = [joinedAt EXCEPT ![c] = Len(processed)]
    /\ UNCHANGED <<server, writeErr, conn, send, closed, bcast, panicked, nextMsg, origin,
                   processed, leftAt, enqueued, delivered>>

(* readPump: ReadJSON returns a message; c.UserID is overwritten (not      *)
(* modelled) and the message is handed to Hub.Broadcast.                  *)
ReadPumpRead(c) ==
    /\ reader[c] = "reading"
    /\ nextMsg <= MaxMsgs
    /\ origin' = [origin EXCEPT ![nextMsg] = c]
    /\ nextMsg' = nextMsg + 1
    /\ Broadcast(nextMsg)
    /\ UNCHANGED <<server, writeErr, handler, conn, reader, writer, clients, send, closed,
                   panicked, processed, joinedAt, leftAt, enqueued, delivered>>

(* readPump: ReadJSON fails (peer closed, network error, bad JSON); the    *)
(* loop returns and the deferred hub.unregister <- c blocks.               *)
ReadPumpFail(c) ==
    /\ reader[c] = "reading"
    /\ reader' = [reader EXCEPT ![c] = "unregistering"]
    /\ UNCHANGED <<server, writeErr, handler, conn, writer, clients, send, closed, bcast,
                   panicked, nextMsg, origin, processed, joinedAt, leftAt,
                   enqueued, delivered>>

(* Seeded fault: unregister without the membership check, so a client    *)
(* already evicted by the broadcast case is closed a second time.          *)
RunUnregisterNoCheck(c) ==
    /\ reader[c] = "unregistering"
    /\ reader' = [reader EXCEPT ![c] = "closing"]
    /\ clients' = clients \ {c}
    /\ CloseSend({c})
    /\ leftAt' = [leftAt EXCEPT ![c] = Len(processed)]
    /\ UNCHANGED <<server, writeErr, handler, conn, writer, send, bcast, nextMsg, origin,
                   processed, joinedAt, enqueued, delivered>>

(* Seeded fault: unregister deletes the client but forgets close(c.send). *)
RunUnregisterNoClose(c) ==
    /\ reader[c] = "unregistering"
    /\ reader' = [reader EXCEPT ![c] = "closing"]
    /\ IF c \in clients
          THEN /\ clients' = clients \ {c}
               /\ leftAt' = [leftAt EXCEPT ![c] = Len(processed)]
          ELSE UNCHANGED <<server, writeErr, clients, leftAt>>
    /\ UNCHANGED <<server, writeErr, handler, conn, writer, send, closed, panicked, bcast,
                   nextMsg, origin, processed, joinedAt, enqueued, delivered>>

(* Run's unregister case: only a client still in the map is deleted and    *)
(* has its send channel closed.                                            *)
RunUnregister(c) ==
    /\ reader[c] = "unregistering"
    /\ reader' = [reader EXCEPT ![c] = "closing"]
    /\ IF c \in clients
          THEN /\ clients' = clients \ {c}
               /\ CloseSend({c})
               /\ leftAt' = [leftAt EXCEPT ![c] = Len(processed)]
          ELSE UNCHANGED <<server, writeErr, clients, closed, panicked, leftAt>>
    /\ UNCHANGED <<server, writeErr, handler, conn, writer, send, bcast, nextMsg, origin,
                   processed, joinedAt, enqueued, delivered>>

(* readPump's deferred c.conn.Close() after the unregister send.           *)
ReadPumpClose(c) ==
    /\ reader[c] = "closing"
    /\ reader' = [reader EXCEPT ![c] = "done"]
    /\ conn' = [conn EXCEPT ![c] = "closed"]
    /\ UNCHANGED <<server, writeErr, handler, writer, clients, send, closed, bcast, panicked,
                   nextMsg, origin, processed, joinedAt, leftAt, enqueued,
                   delivered>>

(* Seeded fault: a full client's channel is closed but it stays in the    *)
(* map.                                                                    *)
RunBroadcastNoDelete ==
    /\ bcast # <<>>
    /\ LET m    == Head(bcast)
           full == {c \in clients : Len(send[c]) >= QueueCap}
           ok   == clients \ full
       IN /\ send' = [c \in Clients |->
                        IF c \in ok THEN Append(send[c], m) ELSE send[c]]
          /\ enqueued' = [c \in Clients |->
                        IF c \in ok THEN Append(enqueued[c], m) ELSE enqueued[c]]
          /\ closed' = [c \in Clients |-> closed[c] \/ c \in full]
          /\ panicked' = (panicked \/ \E c \in clients : closed[c])
          /\ leftAt' = [c \in Clients |->
                        IF c \in full THEN Len(processed) ELSE leftAt[c]]
          /\ processed' = Append(processed, m)
          /\ bcast' = Tail(bcast)
    /\ UNCHANGED <<server, writeErr, handler, conn, reader, writer, clients, nextMsg, origin,
                   joinedAt, delivered>>

(* Seeded fault: the fan-out stops at the first full client, so when any   *)
(* client is evicted nobody receives the message.                          *)
RunBroadcastAbortOnFull ==
    /\ bcast # <<>>
    /\ LET m    == Head(bcast)
           full == {c \in clients : Len(send[c]) >= QueueCap}
           ok   == IF full = {} THEN clients ELSE {}
       IN /\ send' = [c \in Clients |->
                        IF c \in ok THEN Append(send[c], m) ELSE send[c]]
          /\ enqueued' = [c \in Clients |->
                        IF c \in ok THEN Append(enqueued[c], m) ELSE enqueued[c]]
          /\ closed' = [c \in Clients |-> closed[c] \/ c \in full]
          /\ panicked' = (panicked \/ \E c \in clients : closed[c])
          /\ clients' = clients \ full
          /\ leftAt' = [c \in Clients |->
                        IF c \in full THEN Len(processed) ELSE leftAt[c]]
          /\ processed' = Append(processed, m)
          /\ bcast' = Tail(bcast)
    /\ UNCHANGED <<server, writeErr, handler, conn, reader, writer, nextMsg, origin, joinedAt,
                   delivered>>

(* Run's broadcast case: the head of Hub.broadcast is offered to every     *)
(* client in the map with a non-blocking send; a client whose send buffer  *)
(* is full has its channel closed and is deleted from the map.  A send on  *)
(* a closed channel panics.                                                *)
RunBroadcast ==
    /\ bcast # <<>>
    /\ LET m    == Head(bcast)
           full == {c \in clients : Len(send[c]) >= QueueCap}
           ok   == clients \ full
       IN /\ send' = [c \in Clients |->
                        IF c \in ok THEN Append(send[c], m) ELSE send[c]]
          /\ enqueued' = [c \in Clients |->
                        IF c \in ok THEN Append(enqueued[c], m) ELSE enqueued[c]]
          /\ closed' = [c \in Clients |-> closed[c] \/ c \in full]
          /\ panicked' = (panicked \/ \E c \in clients : closed[c])
          /\ clients' = ok
          /\ leftAt' = [c \in Clients |->
                        IF c \in full THEN Len(processed) ELSE leftAt[c]]
          /\ processed' = Append(processed, m)
          /\ bcast' = Tail(bcast)
    /\ UNCHANGED <<server, writeErr, handler, conn, reader, writer, nextMsg, origin, joinedAt,
                   delivered>>

(* Seeded fault: a write whose frame went out but whose w.Close() reported *)
(* an error is retried, so the message is written twice.                   *)
WritePumpWriteRetry(c) ==
    /\ writer[c] = "running"
    /\ send[c] # <<>>
    /\ \/ /\ conn[c] = "open"
          /\ send' = [send EXCEPT ![c] = Tail(@)]
          /\ delivered' = [delivered EXCEPT ![c] = Append(@, Head(send[c]))]
          /\ UNCHANGED <<writer, writeErr>>
       \/ /\ conn[c] = "open"
          /\ delivered' = [delivered EXCEPT ![c] = Append(@, Head(send[c]))]
          /\ UNCHANGED <<writer, send, writeErr>>
       \/ /\ send' = [send EXCEPT ![c] = Tail(@)]
          /\ writer' = [writer EXCEPT ![c] = "done"]
          /\ writeErr' = [writeErr EXCEPT ![c] = TRUE]
          /\ UNCHANGED delivered
    /\ UNCHANGED <<server, handler, conn, reader, clients, closed, bcast, panicked,
                   nextMsg, origin, processed, joinedAt, leftAt, enqueued>>

(* writePump: one iteration of range c.send.  The message leaves the       *)
(* channel; then either it is written, or w.Close() fails and the error is *)
(* ignored (message lost, loop goes on), or NextWriter fails and the loop  *)
(* returns.  Writes on a closed connection fail.                           *)
WritePumpWrite(c) ==
    /\ writer[c] = "running"
    /\ send[c] # <<>>
    /\ send' = [send EXCEPT ![c] = Tail(@)]
    /\ \/ /\ conn[c] = "open"
          /\ delivered' = [delivered EXCEPT ![c] = Append(@, Head(send[c]))]
          /\ UNCHANGED <<writer, writeErr>>
       \/ UNCHANGED <<writer, delivered, writeErr>>
       \/ /\ writer' = [writer EXCEPT ![c] = "done"]
          /\ writeErr' = [writeErr EXCEPT ![c] = TRUE]
          /\ UNCHANGED delivered
    /\ UNCHANGED <<server, handler, conn, reader, clients, closed, bcast, panicked,
                   nextMsg, origin, processed, joinedAt, leftAt, enqueued>>

(* writePump: range ends on the closed, drained channel; the close frame   *)
(* is written (its error ignored) and the goroutine exits.                 *)
WritePumpExit(c) ==
    /\ writer[c] = "running"
    /\ closed[c]
    /\ send[c] = <<>>
    /\ writer' = [writer EXCEPT ![c] = "done"]
    /\ UNCHANGED <<server, writeErr, handler, conn, reader, clients, send, closed, bcast,
                   panicked, nextMsg, origin, processed, joinedAt, leftAt,
                   enqueued, delivered>>

Next ==
    \/ Main
    \/ \E c \in Clients :
          \/ HandleConnection(c)
          \/ RunRegister(c)
          \/ ReadPumpRead(c)
          \/ ReadPumpFail(c)
          \/ RunUnregister(c)
          \/ ReadPumpClose(c)
          \/ WritePumpWrite(c)
          \/ WritePumpExit(c)
    \/ RunBroadcast

(* The Go scheduler eventually runs every runnable goroutine, and select   *)
(* picks uniformly among ready cases, so main's startup, every step of     *)
(* Run and the unregister/close tail of readPump are weakly fair, and so  *)
(* is writePump's exit.  Peers are not: a connection may stay open and     *)
(* silent for ever.  writePump writes with no write deadline, so a write   *)
(* on an open connection whose peer stops reading may block for ever; only *)
(* a write on a closed connection is sure to return (it fails at once).    *)
Fairness ==
    /\ WF_vars(Main)
    /\ WF_vars(RunBroadcast)
    /\ \A c \in Clients :
          /\ WF_vars(RunRegister(c))
          /\ WF_vars(RunUnregister(c))
          /\ WF_vars(ReadPumpClose(c))
          /\ WF_vars(conn[c] = "closed" /\ WritePumpWrite(c))
          /\ WF_vars(WritePumpExit(c))

Spec == Init /\ [][Next]_vars /\ Fairness

-----------------------------------------------------------------------------
Admitted == {c \in Clients : handler[c] = "started"}

(* No goroutine ever closes an already closed c.send or sends on one: an   *)
(* eviction by Run's broadcast case followed by the evicted client's own   *)
(* unregister must not close its channel a second time.                    *)
NoPanic == ~panicked

(* Every registered client is exactly one of: in Hub.clients with an open  *)
(* send channel, or out of it with the channel closed; and a client whose  *)
(* readPump has finished is never left in Hub.clients.                     *)
Lifecycle ==
    /\ clients \subseteq Admitted
    /\ \A c \in Admitted : (c \in clients) = ~closed[c]
    /\ \A c \in Clients : reader[c] = "done" => c \notin clients

(* Fan-out isolation: what Run put into c.send is exactly the messages it  *)
(* processed from c's registration until c left the map, gap-free and in   *)
(* Run's order; an evicted slow client does not cost any other client a    *)
(* message, and nothing reaches a client after it is removed.              *)
GapFreeDelivery ==
    \A c \in Admitted :
        enqueued[c] = SubSeq(processed, joinedAt[c] + 1,
                             IF c \in clients THEN Len(processed) ELSE leftAt[c])

RECURSIVE IsSubSeqOf(_, _)
IsSubSeqOf(s, t) ==
    IF s = <<>> THEN TRUE
    ELSE IF t = <<>> THEN FALSE
    ELSE IF Head(s) = Head(t) THEN IsSubSeqOf(Tail(s), Tail(t))
    ELSE IsSubSeqOf(s, Tail(t))

(* Per-destination FIFO: what writePump writes on c's wire is a            *)
(* subsequence of what Run enqueued for c, with no duplicate and no        *)
(* reordering, even when writes fail silently.                             *)
WireFIFO == \A c \in Clients : IsSubSeqOf(delivered[c], enqueued[c])

(* Teardown completes: once c's read side has failed, c eventually is out  *)
(* of Hub.clients, its send channel is closed, its writePump has exited    *)
(* and its connection is closed.                                           *)
TeardownCompletes ==
    \A c \in Clients :
        reader[c] = "unregistering" ~>
            (c \notin clients /\ closed[c] /\ writer[c] = "done"
             /\ conn[c] = "closed")

(* A client removed from Hub.clients is torn down (spec section 3): it     *)
(* publishes nothing more.  hub.go's eviction only closes c.send; the      *)
(* connection and readPump stay alive and keep calling Hub.Broadcast.      *)
EvictedClientSilent ==
    [][\A c \in Admitted \ clients :
          nextMsg' # nextMsg => origin'[nextMsg] # c]_vars

(* The hub implements HubService: Hub.clients is the live set, registered  *)
(* clients no longer in it are gone, Hub.broadcast is the pending FIFO and *)
(* what Run put into c.send is c's log.  Messages dropped because          *)
(* Hub.broadcast was full were never accepted, so they are not pending.    *)
Service == INSTANCE HubService
               WITH live <- clients, gone <- Admitted \ clients,
                    pending <- bcast, log <- enqueued

ServiceSpec == Service!Spec

(* A write failure is fatal to its client and triggers immediate teardown  *)
(* (spec section on the error taxonomy): once writePump has hit a          *)
(* NextWriter error, c is eventually out of Hub.clients with its           *)
(* connection closed.  writePump just returns; teardown waits for the     *)
(* read side to fail, which a silent peer never makes happen.              *)
WriteFailureTearsDown ==
    \A c \in Clients :
        writeErr[c] ~> (c \notin clients /\ conn[c] = "closed")
=============================================================================
