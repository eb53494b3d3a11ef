---------------------------- MODULE EventDelivery ----------------------------
(***************************************************************************)
(* Delivery of a session's events to one client device over its WebSockets *)
(* (internal/ws/events.go, manager.go, stream_hub.go, and the write-ahead  *)
(* of service/pending_events.go).                                          *)
(*                                                                         *)
(* The actors: one handler goroutine per socket (EventsHandler), the writer*)
(* goroutine it starts, its pinger, the producers of events (a turn's event*)
(* loop, request handlers), and the network.  A client reconnects by       *)
(* opening another socket, often before the server noticed that the old one*)
(* is gone; the teardown of the old handler then overlaps the new one.     *)
(*                                                                         *)
(*   handler:  none -> replace -> await -> closeOld -> copy -> replay      *)
(*     -> start -> reading (-> recover -> close) -> disconnect             *)
(*     -> unsubscribe -> stop -> closeQueue -> none                        *)
(***************************************************************************)
EXTENDS Subscription

CONSTANTS
  Emitters,       \* goroutines that emit events of the session
  MaxEvents,      \* events emitted in one history
  MaxConnects,    \* sockets opened in one history
  Requests,       \* the kinds of client message: subscribe, unsubscribe, metrics
  MaxRequests,    \* client messages in one history
  UserMessages,   \* the events that are user_message
  StreamStarts,   \* ... stream_start
  Updates         \* ... the terminal session_update, broadcast to all clients

ASSUME EventAssumption ==
  /\ MaxEvents \in Nat /\ MaxConnects \in Nat /\ MaxRequests \in Nat
  /\ UserMessages \cup StreamStarts \cup Updates \subseteq 1..MaxEvents
  /\ UserMessages \cap Updates = {} /\ UserMessages \cap StreamStarts = {}

VARIABLES
  sock,       \* sock[c]: open, dead (the peer is gone) or closed
  pc,         \* pc[c]: where the handler of c is
  loc,        \* loc[c]: its locals
  drains,     \* drains[c]: the channel the writer of c reads, NoConn: no writer
  connects,   \* sockets opened so far
  requests,   \* client messages so far
  emit,       \* emit[e]: pc and locals of a producer
  next,       \* number of the next event
  live,       \* the stream_start of the row that is streaming, 0: none
  stored      \* the events in pending_events

\* History, for the properties only.
VARIABLES
  asked,      \* the sockets whose subscribe message was processed last
  handed,     \* handed[c]: the stream_starts offered to c while it was current
  gap,        \* the sockets that had an event refused
  accepted,   \* the notifiable events that went into the channel or the buffer
  away        \* the user messages others watched for while the client was offline

netVars == <<sock, pc, loc, drains, connects, requests>>
emitVars == <<emit, next, live, stored>>
histVars == <<asked, handed, gap, accepted, away>>
vars == <<subVars, netVars, emitVars, histVars>>

Notifiable == UserMessages \cup Updates

ToSet(s) == {s[i] : i \in DOMAIN s}

HandlerStates ==
  {"none", "replace", "await", "closeOld", "copy", "replay", "start", "reading",
   "recover", "close", "disconnect", "unsubscribe", "stop", "closeQueue"}
NoLocals == [conn |-> NoConn, queue |-> NoConn, writer |-> NoConn, replay |-> <<>>]
IdleEmitter == [pc |-> "idle", n |-> 0, send |-> FALSE, conn |-> NoConn]

TypeOK ==
  /\ SubscriptionTypeOK
  /\ sock \in [Conns -> {"open", "dead", "closed"}]
  /\ pc \in [Conns -> HandlerStates]
  /\ loc \in [Conns -> [conn : MaybeConn, queue : MaybeConn, writer : MaybeConn,
                        replay : Seq(Frames)]]
  /\ drains \in [Conns -> MaybeConn] /\ connects \in Nat /\ requests \in Nat
  /\ emit \in [Emitters -> [pc : {"idle", "probe", "store", "fanout", "send", "close"},
                            n : Nat, send : BOOLEAN, conn : MaybeConn]]
  /\ next \in Nat /\ live \in Nat
  /\ stored \subseteq Nat /\ accepted \subseteq Nat /\ away \subseteq Nat
  /\ asked \subseteq Conns /\ gap \subseteq Conns
  /\ handed \in [Conns -> SUBSET Nat]

Init ==
  /\ SubscriptionInit
  /\ sock = [c \in Conns |-> "closed"]
  /\ pc = [c \in Conns |-> "none"]
  /\ loc = [c \in Conns |-> NoLocals]
  /\ drains = [c \in Conns |-> NoConn] /\ connects = 0 /\ requests = 0
  /\ emit = [e \in Emitters |-> IdleEmitter]
  /\ next = 1 /\ live = 0 /\ stored = {}
  /\ asked = {} /\ gap = {} /\ accepted = {} /\ away = {}
  /\ handed = [c \in Conns |-> {}]

\* The events that are being emitted.
Emitting == {emit[e].n : e \in {f \in Emitters : emit[f].pc # "idle"}}

Goto(c, s) == pc' = [pc EXCEPT ![c] = s]

\* c names no socket, channel or writer that anybody still holds.
Fresh(c) ==
  /\ pc[c] = "none" /\ drains[c] = NoConn
  /\ c \notin {sub.conn, sub.sendQueue, sub.writer}
  /\ \A d \in Conns : drains[d] # c /\ c \notin {loc[d].conn, loc[d].queue, loc[d].writer}
  /\ \A e \in Emitters : emit[e].conn # c

-----------------------------------------------------------------------------
(***************************************************************************)
(* A handler starts: Subscribe, replay, writer                             *)
(***************************************************************************)

\* EventsHandler, Subscribe up to the unlock: what it replaces is remembered.
Connect(c) ==
  /\ Fresh(c) /\ connects < MaxConnects
  /\ connects' = connects + 1
  /\ Install(c)
  /\ sock' = [sock EXCEPT ![c] = "open"]
  /\ Goto(c, "replace")
  /\ loc' = [loc EXCEPT ![c] =
       [conn |-> sub.conn, writer |-> sub.writer, replay |-> <<>>,
        queue |-> IF sub.writer # NoConn THEN sub.sendQueue ELSE NoConn]]
  /\ asked' = asked \ {c} /\ gap' = gap \ {c}
  /\ handed' = [handed EXCEPT ![c] = {}]
  /\ UNCHANGED <<drains, requests, emitVars, accepted, away>>

\* A bug: the old channel is left open.
LeaveOldQueue(c) ==
  /\ pc[c] = "replace"
  /\ Goto(c, "closeOld")
  /\ UNCHANGED <<subVars, sock, loc, drains, connects, requests, emitVars, histVars>>

CloseOldQueue(c) ==
  /\ pc[c] = "replace"
  /\ CloseChannel(loc[c].queue)
  /\ Goto(c, IF loc[c].writer # NoConn THEN "await" ELSE "closeOld")
  /\ UNCHANGED <<sock, loc, drains, connects, requests, emitVars, histVars>>

\* <-oldExit, without a bound.
AwaitOldWriter(c) ==
  /\ pc[c] = "await"
  /\ drains[loc[c].writer] = NoConn
  /\ Goto(c, "closeOld")
  /\ UNCHANGED <<subVars, sock, loc, drains, connects, requests, emitVars, histVars>>

\* oldConn.Close: the old handler's read fails.
CloseOldConn(c) ==
  /\ pc[c] = "closeOld"
  /\ sock' = [d \in Conns |-> IF d = loc[c].conn THEN "closed" ELSE sock[d]]
  /\ loc' = [loc EXCEPT ![c] = NoLocals]
  /\ Goto(c, "copy")
  /\ UNCHANGED <<subVars, drains, connects, requests, emitVars, histVars>>

\* GetBufferedEvents.
CopyBuffer(c) ==
  /\ pc[c] = "copy"
  /\ loc' = [loc EXCEPT ![c].replay = sub.buffer]
  /\ Goto(c, "replay")
  /\ UNCHANGED <<subVars, sock, drains, connects, requests, emitVars, histVars>>

\* The copies are written to the socket, errors are ignored; then the buffer is
\* cleared, whoever's socket is current by now.
ReplayOver(c) ==
  /\ pc[c] = "replay"
  /\ ClearBuffer
  /\ loc' = [loc EXCEPT ![c].replay = <<>>]
  /\ Goto(c, "start")
  /\ UNCHANGED <<sock, drains, connects, requests, emitVars, histVars>>

\* StartWriter: the goroutine reads the channel found under the lock.
StartWriter(c) ==
  /\ pc[c] = "start"
  /\ IF MayStartWriter(c)
       THEN AttachWriter(c) /\ drains' = [drains EXCEPT ![c] = sub.sendQueue]
       ELSE UNCHANGED <<subVars, drains>>
  /\ Goto(c, "reading")
  /\ UNCHANGED <<sock, loc, connects, requests, emitVars, histVars>>

-----------------------------------------------------------------------------
(***************************************************************************)
(* readClientMessages                                                      *)
(***************************************************************************)

\* A message of the client was read.
Read(c, kind) ==
  /\ pc[c] = "reading"
  /\ kind \in Requests /\ requests < MaxRequests
  /\ requests' = requests + 1

\* handleSubscribe up to the hub.
HandleSubscribe(c) ==
  /\ Read(c, "subscribe")
  /\ HubSubscribe
  /\ asked' = asked \cup {c}
  /\ Goto(c, "recover")
  /\ UNCHANGED <<sock, loc, drains, connects, emitVars, handed, gap, accepted, away>>

\* What the delivery of n to the current socket records.
Note(n) ==
  /\ handed' = IF n \in StreamStarts /\ known /\ sub.conn # NoConn
                 THEN [handed EXCEPT ![sub.conn] = @ \cup {n}] ELSE handed
  /\ gap' = IF Refused THEN gap \cup {sub.conn} ELSE gap
  /\ accepted' = IF n \in Notifiable /\ known /\ (sub.conn # NoConn \/ sub.since # "past")
                   THEN accepted \cup {n} ELSE accepted

\* A bug, of an earlier version: nothing is re-emitted to a late subscriber.
RecoverNothing(c) ==
  /\ pc[c] = "recover"
  /\ Goto(c, "reading")
  /\ UNCHANGED <<subVars, sock, loc, drains, connects, requests, emitVars, histVars>>

\* OnSubscribe: the question and the stream_start of the live run, if any, are
\* sent to the client (EmitLiveRunStateToClient).
Recover(c) ==
  /\ pc[c] = "recover"
  /\ IF live = 0
       THEN Goto(c, "reading") /\ UNCHANGED <<subVars, loc, handed, gap, accepted>>
       ELSE /\ Deliver(live) /\ Note(live)
            /\ Goto(c, IF Refused THEN "close" ELSE "reading")
            /\ loc' = [loc EXCEPT ![c].conn = IF Refused THEN sub.conn ELSE NoConn]
  /\ UNCHANGED <<sock, drains, connects, requests, emitVars, asked, away>>

\* CloseNow on the socket whose channel refused the event.
RecoverCloses(c) ==
  /\ pc[c] = "close"
  /\ sock' = [sock EXCEPT ![loc[c].conn] = "closed"]
  /\ loc' = [loc EXCEPT ![c].conn = NoConn]
  /\ Goto(c, "reading")
  /\ UNCHANGED <<subVars, drains, connects, requests, emitVars, histVars>>

HandleUnsubscribe(c) ==
  /\ Read(c, "unsubscribe")
  /\ HubUnsubscribe
  /\ asked' = {}
  /\ UNCHANGED <<sock, pc, loc, drains, connects, emitVars, handed, gap, accepted, away>>

HandlePreference(c) ==
  /\ Read(c, "metrics")
  /\ IF MayPrefer(c) THEN SetPreference(c) \/ ClearPreference ELSE UNCHANGED subVars
  /\ UNCHANGED <<sock, pc, loc, drains, connects, emitVars, histVars>>

\* conn.Read fails, the handler closes its socket.
ReadFails(c) ==
  /\ pc[c] = "reading"
  /\ sock[c] # "open"
  /\ sock' = [sock EXCEPT ![c] = "closed"]
  /\ Goto(c, "disconnect")
  /\ UNCHANGED <<subVars, loc, drains, connects, requests, emitVars, histVars>>

-----------------------------------------------------------------------------
(***************************************************************************)
(* The deferred teardown of a handler                                      *)
(***************************************************************************)
Disconnect(c) ==
  /\ pc[c] = "disconnect"
  /\ IF IsCurrent(c) THEN Detach /\ Goto(c, "unsubscribe")
                     ELSE Goto(c, "stop") /\ UNCHANGED subVars
  /\ UNCHANGED <<sock, loc, drains, connects, requests, emitVars, histVars>>

UnsubscribeAll(c) ==
  /\ pc[c] = "unsubscribe"
  /\ HubUnsubscribe
  /\ Goto(c, "stop")
  /\ UNCHANGED <<sock, loc, drains, connects, requests, emitVars, histVars>>

StopWriter(c) ==
  /\ pc[c] = "stop"
  /\ IF HasWriter(c)
       THEN /\ DetachWriter
            /\ loc' = [loc EXCEPT ![c].queue = sub.sendQueue]
            /\ Goto(c, "closeQueue")
       ELSE /\ Goto(c, "none") /\ UNCHANGED <<subVars, loc>>
  /\ UNCHANGED <<sock, drains, connects, requests, emitVars, histVars>>

\* The wait for the writer is bounded and changes nothing: it is left out.
CloseQueue(c) ==
  /\ pc[c] = "closeQueue"
  /\ CloseChannel(loc[c].queue)
  /\ loc' = [loc EXCEPT ![c] = NoLocals]
  /\ Goto(c, "none")
  /\ UNCHANGED <<sock, drains, connects, requests, emitVars, histVars>>

-----------------------------------------------------------------------------
(***************************************************************************)
(* Writer, pinger, network, time                                           *)
(***************************************************************************)

\* writeLoop: a frame is written, or the write fails, closes the socket and
\* ends the writer.
Write(c) ==
  /\ drains[c] # NoConn /\ channel[drains[c]] # <<>>
  /\ channel' = [channel EXCEPT ![drains[c]] = Tail(@)]
  /\ IF sock[c] = "open"
       THEN UNCHANGED <<sock, drains>>
       ELSE /\ sock' = [sock EXCEPT ![c] = "closed"]
            /\ drains' = [drains EXCEPT ![c] = NoConn]
  /\ UNCHANGED <<known, sub, closed, hub, pc, loc, connects, requests, emitVars, histVars>>

\* writeLoop: the channel is closed and empty.
WriterEnds(c) ==
  /\ drains[c] # NoConn /\ channel[drains[c]] = <<>> /\ drains[c] \in closed
  /\ drains' = [drains EXCEPT ![c] = NoConn]
  /\ UNCHANGED <<subVars, sock, pc, loc, connects, requests, emitVars, histVars>>

\* The pinger, or the idle timeout of the reader.
Ping(c) ==
  /\ sock[c] = "dead"
  /\ sock' = [sock EXCEPT ![c] = "closed"]
  /\ UNCHANGED <<subVars, pc, loc, drains, connects, requests, emitVars, histVars>>

PeerGone(c) ==
  /\ sock[c] = "open"
  /\ sock' = [sock EXCEPT ![c] = "dead"]
  /\ UNCHANGED <<subVars, pc, loc, drains, connects, requests, emitVars, histVars>>

\* Ten seconds and two minutes are long against the steps of a teardown.
TearingDown == \E c \in Conns : pc[c] \in {"unsubscribe", "stop", "closeQueue"}

TimePasses ==
  /\ ~TearingDown
  /\ WindowPasses
  /\ UNCHANGED <<netVars, emitVars, histVars>>

\* Nobody is left who holds a pointer to the entry.
Cleanup ==
  /\ \A c \in Conns : pc[c] = "none"
  /\ Forget
  /\ UNCHANGED <<netVars, emitVars, histVars>>

Sample ==
  /\ DeliverMetric
  /\ UNCHANGED <<netVars, emitVars, histVars>>

-----------------------------------------------------------------------------
(***************************************************************************)
(* Producers: EmitToSession, Emit, and the broadcast of a session_update   *)
(***************************************************************************)
Step(e, s) == emit' = [emit EXCEPT ![e].pc = s]

\* The next event; the row of a stream_start is in the database by then, and the
\* row of a terminal update is not streaming any more.
Begin(e) ==
  /\ emit[e].pc = "idle" /\ next <= MaxEvents
  /\ emit' = [emit EXCEPT ![e] =
       [pc |-> IF next \in Updates THEN "store" ELSE "probe",
        n |-> next, send |-> next \in Updates, conn |-> NoConn]]
  /\ live' = IF next \in StreamStarts THEN next
             ELSE IF next \in Updates THEN 0 ELSE live
  /\ next' = next + 1
  /\ UNCHANGED <<subVars, netVars, stored, histVars>>

\* EmitToSession: without a subscriber the event is only stored.
Probe(e) ==
  /\ emit[e].pc = "probe"
  /\ \E listed \in ProbeAnswers :
       /\ emit' = [emit EXCEPT ![e].pc = "store", ![e].send = listed]
       /\ away' = IF listed /\ emit[e].n \in UserMessages /\ known /\ sub.conn = NoConn
                    THEN away \cup {emit[e].n} ELSE away
  /\ UNCHANGED <<subVars, netVars, next, live, stored, asked, handed, gap, accepted>>

\* storeEventIfNotifiable and StoreNotifiableEvent: skipped if every connected
\* client subscribes to the session.
Store(e) ==
  /\ emit[e].pc = "store"
  /\ \E skip \in GateAnswers :
       stored' = IF emit[e].n \in Notifiable /\ ~skip
                   THEN stored \cup {emit[e].n} ELSE stored
  /\ Step(e, IF ~emit[e].send THEN "idle"
             ELSE IF emit[e].n \in Updates THEN "send" ELSE "fanout")
  /\ UNCHANGED <<subVars, netVars, next, live, histVars>>

\* Emit: whether this client is in the snapshot of the subscribers.
Fanout(e) ==
  /\ emit[e].pc = "fanout"
  /\ Step(e, IF hub THEN "send" ELSE "idle")
  /\ UNCHANGED <<subVars, netVars, next, live, stored, histVars>>

\* A bug: a refused event is just dropped.
SendDropping(e) ==
  /\ emit[e].pc = "send"
  /\ Deliver(emit[e].n) /\ Note(emit[e].n)
  /\ Step(e, "idle")
  /\ UNCHANGED <<netVars, next, live, stored, asked, away>>

\* SendToClient: the critical section of the delivery.
Send(e) ==
  /\ emit[e].pc = "send"
  /\ Deliver(emit[e].n) /\ Note(emit[e].n)
  /\ emit' = [emit EXCEPT ![e].pc = IF Refused THEN "close" ELSE "idle",
                          ![e].conn = IF Refused THEN sub.conn ELSE NoConn]
  /\ UNCHANGED <<netVars, next, live, stored, asked, away>>

\* CloseNow outside the lock: the client reconnects and reloads.
EmitterCloses(e) ==
  /\ emit[e].pc = "close"
  /\ sock' = [sock EXCEPT ![emit[e].conn] = "closed"]
  /\ emit' = [emit EXCEPT ![e].pc = "idle", ![e].conn = NoConn]
  /\ UNCHANGED <<subVars, pc, loc, drains, connects, requests, next, live, stored, histVars>>

-----------------------------------------------------------------------------
HandlerSteps(c) ==
  \/ CloseOldQueue(c) \/ AwaitOldWriter(c) \/ CloseOldConn(c)
  \/ CopyBuffer(c) \/ ReplayOver(c) \/ StartWriter(c)
  \/ Recover(c) \/ RecoverCloses(c) \/ ReadFails(c)
  \/ Disconnect(c) \/ UnsubscribeAll(c) \/ StopWriter(c) \/ CloseQueue(c)

ClientSteps(c) ==
  Connect(c) \/ HandleSubscribe(c) \/ HandleUnsubscribe(c) \/ HandlePreference(c)

WriterSteps(c) == Write(c) \/ WriterEnds(c)

EmitterSteps(e) ==
  Probe(e) \/ Store(e) \/ Fanout(e) \/ Send(e) \/ EmitterCloses(e)

Next ==
  \/ \E c \in Conns : HandlerSteps(c)
  \/ \E c \in Conns : ClientSteps(c)
  \/ \E c \in Conns : WriterSteps(c) \/ Ping(c) \/ PeerGone(c)
  \/ \E e \in Emitters : Begin(e) \/ EmitterSteps(e)
  \/ TimePasses \/ Cleanup \/ Sample

Spec == Init /\ [][Next]_vars

-----------------------------------------------------------------------------
(***************************************************************************)
(* Properties                                                              *)
(***************************************************************************)

\* The channel events are sent to is open and is the current socket's, so an
\* emission never sends on a closed channel (a panic of the whole server), and
\* never into the channel of a replaced socket (manager.go, Subscribe and
\* StopWriter with their identity checks).
ChannelIsLive ==
  /\ sub.sendQueue \notin closed
  /\ sub.conn # NoConn => sub.sendQueue = sub.conn

\* Closing a channel twice would panic as well: a detached channel has exactly
\* one goroutine that closes it (Subscribe's caller or StopWriter's).
ClosedOnce ==
  [][\A c \in Conns :
       (pc[c] \in {"replace", "closeQueue"} /\ pc'[c] # pc[c])
         => loc[c].queue \notin closed]_vars

\* A handler that reads from the current socket has its writer: no teardown or
\* replacement of another socket stops it, detaches it or makes it read another
\* channel.  Only its own failed write ends it, which closes the socket.
CurrentSocketIsServed ==
  \A c \in Conns :
    sub.conn = c /\ pc[c] \in {"reading", "recover", "close"} =>
      /\ sub.writer = c
      /\ drains[c] = c \/ sock[c] = "closed"

\* A socket ceases to be the client's only by its own handler's teardown or by the
\* arrival of the next one: the late teardown of an older socket does not detach
\* it ("it would null the NEW connection's sub.conn").
OnlyItsHandlerDetaches ==
  [][\A c \in Conns :
       sub.conn = c /\ sub'.conn # c =>
         \/ pc[c] = "disconnect"
         \/ sub'.conn \in Conns /\ pc[sub'.conn] = "none"]_vars

\* No writer goroutine outlives its purpose: one that runs is attached and its
\* handler will stop it, or its channel is closed, or the goroutine that detached
\* it is about to close the channel.  So <-oldExit in Subscribe returns.
WritersAreToldToEnd ==
  /\ \A c \in Conns : drains[c] # NoConn =>
       \/ sub.writer = c /\ pc[c] \notin {"none", "closeQueue"}
       \/ drains[c] \in closed
       \/ \E d \in Conns : pc[d] \in {"replace", "closeQueue"} /\ loc[d].queue = drains[c]
  /\ \A c \in Conns : pc[c] = "await" =>
       drains[loc[c].writer] = NoConn \/ loc[c].queue \in closed

\* An ordered event that a socket did not get is not followed by others for
\* long: the socket is closed, or somebody is about to close it ("order
\* preservation beats dropping events").
GapMeansClose ==
  \A c \in gap :
    \/ sock[c] = "closed"
    \/ \E e \in Emitters : emit[e].pc = "close" /\ emit[e].conn = c
    \/ \E d \in Conns : pc[d] = "close" /\ loc[d].conn = c

\* "The replay buffer has been consumed": what the handler of the current socket
\* clears is what it replayed, or waits in its channel; or an event was refused,
\* and the socket is going to be closed.
ClearedWasConsumed ==
  [][\A c \in Conns :
       pc[c] = "replay" /\ pc'[c] = "start" /\ sub.conn = c /\ c \notin gap =>
         ToSet(sub.buffer) \subseteq ToSet(loc[c].replay) \cup ToSet(channel[c])]_vars

\* The system metrics are sampled for a wish of the current socket only, not for
\* one that a replaced socket declared.
DemandIsCurrent ==
  sub.conn # NoConn /\ sub.watcher # NoConn => sub.watcher = sub.conn

\* A client that subscribes while a reply streams is told of it, whether the
\* stream_start comes before, during or after its subscription; once no handler is
\* between its subscription and the re-emission (a late subscribe message of a
\* replaced socket opens the hub again, and its OnSubscribe tells the current one).
SubscriberKnowsTheRun ==
  \A c \in Conns :
    /\ sub.conn = c /\ c \in asked /\ hub
    /\ live # 0 /\ live \notin Emitting
    /\ \A d \in Conns : pc[d] # "recover"
    => live \in handed[c]

\* What a comment says of the identity check in disconnectClient: "an old replaced
\* handler must not wipe a freshly installed one".  The handler of a replaced
\* socket neither clears events that the new one has yet to replay nor takes the
\* new one's subscription out of the hub.
StaleHandlerWipesNothing ==
  [][\A c, d \in Conns :
       pc[c] \in {"replay", "unsubscribe"} /\ pc'[c] # pc[c] /\ c # d /\ sub.conn = d =>
         /\ pc[d] \in {"replace", "await", "closeOld", "copy"} => sub'.buffer = sub.buffer
         /\ d \in asked => hub' = hub]_vars

\* What a comment says of the write-ahead: "persist notifiable events (user_message)
\* before broadcast so offline clients can recover them after reconnect".  A user
\* message that others watch for while this client is offline is stored, unless the
\* client was there again in time to be given it.  But the gate asks the connected
\* clients only, and all of them may watch.
OfflineCanRecover ==
  \A n \in away : n \notin Emitting => n \in stored \cup accepted
=============================================================================
