---------------------------- MODULE Subscription ----------------------------
(***************************************************************************)
(* What the server keeps of one client device and one session it watches   *)
(* (internal/ws/manager.go, stream_hub.go): the ClientSubscription of the  *)
(* client id, and whether the StreamHub lists the client for the session.  *)
(*                                                                         *)
(* Every operation below is one critical section of m.mu/sub.mu or of      *)
(* h.mu; what happens between two of them is in EventDelivery.  A client   *)
(* id outlives its sockets: conn is the socket installed last, sendQueue   *)
(* the channel made for it.  Channels are named by the socket they were    *)
(* made for.                                                               *)
(***************************************************************************)
EXTENDS Integers, Sequences

CONSTANTS
  Conns,       \* sockets that may exist at the same time
  NoConn,      \* nil: no socket, no channel, no writer
  QueueCap,    \* maxAsyncQueue
  BufferCap    \* maxBufferedEvents

ASSUME NoConnAssumption == NoConn \notin Conns
ASSUME CapAssumption == QueueCap \in Nat \ {0} /\ BufferCap \in Nat \ {0}

VARIABLES
  known,       \* the client id has an entry in m.subscriptions
  sub,         \* its ClientSubscription
  channel,     \* channel[c]: frames in the channel made for socket c
  closed,      \* the channels that were closed
  hub          \* the hub lists the client as a subscriber of the session

subVars == <<known, sub, channel, closed, hub>>

MaybeConn == Conns \cup {NoConn}
Metric == 0                          \* a telemetry frame; events count from 1
Frames == Nat

SubscriptionTypeOK ==
  /\ known \in BOOLEAN
  /\ sub \in [conn : MaybeConn,                   \* current socket
              sendQueue : MaybeConn,              \* its channel
              writer : MaybeConn,                 \* writerStarted, writerConn
              buffer : Seq(Frames),               \* eventBuffer
              since : {"zero", "window", "past"}, \* bufferStart
              watcher : MaybeConn]                \* who set metricsEnabled
  /\ channel \in [Conns -> Seq(Frames)]
  /\ closed \subseteq Conns
  /\ hub \in BOOLEAN

BlankSub == [conn |-> NoConn, sendQueue |-> NoConn, writer |-> NoConn,
             buffer |-> <<>>, since |-> "zero", watcher |-> NoConn]

SubscriptionInit ==
  /\ known = FALSE
  /\ sub = BlankSub
  /\ channel = [c \in Conns |-> <<>>]
  /\ closed = {}
  /\ hub = FALSE

-----------------------------------------------------------------------------
(***************************************************************************)
(* Sockets come and go                                                     *)
(***************************************************************************)

\* A bug: the old writer stays attached to the subscription.
InstallKeepingWriter(c) ==
  /\ known' = TRUE
  /\ sub' = [sub EXCEPT !.conn = c, !.sendQueue = c, !.watcher = NoConn]
  /\ channel' = [channel EXCEPT ![c] = <<>>]
  /\ closed' = closed \ {c}
  /\ UNCHANGED hub

\* Subscribe: c becomes the socket of the client, with a channel of its own.
\* A writer of the old socket is detached, the replay buffer is kept.
Install(c) ==
  /\ known' = TRUE
  /\ sub' = [sub EXCEPT !.conn = c, !.sendQueue = c, !.writer = NoConn,
                        !.watcher = NoConn]
  /\ channel' = [channel EXCEPT ![c] = <<>>]
  /\ closed' = closed \ {c}
  /\ UNCHANGED hub

\* A bug: no identity check.
IsKnown(c) == known

\* DisconnectClientIfCurrent finds c installed: the entry stays for replay.
IsCurrent(c) == known /\ sub.conn = c

Detach ==
  /\ sub' = [sub EXCEPT !.conn = NoConn, !.since = "window"]
  /\ UNCHANGED <<known, channel, closed, hub>>

\* EventsHandler after its replay: whoever's buffer it is by now.
ClearBuffer ==
  /\ sub' = [sub EXCEPT !.buffer = <<>>, !.since = "zero"]
  /\ UNCHANGED <<known, channel, closed, hub>>

\* StartWriter for a socket that is still current.
MayStartWriter(c) ==
  known /\ sub.writer = NoConn /\ sub.sendQueue # NoConn /\ sub.conn = c

AttachWriter(c) ==
  /\ sub' = [sub EXCEPT !.writer = c]
  /\ UNCHANGED <<known, channel, closed, hub>>

\* A bug: whichever writer runs is stopped.
HasAnyWriter(c) == known /\ sub.writer # NoConn

\* StopWriter: only a writer that was started for c.
HasWriter(c) == known /\ sub.writer = c

\* A bug: the fields are left to the next Subscribe.
DetachLater == UNCHANGED subVars

DetachWriter ==
  /\ sub' = [sub EXCEPT !.writer = NoConn, !.sendQueue = NoConn]
  /\ UNCHANGED <<known, channel, closed, hub>>

\* A bug: closing nil.
CloseUnchecked(q) ==
  /\ closed' = closed \cup {q}
  /\ UNCHANGED <<known, sub, channel, hub>>

\* close(sendQueue); closing nil is guarded against.
CloseChannel(q) ==
  /\ closed' = closed \cup ({q} \ {NoConn})
  /\ UNCHANGED <<known, sub, channel, hub>>

\* The ten seconds of disconnectedBufferWindow are over.
WindowPasses ==
  /\ known /\ sub.conn = NoConn /\ sub.since = "window"
  /\ sub' = [sub EXCEPT !.since = "past"]
  /\ UNCHANGED <<known, channel, closed, hub>>

\* CleanupStale, or reclaimDisconnectedSlotLocked for another client's sake.
Forget ==
  /\ known /\ sub.conn = NoConn /\ sub.since = "past"
  /\ known' = FALSE
  /\ sub' = BlankSub
  /\ UNCHANGED <<channel, closed, hub>>

-----------------------------------------------------------------------------
(***************************************************************************)
(* Delivery (deliverToSubscription)                                        *)
(***************************************************************************)
Buffered(n) ==
  LET all == Append(sub.buffer, n)
  IN  IF Len(all) > BufferCap THEN Tail(all) ELSE all

HasRoom == sub.sendQueue # NoConn /\ Len(channel[sub.sendQueue]) < QueueCap

\* A bug: events wait in the replay buffer until the writer runs.
DeliverToWriter(n) ==
  /\ sub' = [sub EXCEPT !.buffer = Buffered(n)]
  /\ channel' = IF known /\ sub.writer # NoConn /\ HasRoom
                  THEN [channel EXCEPT ![sub.sendQueue] = Append(@, n)]
                  ELSE channel
  /\ UNCHANGED <<known, closed, hub>>

\* An ordered event: into the channel of a connected client and into the replay
\* buffer; of a disconnected client into the buffer, inside the window only.
Deliver(n) ==
  /\ sub' = IF known /\ (sub.conn # NoConn \/ sub.since # "past")
              THEN [sub EXCEPT !.buffer = Buffered(n)] ELSE sub
  /\ channel' = IF known /\ sub.conn # NoConn /\ HasRoom
                  THEN [channel EXCEPT ![sub.sendQueue] = Append(@, n)]
                  ELSE channel
  /\ UNCHANGED <<known, closed, hub>>

\* needClose: a connected client whose channel does not take the event.
Refused == known /\ sub.conn # NoConn /\ ~HasRoom

\* A telemetry frame: never buffered, never a reason to close the socket.
DeliverMetric ==
  /\ known /\ sub.conn # NoConn /\ sub.watcher # NoConn /\ HasRoom
  /\ channel' = [channel EXCEPT ![sub.sendQueue] = Append(@, Metric)]
  /\ UNCHANGED <<known, sub, closed, hub>>

\* A bug: no identity check on the caller's socket.
MayPreferAny(c) == known

\* SetClientMetricsPreference: only the current socket may declare interest.
MayPrefer(c) == known /\ sub.conn = c

SetPreference(c) ==
  /\ sub' = [sub EXCEPT !.watcher = c]
  /\ UNCHANGED <<known, channel, closed, hub>>

ClearPreference ==
  /\ sub' = [sub EXCEPT !.watcher = NoConn]
  /\ UNCHANGED <<known, channel, closed, hub>>

\* What AllConnectedClientsSubscribe may answer, with m.mu held: it skips the
\* clients without a socket and asks of each of the others whether the hub lists
\* it.  This client decides the answer if it is connected and not listed; else the
\* answer is the other clients', any.
GateAnswers == IF known /\ sub.conn # NoConn /\ ~hub THEN {FALSE} ELSE BOOLEAN

\* HasSubscribers: this client, or another one.
ProbeAnswers == IF hub THEN {TRUE} ELSE BOOLEAN

-----------------------------------------------------------------------------
(***************************************************************************)
(* The hub's list (StreamHub.Subscribe, Unsubscribe, UnsubscribeAll)       *)
(***************************************************************************)
HubSubscribe ==
  /\ hub' = TRUE
  /\ UNCHANGED <<known, sub, channel, closed>>

HubUnsubscribe ==
  /\ hub' = FALSE
  /\ UNCHANGED <<known, sub, channel, closed>>
=============================================================================
