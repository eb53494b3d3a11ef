------------------------ MODULE EventDeliveryProofs ------------------------
(***************************************************************************)
(* Proofs about EventDelivery, for any number of sockets, producers,       *)
(* events and client messages, and any size of the queue and the buffer.   *)
(***************************************************************************)
EXTENDS EventDelivery, SequenceTheorems, TLAPS

-----------------------------------------------------------------------------
(***************************************************************************)
(* The inductive invariant                                                 *)
(***************************************************************************)

\* A client id without an entry has nothing attached.
BlankWhenUnknown == ~known => sub = BlankSub

\* The socket, its channel and its writer belong together, and nobody closed the
\* channel.
PartsBelongTogether ==
  /\ sub.conn # NoConn => sub.sendQueue = sub.conn
  /\ sub.writer # NoConn => sub.sendQueue = sub.writer
  /\ sub.sendQueue \notin closed

\* The handlers that have left, or will not attach anything any more.
Left == {"none", "unsubscribe", "stop", "closeQueue"}

\* From the start of its writer until its handler stops it.
Served == {"reading", "recover", "close", "disconnect", "unsubscribe", "stop"}

\* What is attached has a handler, which will detach it.
AttachedHasHandler ==
  /\ sub.conn # NoConn => pc[sub.conn] \notin Left
  /\ sub.writer # NoConn => pc[sub.writer] \in Served

\* A channel that a handler took over is not attached, and nobody else has it.
TakenQueuesApart ==
  \A c \in Conns : loc[c].queue # NoConn =>
    /\ loc[c].queue # sub.sendQueue
    /\ \A d \in Conns : loc[d].queue = loc[c].queue => d = c

\* It is closed exactly once, and before the wait for its writer.
CloseIsDue ==
  \A c \in Conns :
    /\ pc[c] \in {"replace", "closeQueue"} => loc[c].queue \notin closed
    /\ pc[c] = "replace" /\ loc[c].writer # NoConn => loc[c].queue # NoConn
    /\ pc[c] = "await" => loc[c].queue \in closed

\* A writer reads the channel of its own socket, and will be told to end.
WriterIsTold(c) ==
  \/ sub.writer = c /\ pc[c] \notin {"none", "closeQueue"}
  \/ drains[c] \in closed
  \/ \E d \in Conns : pc[d] \in {"replace", "closeQueue"} /\ loc[d].queue = drains[c]

WritersDrainTheirOwn ==
  \A c \in Conns : drains[c] # NoConn => drains[c] = c /\ WriterIsTold(c)

\* What the handler has copied, and what waits in its channel, is all of the buffer
\* that it is going to clear.
CopyIsComplete ==
  \A c \in Conns : pc[c] = "replay" /\ sub.conn = c /\ c \notin gap =>
    ToSet(sub.buffer) \subseteq ToSet(loc[c].replay) \cup ToSet(channel[c])

\* An emission that the hub's list has let through so far.
OnItsWay(e) ==
  \/ emit[e].pc \in {"probe", "fanout", "send"}
  \/ emit[e].pc = "store" /\ emit[e].send

\* The reply that streams is known to a subscriber, or on its way to it.
LiveInv ==
  /\ live # 0 => live \in StreamStarts
  /\ \A c \in Conns : sub.conn = c /\ c \in asked /\ hub /\ live # 0 =>
       \/ live \in handed[c]
       \/ \E d \in Conns : pc[d] = "recover"
       \/ \E e \in Emitters : emit[e].n = live /\ OnItsWay(e)

\* The parts about the sockets, their channels and their writers.
SocketInv ==
  /\ TypeOK /\ BlankWhenUnknown /\ PartsBelongTogether /\ AttachedHasHandler
  /\ TakenQueuesApart /\ CloseIsDue /\ WritersDrainTheirOwn /\ CurrentSocketIsServed

IInv ==
  /\ SocketInv /\ GapMeansClose /\ DemandIsCurrent /\ CopyIsComplete
  /\ LiveInv

-----------------------------------------------------------------------------
(***************************************************************************)
(* Typing                                                                  *)
(***************************************************************************)

\* Frames at either end of a channel or of the buffer.
LEMMA FramesAppended ==
  ASSUME NEW s \in Seq(Nat), NEW n \in Nat
  PROVE  /\ Append(s, n) \in Seq(Nat) /\ Append(s, n) # <<>>
         /\ ToSet(Append(s, n)) = ToSet(s) \cup {n}
<1>1. /\ Append(s, n) \in Seq(Nat)
      /\ Append(s, n) # <<>>
      /\ Len(Append(s, n)) = Len(s)+1
      /\ \A i \in 1.. Len(s) : Append(s, n)[i] = s[i]
      /\ Append(s, n)[Len(s)+1] = n
  BY AppendProperties, Zenon
<1>2. DEFINE t == Append(s, n)
<1>3. /\ DOMAIN s = 1..Len(s) /\ Len(s) \in Nat
      /\ DOMAIN t = 1..(Len(s) + 1) /\ t[Len(s)+1] = n
      /\ \A i \in 1..Len(s) : t[i] = s[i]
  BY <1>1
<1>4. ToSet(t) = ToSet(s) \cup {n}
  <2> HIDE DEF t
  <2>1. ToSet(t) \subseteq ToSet(s) \cup {n}
    BY <1>3 DEF ToSet
  <2>2. \A i \in DOMAIN s : s[i] \in ToSet(t)
    BY <1>3 DEF ToSet
  <2>3. n \in ToSet(t)
    <3>1. Len(s) + 1 \in DOMAIN t
      BY <1>3
    <3>2. QED
      BY <1>3, <3>1 DEF ToSet
  <2>4. QED
    BY <2>1, <2>2, <2>3 DEF ToSet
<1>5. QED
  BY <1>1, <1>4

LEMMA FramesTail ==
  ASSUME NEW s \in Seq(Nat), s # <<>>
  PROVE  Tail(s) \in Seq(Nat) /\ ToSet(Tail(s)) \subseteq ToSet(s)
<1>1. /\ Tail(s) \in Seq(Nat)
      /\ Len(Tail(s)) = Len(s)-1
      /\ \A i \in 1 .. Len(Tail(s)) : Tail(s)[i] = s[i+1]
  BY HeadTailProperties, Zenon
<1>2. QED
  BY <1>1 DEF ToSet

\* The operations of the subscription keep its type.
LEMMA SubscriptionTyped ==
  ASSUME SubscriptionTypeOK
  PROVE  /\ \A c \in Conns :
              Install(c) \/ AttachWriter(c) \/ SetPreference(c) => SubscriptionTypeOK'
         /\ \A q \in MaybeConn : CloseChannel(q) => SubscriptionTypeOK'
         /\ Detach \/ ClearBuffer \/ DetachWriter \/ ClearPreference => SubscriptionTypeOK'
         /\ WindowPasses \/ Forget \/ HubSubscribe \/ HubUnsubscribe => SubscriptionTypeOK'
         /\ UNCHANGED subVars => SubscriptionTypeOK'
<1> USE DEF SubscriptionTypeOK, MaybeConn
<1>1. ASSUME NEW c \in Conns, Install(c) \/ AttachWriter(c) \/ SetPreference(c)
      PROVE  SubscriptionTypeOK'
  <2>1. channel \in [Conns -> Seq(Frames)] => [channel EXCEPT ![c] = <<>>] \in [Conns -> Seq(Frames)]
    OBVIOUS
  <2>2. CASE Install(c)
    <3>1. sub' \in [conn : MaybeConn, sendQueue : MaybeConn, writer : MaybeConn, buffer : Seq(Frames),
                    since : {"zero", "window", "past"}, watcher : MaybeConn]
      BY <2>2 DEF Install
    <3>2. QED
      BY <2>1, <2>2, <3>1 DEF Install
  <2>3. CASE AttachWriter(c)
    BY <2>3 DEF AttachWriter
  <2>4. CASE SetPreference(c)
    BY <2>4 DEF SetPreference
  <2>5. QED
    BY <1>1, <2>2, <2>3, <2>4
<1>2. ASSUME NEW q \in MaybeConn, CloseChannel(q)
      PROVE  SubscriptionTypeOK'
  BY <1>2 DEF CloseChannel
<1>3. Detach \/ ClearBuffer \/ DetachWriter \/ ClearPreference => SubscriptionTypeOK'
  <2>1. Detach => SubscriptionTypeOK'
    BY DEF Detach
  <2>2. ClearBuffer => SubscriptionTypeOK'
    <3> HAVE ClearBuffer
    <3>1. sub' = [sub EXCEPT !.buffer = <<>>, !.since = "zero"]
      BY DEF ClearBuffer
    <3>2. <<>> \in Seq(Frames)
      BY EmptySeq
    <3>3. sub' \in [conn : MaybeConn, sendQueue : MaybeConn, writer : MaybeConn, buffer : Seq(Frames),
                    since : {"zero", "window", "past"}, watcher : MaybeConn]
      BY <3>1, <3>2
    <3>4. QED
      BY <3>3 DEF ClearBuffer
  <2>3. DetachWriter => SubscriptionTypeOK'
    BY DEF DetachWriter
  <2>4. ClearPreference => SubscriptionTypeOK'
    BY DEF ClearPreference
  <2>5. QED
    BY <2>1, <2>2, <2>3, <2>4
<1>4. WindowPasses \/ Forget \/ HubSubscribe \/ HubUnsubscribe => SubscriptionTypeOK'
  <2>1. WindowPasses => SubscriptionTypeOK'
    BY DEF WindowPasses
  <2>2. Forget => SubscriptionTypeOK'
    <3>1. <<>> \in Seq(Frames)
      BY EmptySeq
    <3>2. BlankSub \in [conn : MaybeConn, sendQueue : MaybeConn, writer : MaybeConn,
                        buffer : Seq(Frames), since : {"zero", "window", "past"},
                        watcher : MaybeConn]
      BY <3>1 DEF BlankSub
    <3>3. QED
      BY <3>2 DEF Forget
  <2>3. HubSubscribe \/ HubUnsubscribe => SubscriptionTypeOK'
    BY DEF HubSubscribe, HubUnsubscribe
  <2>4. QED
    BY <2>1, <2>2, <2>3
<1>5. UNCHANGED subVars => SubscriptionTypeOK'
  BY DEF subVars
<1>6. QED
  BY <1>1, <1>2, <1>3, <1>4, <1>5

\* A delivery of a frame n.
LEMMA DeliverTyped ==
  ASSUME SubscriptionTypeOK, NEW n \in Nat, Deliver(n)
  PROVE  SubscriptionTypeOK'
<1> USE DEF SubscriptionTypeOK, MaybeConn, Frames
<1>1. Append(sub.buffer, n) \in Seq(Nat) /\ Append(sub.buffer, n) # <<>>
  BY FramesAppended
<1>2. Buffered(n) \in Seq(Nat)
  <2>1. \A s \in Seq(Nat) : s # <<>> => Tail(s) \in Seq(Nat)
    BY FramesTail
  <2>2. QED
    BY <1>1, <2>1, Zenon DEF Buffered
<1>3. [sub EXCEPT !.buffer = Buffered(n)] \in
        [conn : MaybeConn, sendQueue : MaybeConn, writer : MaybeConn, buffer : Seq(Frames),
         since : {"zero", "window", "past"}, watcher : MaybeConn]
  BY <1>2
<1>4. sub' \in [conn : MaybeConn, sendQueue : MaybeConn, writer : MaybeConn, buffer : Seq(Frames),
                since : {"zero", "window", "past"}, watcher : MaybeConn]
  BY <1>3 DEF Deliver
<1>5. channel' \in [Conns -> Seq(Nat)]
  BY DEF Deliver, HasRoom
<1>6. QED
  BY <1>4, <1>5 DEF Deliver

LEMMA MetricTyped ==
  ASSUME SubscriptionTypeOK, DeliverMetric
  PROVE  SubscriptionTypeOK'
<1>1. channel' \in [Conns -> Seq(Nat)]
  BY DEF DeliverMetric, HasRoom, SubscriptionTypeOK, MaybeConn, Frames, Metric
<1>2. QED
  BY <1>1 DEF DeliverMetric, SubscriptionTypeOK, Frames

\* What the delivery of n to the current socket records.
LEMMA NoteTyped ==
  ASSUME TypeOK, NEW n \in Nat, Note(n)
  PROVE  handed' \in [Conns -> SUBSET Nat] /\ gap' \subseteq Conns /\ accepted' \subseteq Nat
<1> USE DEF TypeOK, SubscriptionTypeOK, MaybeConn
<1>1. handed' \in [Conns -> SUBSET Nat]
  BY DEF Note
<1>2. gap' \subseteq Conns /\ accepted' \subseteq Nat
  BY DEF Note, Refused
<1>3. QED
  BY <1>1, <1>2

\* The locals of a producer and of a handler.
EmitterRecords ==
  [pc : {"idle", "probe", "store", "fanout", "send", "close"}, n : Nat, send : BOOLEAN,
   conn : MaybeConn]
LocalRecords == [conn : MaybeConn, queue : MaybeConn, writer : MaybeConn, replay : Seq(Frames)]

LEMMA RecordsTyped ==
  ASSUME TypeOK
  PROVE  /\ \A e \in Emitters, s \in {"idle", "store", "close"}, k \in MaybeConn :
              [emit EXCEPT ![e].pc = s, ![e].conn = k] \in [Emitters -> EmitterRecords]
         /\ \A e \in Emitters, b \in BOOLEAN :
              [emit EXCEPT ![e].pc = "store", ![e].send = b] \in [Emitters -> EmitterRecords]
         /\ \A c \in Conns, k \in MaybeConn :
              /\ [loc EXCEPT ![c].conn = k] \in [Conns -> LocalRecords]
              /\ [loc EXCEPT ![c].queue = k] \in [Conns -> LocalRecords]
         /\ \A c \in Conns, b \in Seq(Frames) :
              [loc EXCEPT ![c].replay = b] \in [Conns -> LocalRecords]
<1>1. emit \in [Emitters -> EmitterRecords] /\ loc \in [Conns -> LocalRecords]
  BY DEF TypeOK, EmitterRecords, LocalRecords
<1>2. ASSUME NEW e \in Emitters, NEW s \in {"idle", "store", "close"}, NEW k \in MaybeConn
      PROVE  [emit EXCEPT ![e].pc = s, ![e].conn = k] \in [Emitters -> EmitterRecords]
  BY <1>1 DEF EmitterRecords
<1>3. ASSUME NEW e \in Emitters, NEW b \in BOOLEAN
      PROVE  [emit EXCEPT ![e].pc = "store", ![e].send = b] \in [Emitters -> EmitterRecords]
  BY <1>1 DEF EmitterRecords
<1>4. ASSUME NEW c \in Conns, NEW k \in MaybeConn
      PROVE  /\ [loc EXCEPT ![c].conn = k] \in [Conns -> LocalRecords]
             /\ [loc EXCEPT ![c].queue = k] \in [Conns -> LocalRecords]
  BY <1>1 DEF LocalRecords
<1>5. ASSUME NEW c \in Conns, NEW b \in Seq(Frames)
      PROVE  [loc EXCEPT ![c].replay = b] \in [Conns -> LocalRecords]
  BY <1>1 DEF LocalRecords
<1>6. QED
  BY <1>2, <1>3, <1>4, <1>5

\* One step keeps every variable's type.
LEMMA TypeStep ==
  ASSUME TypeOK, Next
  PROVE  TypeOK'
<1> USE DEF netVars, emitVars, histVars, Goto, Step
<1>1. \A c \in Conns : HandlerSteps(c) => TypeOK'
  <2> SUFFICES ASSUME NEW c \in Conns, HandlerSteps(c)
               PROVE  TypeOK'
    OBVIOUS
  <2>1. CASE CloseOldQueue(c)
    BY <2>1, SubscriptionTyped DEF CloseOldQueue, TypeOK, HandlerStates
  <2>2. CASE AwaitOldWriter(c)
    BY <2>2, SubscriptionTyped DEF AwaitOldWriter, TypeOK, HandlerStates
  <2>3. CASE CloseOldConn(c)
    BY <2>3, SubscriptionTyped, EmptySeq DEF CloseOldConn, TypeOK, HandlerStates, NoLocals, MaybeConn, Frames
  <2>4. CASE CopyBuffer(c)
    <3>1. loc' \in [Conns -> LocalRecords]
      <4>1. sub.buffer \in Seq(Frames)
        BY DEF TypeOK, SubscriptionTypeOK
      <4>2. loc' = [loc EXCEPT ![c].replay = sub.buffer]
        BY <2>4 DEF CopyBuffer
      <4>3. QED
        BY <4>1, <4>2, RecordsTyped
    <3>2. pc' \in [Conns -> HandlerStates]
      BY <2>4 DEF CopyBuffer, TypeOK, HandlerStates
    <3>3. SubscriptionTypeOK'
      BY <2>4, SubscriptionTyped DEF CopyBuffer, TypeOK
    <3>4. QED
      BY <2>4, <3>1, <3>2, <3>3 DEF CopyBuffer, TypeOK, LocalRecords
  <2>5. CASE ReplayOver(c)
    <3>1. loc' \in [Conns -> LocalRecords]
      <4>1. loc' = [loc EXCEPT ![c].replay = <<>>]
        BY <2>5 DEF ReplayOver
      <4>2. QED
        BY <4>1, RecordsTyped, EmptySeq
    <3>2. pc' \in [Conns -> HandlerStates]
      BY <2>5 DEF ReplayOver, TypeOK, HandlerStates
    <3>3. SubscriptionTypeOK'
      BY <2>5, SubscriptionTyped DEF ReplayOver, TypeOK
    <3>4. QED
      BY <2>5, <3>1, <3>2, <3>3 DEF ReplayOver, TypeOK, LocalRecords
  <2>6. CASE StartWriter(c)
    BY <2>6, SubscriptionTyped DEF StartWriter, TypeOK, HandlerStates, SubscriptionTypeOK
  <2>7. CASE Recover(c)
    <3>1. SubscriptionTypeOK' /\ handed' \in [Conns -> SUBSET Nat] /\ gap' \subseteq Conns
          /\ accepted' \subseteq Nat
      BY <2>7, SubscriptionTyped, DeliverTyped, NoteTyped DEF Recover, TypeOK
    <3>2. loc' \in [Conns -> LocalRecords]
      <4>1. (IF Refused THEN sub.conn ELSE NoConn) \in MaybeConn
        BY DEF TypeOK, SubscriptionTypeOK, MaybeConn
      <4>2. [loc EXCEPT ![c].conn = IF Refused THEN sub.conn ELSE NoConn] \in [Conns -> LocalRecords]
        BY <4>1, RecordsTyped
      <4>3. loc \in [Conns -> LocalRecords]
        BY DEF TypeOK, LocalRecords
      <4>4. QED
        BY <2>7, <4>2, <4>3 DEF Recover
    <3>3. pc' \in [Conns -> HandlerStates]
      BY <2>7 DEF Recover, TypeOK, HandlerStates
    <3>4. QED
      BY <2>7, <3>1, <3>2, <3>3 DEF Recover, TypeOK, LocalRecords
  <2>8. CASE RecoverCloses(c)
    <3>1. loc' \in [Conns -> LocalRecords]
      BY <2>8, RecordsTyped DEF RecoverCloses, MaybeConn
    <3>2. QED
      BY <2>8, <3>1, SubscriptionTyped DEF RecoverCloses, TypeOK, HandlerStates, LocalRecords
  <2>9. CASE ReadFails(c)
    BY <2>9, SubscriptionTyped DEF ReadFails, TypeOK, HandlerStates
  <2>10. CASE Disconnect(c)
    BY <2>10, SubscriptionTyped DEF Disconnect, TypeOK, HandlerStates
  <2>11. CASE UnsubscribeAll(c)
    BY <2>11, SubscriptionTyped, RecordsTyped DEF UnsubscribeAll, TypeOK, HandlerStates
  <2>12. CASE StopWriter(c)
    <3>1. sub.sendQueue \in MaybeConn
      BY DEF TypeOK, SubscriptionTypeOK
    <3>2. SubscriptionTypeOK' /\ loc' \in [Conns -> LocalRecords]
      <4>1. [loc EXCEPT ![c].queue = sub.sendQueue] \in [Conns -> LocalRecords]
        BY <3>1, RecordsTyped
      <4>2. SubscriptionTypeOK'
        BY <2>12, SubscriptionTyped DEF StopWriter, TypeOK
      <4>3. loc \in [Conns -> LocalRecords]
        BY DEF TypeOK, LocalRecords
      <4>4. QED
        BY <2>12, <4>1, <4>2, <4>3 DEF StopWriter
    <3>3. QED
      BY <2>12, <3>2 DEF StopWriter, TypeOK, HandlerStates, LocalRecords
  <2>13. CASE CloseQueue(c)
    BY <2>13, SubscriptionTyped, EmptySeq DEF CloseQueue, TypeOK, HandlerStates, NoLocals, MaybeConn, Frames
  <2>14. QED
    BY <2>1, <2>2, <2>3, <2>4, <2>5, <2>6, <2>7, <2>8, <2>9, <2>10, <2>11, <2>12, <2>13
       DEF HandlerSteps
<1>2. \A c \in Conns : ClientSteps(c) => TypeOK'
  <2> SUFFICES ASSUME NEW c \in Conns, ClientSteps(c)
               PROVE  TypeOK'
    OBVIOUS
  <2>1. CASE Connect(c)
    <3>1. loc' \in [Conns -> LocalRecords]
      <4> DEFINE l == [conn |-> sub.conn, writer |-> sub.writer, replay |-> <<>>,
                       queue |-> IF sub.writer # NoConn THEN sub.sendQueue ELSE NoConn]
      <4>1. l \in LocalRecords
        BY EmptySeq DEF TypeOK, SubscriptionTypeOK, MaybeConn, LocalRecords
      <4>2. loc' = [loc EXCEPT ![c] = l] /\ loc \in [Conns -> LocalRecords]
        BY <2>1 DEF Connect, TypeOK, LocalRecords
      <4> HIDE DEF l
      <4>3. QED
        BY <4>1, <4>2
    <3>2. pc' \in [Conns -> HandlerStates]
      BY <2>1 DEF Connect, TypeOK, HandlerStates
    <3>3. SubscriptionTypeOK'
      BY <2>1, SubscriptionTyped DEF Connect, TypeOK
    <3>4. handed' \in [Conns -> SUBSET Nat] /\ gap' \subseteq Conns /\ asked' \subseteq Conns
      BY <2>1 DEF Connect, TypeOK
    <3>5. QED
      BY <2>1, <3>1, <3>2, <3>3, <3>4 DEF Connect, TypeOK, LocalRecords
  <2>2. CASE HandleSubscribe(c)
    <3>1. SubscriptionTypeOK'
      BY <2>2, SubscriptionTyped DEF HandleSubscribe, TypeOK
    <3>2. requests' \in Nat
      BY <2>2 DEF HandleSubscribe, Read, TypeOK
    <3>3. QED
      BY <2>2, <3>1, <3>2 DEF HandleSubscribe, TypeOK, HandlerStates
  <2>3. CASE HandleUnsubscribe(c)
    <3>1. SubscriptionTypeOK'
      BY <2>3, SubscriptionTyped DEF HandleUnsubscribe, TypeOK
    <3>2. requests' \in Nat
      BY <2>3 DEF HandleUnsubscribe, Read, TypeOK
    <3>3. QED
      BY <2>3, <3>1, <3>2 DEF HandleUnsubscribe, TypeOK
  <2>4. CASE HandlePreference(c)
    BY <2>4, SubscriptionTyped DEF HandlePreference, Read, TypeOK
  <2>5. QED
    BY <2>1, <2>2, <2>3, <2>4 DEF ClientSteps
<1>3. \A c \in Conns : WriterSteps(c) \/ Ping(c) \/ PeerGone(c) => TypeOK'
  <2> SUFFICES ASSUME NEW c \in Conns, WriterSteps(c) \/ Ping(c) \/ PeerGone(c)
               PROVE  TypeOK'
    OBVIOUS
  <2>1. CASE Write(c)
    BY <2>1, FramesTail DEF Write, TypeOK, SubscriptionTypeOK, MaybeConn, Frames
  <2>2. CASE WriterEnds(c)
    BY <2>2, SubscriptionTyped DEF WriterEnds, TypeOK, MaybeConn
  <2>3. CASE Ping(c) \/ PeerGone(c)
    BY <2>3, SubscriptionTyped DEF Ping, PeerGone, TypeOK
  <2>4. QED
    BY <2>1, <2>2, <2>3 DEF WriterSteps
<1>4. \A e \in Emitters : Begin(e) \/ EmitterSteps(e) => TypeOK'
  <2> SUFFICES ASSUME NEW e \in Emitters, Begin(e) \/ EmitterSteps(e)
               PROVE  TypeOK'
    OBVIOUS
  <2>1. CASE Begin(e)
    BY <2>1, SubscriptionTyped DEF Begin, TypeOK, MaybeConn
  <2>2. CASE Probe(e)
    <3>1. emit' \in [Emitters -> EmitterRecords]
      <4>1. PICK listed \in BOOLEAN : emit' = [emit EXCEPT ![e].pc = "store", ![e].send = listed]
        BY <2>2 DEF Probe, ProbeAnswers
      <4>2. QED
        BY <4>1, RecordsTyped
    <3>2. SubscriptionTypeOK'
      BY <2>2, SubscriptionTyped DEF Probe, TypeOK
    <3>3. away' \subseteq Nat
      BY <2>2 DEF Probe, TypeOK
    <3>4. QED
      BY <2>2, <3>1, <3>2, <3>3 DEF Probe, TypeOK, EmitterRecords
  <2>3. CASE Store(e)
    <3>1. stored' \subseteq Nat
      BY <2>3 DEF Store, TypeOK
    <3>2. emit' \in [Emitters -> EmitterRecords]
      <4>1. PICK s \in {"idle", "send", "fanout"} : emit' = [emit EXCEPT ![e].pc = s]
        BY <2>3 DEF Store
      <4>2. emit \in [Emitters -> EmitterRecords]
        BY DEF TypeOK, EmitterRecords
      <4>3. QED
        BY <4>1, <4>2 DEF EmitterRecords
    <3>3. SubscriptionTypeOK'
      BY <2>3, SubscriptionTyped DEF Store, TypeOK
    <3>4. QED
      BY <2>3, <3>1, <3>2, <3>3 DEF Store, TypeOK, EmitterRecords
  <2>4. CASE Fanout(e)
    <3>1. emit' \in [Emitters -> EmitterRecords]
      <4>1. PICK s \in {"idle", "send"} : emit' = [emit EXCEPT ![e].pc = s]
        BY <2>4 DEF Fanout
      <4>2. emit \in [Emitters -> EmitterRecords]
        BY DEF TypeOK, EmitterRecords
      <4>3. QED
        BY <4>1, <4>2 DEF EmitterRecords
    <3>2. SubscriptionTypeOK'
      BY <2>4, SubscriptionTyped DEF Fanout, TypeOK
    <3>3. QED
      BY <2>4, <3>1, <3>2 DEF Fanout, TypeOK, EmitterRecords
  <2>5. CASE Send(e)
    <3>1. emit[e].n \in Nat
      BY DEF TypeOK
    <3>2. SubscriptionTypeOK' /\ handed' \in [Conns -> SUBSET Nat] /\ gap' \subseteq Conns
          /\ accepted' \subseteq Nat
      BY <2>5, <3>1, DeliverTyped, NoteTyped DEF Send, TypeOK
    <3>3. emit' \in [Emitters -> EmitterRecords]
      BY <2>5, RecordsTyped DEF Send, TypeOK, SubscriptionTypeOK, MaybeConn
    <3>4. QED
      BY <2>5, <3>2, <3>3 DEF Send, TypeOK, EmitterRecords
  <2>6. CASE EmitterCloses(e)
    BY <2>6, SubscriptionTyped, RecordsTyped DEF EmitterCloses, TypeOK, MaybeConn, EmitterRecords
  <2>7. QED
    BY <2>1, <2>2, <2>3, <2>4, <2>5, <2>6 DEF EmitterSteps
<1>5. TimePasses \/ Cleanup \/ Sample => TypeOK'
  BY SubscriptionTyped, MetricTyped DEF TimePasses, Cleanup, Sample, TypeOK
<1>6. QED
  BY <1>1, <1>2, <1>3, <1>4, <1>5 DEF Next

-----------------------------------------------------------------------------
(***************************************************************************)
(* Sockets, channels and writers                                           *)
(*                                                                         *)
(* Seven actions attach, detach, take over or close.  All the others are   *)
(* quiet: they leave what is attached alone, move no handler in or out of  *)
(* the states in which it owes a close, and at most end a writer.          *)
(***************************************************************************)
Loud ==
  \/ \E c \in Conns : \/ Connect(c) \/ CloseOldQueue(c) \/ StartWriter(c)
                      \/ Disconnect(c) \/ StopWriter(c) \/ CloseQueue(c)
  \/ Cleanup

QuietParts ==
  /\ known' = known /\ closed' = closed /\ (known \/ sub' = sub)
  /\ sub'.conn = sub.conn /\ sub'.sendQueue = sub.sendQueue /\ sub'.writer = sub.writer

QuietHandler(d) ==
  /\ pc[d] \notin Left => pc'[d] \notin Left
  /\ pc[d] \in Served => pc'[d] \in Served
  /\ pc'[d] \in {"reading", "recover", "close"} => pc[d] \in {"reading", "recover", "close"}
  /\ pc[d] \in {"replace", "closeQueue"} => pc'[d] = pc[d]
  /\ pc'[d] \in {"replace", "await", "closeQueue", "none"} => pc'[d] = pc[d]
  /\ \/ loc'[d].queue = loc[d].queue /\ loc'[d].writer = loc[d].writer
     \/ loc'[d].queue = NoConn /\ pc[d] \notin {"replace", "await", "closeQueue"}

QuietWriter(d) ==
  /\ sock[d] = "closed" => sock'[d] = "closed"
  /\ \/ drains'[d] = drains[d]
     \/ drains'[d] = NoConn /\ (sock'[d] = "closed" \/ drains[d] \in closed)

Quiet == QuietParts /\ \A d \in Conns : QuietHandler(d) /\ QuietWriter(d)

\* The parts of the subscription that a delivery leaves alone.
LEMMA DeliveryIsQuiet ==
  ASSUME SubscriptionTypeOK, BlankWhenUnknown
  PROVE  /\ \A n \in Nat : Deliver(n) => QuietParts
         /\ DeliverMetric \/ ClearBuffer \/ HubSubscribe \/ HubUnsubscribe => QuietParts
         /\ WindowPasses \/ UNCHANGED subVars => QuietParts
         /\ \A c \in Conns : MayPrefer(c) /\ (SetPreference(c) \/ ClearPreference) => QuietParts
<1> USE DEF QuietParts, SubscriptionTypeOK
<1>1. ASSUME NEW n \in Nat, Deliver(n)
      PROVE  QuietParts
  <2>1. sub' = [sub EXCEPT !.buffer = Buffered(n)] \/ sub' = sub
    BY <1>1 DEF Deliver
  <2>2. known \/ sub' = sub
    BY <1>1 DEF Deliver
  <2>3. QED
    BY <1>1, <2>1, <2>2 DEF Deliver
<1>2. DeliverMetric => QuietParts
  BY DEF DeliverMetric
<1>3. ClearBuffer => QuietParts
  <2> SUFFICES ASSUME ClearBuffer
               PROVE  QuietParts
    OBVIOUS
  <2>1. sub.buffer = <<>> /\ sub.since = "zero" => [sub EXCEPT !.buffer = <<>>, !.since = "zero"] = sub
    OBVIOUS
  <2>2. ~known => sub.buffer = <<>> /\ sub.since = "zero"
    BY DEF BlankWhenUnknown, BlankSub
  <2>3. ~known => sub' = sub
    BY <2>1, <2>2 DEF ClearBuffer
  <2>4. QED
    BY <2>3 DEF ClearBuffer
<1>4. HubSubscribe \/ HubUnsubscribe \/ WindowPasses \/ UNCHANGED subVars => QuietParts
  BY DEF HubSubscribe, HubUnsubscribe, WindowPasses, subVars
<1>5. ASSUME NEW c \in Conns, MayPrefer(c), SetPreference(c) \/ ClearPreference
      PROVE  QuietParts
  BY <1>5 DEF MayPrefer, SetPreference, ClearPreference
<1>6. QED
  BY <1>1, <1>2, <1>3, <1>4, <1>5

LEMMA StillIsQuiet ==
  ASSUME NEW d \in Conns, pc'[d] = pc[d], loc'[d] = loc[d]
  PROVE  QuietHandler(d)
BY DEF QuietHandler

\* The moves of a handler that are quiet.
LEMMA MovesAreQuiet ==
  ASSUME TypeOK, NEW c \in Conns
  PROVE  /\ AwaitOldWriter(c) \/ CloseOldConn(c) \/ CopyBuffer(c) \/ ReplayOver(c) => QuietHandler(c)
         /\ Recover(c) \/ RecoverCloses(c) \/ ReadFails(c) \/ UnsubscribeAll(c) => QuietHandler(c)
         /\ HandleSubscribe(c) => QuietHandler(c)
<1> USE DEF TypeOK, Goto, QuietHandler, Left, Served
<1>1. AwaitOldWriter(c) => QuietHandler(c)
  BY DEF AwaitOldWriter
<1>2. CloseOldConn(c) => QuietHandler(c)
  <2> SUFFICES ASSUME CloseOldConn(c)
               PROVE  QuietHandler(c)
    OBVIOUS
  <2>1. pc[c] = "closeOld" /\ pc'[c] = "copy" /\ loc'[c].queue = NoConn
    BY DEF CloseOldConn, NoLocals
  <2>2. QED
    BY <2>1
<1>3. CopyBuffer(c) \/ ReplayOver(c) => QuietHandler(c)
  <2> SUFFICES ASSUME CopyBuffer(c) \/ ReplayOver(c)
               PROVE  QuietHandler(c)
    OBVIOUS
  <2>1. loc'[c].queue = loc[c].queue /\ loc'[c].writer = loc[c].writer
    BY DEF CopyBuffer, ReplayOver
  <2>2. pc[c] \in {"copy", "replay"} /\ pc'[c] \in {"replay", "start"}
    BY DEF CopyBuffer, ReplayOver
  <2>3. QED
    BY <2>1, <2>2
<1>4. Recover(c) \/ RecoverCloses(c) => QuietHandler(c)
  <2> SUFFICES ASSUME Recover(c) \/ RecoverCloses(c)
               PROVE  QuietHandler(c)
    OBVIOUS
  <2>1. loc'[c].queue = loc[c].queue /\ loc'[c].writer = loc[c].writer
    BY DEF Recover, RecoverCloses
  <2>2. pc[c] \in {"recover", "close"} /\ pc'[c] \in {"reading", "close"}
    BY DEF Recover, RecoverCloses
  <2>3. QED
    BY <2>1, <2>2
<1>5. ReadFails(c) \/ UnsubscribeAll(c) => QuietHandler(c)
  BY DEF ReadFails, UnsubscribeAll
<1>6. HandleSubscribe(c) => QuietHandler(c)
  BY DEF HandleSubscribe, Read
<1>7. QED
  BY <1>1, <1>2, <1>3, <1>4, <1>5, <1>6

LEMMA QuietSteps ==
  ASSUME SocketInv, Next
  PROVE  Loud \/ Quiet
<1> USE DEF SocketInv
<1>0. TypeOK /\ SubscriptionTypeOK /\ BlankWhenUnknown
  BY DEF TypeOK
<1>1. ASSUME NEW c \in Conns,
             \/ AwaitOldWriter(c) \/ CloseOldConn(c) \/ CopyBuffer(c) \/ ReplayOver(c)
             \/ Recover(c) \/ RecoverCloses(c) \/ ReadFails(c) \/ UnsubscribeAll(c)
             \/ HandleSubscribe(c) \/ HandleUnsubscribe(c) \/ HandlePreference(c)
      PROVE  Quiet
  <2>1. QuietParts
    <3>1. CASE AwaitOldWriter(c) \/ CloseOldConn(c) \/ CopyBuffer(c) \/ RecoverCloses(c) \/ ReadFails(c)
      BY <3>1, <1>0, DeliveryIsQuiet
         DEF AwaitOldWriter, CloseOldConn, CopyBuffer, RecoverCloses, ReadFails
    <3>2. CASE ReplayOver(c) \/ UnsubscribeAll(c) \/ HandleSubscribe(c) \/ HandleUnsubscribe(c)
      BY <3>2, <1>0, DeliveryIsQuiet
         DEF ReplayOver, UnsubscribeAll, HandleSubscribe, HandleUnsubscribe
    <3>3. CASE Recover(c)
      BY <3>3, <1>0, DeliveryIsQuiet DEF Recover, TypeOK
    <3>4. CASE HandlePreference(c)
      BY <3>4, <1>0, DeliveryIsQuiet DEF HandlePreference
    <3>5. QED
      BY <1>1, <3>1, <3>2, <3>3, <3>4
  <2>2. drains' = drains
    BY <1>1 DEF AwaitOldWriter, CloseOldConn, CopyBuffer, ReplayOver, Recover, RecoverCloses,
       ReadFails, UnsubscribeAll, HandleSubscribe, HandleUnsubscribe, HandlePreference
  <2>3. \A d \in Conns : sock[d] = "closed" => sock'[d] = "closed"
    BY <1>0, <1>1 DEF TypeOK, AwaitOldWriter, CloseOldConn, CopyBuffer, ReplayOver, Recover,
       RecoverCloses, ReadFails, UnsubscribeAll, HandleSubscribe, HandleUnsubscribe, HandlePreference
  <2>4. \A d \in Conns : d # c => pc'[d] = pc[d] /\ loc'[d] = loc[d]
    BY <1>0, <1>1 DEF TypeOK, Goto, AwaitOldWriter, CloseOldConn, CopyBuffer, ReplayOver, Recover,
       RecoverCloses, ReadFails, UnsubscribeAll, HandleSubscribe, HandleUnsubscribe, HandlePreference
  <2>5. QuietHandler(c)
    <3>1. CASE HandleUnsubscribe(c) \/ HandlePreference(c)
      BY <3>1, StillIsQuiet DEF HandleUnsubscribe, HandlePreference
    <3>2. QED
      BY <1>0, <1>1, <3>1, MovesAreQuiet
  <2>6. QED
    BY <2>1, <2>2, <2>3, <2>4, <2>5, StillIsQuiet DEF Quiet, QuietWriter
<1>2. ASSUME NEW c \in Conns, WriterSteps(c) \/ Ping(c) \/ PeerGone(c)
      PROVE  Quiet
  <2>1. QuietParts
    <3>1. CASE Write(c)
      BY <3>1 DEF Write, QuietParts
    <3>2. CASE WriterEnds(c) \/ Ping(c) \/ PeerGone(c)
      BY <3>2, <1>0, DeliveryIsQuiet DEF WriterEnds, Ping, PeerGone
    <3>3. QED
      BY <1>2, <3>1, <3>2 DEF WriterSteps
  <2>2. UNCHANGED <<pc, loc>>
    BY <1>2 DEF WriterSteps, Write, WriterEnds, Ping, PeerGone
  <2>3. \A d \in Conns : QuietWriter(d)
    BY <1>0, <1>2 DEF TypeOK, QuietWriter, WriterSteps, Write, WriterEnds, Ping, PeerGone
  <2>4. QED
    BY <2>1, <2>2, <2>3, StillIsQuiet DEF Quiet
<1>3. ASSUME NEW e \in Emitters, Begin(e) \/ EmitterSteps(e)
      PROVE  Quiet
  <2>1. QuietParts
    <3>1. CASE Send(e)
      <4>1. emit[e].n \in Nat
        BY <1>0 DEF TypeOK
      <4>2. QED
        BY <3>1, <4>1, <1>0, DeliveryIsQuiet DEF Send
    <3>2. CASE Begin(e) \/ Probe(e) \/ Store(e) \/ Fanout(e) \/ EmitterCloses(e)
      BY <3>2, <1>0, DeliveryIsQuiet DEF Begin, Probe, Store, Fanout, EmitterCloses
    <3>3. QED
      BY <1>3, <3>1, <3>2 DEF EmitterSteps
  <2>2. UNCHANGED <<pc, loc, drains>>
    BY <1>3 DEF EmitterSteps, Begin, Probe, Store, Fanout, Send, EmitterCloses, netVars
  <2>3. \A d \in Conns : sock[d] = "closed" => sock'[d] = "closed"
    BY <1>0, <1>3 DEF TypeOK, EmitterSteps, Begin, Probe, Store, Fanout, Send, EmitterCloses, netVars
  <2>4. QED
    BY <2>1, <2>2, <2>3, StillIsQuiet DEF Quiet, QuietWriter
<1>4. CASE TimePasses \/ Sample
  <2>1. QuietParts /\ UNCHANGED <<pc, loc, drains, sock>>
    BY <1>4, <1>0, DeliveryIsQuiet DEF TimePasses, Sample, netVars
  <2>2. QED
    BY <2>1, StillIsQuiet DEF Quiet, QuietWriter
<1>5. QED
  BY <1>1, <1>2, <1>3, <1>4 DEF Next, HandlerSteps, ClientSteps, Loud

LEMMA QuietKeeps ==
  ASSUME SocketInv, Quiet, TypeOK'
  PROVE  SocketInv'
<1> USE DEF SocketInv, Quiet, QuietParts
<1>0. sub.conn \in MaybeConn /\ sub.writer \in MaybeConn /\ NoConn \notin Conns
  BY NoConnAssumption DEF TypeOK, SubscriptionTypeOK
<1>1. BlankWhenUnknown' /\ PartsBelongTogether'
  BY DEF BlankWhenUnknown, PartsBelongTogether
<1>2. AttachedHasHandler'
  BY <1>0 DEF AttachedHasHandler, QuietHandler, MaybeConn
<1>3. \A d \in Conns : loc'[d].queue = loc[d].queue \/ loc'[d].queue = NoConn
  BY DEF QuietHandler
<1>4. TakenQueuesApart'
  BY <1>3 DEF TakenQueuesApart
<1>5. CloseIsDue'
  <2>1. \A d \in Conns : pc'[d] \in {"replace", "await", "closeQueue"} =>
          pc[d] = pc'[d] /\ loc'[d].queue = loc[d].queue /\ loc'[d].writer = loc[d].writer
    BY DEF QuietHandler
  <2>2. QED
    BY <2>1 DEF CloseIsDue
<1>6. ASSUME NEW c \in Conns, drains'[c] # NoConn
      PROVE  drains'[c] = c /\ WriterIsTold(c)'
  <2>1. drains'[c] = drains[c]
    BY <1>6 DEF QuietWriter
  <2>2. drains[c] = c /\ WriterIsTold(c)
    BY <1>6, <2>1 DEF WritersDrainTheirOwn
  <2>3. ASSUME sub.writer = c /\ pc[c] \notin {"none", "closeQueue"}
        PROVE  WriterIsTold(c)'
    BY <2>3 DEF WriterIsTold, QuietHandler
  <2>4. ASSUME NEW d \in Conns, pc[d] \in {"replace", "closeQueue"}, loc[d].queue = drains[c]
        PROVE  WriterIsTold(c)'
    <3>1. pc'[d] = pc[d] /\ loc'[d].queue = loc[d].queue
      BY <2>4 DEF QuietHandler
    <3>2. QED
      BY <2>1, <2>4, <3>1 DEF WriterIsTold
  <2>5. QED
    BY <2>1, <2>2, <2>3, <2>4 DEF WriterIsTold
<1>7. WritersDrainTheirOwn'
  BY <1>6 DEF WritersDrainTheirOwn
<1>8. CurrentSocketIsServed'
  <2> SUFFICES ASSUME NEW c \in Conns, sub.conn = c, pc'[c] \in {"reading", "recover", "close"}
               PROVE  sub.writer = c /\ (drains'[c] = c \/ sock'[c] = "closed")
    BY DEF CurrentSocketIsServed
  <2>1. sub.writer = c /\ (drains[c] = c \/ sock[c] = "closed")
    BY DEF QuietHandler, CurrentSocketIsServed
  <2>2. c \notin closed
    BY <2>1, <1>0 DEF PartsBelongTogether
  <2>3. QED
    BY <2>1, <2>2 DEF QuietWriter
<1>9. QED
  BY <1>1, <1>2, <1>4, <1>5, <1>7, <1>8

\* The types the following lemmas need.
LEMMA PartsTyped ==
  ASSUME SocketInv
  PROVE  /\ sub.conn \in MaybeConn /\ sub.writer \in MaybeConn /\ sub.sendQueue \in MaybeConn
         /\ closed \subseteq Conns /\ NoConn \notin Conns
         /\ pc \in [Conns -> HandlerStates] /\ loc \in [Conns -> LocalRecords]
         /\ drains \in [Conns -> MaybeConn]
         /\ ~known => sub.conn = NoConn /\ sub.writer = NoConn /\ sub.sendQueue = NoConn
BY NoConnAssumption DEF SocketInv, TypeOK, SubscriptionTypeOK, LocalRecords, BlankWhenUnknown, BlankSub

LEMMA ConnectKeeps ==
  ASSUME SocketInv, NEW c \in Conns, Connect(c), TypeOK'
  PROVE  SocketInv'
<1> USE DEF SocketInv
<1>1. /\ known' /\ sub'.conn = c /\ sub'.sendQueue = c /\ sub'.writer = NoConn
      /\ closed' = closed \ {c} /\ drains' = drains
  BY DEF Connect, Install, TypeOK, SubscriptionTypeOK
<1>2. /\ pc[c] = "none" /\ pc'[c] = "replace" /\ \A d \in Conns : d # c => pc'[d] = pc[d]
      /\ c # sub.conn /\ c # sub.sendQueue /\ c # sub.writer /\ drains[c] = NoConn
      /\ \A d \in Conns : drains[d] # c /\ loc[d].queue # c
  BY PartsTyped DEF Connect, Fresh, Goto
<1>3. /\ loc'[c].writer = sub.writer
      /\ loc'[c].queue = IF sub.writer # NoConn THEN sub.sendQueue ELSE NoConn
      /\ \A d \in Conns : d # c => loc'[d] = loc[d]
  BY PartsTyped DEF Connect
<1>4. BlankWhenUnknown' /\ PartsBelongTogether'
  BY <1>1 DEF BlankWhenUnknown, PartsBelongTogether
<1>5. AttachedHasHandler'
  BY <1>1, <1>2 DEF AttachedHasHandler, Left
<1>6. TakenQueuesApart'
  BY <1>1, <1>2, <1>3 DEF TakenQueuesApart
<1>7. CloseIsDue'
  <2>1. loc'[c].queue \notin closed' /\ (loc'[c].writer # NoConn => loc'[c].queue # NoConn)
    BY <1>1, <1>3, PartsTyped DEF PartsBelongTogether
  <2>2. QED
    BY <1>1, <1>2, <1>3, <2>1 DEF CloseIsDue
<1>8. WritersDrainTheirOwn'
  <2> SUFFICES ASSUME NEW d \in Conns, drains[d] # NoConn
               PROVE  drains[d] = d /\ WriterIsTold(d)'
    BY <1>1 DEF WritersDrainTheirOwn
  <2>1. drains[d] = d /\ WriterIsTold(d) /\ d # c
    BY <1>2 DEF WritersDrainTheirOwn
  <2>2. CASE sub.writer = d
    <3>1. loc'[c].queue = d
      BY <1>3, <2>2, PartsTyped DEF PartsBelongTogether
    <3>2. QED
      BY <1>1, <1>2, <2>1, <3>1 DEF WriterIsTold
  <2>3. CASE drains[d] \in closed
    BY <1>1, <2>1, <2>3 DEF WriterIsTold
  <2>4. ASSUME NEW h \in Conns, pc[h] \in {"replace", "closeQueue"}, loc[h].queue = drains[d]
        PROVE  WriterIsTold(d)'
    BY <1>1, <1>2, <1>3, <2>4 DEF WriterIsTold
  <2>5. QED
    BY <2>1, <2>2, <2>3, <2>4 DEF WriterIsTold
<1>9. CurrentSocketIsServed'
  BY <1>1, <1>2 DEF CurrentSocketIsServed
<1>10. QED
  BY <1>4, <1>5, <1>6, <1>7, <1>8, <1>9

\* CloseOldQueue and CloseQueue: a handler closes the channel it took over.
LEMMA ClosingKeeps ==
  ASSUME SocketInv, NEW c \in Conns, CloseOldQueue(c) \/ CloseQueue(c), TypeOK'
  PROVE  SocketInv'
<1> USE DEF SocketInv
<1>1. known' = known /\ sub' = sub /\ drains' = drains /\ sock' = sock
  BY DEF CloseOldQueue, CloseQueue, CloseChannel
<1>2. closed' = closed \cup ({loc[c].queue} \ {NoConn})
  BY DEF CloseOldQueue, CloseQueue, CloseChannel
<1>3. \/ /\ pc[c] = "replace" /\ loc' = loc /\ pc'[c] \in {"await", "closeOld"}
         /\ pc'[c] = "await" => loc[c].writer # NoConn
      \/ pc[c] = "closeQueue" /\ loc'[c].queue = NoConn /\ pc'[c] = "none"
  BY PartsTyped DEF CloseOldQueue, CloseQueue, Goto, NoLocals
<1>4. \A d \in Conns : d # c => pc'[d] = pc[d] /\ loc'[d] = loc[d]
  BY PartsTyped DEF CloseOldQueue, CloseQueue, Goto
<1>5. loc[c].queue \in MaybeConn /\ (loc[c].queue # NoConn => loc[c].queue # sub.sendQueue)
  BY PartsTyped DEF TakenQueuesApart, LocalRecords
<1>6. BlankWhenUnknown' /\ PartsBelongTogether'
  BY <1>1, <1>2, <1>5 DEF BlankWhenUnknown, PartsBelongTogether
<1>7. AttachedHasHandler'
  BY <1>1, <1>3, <1>4, PartsTyped DEF AttachedHasHandler, Left, Served, MaybeConn
<1>8. \A d \in Conns : loc'[d].queue = loc[d].queue \/ loc'[d].queue = NoConn
  BY <1>3, <1>4
<1>9. TakenQueuesApart'
  BY <1>1, <1>8 DEF TakenQueuesApart
<1>10. CloseIsDue'
  <2>1. \A d \in Conns : d # c /\ loc[d].queue \in closed' => loc[d].queue \in closed
    BY <1>2 DEF TakenQueuesApart
  <2>2. pc'[c] = "await" => loc'[c].queue \in closed'
    <3>1. pc[c] = "replace" /\ loc[c].writer # NoConn => loc[c].queue # NoConn
      BY DEF CloseIsDue
    <3>2. QED
      BY <1>2, <1>3, <3>1
  <2>3. QED
    BY <1>2, <1>3, <1>4, <2>1, <2>2 DEF CloseIsDue
<1>11. WritersDrainTheirOwn'
  <2> SUFFICES ASSUME NEW d \in Conns, drains[d] # NoConn
               PROVE  drains[d] = d /\ WriterIsTold(d)'
    BY <1>1 DEF WritersDrainTheirOwn
  <2>1. drains[d] = d /\ WriterIsTold(d)
    BY DEF WritersDrainTheirOwn
  <2>2. CASE sub.writer = d /\ pc[d] \notin {"none", "closeQueue"}
    BY <1>1, <1>3, <1>4, <2>1, <2>2 DEF WriterIsTold
  <2>3. CASE drains[d] \in closed
    BY <1>1, <1>2, <2>1, <2>3 DEF WriterIsTold
  <2>4. ASSUME NEW h \in Conns, pc[h] \in {"replace", "closeQueue"}, loc[h].queue = drains[d]
        PROVE  WriterIsTold(d)'
    <3>1. CASE h = c
      BY <1>1, <1>2, <2>4, <3>1 DEF WriterIsTold
    <3>2. CASE h # c
      BY <1>1, <1>4, <2>4, <3>2 DEF WriterIsTold
    <3>3. QED
      BY <3>1, <3>2
  <2>5. QED
    BY <2>1, <2>2, <2>3, <2>4 DEF WriterIsTold
<1>12. CurrentSocketIsServed'
  BY <1>1, <1>3, <1>4 DEF CurrentSocketIsServed
<1>13. QED
  BY <1>6, <1>7, <1>9, <1>10, <1>11, <1>12

LEMMA StartWriterKeeps ==
  ASSUME SocketInv, NEW c \in Conns, StartWriter(c), TypeOK'
  PROVE  SocketInv'
<1> USE DEF SocketInv
<1>1. /\ known' = known /\ closed' = closed /\ loc' = loc /\ sock' = sock
      /\ sub'.conn = sub.conn /\ sub'.sendQueue = sub.sendQueue
      /\ \A d \in Conns : d # c => pc'[d] = pc[d] /\ drains'[d] = drains[d]
      /\ pc[c] = "start" /\ pc'[c] = "reading"
  BY DEF StartWriter, AttachWriter, Goto, subVars, TypeOK, SubscriptionTypeOK
<1>2. \/ sub' = sub /\ drains' = drains /\ ~MayStartWriter(c)
      \/ /\ known /\ sub.writer = NoConn /\ sub.conn = c /\ sub'.writer = c
         /\ drains'[c] = c
  <2>1. MayStartWriter(c) => known /\ sub.writer = NoConn /\ sub.conn = c /\ sub.sendQueue = c
    BY PartsTyped DEF MayStartWriter, PartsBelongTogether
  <2>2. MayStartWriter(c) => sub'.writer = c /\ drains'[c] = c
    BY <2>1 DEF StartWriter, AttachWriter, TypeOK, SubscriptionTypeOK
  <2>3. ~MayStartWriter(c) => sub' = sub /\ drains' = drains
    BY DEF StartWriter, subVars
  <2>4. QED
    BY <2>1, <2>2, <2>3
<1>3. BlankWhenUnknown' /\ PartsBelongTogether'
  BY <1>1, <1>2, PartsTyped DEF BlankWhenUnknown, PartsBelongTogether
<1>4. AttachedHasHandler'
  BY <1>1, <1>2, PartsTyped DEF AttachedHasHandler, Left, Served, MaybeConn
<1>5. TakenQueuesApart'
  BY <1>1 DEF TakenQueuesApart
<1>6. CloseIsDue'
  BY <1>1 DEF CloseIsDue
<1>7. WritersDrainTheirOwn'
  <2> SUFFICES ASSUME NEW d \in Conns, drains'[d] # NoConn
               PROVE  drains'[d] = d /\ WriterIsTold(d)'
    BY DEF WritersDrainTheirOwn
  <2>1. CASE sub'.writer = c /\ drains'[c] = c /\ d = c
    BY <1>1, <2>1 DEF WriterIsTold
  <2>2. CASE drains'[d] = drains[d] /\ (sub'.writer = sub.writer \/ sub.writer = NoConn)
    <3>1. drains[d] = d /\ WriterIsTold(d)
      BY <2>2 DEF WritersDrainTheirOwn
    <3>2. sub.writer = d => sub'.writer = d
      BY <2>2, PartsTyped
    <3>3. \A h \in Conns : pc[h] \in {"replace", "closeQueue"} => pc'[h] = pc[h]
      BY <1>1
    <3>4. pc[d] \notin {"none", "closeQueue"} => pc'[d] \notin {"none", "closeQueue"}
      BY <1>1
    <3>5. QED
      BY <1>1, <2>2, <3>1, <3>2, <3>3, <3>4 DEF WriterIsTold
  <2>3. QED
    BY <1>1, <1>2, <2>1, <2>2
<1>8. CurrentSocketIsServed'
  <2>1. sub.conn = c => sub'.writer = c /\ drains'[c] = c
    <3> SUFFICES ASSUME sub.conn = c, ~MayStartWriter(c)
                 PROVE  FALSE
      BY <1>2
    <3>1. known /\ sub.sendQueue = c /\ c # NoConn
      BY PartsTyped DEF PartsBelongTogether
    <3>2. sub.writer = c
      BY <3>1 DEF MayStartWriter, PartsBelongTogether
    <3>3. QED
      BY <1>1, <3>1, <3>2 DEF AttachedHasHandler, Served
  <2>2. ASSUME NEW d \in Conns, d # c, sub.conn = d, pc[d] \in {"reading", "recover", "close"}
        PROVE  sub'.writer = d /\ (drains'[d] = d \/ sock'[d] = "closed")
    BY <1>1, <1>2, <2>2 DEF CurrentSocketIsServed
  <2>3. QED
    BY <1>1, <2>1, <2>2 DEF CurrentSocketIsServed
<1>9. QED
  BY <1>3, <1>4, <1>5, <1>6, <1>7, <1>8

LEMMA DisconnectKeeps ==
  ASSUME SocketInv, NEW c \in Conns, Disconnect(c), TypeOK'
  PROVE  SocketInv'
<1> USE DEF SocketInv
<1>1. /\ known' = known /\ closed' = closed /\ loc' = loc /\ sock' = sock /\ drains' = drains
      /\ sub'.sendQueue = sub.sendQueue /\ sub'.writer = sub.writer
      /\ \A d \in Conns : d # c => pc'[d] = pc[d]
      /\ pc[c] = "disconnect" /\ pc'[c] \in {"unsubscribe", "stop"}
      /\ known \/ sub' = sub
  <2>1. \E s \in {"unsubscribe", "stop"} : Goto(c, s)
    BY DEF Disconnect
  <2>2. \A d \in Conns : d # c => pc'[d] = pc[d]
    BY <2>1 DEF Goto, TypeOK
  <2>3. pc[c] = "disconnect" /\ pc'[c] \in {"unsubscribe", "stop"}
    BY <2>1, PartsTyped DEF Goto, Disconnect
  <2>4. /\ known' = known /\ closed' = closed
        /\ sub'.sendQueue = sub.sendQueue /\ sub'.writer = sub.writer
        /\ known \/ sub' = sub
    BY DEF Disconnect, Detach, IsCurrent, subVars, TypeOK, SubscriptionTypeOK
  <2>5. loc' = loc /\ sock' = sock /\ drains' = drains
    BY DEF Disconnect
  <2>6. QED
    BY <2>2, <2>3, <2>4, <2>5
<1>2. sub'.conn = NoConn \/ (sub'.conn = sub.conn /\ sub.conn # c)
  <2>1. CASE IsCurrent(c)
    BY <2>1 DEF Disconnect, Detach, TypeOK, SubscriptionTypeOK
  <2>2. CASE ~IsCurrent(c)
    BY <2>2, PartsTyped DEF Disconnect, IsCurrent, subVars
  <2>3. QED
    BY <2>1, <2>2
<1>3. BlankWhenUnknown' /\ PartsBelongTogether'
  BY <1>1, <1>2 DEF BlankWhenUnknown, PartsBelongTogether
<1>4. AttachedHasHandler'
  BY <1>1, <1>2, PartsTyped DEF AttachedHasHandler, Left, Served, MaybeConn
<1>5. TakenQueuesApart' /\ CloseIsDue'
  BY <1>1 DEF TakenQueuesApart, CloseIsDue
<1>6. WritersDrainTheirOwn'
  <2>1. \A h \in Conns : /\ pc[h] \in {"replace", "closeQueue"} => pc'[h] = pc[h]
                        /\ pc[h] \notin {"none", "closeQueue"} => pc'[h] \notin {"none", "closeQueue"}
    BY <1>1
  <2>2. \A d \in Conns : WriterIsTold(d) => WriterIsTold(d)'
    BY <1>1, <2>1 DEF WriterIsTold
  <2>3. QED
    BY <1>1, <2>2 DEF WritersDrainTheirOwn
<1>7. CurrentSocketIsServed'
  BY <1>1, <1>2, PartsTyped DEF CurrentSocketIsServed
<1>8. QED
  BY <1>3, <1>4, <1>5, <1>6, <1>7

LEMMA StopWriterKeeps ==
  ASSUME SocketInv, NEW c \in Conns, StopWriter(c), TypeOK'
  PROVE  SocketInv'
<1> USE DEF SocketInv
<1>1. /\ known' = known /\ closed' = closed /\ sock' = sock /\ drains' = drains
      /\ sub'.conn = sub.conn /\ pc[c] = "stop"
      /\ \A d \in Conns : d # c => pc'[d] = pc[d] /\ loc'[d] = loc[d]
  <2>1. known' = known /\ closed' = closed /\ sub'.conn = sub.conn
    BY DEF StopWriter, DetachWriter, subVars, TypeOK, SubscriptionTypeOK
  <2>2. sock' = sock /\ drains' = drains /\ pc[c] = "stop"
    BY DEF StopWriter
  <2>3. \A d \in Conns : d # c => pc'[d] = pc[d]
    BY DEF StopWriter, Goto, TypeOK
  <2>4. \A d \in Conns : d # c => loc'[d] = loc[d]
    BY DEF StopWriter, TypeOK
  <2>5. QED
    BY <2>1, <2>2, <2>3, <2>4
<1>2. CASE HasWriter(c)
  <2>1. /\ known /\ sub.writer = c /\ sub.sendQueue = c /\ sub.conn = NoConn
    <3>1. sub.writer = c /\ sub.sendQueue = c /\ known
      BY <1>2, PartsTyped DEF HasWriter, PartsBelongTogether
    <3>2. sub.conn # c
      BY <1>1, PartsTyped DEF AttachedHasHandler, Left
    <3>3. QED
      BY <3>1, <3>2 DEF PartsBelongTogether
  <2>2. /\ sub'.writer = NoConn /\ sub'.sendQueue = NoConn
        /\ pc'[c] = "closeQueue" /\ loc'[c].queue = c
    <3>1. sub'.writer = NoConn /\ sub'.sendQueue = NoConn
      BY <1>2 DEF StopWriter, DetachWriter, TypeOK, SubscriptionTypeOK
    <3>2. pc'[c] = "closeQueue"
      BY <1>2, PartsTyped DEF StopWriter, Goto
    <3>3. loc' = [loc EXCEPT ![c].queue = sub.sendQueue]
      BY <1>2 DEF StopWriter
    <3>4. loc'[c].queue = sub.sendQueue
      BY <3>3, PartsTyped DEF LocalRecords
    <3>5. QED
      BY <2>1, <3>1, <3>2, <3>4
  <2>3. BlankWhenUnknown' /\ PartsBelongTogether'
    BY <1>1, <2>1, <2>2, PartsTyped DEF BlankWhenUnknown, PartsBelongTogether
  <2>4. AttachedHasHandler' /\ CurrentSocketIsServed'
    BY <1>1, <2>1, <2>2, PartsTyped DEF AttachedHasHandler, CurrentSocketIsServed
  <2>5. TakenQueuesApart'
    BY <1>1, <2>1, <2>2 DEF TakenQueuesApart
  <2>6. CloseIsDue'
    BY <1>1, <2>1, <2>2 DEF CloseIsDue, PartsBelongTogether
  <2>7. WritersDrainTheirOwn'
    <3> SUFFICES ASSUME NEW d \in Conns, drains[d] # NoConn
                 PROVE  drains[d] = d /\ WriterIsTold(d)'
      BY <1>1 DEF WritersDrainTheirOwn
    <3>1. drains[d] = d /\ WriterIsTold(d)
      BY DEF WritersDrainTheirOwn
    <3>2. CASE d = c
      BY <1>1, <2>2, <3>1, <3>2 DEF WriterIsTold
    <3>3. CASE d # c
      BY <1>1, <2>1, <2>2, <3>1, <3>3 DEF WriterIsTold
    <3>4. QED
      BY <3>2, <3>3
  <2>8. QED
    BY <2>3, <2>4, <2>5, <2>6, <2>7
<1>3. CASE ~HasWriter(c)
  <2>1. sub' = sub /\ loc' = loc /\ pc'[c] = "none" /\ sub.writer # c /\ sub.conn # c
    <3>1. sub.writer # c
      BY <1>3, PartsTyped DEF HasWriter
    <3>2. sub.conn # c
      BY <1>1, PartsTyped DEF AttachedHasHandler, Left
    <3>3. QED
      BY <1>3, <3>1, <3>2 DEF StopWriter, Goto, subVars, TypeOK
  <2>2. BlankWhenUnknown' /\ PartsBelongTogether' /\ TakenQueuesApart'
    BY <1>1, <2>1 DEF BlankWhenUnknown, PartsBelongTogether, TakenQueuesApart
  <2>3. AttachedHasHandler' /\ CurrentSocketIsServed'
    BY <1>1, <2>1, PartsTyped DEF AttachedHasHandler, CurrentSocketIsServed, MaybeConn
  <2>4. CloseIsDue'
    BY <1>1, <2>1 DEF CloseIsDue
  <2>5. WritersDrainTheirOwn'
    <3>1. \A d \in Conns : WriterIsTold(d) => WriterIsTold(d)'
      BY <1>1, <2>1 DEF WriterIsTold
    <3>2. QED
      BY <1>1, <3>1 DEF WritersDrainTheirOwn
  <2>6. QED
    BY <2>2, <2>3, <2>4, <2>5
<1>4. QED
  BY <1>2, <1>3

LEMMA CleanupKeeps ==
  ASSUME SocketInv, Cleanup, TypeOK'
  PROVE  SocketInv'
<1> USE DEF SocketInv
<1>1. /\ ~known' /\ sub' = BlankSub /\ UNCHANGED <<closed, loc, drains, sock, pc>>
      /\ \A c \in Conns : pc[c] = "none"
  BY DEF Cleanup, Forget, netVars
<1>2. BlankWhenUnknown' /\ PartsBelongTogether' /\ AttachedHasHandler'
  BY <1>1, PartsTyped DEF BlankWhenUnknown, PartsBelongTogether, AttachedHasHandler, BlankSub
<1>3. TakenQueuesApart' /\ CloseIsDue' /\ CurrentSocketIsServed'
  BY <1>1 DEF TakenQueuesApart, CloseIsDue, CurrentSocketIsServed, BlankSub
<1>4. WritersDrainTheirOwn'
  BY <1>1 DEF WritersDrainTheirOwn, WriterIsTold
<1>5. QED
  BY <1>2, <1>3, <1>4

\* What holds of the sockets, their channels and their writers is inductive.
LEMMA SocketStep ==
  ASSUME SocketInv, Next
  PROVE  SocketInv'
<1>1. TypeOK'
  BY TypeStep DEF SocketInv
<1>2. CASE Quiet
  BY <1>1, <1>2, QuietKeeps
<1>3. CASE Loud
  BY <1>1, <1>3, ConnectKeeps, ClosingKeeps, StartWriterKeeps, DisconnectKeeps,
     StopWriterKeeps, CleanupKeeps DEF Loud
<1>4. QED
  BY <1>2, <1>3, QuietSteps

-----------------------------------------------------------------------------
(***************************************************************************)
(* Demand and gaps                                                         *)
(***************************************************************************)

\* The operations of the subscription, one of which every step performs on sub.
Preference(c) == MayPrefer(c) /\ (SetPreference(c) \/ ClearPreference)

SubscriptionOp ==
  \/ sub' = sub
  \/ \E c \in Conns : Install(c) \/ AttachWriter(c) \/ Preference(c)
  \/ Detach \/ ClearBuffer \/ DetachWriter \/ WindowPasses \/ Forget
  \/ \E n \in Nat : Deliver(n)

LEMMA StepsAreOps ==
  ASSUME TypeOK, Next
  PROVE  SubscriptionOp
<1> USE DEF SubscriptionOp
<1>1. ASSUME NEW c \in Conns, HandlerSteps(c)
      PROVE  SubscriptionOp
  <2>1. CASE Recover(c)
    BY <2>1 DEF Recover, TypeOK, subVars
  <2>2. CASE \/ CloseOldQueue(c) \/ AwaitOldWriter(c) \/ CloseOldConn(c) \/ CopyBuffer(c)
             \/ ReplayOver(c) \/ StartWriter(c)
    BY <2>2 DEF CloseOldQueue, AwaitOldWriter, CloseOldConn, CopyBuffer, ReplayOver, StartWriter,
       CloseChannel, subVars
  <2>3. CASE \/ RecoverCloses(c) \/ ReadFails(c) \/ Disconnect(c) \/ UnsubscribeAll(c)
             \/ StopWriter(c) \/ CloseQueue(c)
    BY <2>3 DEF RecoverCloses, ReadFails, Disconnect, UnsubscribeAll, StopWriter, CloseQueue,
       CloseChannel, HubUnsubscribe, subVars
  <2>4. QED
    BY <1>1, <2>1, <2>2, <2>3 DEF HandlerSteps
<1>2. ASSUME NEW c \in Conns, ClientSteps(c)
      PROVE  SubscriptionOp
  BY <1>2 DEF ClientSteps, Connect, HandleSubscribe, HandleUnsubscribe, HandlePreference,
     HubSubscribe, HubUnsubscribe, Preference, subVars
<1>3. ASSUME NEW c \in Conns, WriterSteps(c) \/ Ping(c) \/ PeerGone(c)
      PROVE  SubscriptionOp
  BY <1>3 DEF WriterSteps, Write, WriterEnds, Ping, PeerGone, subVars
<1>4. ASSUME NEW e \in Emitters, Begin(e) \/ EmitterSteps(e)
      PROVE  SubscriptionOp
  BY <1>4 DEF EmitterSteps, Begin, Probe, Store, Fanout, Send, EmitterCloses, subVars, TypeOK
<1>5. CASE TimePasses \/ Cleanup \/ Sample
  BY <1>5 DEF TimePasses, Cleanup, Sample, DeliverMetric
<1>6. QED
  BY <1>1, <1>2, <1>3, <1>4, <1>5 DEF Next

LEMMA DemandStep ==
  ASSUME TypeOK, DemandIsCurrent, Next
  PROVE  DemandIsCurrent'
<1> USE DEF DemandIsCurrent
<1>1. sub \in [conn : MaybeConn, sendQueue : MaybeConn, writer : MaybeConn, buffer : Seq(Frames),
              since : {"zero", "window", "past"}, watcher : MaybeConn]
  BY DEF TypeOK, SubscriptionTypeOK
<1>2. ASSUME NEW c \in Conns, Install(c) \/ AttachWriter(c)
      PROVE  DemandIsCurrent'
  BY <1>1, <1>2 DEF Install, AttachWriter
<1>3. ASSUME NEW c \in Conns, Preference(c)
      PROVE  DemandIsCurrent'
  BY <1>1, <1>3 DEF Preference, MayPrefer, SetPreference, ClearPreference
<1>4. CASE Detach \/ ClearBuffer \/ DetachWriter \/ WindowPasses
  BY <1>1, <1>4 DEF Detach, ClearBuffer, DetachWriter, WindowPasses
<1>5. CASE Forget
  BY <1>5 DEF Forget, BlankSub
<1>6. ASSUME NEW n \in Nat, Deliver(n)
      PROVE  DemandIsCurrent'
  <2>1. sub' = [sub EXCEPT !.buffer = Buffered(n)] \/ sub' = sub
    BY <1>6 DEF Deliver
  <2>2. QED
    BY <1>1, <2>1
<1>7. QED
  BY <1>2, <1>3, <1>4, <1>5, <1>6, StepsAreOps DEF SubscriptionOp

\* A step that refuses no event and closes no socket keeps every announced close.
GapKept ==
  /\ gap' \subseteq gap
  /\ \A x \in gap' : sock[x] = "closed" => sock'[x] = "closed"
  /\ \A e \in Emitters : emit[e].pc = "close" => emit'[e].pc = "close" /\ emit'[e].conn = emit[e].conn
  /\ \A d \in Conns : pc[d] = "close" => pc'[d] = "close" /\ loc'[d] = loc[d]

LEMMA GapStep ==
  ASSUME TypeOK, GapMeansClose, Next
  PROVE  GapMeansClose'
<1> USE DEF Goto
<1>0. /\ pc \in [Conns -> HandlerStates] /\ loc \in [Conns -> LocalRecords]
      /\ emit \in [Emitters -> EmitterRecords] /\ gap \subseteq Conns
      /\ sock \in [Conns -> {"open", "dead", "closed"}]
  BY DEF TypeOK, LocalRecords, EmitterRecords
<1>1. CASE GapKept
  BY <1>1 DEF GapKept, GapMeansClose
<1>2. ASSUME NEW c \in Conns,
             \/ CloseOldQueue(c) \/ AwaitOldWriter(c) \/ CloseOldConn(c) \/ CopyBuffer(c)
             \/ ReplayOver(c) \/ StartWriter(c)
      PROVE  GapKept
  <2>1. gap' = gap /\ emit' = emit
    BY <1>2 DEF CloseOldQueue, AwaitOldWriter, CloseOldConn, CopyBuffer, ReplayOver, StartWriter,
       emitVars, histVars
  <2>2. \A d \in Conns : sock[d] = "closed" => sock'[d] = "closed"
    BY <1>2 DEF CloseOldQueue, AwaitOldWriter, CloseOldConn, CopyBuffer, ReplayOver, StartWriter
  <2>3. pc[c] # "close" /\ \A d \in Conns : d # c => pc'[d] = pc[d] /\ loc'[d] = loc[d]
    BY <1>0, <1>2 DEF CloseOldQueue, AwaitOldWriter, CloseOldConn, CopyBuffer, ReplayOver, StartWriter
  <2>4. QED
    BY <1>0, <2>1, <2>2, <2>3 DEF GapKept
<1>3. ASSUME NEW c \in Conns,
             \/ ReadFails(c) \/ Disconnect(c) \/ UnsubscribeAll(c) \/ StopWriter(c) \/ CloseQueue(c)
             \/ HandleSubscribe(c) \/ HandleUnsubscribe(c) \/ HandlePreference(c)
      PROVE  GapKept
  <2>1. gap' = gap /\ emit' = emit
    BY <1>3 DEF ReadFails, Disconnect, UnsubscribeAll, StopWriter, CloseQueue,
       HandleSubscribe, HandleUnsubscribe, HandlePreference, emitVars, histVars
  <2>2. \A d \in Conns : sock[d] = "closed" => sock'[d] = "closed"
    BY <1>0, <1>3 DEF ReadFails, Disconnect, UnsubscribeAll, StopWriter, CloseQueue,
       HandleSubscribe, HandleUnsubscribe, HandlePreference
  <2>3. pc[c] # "close" /\ \A d \in Conns : d # c => pc'[d] = pc[d] /\ loc'[d] = loc[d]
    BY <1>0, <1>3 DEF ReadFails, Disconnect, UnsubscribeAll, StopWriter, CloseQueue,
       HandleSubscribe, HandleUnsubscribe, HandlePreference, Read
  <2>4. QED
    BY <1>0, <2>1, <2>2, <2>3 DEF GapKept
<1>4. ASSUME NEW c \in Conns, Connect(c)
      PROVE  GapKept
  <2>1. gap' = gap \ {c} /\ emit' = emit /\ \A x \in gap' : sock'[x] = sock[x]
    BY <1>0, <1>4 DEF Connect, emitVars
  <2>2. pc[c] # "close" /\ \A d \in Conns : d # c => pc'[d] = pc[d] /\ loc'[d] = loc[d]
    BY <1>0, <1>4 DEF Connect, Fresh
  <2>3. QED
    BY <1>0, <2>1, <2>2 DEF GapKept
<1>5. ASSUME NEW c \in Conns, Recover(c)
      PROVE  GapMeansClose'
  <2>1. emit' = emit /\ sock' = sock /\ pc[c] = "recover"
        /\ \A d \in Conns : d # c => pc'[d] = pc[d] /\ loc'[d] = loc[d]
    BY <1>0, <1>5 DEF Recover, emitVars
  <2>2. gap' = gap \/ (gap' = gap \cup {sub.conn} /\ pc'[c] = "close" /\ loc'[c].conn = sub.conn)
    <3>1. CASE live # 0 /\ Refused
      <4>1. gap' = gap \cup {sub.conn} /\ pc'[c] = "close"
        BY <1>0, <1>5, <3>1 DEF Recover, Note
      <4>2. loc' = [loc EXCEPT ![c].conn = sub.conn]
        BY <1>5, <3>1 DEF Recover
      <4>3. loc'[c].conn = sub.conn
        BY <1>0, <4>2 DEF LocalRecords
      <4>4. QED
        BY <4>1, <4>3
    <3>2. CASE ~(live # 0 /\ Refused)
      BY <1>5, <3>2 DEF Recover, Note
    <3>3. QED
      BY <3>1, <3>2
  <2>3. QED
    BY <2>1, <2>2 DEF GapMeansClose
<1>6. ASSUME NEW c \in Conns, RecoverCloses(c)
      PROVE  GapMeansClose'
  <2>1. /\ gap' = gap /\ emit' = emit /\ \A d \in Conns : d # c => pc'[d] = pc[d] /\ loc'[d] = loc[d]
        /\ \A x \in Conns : sock'[x] = IF x = loc[c].conn THEN "closed" ELSE sock[x]
    BY <1>0, <1>6 DEF RecoverCloses, emitVars, histVars
  <2>2. QED
    BY <1>0, <2>1 DEF GapMeansClose
<1>7. ASSUME NEW c \in Conns, WriterSteps(c) \/ Ping(c) \/ PeerGone(c)
      PROVE  GapKept
  BY <1>0, <1>7 DEF GapKept, WriterSteps, Write, WriterEnds, Ping, PeerGone, emitVars, histVars
<1>8. ASSUME NEW e \in Emitters, Begin(e) \/ Probe(e) \/ Store(e) \/ Fanout(e)
      PROVE  GapKept
  <2>1. UNCHANGED <<gap, sock, pc, loc>> /\ emit[e].pc # "close"
        /\ \A f \in Emitters : f # e => emit'[f] = emit[f]
    BY <1>0, <1>8 DEF Begin, Probe, Store, Fanout, Step, netVars, histVars
  <2>2. QED
    BY <2>1 DEF GapKept
<1>9. ASSUME NEW e \in Emitters, Send(e)
      PROVE  GapMeansClose'
  <2>1. UNCHANGED <<sock, pc, loc>> /\ emit[e].pc = "send"
        /\ \A f \in Emitters : f # e => emit'[f] = emit[f]
    BY <1>0, <1>9 DEF Send, netVars
  <2>2. gap' = gap \/ (gap' = gap \cup {sub.conn} /\ emit'[e].pc = "close" /\ emit'[e].conn = sub.conn)
    <3>1. CASE Refused
      <4>1. emit' = [emit EXCEPT ![e].pc = "close", ![e].conn = sub.conn]
        BY <1>9, <3>1 DEF Send
      <4>2. emit'[e].pc = "close" /\ emit'[e].conn = sub.conn
        BY <1>0, <4>1 DEF EmitterRecords
      <4>3. QED
        BY <1>9, <3>1, <4>2 DEF Send, Note
    <3>2. CASE ~Refused
      BY <1>9, <3>2 DEF Send, Note
    <3>3. QED
      BY <3>1, <3>2
  <2>3. QED
    BY <2>1, <2>2 DEF GapMeansClose
<1>10. ASSUME NEW e \in Emitters, EmitterCloses(e)
       PROVE  GapMeansClose'
  <2>1. /\ UNCHANGED <<gap, pc, loc>> /\ \A f \in Emitters : f # e => emit'[f] = emit[f]
        /\ \A x \in Conns : sock'[x] = IF x = emit[e].conn THEN "closed" ELSE sock[x]
    BY <1>0, <1>10 DEF EmitterCloses, histVars
  <2>2. QED
    BY <1>0, <2>1 DEF GapMeansClose
<1>11. CASE TimePasses \/ Cleanup \/ Sample
  BY <1>11 DEF TimePasses, Cleanup, Sample, GapMeansClose, netVars, emitVars, histVars
<1>12. QED
  BY <1>1, <1>2, <1>3, <1>4, <1>5, <1>6, <1>7, <1>8, <1>9, <1>10, <1>11
     DEF Next, HandlerSteps, ClientSteps, EmitterSteps

-----------------------------------------------------------------------------
(***************************************************************************)
(* The replay buffer                                                       *)
(***************************************************************************)

\* The channel of the current socket is not read before its handler starts the
\* writer, so nothing that the replay has to cover is gone.
LEMMA NobodyReadsYet ==
  ASSUME SocketInv, NEW c \in Conns, pc[c] = "replay", sub.conn = c, NEW d \in Conns
  PROVE  drains[d] # c
<1> USE DEF SocketInv
<1> SUFFICES ASSUME drains[d] = c
             PROVE  FALSE
  OBVIOUS
<1>1. c # NoConn /\ sub.sendQueue = c /\ c \notin closed
  BY PartsTyped DEF PartsBelongTogether
<1>2. d = c /\ WriterIsTold(c)
  BY <1>1 DEF WritersDrainTheirOwn
<1>3. sub.writer # c
  BY <1>1 DEF AttachedHasHandler, Served
<1>4. \A h \in Conns : loc[h].queue # c
  BY <1>1 DEF TakenQueuesApart
<1>5. QED
  BY <1>1, <1>2, <1>3, <1>4 DEF WriterIsTold

\* A delivery to the current socket c puts the event into its channel, or leaves a
\* gap.
LEMMA DeliveryIsAccounted ==
  ASSUME SocketInv, NEW n \in Nat, Deliver(n), Note(n), NEW c \in Conns, sub.conn = c
  PROVE  /\ sub'.conn = c /\ gap \subseteq gap'
         /\ ToSet(channel[c]) \subseteq ToSet(channel'[c])
         /\ c \notin gap' => ToSet(sub'.buffer) \subseteq ToSet(sub.buffer) \cup ToSet(channel'[c])
<1> USE DEF SocketInv
<1>1. /\ c # NoConn /\ known /\ sub.sendQueue = c /\ channel[c] \in Seq(Nat) /\ sub.buffer \in Seq(Nat)
      /\ channel \in [Conns -> Seq(Nat)]
  BY PartsTyped DEF PartsBelongTogether, TypeOK, SubscriptionTypeOK, Frames
<1>2. sub' = [sub EXCEPT !.buffer = Buffered(n)]
  BY <1>1 DEF Deliver
<1>3. sub'.conn = c /\ sub'.buffer = Buffered(n)
  BY <1>2 DEF TypeOK, SubscriptionTypeOK
<1>4. ToSet(Buffered(n)) \subseteq ToSet(sub.buffer) \cup {n}
  <2>1. /\ Append(sub.buffer, n) \in Seq(Nat) /\ Append(sub.buffer, n) # <<>>
        /\ ToSet(Append(sub.buffer, n)) = ToSet(sub.buffer) \cup {n}
    BY <1>1, FramesAppended, Zenon
  <2>2. ToSet(Tail(Append(sub.buffer, n))) \subseteq ToSet(Append(sub.buffer, n))
    BY <2>1, FramesTail, Zenon
  <2>3. Buffered(n) = Append(sub.buffer, n) \/ Buffered(n) = Tail(Append(sub.buffer, n))
    BY Zenon DEF Buffered
  <2>4. ToSet(Buffered(n)) \subseteq ToSet(Append(sub.buffer, n))
    BY <2>2, <2>3, Zenon
  <2>5. QED
    BY <2>1, <2>4, Zenon
<1>5. CASE HasRoom
  <2>1. channel'[c] = Append(channel[c], n)
    BY <1>1, <1>5 DEF Deliver
  <2>2. ToSet(Append(channel[c], n)) = ToSet(channel[c]) \cup {n}
    BY <1>1, FramesAppended, Zenon
  <2>3. ToSet(channel'[c]) = ToSet(channel[c]) \cup {n}
    BY <2>1, <2>2, Zenon
  <2>4. gap' = gap
    BY <1>5 DEF Note, Refused
  <2>5. QED
    BY <1>3, <1>4, <2>3, <2>4, Zenon
<1>6. CASE ~HasRoom
  <2>1. channel' = channel /\ c \in gap' /\ gap \subseteq gap'
    BY <1>1, <1>6 DEF Deliver, Note, Refused
  <2>2. QED
    BY <1>3, <2>1, Zenon
<1>7. QED
  BY <1>5, <1>6

LEMMA CopyStep ==
  ASSUME SocketInv, CopyIsComplete, Next
  PROVE  CopyIsComplete'
<1> USE DEF Goto
<1>0. /\ TypeOK /\ SubscriptionTypeOK /\ BlankWhenUnknown /\ pc \in [Conns -> HandlerStates]
      /\ loc \in [Conns -> LocalRecords] /\ channel \in [Conns -> Seq(Nat)]
      /\ sub \in [conn : MaybeConn, sendQueue : MaybeConn, writer : MaybeConn, buffer : Seq(Nat),
                  since : {"zero", "window", "past"}, watcher : MaybeConn]
      /\ NoConn \notin Conns
  BY NoConnAssumption DEF SocketInv, TypeOK, SubscriptionTypeOK, LocalRecords, Frames
<1> DEFINE Complete(c) ==
      c \notin gap => ToSet(sub.buffer) \subseteq ToSet(loc[c].replay) \cup ToSet(channel[c])
<1> SUFFICES ASSUME NEW c \in Conns, pc'[c] = "replay", sub'.conn = c
             PROVE  Complete(c)'
  BY DEF CopyIsComplete
<1>1. CASE CopyBuffer(c)
  <2>1. loc' = [loc EXCEPT ![c].replay = sub.buffer] /\ sub' = sub
    BY <1>1 DEF CopyBuffer, subVars
  <2>2. loc'[c].replay = sub.buffer
    BY <1>0, <2>1 DEF LocalRecords
  <2>3. QED
    BY <2>1, <2>2, Zenon
<1> DEFINE Same == /\ pc[c] = "replay" /\ loc'[c] = loc[c] /\ sub.conn = c
                   /\ gap \subseteq gap'
<1>2. ASSUME Same
      PROVE  Complete(c)
  BY <1>2 DEF CopyIsComplete
<1>3. ASSUME Same, sub'.buffer = sub.buffer, channel'[c] = channel[c]
      PROVE  Complete(c)'
  BY <1>2, <1>3, Zenon
<1>4. ASSUME NEW d \in Conns,
             \/ CloseOldQueue(d) \/ AwaitOldWriter(d) \/ CloseOldConn(d) \/ StartWriter(d)
             \/ RecoverCloses(d) \/ ReadFails(d) \/ UnsubscribeAll(d)
             \/ StopWriter(d) \/ CloseQueue(d)
             \/ HandleSubscribe(d) \/ HandleUnsubscribe(d) \/ HandlePreference(d)
             \/ CopyBuffer(d) /\ d # c
      PROVE  Complete(c)'
  <2>1. channel' = channel /\ gap' = gap /\ sub'.conn = sub.conn /\ sub'.buffer = sub.buffer
    <3>1. CASE \/ CloseOldQueue(d) \/ AwaitOldWriter(d) \/ CloseOldConn(d) \/ StartWriter(d)
               \/ RecoverCloses(d) \/ ReadFails(d) \/ UnsubscribeAll(d) \/ CopyBuffer(d)
      BY <1>0, <3>1 DEF CloseOldQueue, AwaitOldWriter, CloseOldConn, StartWriter, AttachWriter,
         RecoverCloses, ReadFails, UnsubscribeAll, CopyBuffer,
         CloseChannel, HubUnsubscribe, subVars, histVars
    <3>2. CASE \/ StopWriter(d) \/ CloseQueue(d)
               \/ HandleSubscribe(d) \/ HandleUnsubscribe(d) \/ HandlePreference(d)
      BY <1>0, <3>2 DEF StopWriter, DetachWriter, CloseQueue, CloseChannel, HandleSubscribe,
         HandleUnsubscribe, HandlePreference, HubSubscribe, HubUnsubscribe, SetPreference,
         ClearPreference, subVars, histVars
    <3>3. QED
      BY <1>4, <3>1, <3>2
  <2>2. pc[c] = "replay" /\ loc'[c] = loc[c]
    <3>1. CASE \/ CloseOldQueue(d) \/ AwaitOldWriter(d) \/ CloseOldConn(d) \/ StartWriter(d)
               \/ RecoverCloses(d) \/ ReadFails(d) \/ UnsubscribeAll(d) \/ (CopyBuffer(d) /\ d # c)
      BY <1>0, <3>1 DEF CloseOldQueue, AwaitOldWriter, CloseOldConn, StartWriter,
         RecoverCloses, ReadFails, UnsubscribeAll, CopyBuffer
    <3>2. CASE \/ StopWriter(d) \/ CloseQueue(d)
               \/ HandleSubscribe(d) \/ HandleUnsubscribe(d) \/ HandlePreference(d)
      BY <1>0, <3>2 DEF StopWriter, CloseQueue, HandleSubscribe, HandleUnsubscribe,
         HandlePreference, Read
    <3>3. QED
      BY <1>4, <3>1, <3>2
  <2>3. QED
    BY <1>3, <2>1, <2>2
<1>5. ASSUME NEW d \in Conns, Connect(d)
      PROVE  Complete(c)'
  <2>1. sub'.conn = d /\ pc'[d] = "replace"
    BY <1>0, <1>5 DEF Connect, Install
  <2>2. QED
    BY <2>1
<1>6. ASSUME NEW d \in Conns, ReplayOver(d)
      PROVE  Complete(c)'
  <2>1. sub'.buffer = <<>>
    BY <1>0, <1>6 DEF ReplayOver, ClearBuffer
  <2>2. ToSet(sub'.buffer) = {}
    BY <2>1 DEF ToSet
  <2>3. QED
    BY <2>2
<1>7. ASSUME NEW d \in Conns, Disconnect(d)
      PROVE  Complete(c)'
  <2>1. CASE IsCurrent(d)
    <3>1. sub'.conn = NoConn
      BY <1>0, <1>7, <2>1 DEF Disconnect, Detach
    <3>2. QED
      BY <1>0, <3>1
  <2>2. CASE ~IsCurrent(d)
    <3>1. channel' = channel /\ gap' = gap /\ sub' = sub /\ loc' = loc /\ pc[c] = "replay"
      BY <1>0, <1>7, <2>2 DEF Disconnect, subVars, histVars
    <3>2. QED
      BY <1>3, <3>1
  <2>3. QED
    BY <2>1, <2>2
<1>8. ASSUME NEW d \in Conns, Recover(d)
      PROVE  Complete(c)'
  <2>1. pc[c] = "replay" /\ loc'[c] = loc[c]
    BY <1>0, <1>8 DEF Recover
  <2>2. CASE live = 0
    <3>1. channel' = channel /\ gap' = gap /\ sub' = sub
      BY <1>8, <2>2 DEF Recover, subVars
    <3>2. QED
      BY <1>3, <2>1, <3>1
  <2>3. CASE live # 0
    <3>1. live \in Nat /\ Deliver(live) /\ Note(live)
      BY <1>0, <1>8, <2>3 DEF Recover, TypeOK
    <3>2. sub.conn = c
      BY <1>0, <3>1, DeliveryIsQuiet DEF QuietParts
    <3>3. Complete(c)
      BY <2>1, <3>2 DEF CopyIsComplete
    <3>4. QED
      BY <2>1, <3>1, <3>2, <3>3, DeliveryIsAccounted
  <2>4. QED
    BY <2>2, <2>3
<1>9. ASSUME NEW d \in Conns, Write(d)
      PROVE  Complete(c)'
  <2>1. sub' = sub /\ pc' = pc /\ loc' = loc /\ gap' = gap
    BY <1>9 DEF Write, histVars
  <2>2. drains[d] # c
    BY <2>1, NobodyReadsYet
  <2>3. channel'[c] = channel[c]
    BY <1>0, <1>9, <2>2 DEF Write
  <2>4. QED
    BY <1>3, <2>1, <2>3
<1>10. ASSUME NEW d \in Conns, WriterEnds(d) \/ Ping(d) \/ PeerGone(d)
       PROVE  Complete(c)'
  BY <1>3, <1>10 DEF WriterEnds, Ping, PeerGone, subVars, histVars
<1>11. ASSUME NEW e \in Emitters, Begin(e) \/ Probe(e) \/ Store(e) \/ Fanout(e) \/ EmitterCloses(e)
       PROVE  Complete(c)'
  BY <1>3, <1>11 DEF Begin, Probe, Store, Fanout, EmitterCloses, subVars, netVars, histVars
<1>12. ASSUME NEW e \in Emitters, Send(e)
       PROVE  Complete(c)'
  <2>1. pc' = pc /\ loc' = loc
    BY <1>12 DEF Send, netVars
  <2>2. emit[e].n \in Nat /\ Deliver(emit[e].n) /\ Note(emit[e].n)
    BY <1>0, <1>12 DEF Send, TypeOK
  <2>3. sub.conn = c
    BY <1>0, <2>2, DeliveryIsQuiet DEF QuietParts
  <2>4. Complete(c)
    BY <2>1, <2>3 DEF CopyIsComplete
  <2>5. QED
    BY <2>1, <2>2, <2>3, <2>4, DeliveryIsAccounted
<1>13. CASE TimePasses \/ Cleanup
  <2>1. sub'.conn = NoConn
    BY <1>0, <1>13 DEF TimePasses, WindowPasses, Cleanup, Forget, BlankSub
  <2>2. QED
    BY <1>0, <2>1
<1>14. CASE Sample
  <2>1. /\ sub' = sub /\ pc' = pc /\ loc' = loc /\ gap' = gap
        /\ channel' = [channel EXCEPT ![sub.sendQueue] = Append(@, Metric)]
    BY <1>14 DEF Sample, DeliverMetric, netVars, histVars
  <2>2. channel[c] \in Seq(Nat) /\ Metric \in Nat
    BY <1>0 DEF Metric
  <2>3. channel'[c] = channel[c] \/ channel'[c] = Append(channel[c], Metric)
    BY <1>0, <2>1
  <2>4. ToSet(channel[c]) \subseteq ToSet(channel'[c])
    BY <2>2, <2>3, FramesAppended, Zenon
  <2>5. Complete(c)
    BY <2>1 DEF CopyIsComplete
  <2>6. QED
    BY <2>1, <2>4, <2>5, Zenon
<1>15. QED
  BY <1>1, <1>4, <1>5, <1>6, <1>7, <1>8, <1>9, <1>10, <1>11, <1>12, <1>13, <1>14
     DEF Next, HandlerSteps, ClientSteps, WriterSteps, EmitterSteps

-----------------------------------------------------------------------------
(***************************************************************************)
(* The producers                                                           *)
(***************************************************************************)
Emits(e) == Begin(e) \/ EmitterSteps(e)

LEMMA OthersEmitNothing ==
  ASSUME Next, ~\E e \in Emitters : Emits(e)
  PROVE  emit' = emit /\ next' = next /\ live' = live
<1> USE DEF emitVars
<1>1. ASSUME NEW c \in Conns, HandlerSteps(c)
      PROVE  emit' = emit /\ next' = next /\ live' = live
  BY <1>1 DEF HandlerSteps, CloseOldQueue, AwaitOldWriter, CloseOldConn, CopyBuffer, ReplayOver,
     StartWriter, Recover, RecoverCloses, ReadFails, Disconnect, UnsubscribeAll, StopWriter, CloseQueue
<1>2. ASSUME NEW c \in Conns, ClientSteps(c)
      PROVE  emit' = emit /\ next' = next /\ live' = live
  BY <1>2 DEF ClientSteps, Connect, HandleSubscribe, HandleUnsubscribe, HandlePreference
<1>3. ASSUME NEW c \in Conns, WriterSteps(c) \/ Ping(c) \/ PeerGone(c)
      PROVE  emit' = emit /\ next' = next /\ live' = live
  BY <1>3 DEF WriterSteps, Write, WriterEnds, Ping, PeerGone
<1>4. QED
  BY <1>1, <1>2, <1>3 DEF Next, Emits, TimePasses, Cleanup, Sample

\* A step of one producer leaves the others alone.
LEMMA OneEmits ==
  ASSUME TypeOK, NEW e \in Emitters, Emits(e)
  PROVE  \A f \in Emitters : f # e => emit'[f] = emit[f]
BY DEF TypeOK, Emits, EmitterSteps, Begin, Probe, Store, Fanout, Send, EmitterCloses, Step

LEMMA EmitterFields ==
  ASSUME TypeOK, NEW e \in Emitters
  PROVE  /\ Probe(e) => /\ emit[e].pc = "probe" /\ emit'[e].pc = "store"
                         /\ (hub => emit'[e].send) /\ emit'[e].n = emit[e].n
         /\ Send(e) => /\ emit[e].pc = "send" /\ emit'[e].pc \in {"close", "idle"}
                        /\ emit'[e].n = emit[e].n
         /\ EmitterCloses(e) => /\ emit[e].pc = "close" /\ emit'[e].pc = "idle"
                                 /\ emit'[e].n = emit[e].n
         /\ Store(e) => /\ emit[e].pc = "store" /\ emit'[e].n = emit[e].n
                         /\ emit'[e].send = emit[e].send
                         /\ emit'[e].pc = IF ~emit[e].send THEN "idle"
                                          ELSE IF emit[e].n \in Updates THEN "send" ELSE "fanout"
         /\ Fanout(e) => /\ emit[e].pc = "fanout" /\ emit'[e].n = emit[e].n
                          /\ emit'[e].pc = IF hub THEN "send" ELSE "idle"
<1>1. emit \in [Emitters -> EmitterRecords]
  BY DEF TypeOK, EmitterRecords
<1>2. Probe(e) => /\ emit[e].pc = "probe" /\ emit'[e].pc = "store"
                  /\ (hub => emit'[e].send) /\ emit'[e].n = emit[e].n
  <2> SUFFICES ASSUME Probe(e)
               PROVE  /\ emit[e].pc = "probe" /\ emit'[e].pc = "store"
                      /\ (hub => emit'[e].send) /\ emit'[e].n = emit[e].n
    OBVIOUS
  <2>1. PICK listed \in ProbeAnswers :
          emit' = [emit EXCEPT ![e].pc = "store", ![e].send = listed]
    BY DEF Probe
  <2>2. hub => listed = TRUE
    BY DEF ProbeAnswers
  <2>3. emit[e].pc = "probe"
    BY DEF Probe
  <2>4. emit'[e].pc = "store" /\ emit'[e].send = listed /\ emit'[e].n = emit[e].n
    BY <1>1, <2>1 DEF EmitterRecords
  <2>5. QED
    BY <2>2, <2>3, <2>4, Zenon
<1>3. Send(e) => /\ emit[e].pc = "send" /\ emit'[e].pc \in {"close", "idle"}
                 /\ emit'[e].n = emit[e].n
  BY <1>1 DEF Send, EmitterRecords
<1>4. EmitterCloses(e) => /\ emit[e].pc = "close" /\ emit'[e].pc = "idle"
                          /\ emit'[e].n = emit[e].n
  BY <1>1 DEF EmitterCloses, EmitterRecords
<1>5. Store(e) => /\ emit[e].pc = "store" /\ emit'[e].n = emit[e].n
                  /\ emit'[e].send = emit[e].send
                  /\ emit'[e].pc = IF ~emit[e].send THEN "idle"
                                   ELSE IF emit[e].n \in Updates THEN "send" ELSE "fanout"
  BY <1>1 DEF Store, Step, EmitterRecords
<1>6. Fanout(e) => /\ emit[e].pc = "fanout" /\ emit'[e].n = emit[e].n
                   /\ emit'[e].pc = IF hub THEN "send" ELSE "idle"
  BY <1>1 DEF Fanout, Step, EmitterRecords
<1>7. QED
  BY <1>2, <1>3, <1>4, <1>5, <1>6

-----------------------------------------------------------------------------
(***************************************************************************)
(* The reply that streams                                                  *)
(***************************************************************************)

\* What a step of no producer does to the current socket's knowledge: nothing is
\* taken back, and a subscription is followed by the re-emission.
Reminded(c) == live \in handed[c] \/ \E d \in Conns : pc[d] = "recover"

KnowledgeKept(c) ==
  /\ sub.conn = c /\ c \in asked /\ hub
  /\ Reminded(c) => Reminded(c)'

\* The re-emission reaches the current socket.
LEMMA RecoveryTells ==
  ASSUME SocketInv, NEW d \in Conns, Recover(d), live # 0, live \in StreamStarts,
         NEW c \in Conns, sub'.conn = c
  PROVE  live \in handed'[c]
<1>1. live \in Nat /\ Deliver(live) /\ Note(live)
  BY DEF Recover, SocketInv, TypeOK
<1>2. sub.conn = c /\ known /\ c # NoConn
  BY <1>1, DeliveryIsQuiet, PartsTyped DEF QuietParts, SocketInv, TypeOK
<1>3. QED
  BY <1>1, <1>2 DEF Note, SocketInv, TypeOK

LEMMA HandlersKeepKnowledge ==
  ASSUME SocketInv, live # 0 => live \in StreamStarts, Next, ~\E e \in Emitters : Emits(e),
         NEW c \in Conns, sub'.conn = c, c \in asked', hub', live # 0
  PROVE  KnowledgeKept(c) \/ Reminded(c)'
<1> USE DEF Goto
<1>0. /\ TypeOK /\ SubscriptionTypeOK /\ BlankWhenUnknown /\ pc \in [Conns -> HandlerStates]
      /\ sub \in [conn : MaybeConn, sendQueue : MaybeConn, writer : MaybeConn, buffer : Seq(Frames),
                  since : {"zero", "window", "past"}, watcher : MaybeConn]
      /\ NoConn \notin Conns /\ live' = live /\ handed \in [Conns -> SUBSET Nat]
  BY NoConnAssumption, OthersEmitNothing DEF SocketInv, TypeOK, SubscriptionTypeOK
<1> DEFINE Same == /\ sub'.conn = sub.conn /\ asked' \subseteq asked /\ hub' = hub
                   /\ handed' = handed
                   /\ \A d \in Conns : pc[d] = "recover" => pc'[d] = pc[d]
<1>1. Same => KnowledgeKept(c)
  BY <1>0 DEF KnowledgeKept, Reminded
<1>2. ASSUME NEW d \in Conns,
             \/ CloseOldQueue(d) \/ AwaitOldWriter(d) \/ CloseOldConn(d) \/ CopyBuffer(d)
             \/ ReplayOver(d) \/ StartWriter(d)
      PROVE  Same
  <2>1. sub'.conn = sub.conn /\ hub' = hub
    BY <1>0, <1>2 DEF CloseOldQueue, AwaitOldWriter, CloseOldConn, CopyBuffer, ReplayOver,
       StartWriter, CloseChannel, ClearBuffer, AttachWriter, subVars
  <2>2. asked' = asked /\ handed' = handed /\ \A h \in Conns : pc[h] = "recover" => pc'[h] = pc[h]
    BY <1>0, <1>2 DEF CloseOldQueue, AwaitOldWriter, CloseOldConn, CopyBuffer, ReplayOver,
       StartWriter, histVars
  <2>3. QED
    BY <2>1, <2>2
<1>3. ASSUME NEW d \in Conns,
             RecoverCloses(d) \/ ReadFails(d) \/ StopWriter(d) \/ CloseQueue(d) \/ HandlePreference(d)
      PROVE  Same
  <2>1. sub'.conn = sub.conn /\ hub' = hub
    BY <1>0, <1>3 DEF RecoverCloses, ReadFails, StopWriter, DetachWriter, CloseQueue,
       CloseChannel, HandlePreference, SetPreference, ClearPreference, subVars
  <2>2. asked' = asked /\ handed' = handed /\ \A h \in Conns : pc[h] = "recover" => pc'[h] = pc[h]
    BY <1>0, <1>3 DEF RecoverCloses, ReadFails, StopWriter, CloseQueue, HandlePreference, histVars
  <2>3. QED
    BY <2>1, <2>2
<1>4. ASSUME NEW d \in Conns, Recover(d)
      PROVE  Reminded(c)'
  BY <1>0, <1>4, RecoveryTells DEF Reminded
<1>5. ASSUME NEW d \in Conns, HandleSubscribe(d)
      PROVE  Reminded(c)'
  BY <1>0, <1>5 DEF HandleSubscribe, Reminded
<1>6. ASSUME NEW d \in Conns, UnsubscribeAll(d) \/ HandleUnsubscribe(d)
      PROVE  FALSE
  BY <1>6 DEF UnsubscribeAll, HandleUnsubscribe, HubUnsubscribe
<1>7. ASSUME NEW d \in Conns, Connect(d)
      PROVE  FALSE
  <2>1. sub'.conn = d /\ asked' = asked \ {d}
    BY <1>0, <1>7 DEF Connect, Install
  <2>2. QED
    BY <2>1
<1>8. ASSUME NEW d \in Conns, Disconnect(d)
      PROVE  Same
  <2>1. CASE IsCurrent(d)
    <3>1. sub'.conn = NoConn
      BY <1>0, <1>8, <2>1 DEF Disconnect, Detach
    <3>2. QED
      BY <1>0, <3>1
  <2>2. CASE ~IsCurrent(d)
    BY <1>0, <1>8, <2>2 DEF Disconnect, subVars, histVars
  <2>3. QED
    BY <2>1, <2>2
<1>9. ASSUME NEW d \in Conns, WriterSteps(d) \/ Ping(d) \/ PeerGone(d)
      PROVE  Same
  BY <1>9 DEF WriterSteps, Write, WriterEnds, Ping, PeerGone, subVars, histVars
<1>10. CASE TimePasses \/ Cleanup
  <2>1. TimePasses => sub'.conn = NoConn
    BY <1>0 DEF TimePasses, WindowPasses
  <2>2. Cleanup => sub'.conn = NoConn
    BY DEF Cleanup, Forget, BlankSub
  <2>3. QED
    BY <1>0, <1>10, <2>1, <2>2
<1>11. CASE Sample
  BY <1>1, <1>11 DEF Sample, DeliverMetric, netVars, histVars
<1>12. QED
  BY <1>1, <1>2, <1>3, <1>4, <1>5, <1>6, <1>7, <1>8, <1>9, <1>10, <1>11
     DEF Next, HandlerSteps, ClientSteps, Emits

LEMMA LiveStep ==
  ASSUME SocketInv, LiveInv, Next
  PROVE  LiveInv'
<1>0. TypeOK /\ live \in Nat /\ handed \in [Conns -> SUBSET Nat] /\ next \in Nat
  BY DEF SocketInv, TypeOK
<1>1. ASSUME NEW e \in Emitters, Begin(e)
      PROVE  LiveInv'
  <2>1. emit[e].pc = "idle" /\ hub' = hub /\ sub' = sub /\ pc' = pc /\ asked' = asked /\ handed' = handed
    BY <1>1 DEF Begin, subVars, netVars, histVars
  <2>2. emit'[e] = [pc |-> IF next \in Updates THEN "store" ELSE "probe",
                    n |-> next, send |-> next \in Updates, conn |-> NoConn]
    BY <1>0, <1>1 DEF Begin, TypeOK
  <2>3. emit'[e].n = next /\ OnItsWay(e)'
    <3>1. /\ emit'[e].pc = (IF next \in Updates THEN "store" ELSE "probe")
          /\ emit'[e].send = (next \in Updates) /\ emit'[e].n = next
      BY <2>2
    <3>2. QED
      BY <3>1 DEF OnItsWay
  <2>4. CASE live' = live
    <3>1. \A f \in Emitters : OnItsWay(f) => emit'[f] = emit[f]
      BY <1>0, <1>1, <2>1, OneEmits DEF OnItsWay, Emits
    <3>2. QED
      BY <2>1, <2>4, <3>1 DEF LiveInv, OnItsWay
  <2>5. CASE live' = 0
    BY <2>5 DEF LiveInv
  <2>6. CASE live' = next /\ next \in StreamStarts
    BY <2>3, <2>6 DEF LiveInv
  <2>7. QED
    BY <1>1, <2>4, <2>5, <2>6 DEF Begin
<1>2. ASSUME NEW e \in Emitters, Probe(e) \/ Store(e) \/ Fanout(e) \/ EmitterCloses(e)
      PROVE  LiveInv'
  <2>1. hub' = hub /\ sub' = sub /\ pc' = pc /\ asked' = asked /\ handed' = handed /\ live' = live
    BY <1>2 DEF Probe, Store, Fanout, EmitterCloses, subVars, netVars, histVars
  <2>2. ASSUME hub
        PROVE  OnItsWay(e) => OnItsWay(e)' /\ emit'[e].n = emit[e].n
    BY <1>0, <1>2, <2>2, EmitterFields DEF OnItsWay
  <2>3. \A f \in Emitters : f # e => emit'[f] = emit[f]
    BY <1>0, <1>2, OneEmits DEF Emits, EmitterSteps
  <2>4. ASSUME hub, NEW f \in Emitters, emit[f].n = live, OnItsWay(f)
        PROVE  emit'[f].n = live' /\ OnItsWay(f)'
    BY <2>1, <2>2, <2>3, <2>4 DEF OnItsWay
  <2>5. QED
    BY <2>1, <2>4 DEF LiveInv
<1>3. ASSUME NEW e \in Emitters, Send(e)
      PROVE  LiveInv'
  <2>1. pc' = pc /\ asked' = asked /\ live' = live /\ hub' = hub
    BY <1>3 DEF Send, Deliver, netVars
  <2>2. Deliver(emit[e].n) /\ Note(emit[e].n) /\ emit[e].n \in Nat
    BY <1>0, <1>3 DEF Send, TypeOK
  <2>3. sub'.conn = sub.conn
    BY <2>2, DeliveryIsQuiet DEF QuietParts, SocketInv, TypeOK
  <2>4. \A c \in Conns : handed[c] \subseteq handed'[c]
    BY <1>0, <2>2 DEF Note
  <2>5. ASSUME NEW c \in Conns, sub.conn = c, emit[e].n = live, live # 0
        PROVE  live \in handed'[c]
    <3>1. known /\ c # NoConn
      BY <2>5, PartsTyped
    <3>2. live \in StreamStarts
      BY <2>5 DEF LiveInv
    <3>3. QED
      BY <1>0, <2>2, <2>5, <3>1, <3>2 DEF Note
  <2>6. \A f \in Emitters : f # e => emit'[f] = emit[f]
    BY <1>0, <1>3, OneEmits DEF Emits, EmitterSteps
  <2>7. live' # 0 => live' \in StreamStarts
    BY <2>1 DEF LiveInv
  <2>8. ASSUME NEW c \in Conns, sub'.conn = c, c \in asked', hub', live' # 0
        PROVE  \/ live' \in handed'[c]
               \/ \E d \in Conns : pc'[d] = "recover"
               \/ \E f \in Emitters : emit'[f].n = live' /\ OnItsWay(f)'
    <3>1. \/ live \in handed[c]
          \/ \E d \in Conns : pc[d] = "recover"
          \/ \E f \in Emitters : emit[f].n = live /\ OnItsWay(f)
      BY <2>1, <2>3, <2>8 DEF LiveInv
    <3>2. ASSUME NEW f \in Emitters, emit[f].n = live, OnItsWay(f)
          PROVE  live' \in handed'[c] \/ (emit'[f].n = live' /\ OnItsWay(f)')
      BY <2>1, <2>3, <2>5, <2>6, <2>8, <3>2 DEF OnItsWay
    <3>3. QED
      BY <2>1, <2>4, <3>1, <3>2
  <2>9. QED
    BY <2>7, <2>8 DEF LiveInv
<1>4. CASE ~\E e \in Emitters : Emits(e)
  <2>1. live' = live /\ emit' = emit
    BY <1>4, OthersEmitNothing
  <2>2. live # 0 => live \in StreamStarts
    BY DEF LiveInv
  <2>3. ASSUME NEW c \in Conns, sub'.conn = c, c \in asked', hub', live' # 0
        PROVE  Reminded(c)' \/ \E e \in Emitters : emit'[e].n = live' /\ OnItsWay(e)'
    <3>1. CASE Reminded(c)'
      BY <3>1
    <3>2. CASE KnowledgeKept(c)
      <4>1. Reminded(c) \/ \E e \in Emitters : emit[e].n = live /\ OnItsWay(e)
        BY <2>1, <2>3, <3>2 DEF LiveInv, KnowledgeKept, Reminded
      <4>2. QED
        BY <2>1, <3>2, <4>1 DEF KnowledgeKept, OnItsWay
    <3>3. QED
      BY <1>4, <2>1, <2>2, <2>3, <3>1, <3>2, HandlersKeepKnowledge
  <2>4. QED
    BY <2>1, <2>2, <2>3 DEF LiveInv, Reminded
<1>5. QED
  BY <1>1, <1>2, <1>3, <1>4 DEF Emits, EmitterSteps

-----------------------------------------------------------------------------
(***************************************************************************)
(* The theorems                                                            *)
(***************************************************************************)
LEMMA InitInv == Init => IInv
<1> SUFFICES ASSUME Init
             PROVE  IInv
  OBVIOUS
<1> USE DEF Init, SubscriptionInit
<1>1. sub = BlankSub /\ sub.conn = NoConn /\ sub.sendQueue = NoConn /\ sub.writer = NoConn
      /\ sub.watcher = NoConn
  BY DEF BlankSub
<1>2. /\ \A c \in Conns : /\ pc[c] = "none" /\ loc[c].queue = NoConn /\ drains[c] = NoConn
      /\ \A e \in Emitters : emit[e].pc = "idle" /\ emit[e].n = 0
  BY DEF NoLocals, IdleEmitter
<1>3. TypeOK
  <2>1. <<>> \in Seq(Nat)
    BY EmptySeq
  <2>2. BlankSub \in [conn : MaybeConn, sendQueue : MaybeConn, writer : MaybeConn, buffer : Seq(Frames),
                      since : {"zero", "window", "past"}, watcher : MaybeConn]
    BY <2>1 DEF BlankSub, MaybeConn, Frames
  <2>3. SubscriptionTypeOK
    BY <2>1, <2>2 DEF SubscriptionTypeOK, Frames
  <2>4. NoLocals \in LocalRecords /\ IdleEmitter \in EmitterRecords
    BY <2>1 DEF NoLocals, LocalRecords, IdleEmitter, EmitterRecords, MaybeConn, Frames
  <2>5. loc \in [Conns -> LocalRecords] /\ emit \in [Emitters -> EmitterRecords]
    BY <2>4
  <2>6. QED
    BY <2>3, <2>5 DEF TypeOK, LocalRecords, EmitterRecords, HandlerStates, MaybeConn
<1>4. BlankWhenUnknown /\ PartsBelongTogether /\ AttachedHasHandler
  BY <1>1, NoConnAssumption DEF BlankWhenUnknown, PartsBelongTogether, AttachedHasHandler
<1>5. TakenQueuesApart /\ CloseIsDue /\ WritersDrainTheirOwn /\ CurrentSocketIsServed
  BY <1>1, <1>2 DEF TakenQueuesApart, CloseIsDue, WritersDrainTheirOwn, CurrentSocketIsServed
<1>6. GapMeansClose /\ DemandIsCurrent /\ CopyIsComplete
  BY <1>1, <1>2 DEF GapMeansClose, DemandIsCurrent, CopyIsComplete
<1>7. LiveInv
  BY <1>2 DEF LiveInv
<1>8. QED
  BY <1>3, <1>4, <1>5, <1>6, <1>7 DEF IInv, SocketInv

\* A step that changes nothing.
LEMMA StutterInv == IInv /\ UNCHANGED vars => IInv'
<1> SUFFICES ASSUME IInv, UNCHANGED vars
             PROVE  IInv'
  OBVIOUS
<1> USE DEF vars, subVars, netVars, emitVars, histVars
<1>1. TypeOK'
  BY DEF IInv, SocketInv, TypeOK, SubscriptionTypeOK
<1>2. (BlankWhenUnknown /\ PartsBelongTogether /\ AttachedHasHandler /\ TakenQueuesApart)'
  BY DEF IInv, SocketInv, BlankWhenUnknown, PartsBelongTogether, AttachedHasHandler, TakenQueuesApart
<1>3. (CloseIsDue /\ WritersDrainTheirOwn /\ CurrentSocketIsServed)'
  BY DEF IInv, SocketInv, CloseIsDue, WritersDrainTheirOwn, WriterIsTold, CurrentSocketIsServed
<1>4. (GapMeansClose /\ DemandIsCurrent /\ CopyIsComplete)'
  BY DEF IInv, GapMeansClose, DemandIsCurrent, CopyIsComplete
<1>5. LiveInv'
  BY DEF IInv, LiveInv, OnItsWay
<1>6. QED
  BY <1>1, <1>2, <1>3, <1>4, <1>5 DEF IInv, SocketInv

\* The invariant holds in every state: what the theorems below take from it.
THEOREM Inductive == Spec => []IInv
<1>1. IInv /\ [Next]_vars => IInv'
  <2>1. IInv /\ Next => IInv'
    BY SocketStep, GapStep, DemandStep, CopyStep, LiveStep DEF IInv, SocketInv
  <2>2. QED
    BY <2>1, StutterInv
<1>2. QED
  BY <1>1, InitInv, PTL DEF Spec

\* Every variable keeps its type.
THEOREM TypeCorrect == Spec => []TypeOK
<1>1. IInv => TypeOK
  BY DEF IInv, SocketInv
<1>2. QED
  BY <1>1, Inductive, PTL

\* No emission sends on a closed channel, nor into the channel of a replaced socket,
\* in whatever order the teardowns of old sockets and the arrival of new ones run
\* (manager.go, Subscribe and StopWriter).
THEOREM SendsAreSafe == Spec => []ChannelIsLive
<1>1. IInv => ChannelIsLive
  BY DEF IInv, SocketInv, PartsBelongTogether, ChannelIsLive
<1>2. QED
  BY <1>1, Inductive, PTL

\* No channel is closed twice, by Subscribe's caller or by StopWriter.
THEOREM NoChannelIsClosedTwice == Spec => ClosedOnce
<1>1. IInv => [\A c \in Conns : (pc[c] \in {"replace", "closeQueue"} /\ pc'[c] # pc[c])
                                  => loc[c].queue \notin closed]_vars
  BY DEF IInv, SocketInv, CloseIsDue
<1>2. QED
  BY <1>1, Inductive, PTL DEF ClosedOnce

\* The handler that reads from the current socket has its writer.
THEOREM CurrentIsServed == Spec => []CurrentSocketIsServed
<1>1. IInv => CurrentSocketIsServed
  BY DEF IInv, SocketInv
<1>2. QED
  BY <1>1, Inductive, PTL

\* Every writer is told to end, so Subscribe's wait for the old one is not for ever.
THEOREM WritersEnd == Spec => []WritersAreToldToEnd
<1>1. IInv => WritersAreToldToEnd
  BY DEF IInv, SocketInv, WritersDrainTheirOwn, WriterIsTold, CloseIsDue, WritersAreToldToEnd
<1>2. QED
  BY <1>1, Inductive, PTL

\* Only its own teardown or the next socket ends a socket's being the current one.
THEOREM TeardownsAreApart == Spec => OnlyItsHandlerDetaches
<1> DEFINE Allowed ==
      \A c \in Conns : sub.conn = c /\ sub'.conn # c =>
        \/ pc[c] = "disconnect"
        \/ sub'.conn \in Conns /\ pc[sub'.conn] = "none"
<1>1. IInv /\ [Next]_vars => [Allowed]_vars
  <2> SUFFICES ASSUME IInv, Next
               PROVE  Allowed
    OBVIOUS
  <2> USE DEF IInv
  <2>1. CASE Quiet
    BY <2>1 DEF Quiet, QuietParts
  <2>2. ASSUME NEW d \in Conns, Connect(d)
        PROVE  sub'.conn = d /\ pc[d] = "none"
    BY <2>2 DEF Connect, Fresh, Install, SocketInv, TypeOK, SubscriptionTypeOK
  <2>3. ASSUME NEW d \in Conns, CloseOldQueue(d) \/ StartWriter(d) \/ StopWriter(d) \/ CloseQueue(d)
        PROVE  sub'.conn = sub.conn
    BY <2>3 DEF CloseOldQueue, CloseQueue, CloseChannel, StartWriter, AttachWriter, StopWriter,
       DetachWriter, subVars, SocketInv, TypeOK, SubscriptionTypeOK
  <2>4. ASSUME NEW d \in Conns, Disconnect(d)
        PROVE  sub'.conn = sub.conn \/ (sub.conn = d /\ pc[d] = "disconnect")
    BY <2>4 DEF Disconnect, IsCurrent, subVars
  <2>5. Cleanup => sub.conn = NoConn
    BY DEF Cleanup, Forget
  <2>6. QED
    BY <2>1, <2>2, <2>3, <2>4, <2>5, QuietSteps, NoConnAssumption DEF Loud
<1>2. QED
  BY <1>1, Inductive, PTL DEF Spec, OnlyItsHandlerDetaches

\* A socket that missed an ordered event is closed, or about to be.
THEOREM GapsAreClosed == Spec => []GapMeansClose
<1>1. IInv => GapMeansClose
  BY DEF IInv
<1>2. QED
  BY <1>1, Inductive, PTL

\* What the handler of the current socket clears has been consumed.
THEOREM ReplayLosesNothing == Spec => ClearedWasConsumed
<1>1. IInv => [\A c \in Conns :
                pc[c] = "replay" /\ pc'[c] = "start" /\ sub.conn = c /\ c \notin gap =>
                  ToSet(sub.buffer) \subseteq ToSet(loc[c].replay) \cup ToSet(channel[c])]_vars
  BY DEF IInv, CopyIsComplete
<1>2. QED
  BY <1>1, Inductive, PTL DEF ClearedWasConsumed

\* The demand for system metrics is the current socket's.
THEOREM NoStaleDemand == Spec => []DemandIsCurrent
<1>1. IInv => DemandIsCurrent
  BY DEF IInv
<1>2. QED
  BY <1>1, Inductive, PTL

\* A subscriber is told of the reply that streams.
THEOREM SubscribersAreTold == Spec => []SubscriberKnowsTheRun
<1>1. IInv => SubscriberKnowsTheRun
  <2> SUFFICES ASSUME IInv, NEW c \in Conns, sub.conn = c, c \in asked, hub, live # 0,
                      live \notin Emitting, \A d \in Conns : pc[d] # "recover"
               PROVE  live \in handed[c]
    BY DEF SubscriberKnowsTheRun
  <2>1. \A e \in Emitters : OnItsWay(e) => emit[e].n # live
    BY DEF Emitting, OnItsWay
  <2>2. QED
    BY <2>1 DEF IInv, LiveInv
<1>2. QED
  BY <1>1, Inductive, PTL
=============================================================================
