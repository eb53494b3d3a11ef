----------------------------- MODULE QueueStore -----------------------------
(***************************************************************************)
(* The two SQLite tables a message of one chat session lives in            *)
(* (internal/service/queue_store.go):                                      *)
(*                                                                         *)
(*   queued_messages  a message that was sent and waits for its turn       *)
(*   chat_history     a message of the conversation                        *)
(*                                                                         *)
(* Every operation is one transaction under the store's write mutex, so it *)
(* is one action here.  A queued row stands for a set of messages because  *)
(* MergeQueuedMessages folds several rows into one.  Content, files and    *)
(* titles are left out: no property depends on them.                       *)
(***************************************************************************)
EXTENDS Naturals, FiniteSets

CONSTANTS
  Msgs,      \* the messages users send to the session
  MaxRows    \* bound on the row ids handed out (AUTOINCREMENT has none)

ASSUME MaxRowsAssumption == MaxRows \in Nat

VARIABLES
  queued,    \* rows of queued_messages: id, created (created_at), parts
  history,   \* user rows of chat_history: id, parts
  lastRow,   \* AUTOINCREMENT of queued_messages
  lastMsg    \* AUTOINCREMENT of chat_history

storeVars == <<queued, history, lastRow, lastMsg>>

QueuedRow == [id : Nat, created : Nat, parts : SUBSET Msgs]
HistoryRow == [id : Nat, parts : SUBSET Msgs]

StoreTypeOK ==
  /\ queued \subseteq QueuedRow
  /\ history \subseteq HistoryRow
  /\ lastRow \in Nat
  /\ lastMsg \in Nat

StoreInit ==
  /\ queued = {}
  /\ history = {}
  /\ lastRow = 0
  /\ lastMsg = 0

Waiting == UNION {q.parts : q \in queued}
Delivered == UNION {h.parts : h \in history}

-----------------------------------------------------------------------------
\* Insert a queued row; created_at is the insert's own time.
InsertRow(parts, created) ==
  queued' = queued \cup
              {[id |-> lastRow + 1, created |-> created, parts |-> parts]}

\* AddQueuedMessage: the message waits, chat_history is not touched.
AddQueued(m) ==
  /\ InsertRow({m}, lastRow + 1)
  /\ lastRow' = lastRow + 1
  /\ UNCHANGED <<history, lastMsg>>

\* AddChatMessage: the idle path of POST /api/ai/chat writes history at once.
AddMessage(m) ==
  /\ history' = history \cup {[id |-> lastMsg + 1, parts |-> {m}]}
  /\ lastMsg' = lastMsg + 1
  /\ UNCHANGED <<queued, lastRow>>

\* The claim orders by id.
Oldest(row) == \A other \in queued : row.id <= other.id

\* claimAndMaterialize: the row leaves the queue and enters the history in one
\* transaction.
Materialize(row) ==
  /\ queued' = queued \ {row}
  /\ history' = history \cup {[id |-> lastMsg + 1, parts |-> row.parts]}
  /\ lastMsg' = lastMsg + 1
  /\ UNCHANGED lastRow

\* A bug: the history row stays when its message goes back to the queue.
RequeueKeeping(row, msgId) ==
  /\ \E h \in history : h.id = msgId
  /\ InsertRow(row.parts, row.created)
  /\ lastRow' = lastRow + 1
  /\ UNCHANGED <<history, lastMsg>>

\* RequeueMaterialized: a declined injection goes back to the queue, with its
\* created_at but with a new row id.
Requeue(row, msgId) ==
  /\ \E h \in history :
       /\ h.id = msgId
       /\ history' = history \ {h}
  /\ InsertRow(row.parts, row.created)
  /\ lastRow' = lastRow + 1
  /\ UNCHANGED lastMsg

\* ClearQueuedMessages.
ClearQueued ==
  /\ queued' = {}
  /\ UNCHANGED <<history, lastRow, lastMsg>>

\* CancelQueuedMessage.
CancelQueued(row) ==
  /\ queued' = queued \ {row}
  /\ UNCHANGED <<history, lastRow, lastMsg>>

\* A bug: the merged row holds the first message only.
MergeLosing ==
  /\ \E x, y \in queued : x # y
  /\ \E first \in queued :
       /\ Oldest(first)
       /\ queued' = {[first EXCEPT !.id = lastRow + 1, !.created = lastRow + 1]}
  /\ lastRow' = lastRow + 1
  /\ UNCHANGED <<history, lastMsg>>

\* MergeQueuedMessages: one new row replaces all of them.
MergeQueued ==
  /\ \E x, y \in queued : x # y
  /\ queued' = {[id |-> lastRow + 1, created |-> lastRow + 1,
                 parts |-> Waiting]}
  /\ lastRow' = lastRow + 1
  /\ UNCHANGED <<history, lastMsg>>

-----------------------------------------------------------------------------
(***************************************************************************)
(* The store on its own: any client may call any operation.  Each message  *)
(* is sent once (the client mints its queue id).                           *)
(***************************************************************************)
IsNew(m) == m \notin Waiting \cup Delivered

StoreNext ==
  \/ \E m \in Msgs :
       /\ IsNew(m)
       /\ lastRow < MaxRows
       /\ AddQueued(m)
  \/ \E m \in Msgs :
       /\ IsNew(m)
       /\ lastMsg < MaxRows
       /\ AddMessage(m)
  \/ \E row \in queued :
       /\ lastMsg < MaxRows
       /\ Materialize(row)
  \/ \E h \in history, created \in 1..lastRow :
       /\ lastRow < MaxRows
       /\ Requeue([id |-> 0, created |-> created, parts |-> h.parts], h.id)
  \/ ClearQueued
  \/ \E row \in queued : CancelQueued(row)
  \/ lastRow < MaxRows /\ MergeQueued

StoreSpec == StoreInit /\ [][StoreNext]_storeVars

-----------------------------------------------------------------------------
IdsAreFresh ==
  /\ \A q \in queued : q.id <= lastRow
  /\ \A h \in history : h.id <= lastMsg

IdsAreUnique ==
  /\ \A x, y \in queued : x.id = y.id => x = y
  /\ \A x, y \in history : x.id = y.id => x = y

\* No message is in two rows, of one table or of both: no claim, requeue or
\* merge (queue_store.go) duplicates what the user sent, so the drain loop
\* cannot run it twice.
NoDuplicates ==
  /\ \A x, y \in queued : x # y => x.parts \cap y.parts = {}
  /\ \A x, y \in history : x # y => x.parts \cap y.parts = {}
  /\ Waiting \cap Delivered = {}

\* The strengthening of NoDuplicates that every operation preserves: row ids
\* identify rows, so Requeue removes the row the claim wrote.
StoreInv == StoreTypeOK /\ IdsAreFresh /\ IdsAreUnique /\ NoDuplicates

\* A message leaves the tables only when its row is cancelled or the queue is
\* cleared: a claim, a requeue and a merge keep every message they touch
\* (claimAndMaterialize and RequeueMaterialized are single transactions).
NothingVanishes ==
  [][ \A m \in Waiting \cup Delivered :
        \/ m \in (Waiting \cup Delivered)'
        \/ ClearQueued
        \/ \E row \in queued : m \in row.parts /\ CancelQueued(row) ]_storeVars
=============================================================================
