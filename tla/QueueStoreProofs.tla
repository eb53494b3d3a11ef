-------------------------- MODULE QueueStoreProofs --------------------------
(***************************************************************************)
(* The tables of one session keep every message in one row at most, and    *)
(* lose none, for any set of messages.                                     *)
(***************************************************************************)
EXTENDS QueueStore, TLAPS

-----------------------------------------------------------------------------
(***************************************************************************)
(* The operations.  Each lemma is used by every module that calls them.    *)
(***************************************************************************)

\* AddQueuedMessage keeps the tables in order if the message is in neither.
LEMMA AddQueuedKeepsInv ==
  ASSUME StoreInv, NEW m \in Msgs, m \notin Waiting \cup Delivered, AddQueued(m)
  PROVE  StoreInv'
<1> DEFINE row == [id |-> lastRow + 1, created |-> lastRow + 1, parts |-> {m}]
<1>1. /\ queued' = queued \cup {row}
      /\ lastRow' = lastRow + 1
      /\ UNCHANGED <<history, lastMsg>>
  BY DEF AddQueued, InsertRow
<1>2. row \in QueuedRow /\ row.id = lastRow + 1 /\ row.parts = {m}
  BY DEF QueuedRow, StoreInv, StoreTypeOK
<1>3. \A q \in queued : q.id \in Nat /\ q.id <= lastRow /\ m \notin q.parts
  BY DEF StoreInv, StoreTypeOK, QueuedRow, IdsAreFresh, Waiting
<1>4. lastRow \in Nat /\ \A h \in history : m \notin h.parts
  BY DEF StoreInv, StoreTypeOK, Delivered
<1> HIDE DEF row
<1>5. StoreTypeOK'
  BY <1>1, <1>2 DEF StoreInv, StoreTypeOK
<1>6. IdsAreFresh' /\ IdsAreUnique'
  <2>1. IdsAreFresh'
    BY <1>1, <1>2, <1>3, <1>4 DEF StoreInv, IdsAreFresh
  <2>2. \A q \in queued : q.id # row.id
    BY <1>2, <1>3, <1>4
  <2>3. IdsAreUnique'
    BY <1>1, <2>2, Zenon DEF StoreInv, IdsAreUnique
  <2>4. QED
    BY <2>1, <2>3
<1>7. NoDuplicates'
  <2>1. \A q \in queued : q.parts \cap row.parts = {}
    BY <1>2, <1>3
  <2>2. \A x, y \in queued' : x # y => x.parts \cap y.parts = {}
    BY <1>1, <2>1 DEF StoreInv, NoDuplicates
  <2>3. Waiting' = Waiting \cup {m} /\ Delivered' = Delivered
    BY <1>1, <1>2 DEF Waiting, Delivered
  <2>4. QED
    BY <1>1, <2>2, <2>3 DEF StoreInv, NoDuplicates
<1>8. QED
  BY <1>5, <1>6, <1>7 DEF StoreInv

\* AddChatMessage, likewise.
LEMMA AddMessageKeepsInv ==
  ASSUME StoreInv, NEW m \in Msgs, m \notin Waiting \cup Delivered, AddMessage(m)
  PROVE  StoreInv'
<1> DEFINE row == [id |-> lastMsg + 1, parts |-> {m}]
<1>1. /\ history' = history \cup {row}
      /\ lastMsg' = lastMsg + 1
      /\ UNCHANGED <<queued, lastRow>>
  BY DEF AddMessage
<1>2. row \in HistoryRow /\ row.id = lastMsg + 1 /\ row.parts = {m}
  BY DEF HistoryRow, StoreInv, StoreTypeOK
<1>3. \A h \in history : h.id \in Nat /\ h.id <= lastMsg /\ m \notin h.parts
  BY DEF StoreInv, StoreTypeOK, HistoryRow, IdsAreFresh, Delivered
<1>4. lastMsg \in Nat
  BY DEF StoreInv, StoreTypeOK
<1> HIDE DEF row
<1>5. StoreTypeOK'
  BY <1>1, <1>2 DEF StoreInv, StoreTypeOK
<1>6. IdsAreFresh' /\ IdsAreUnique'
  <2>1. IdsAreFresh'
    BY <1>1, <1>2, <1>3, <1>4 DEF StoreInv, IdsAreFresh
  <2>2. \A h \in history : h.id # row.id
    BY <1>2, <1>3, <1>4
  <2>3. IdsAreUnique'
    BY <1>1, <2>2, Zenon DEF StoreInv, IdsAreUnique
  <2>4. QED
    BY <2>1, <2>3
<1>7. NoDuplicates'
  <2>1. \A h \in history : h.parts \cap row.parts = {}
    BY <1>2, <1>3
  <2>2. \A x, y \in history' : x # y => x.parts \cap y.parts = {}
    BY <1>1, <2>1 DEF StoreInv, NoDuplicates
  <2>3. Waiting' = Waiting /\ Delivered' = Delivered \cup {m}
    BY <1>1, <1>2 DEF Waiting, Delivered
  <2>4. QED
    BY <1>1, <2>2, <2>3 DEF StoreInv, NoDuplicates
<1>8. QED
  BY <1>5, <1>6, <1>7 DEF StoreInv

\* A claim moves its row's messages from one table to the other.
LEMMA MaterializeKeepsInv ==
  ASSUME StoreInv, NEW row \in queued, Materialize(row)
  PROVE  StoreInv'
<1>1. StoreTypeOK'
  BY DEF StoreInv, StoreTypeOK, QueuedRow, HistoryRow, Materialize
<1>2. IdsAreFresh'
  BY DEF StoreInv, StoreTypeOK, IdsAreFresh, QueuedRow, HistoryRow, Materialize
<1>3. IdsAreUnique'
  BY DEF StoreInv, StoreTypeOK, IdsAreFresh, IdsAreUnique, QueuedRow, HistoryRow,
         Materialize
<1>4. NoDuplicates'
  BY DEF StoreInv, NoDuplicates, Waiting, Delivered, Materialize
<1>5. QED
  BY <1>1, <1>2, <1>3, <1>4 DEF StoreInv

\* A requeue moves them back, because the id it deletes by is that of the
\* history row that holds them.
LEMMA RequeueKeepsInv ==
  ASSUME StoreInv, NEW row \in QueuedRow, NEW msgId \in Nat,
         \A h \in history : h.id = msgId => h.parts = row.parts,
         Requeue(row, msgId)
  PROVE  StoreInv'
<1>1. PICK h \in history : /\ h.id = msgId
                           /\ h.parts = row.parts
                           /\ history' = history \ {h}
  BY DEF Requeue
<1>2. /\ queued' = queued \cup {[id |-> lastRow + 1, created |-> row.created,
                                 parts |-> row.parts]}
      /\ lastRow' = lastRow + 1
      /\ lastMsg' = lastMsg
  BY DEF Requeue, InsertRow
<1>3. StoreTypeOK'
  BY <1>1, <1>2 DEF StoreInv, StoreTypeOK, QueuedRow, HistoryRow
<1>4. IdsAreFresh'
  BY <1>1, <1>2 DEF StoreInv, StoreTypeOK, IdsAreFresh, QueuedRow, HistoryRow
<1>5. IdsAreUnique'
  BY <1>1, <1>2 DEF StoreInv, StoreTypeOK, IdsAreFresh, IdsAreUnique, QueuedRow,
                    HistoryRow
<1>6. NoDuplicates'
  BY <1>1, <1>2 DEF StoreInv, NoDuplicates, Waiting, Delivered
<1>7. QED
  BY <1>3, <1>4, <1>5, <1>6 DEF StoreInv

\* Clearing the queue and withdrawing one row only take rows away.
LEMMA RemovalKeepsInv ==
  ASSUME StoreInv, ClearQueued \/ \E row \in queued : CancelQueued(row)
  PROVE  StoreInv'
<1>1. /\ queued' \subseteq queued
      /\ UNCHANGED <<history, lastRow, lastMsg>>
  BY DEF ClearQueued, CancelQueued
<1>2. QED
  BY <1>1 DEF StoreInv, StoreTypeOK, IdsAreFresh, IdsAreUnique, NoDuplicates,
              Waiting, Delivered

\* A merge leaves one row, with the messages of all the others.
LEMMA MergeKeepsInv ==
  ASSUME StoreInv, MergeQueued
  PROVE  StoreInv' /\ Waiting' = Waiting
<1>1. Waiting \subseteq Msgs
  BY DEF Waiting, StoreInv, StoreTypeOK, QueuedRow
<1>2. /\ queued' = {[id |-> lastRow + 1, created |-> lastRow + 1,
                     parts |-> Waiting]}
      /\ lastRow' = lastRow + 1
      /\ UNCHANGED <<history, lastMsg>>
  BY DEF MergeQueued
<1>3. Waiting' = Waiting /\ Delivered' = Delivered
  BY <1>2 DEF Waiting, Delivered
<1>4. StoreTypeOK'
  BY <1>1, <1>2 DEF StoreInv, StoreTypeOK, QueuedRow, HistoryRow
<1>5. IdsAreFresh' /\ IdsAreUnique'
  BY <1>2 DEF StoreInv, StoreTypeOK, IdsAreFresh, IdsAreUnique
<1>6. NoDuplicates'
  BY <1>2, <1>3 DEF StoreInv, NoDuplicates
<1>7. QED
  BY <1>3, <1>4, <1>5, <1>6 DEF StoreInv

-----------------------------------------------------------------------------
(***************************************************************************)
(* The store on its own                                                    *)
(***************************************************************************)
LEMMA StoreInitInv == StoreInit => StoreInv
  BY DEF StoreInit, StoreInv, StoreTypeOK, IdsAreFresh, IdsAreUnique,
         NoDuplicates, Waiting, Delivered

LEMMA StoreStepInv ==
  ASSUME StoreInv, [StoreNext]_storeVars
  PROVE  StoreInv'
<1>1. CASE \E m \in Msgs : IsNew(m) /\ lastRow < MaxRows /\ AddQueued(m)
  BY <1>1, AddQueuedKeepsInv DEF IsNew
<1>2. CASE \E m \in Msgs : IsNew(m) /\ lastMsg < MaxRows /\ AddMessage(m)
  BY <1>2, AddMessageKeepsInv DEF IsNew
<1>3. CASE \E row \in queued : lastMsg < MaxRows /\ Materialize(row)
  BY <1>3, MaterializeKeepsInv
<1>4. CASE \E h \in history, created \in 1..lastRow :
             /\ lastRow < MaxRows
             /\ Requeue([id |-> 0, created |-> created, parts |-> h.parts], h.id)
  <2>1. PICK h \in history, created \in 1..lastRow :
          Requeue([id |-> 0, created |-> created, parts |-> h.parts], h.id)
    BY <1>4
  <2> DEFINE row == [id |-> 0, created |-> created, parts |-> h.parts]
  <2>2. h.id \in Nat /\ row \in QueuedRow /\ row.parts = h.parts
    BY DEF StoreInv, StoreTypeOK, HistoryRow, QueuedRow
  <2>3. \A g \in history : g.id = h.id => g.parts = row.parts
    BY <2>2 DEF StoreInv, IdsAreUnique
  <2> HIDE DEF row
  <2>4. QED
    BY <2>1, <2>2, <2>3, RequeueKeepsInv DEF row
<1>5. CASE ClearQueued \/ \E row \in queued : CancelQueued(row)
  BY <1>5, RemovalKeepsInv
<1>6. CASE lastRow < MaxRows /\ MergeQueued
  BY <1>6, MergeKeepsInv
<1>7. CASE UNCHANGED storeVars
  BY <1>7 DEF storeVars, StoreInv, StoreTypeOK, IdsAreFresh, IdsAreUnique,
              NoDuplicates, Waiting, Delivered
<1>8. QED
  BY <1>1, <1>2, <1>3, <1>4, <1>5, <1>6, <1>7 DEF StoreNext

\* No claim, requeue or merge puts a message into two rows: for any number of
\* messages, StoreInv (ids identify rows, rows share no message) always holds.
THEOREM StoreCorrect == StoreSpec => []StoreInv
<1>1. StoreInv /\ [StoreNext]_storeVars => StoreInv'
  BY StoreStepInv
<1>2. QED
  BY <1>1, StoreInitInv, PTL DEF StoreSpec

-----------------------------------------------------------------------------
\* One step loses no message it should keep.
LEMMA StepLosesNothing ==
  ASSUME StoreInv, StoreNext, NEW m \in Waiting \cup Delivered
  PROVE  \/ m \in (Waiting \cup Delivered)'
         \/ ClearQueued
         \/ \E row \in queued : m \in row.parts /\ CancelQueued(row)
<1>1. CASE \E n \in Msgs : AddQueued(n) \/ AddMessage(n)
  BY <1>1 DEF AddQueued, AddMessage, InsertRow, Waiting, Delivered
<1>2. CASE \E row \in queued : Materialize(row)
  <2>1. PICK row \in queued : Materialize(row)
    BY <1>2
  <2> DEFINE kept == [id |-> lastMsg + 1, parts |-> row.parts]
  <2>2. history' = history \cup {kept} /\ queued' = queued \ {row}
    BY <2>1 DEF Materialize
  <2>3. kept.parts = row.parts
    OBVIOUS
  <2> HIDE DEF kept
  <2>4. Delivered' = Delivered \cup row.parts
    BY <2>2, <2>3 DEF Delivered
  <2>5. Waiting \subseteq Waiting' \cup row.parts
    BY <2>2 DEF Waiting
  <2>6. QED
    BY <2>4, <2>5
<1>3. CASE \E h \in history, created \in 1..lastRow :
             Requeue([id |-> 0, created |-> created, parts |-> h.parts], h.id)
  <2>1. PICK h \in history, created \in 1..lastRow :
          Requeue([id |-> 0, created |-> created, parts |-> h.parts], h.id)
    BY <1>3
  <2>2. history' = history \ {h}
    BY <2>1 DEF Requeue, StoreInv, IdsAreUnique
  <2> DEFINE row == [id |-> lastRow + 1, created |-> created, parts |-> h.parts]
  <2>3. queued' = queued \cup {row}
    BY <2>1 DEF Requeue, InsertRow
  <2>4. row.parts = h.parts
    OBVIOUS
  <2> HIDE DEF row
  <2>5. Waiting' = Waiting \cup h.parts
    BY <2>3, <2>4 DEF Waiting
  <2>6. Delivered \subseteq Delivered' \cup h.parts
    BY <2>2 DEF Delivered
  <2>7. QED
    BY <2>5, <2>6
<1>4. CASE \E row \in queued : CancelQueued(row)
  BY <1>4 DEF CancelQueued, Waiting, Delivered
<1>5. CASE MergeQueued
  <2>1. Waiting' = Waiting
    BY <1>5, MergeKeepsInv
  <2>2. Delivered' = Delivered
    BY <1>5 DEF MergeQueued, Delivered
  <2>3. QED
    BY <2>1, <2>2
<1>6. QED
  BY <1>1, <1>2, <1>3, <1>4, <1>5 DEF StoreNext

\* A message leaves the tables only by a cancel of its row or a clear of the
\* queue, for any number of messages and rows.
THEOREM StoreLosesNothing == StoreSpec => NothingVanishes
<1> DEFINE Kept ==
      \A m \in Waiting \cup Delivered :
        \/ m \in (Waiting \cup Delivered)'
        \/ ClearQueued
        \/ \E row \in queued : m \in row.parts /\ CancelQueued(row)
<1>1. StoreInv /\ [StoreNext]_storeVars => [Kept]_storeVars
  BY StepLosesNothing
<1>2. QED
  BY <1>1, StoreCorrect, PTL DEF StoreSpec, NothingVanishes
=============================================================================
