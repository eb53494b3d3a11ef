-------------------------- MODULE SessionRunsProofs --------------------------
(***************************************************************************)
(* Proofs about SessionRuns, for any number of messages, runs and events.  *)
(***************************************************************************)
EXTENDS SessionRuns, TLAPS

-----------------------------------------------------------------------------
(***************************************************************************)
(* Typing                                                                  *)
(***************************************************************************)

\* The store's operations keep its type.
LEMMA AddQueuedTyped ==
  ASSUME StoreTypeOK, NEW m \in Msgs, AddQueued(m)
  PROVE  StoreTypeOK'
  BY DEF StoreTypeOK, QueuedRow, HistoryRow, AddQueued, InsertRow

LEMMA AddMessageTyped ==
  ASSUME StoreTypeOK, NEW m \in Msgs, AddMessage(m)
  PROVE  StoreTypeOK'
  BY DEF StoreTypeOK, QueuedRow, HistoryRow, AddMessage

LEMMA MaterializeTyped ==
  ASSUME StoreTypeOK, NEW row \in queued, Materialize(row)
  PROVE  StoreTypeOK' /\ row \in QueuedRow /\ row.parts \in SUBSET Msgs
  BY DEF StoreTypeOK, QueuedRow, HistoryRow, Materialize

LEMMA RequeueTyped ==
  ASSUME StoreTypeOK, NEW row \in QueuedRow, NEW msgId \in Nat,
         Requeue(row, msgId)
  PROVE  StoreTypeOK'
  BY DEF StoreTypeOK, QueuedRow, HistoryRow, Requeue, InsertRow

LEMMA EditTyped ==
  ASSUME StoreTypeOK,
         ClearQueued \/ MergeQueued \/ \E row \in queued : CancelQueued(row)
  PROVE  StoreTypeOK'
<1>1. Waiting \in SUBSET Msgs
  BY DEF StoreTypeOK, Waiting, QueuedRow
<1>2. QED
  BY <1>1 DEF StoreTypeOK, QueuedRow, HistoryRow, ClearQueued, MergeQueued,
              CancelQueued

\* The registry's operations keep its type.
LEMMA RegistryTyped ==
  ASSUME RegistryTypeOK,
         \/ Wake \/ RetireRefused \/ Retire \/ Remove \/ FinishRun \/ ClearTurn
         \/ \E r \in Runs : SubmitNew(r) \/ CancelContext(r)
         \/ \E t \in Nat : RegisterTurn(t)
  PROVE  RegistryTypeOK'
<1> USE NoRunAssumption DEF RegistryTypeOK, NoEntry
<1>1. CASE Wake \/ RetireRefused
  BY <1>1 DEF Wake, RetireRefused
<1>2. CASE Retire \/ Remove
  <2>1. reg' = NoEntry /\ ctxDone' = ctxDone
    BY <1>2 DEF Retire, Remove
  <2>2. QED
    BY <2>1
<1>3. CASE FinishRun
  BY <1>3 DEF FinishRun, Running
<1>4. CASE ClearTurn
  BY <1>4 DEF ClearTurn
<1>5. CASE \E r \in Runs : SubmitNew(r) \/ CancelContext(r)
  <2>1. PICK r \in Runs : SubmitNew(r) \/ CancelContext(r)
    BY <1>5
  <2>2. CASE SubmitNew(r)
    <3>1. reg' = [run |-> r, wake |-> FALSE, turn |-> 0]
      BY <2>2 DEF SubmitNew
    <3>2. ctxDone' \subseteq Runs
      BY <2>2 DEF SubmitNew
    <3>3. QED
      BY <3>1, <3>2
  <2>3. CASE CancelContext(r)
    BY <2>3 DEF CancelContext
  <2>4. QED
    BY <2>1, <2>2, <2>3
<1>6. CASE \E t \in Nat : RegisterTurn(t)
  BY <1>6 DEF RegisterTurn
<1>7. QED
  BY <1>1, <1>2, <1>3, <1>4, <1>5, <1>6

\* What a step leaves alone keeps its type.
LEMMA Frames ==
  ASSUME TypeOK
  PROVE  /\ UNCHANGED storeVars => StoreTypeOK'
         /\ UNCHANGED registryVars => RegistryTypeOK'
         /\ UNCHANGED runVars => RunTypeOK'
         /\ UNCHANGED slotVars => SlotTypeOK'
         /\ UNCHANGED entryVars => EntryTypeOK'
         /\ UNCHANGED controlVars => ControlTypeOK'
         /\ UNCHANGED left => left' \in Nat
         /\ UNCHANGED historyVars => HistoryTypeOK'
  BY DEF TypeOK, storeVars, registryVars, runVars, slotVars, entryVars,
         controlVars, historyVars, StoreTypeOK, RegistryTypeOK, RunTypeOK,
         SlotTypeOK, EntryTypeOK, ControlTypeOK, HistoryTypeOK

\* Counting a rare event.
LEMMA RareTyped == ASSUME left \in Nat, NEW kind, Rare(kind) PROVE left' \in Nat
  BY DEF Rare

-----------------------------------------------------------------------------
\* Updates of a goroutine's locals that keep their type.
LEMMA LocalsTyped ==
  ASSUME NEW e \in RunLocals
  PROVE  /\ \A work \in SUBSET Msgs : [e EXCEPT !.work = work] \in RunLocals
         /\ \A o \in Outcomes : [e EXCEPT !.outcome = o] \in RunLocals
         /\ \A b \in BOOLEAN : [e EXCEPT !.abnormal = b] \in RunLocals
         /\ \A b \in BOOLEAN : [e EXCEPT !.stopped = b] \in RunLocals
         /\ \A n \in Nat : [e EXCEPT !.turn = n] \in RunLocals
         /\ \A n \in Nat : [e EXCEPT !.fails = n] \in RunLocals
  BY DEF RunLocals

LEMMA NotStartedTyped ==
  /\ NotStarted \in RunLocals
  /\ \A work \in SUBSET Msgs : [NotStarted EXCEPT !.work = work] \in RunLocals
  BY DEF NotStarted, RunLocals, Outcomes

\* Replacing the locals of one goroutine.
LEMMA ExecTyped ==
  ASSUME NEW r \in Runs, RunTypeOK,
         NEW e \in RunLocals, exec' = [exec EXCEPT ![r] = e]
  PROVE  exec' \in [Runs -> RunLocals]
  BY DEF RunTypeOK

\* The steps of one turn.
LEMMA TurnTyped ==
  ASSUME TypeOK, NEW r \in Runs,
         \/ TurnStart(r) \/ TurnOpens(r) \/ TurnFails(r) \/ TurnEnds(r)
         \/ Settle(r) \/ Panic(r)
  PROVE  TypeOK'
<1> USE Frames DEF TypeOK
<1>1. CASE TurnStart(r)
  <2>1. turnSeq + 1 \in Nat
    BY DEF RunTypeOK
  <2>2. RegistryTypeOK'
    BY <1>1, <2>1, RegistryTyped DEF TurnStart
  <2>3. RunTypeOK'
    <3> DEFINE e == [exec[r] EXCEPT !.turn = turnSeq + 1, !.stopped = FALSE,
                                    !.outcome = "ok", !.abnormal = FALSE,
                                    !.work = {}]
    <3>1. exec' = [exec EXCEPT ![r] = e]
      BY <1>1 DEF TurnStart, RunTypeOK
    <3>2. e \in RunLocals
      BY <2>1 DEF RunTypeOK, RunLocals, Outcomes
    <3>3. epc' \in [Runs -> ExecPcs] /\ turnSeq' \in Nat
      BY <1>1, <2>1 DEF TurnStart, Goto, RunTypeOK, ExecPcs
    <3> HIDE DEF e
    <3>4. QED
      BY <3>1, <3>2, <3>3, ExecTyped DEF RunTypeOK
  <2>4. HistoryTypeOK'
    BY <1>1 DEF TurnStart, HistoryTypeOK
  <2>5. QED
    BY <1>1, <2>2, <2>3, <2>4 DEF TurnStart
<1>2. CASE TurnOpens(r)
  <2>1. RunTypeOK'
    BY <1>2 DEF TurnOpens, Goto, RunTypeOK, ExecPcs
  <2>2. QED
    BY <1>2, <2>1 DEF TurnOpens
<1>3. CASE TurnFails(r)
  <2> DEFINE e == [exec[r] EXCEPT !.outcome = "err", !.turn = 0]
  <2>1. e \in RunLocals
    <3>1. [exec[r] EXCEPT !.outcome = "err"] \in RunLocals
      BY LocalsTyped DEF RunTypeOK, Outcomes
    <3>2. [[exec[r] EXCEPT !.outcome = "err"] EXCEPT !.turn = 0] \in RunLocals
      BY <3>1, LocalsTyped
    <3>3. QED
      BY <3>2
  <2>2. exec' = [exec EXCEPT ![r] = e]
    BY <1>3 DEF TurnFails, RunTypeOK
  <2>3. epc' \in [Runs -> ExecPcs] /\ turnSeq' = turnSeq
    BY <1>3 DEF TurnFails, Goto, RunTypeOK, ExecPcs
  <2> HIDE DEF e
  <2>4. RunTypeOK'
    BY <2>1, <2>2, <2>3, ExecTyped DEF RunTypeOK
  <2>5. QED
    BY <1>3, <2>4 DEF TurnFails
<1>4. CASE TurnEnds(r)
  <2>1. epc' \in [Runs -> ExecPcs] /\ turnSeq' \in Nat
    BY <1>4 DEF TurnEnds, Goto, RunTypeOK, ExecPcs
  <2>2. RunTypeOK'
    <3>1. CASE reason # "none"
      <4>1. reason \in Outcomes
        BY <3>1 DEF SlotTypeOK, Outcomes
      <4>2. exec' = [exec EXCEPT ![r].outcome = reason]
        BY <1>4, <3>1 DEF TurnEnds
      <4>3. QED
        BY <2>1, <4>1, <4>2 DEF RunTypeOK, RunLocals
    <3>2. CASE reason = "none"
      <4>1. PICK ending \in {<<"ok", FALSE>>, <<"ok", TRUE>>, <<"empty", TRUE>>} :
              exec' = [exec EXCEPT ![r].outcome = ending[1],
                                   ![r].abnormal = ending[2]]
        BY <1>4, <3>2 DEF TurnEnds
      <4>2. ending[1] \in Outcomes /\ ending[2] \in BOOLEAN
        <5>1. /\ <<"ok", FALSE>>[1] = "ok" /\ <<"ok", FALSE>>[2] = FALSE
              /\ <<"ok", TRUE>>[1] = "ok" /\ <<"ok", TRUE>>[2] = TRUE
              /\ <<"empty", TRUE>>[1] = "empty" /\ <<"empty", TRUE>>[2] = TRUE
          OBVIOUS
        <5>2. QED
          BY <4>1, <5>1 DEF Outcomes
      <4>3. QED
        BY <2>1, <4>1, <4>2 DEF RunTypeOK, RunLocals
    <3>3. QED
      BY <3>1, <3>2
  <2>3. SlotTypeOK'
    BY <1>4 DEF TurnEnds, SlotTypeOK, Reasons
  <2>4. QED
    BY <1>4, <2>2, <2>3 DEF TurnEnds
<1>5. CASE Settle(r)
  <2>1. Classify(r) \in Outcomes
    BY DEF Classify, RunTypeOK, RunLocals, Outcomes
  <2>2. RunTypeOK'
    <3> DEFINE e == [exec[r] EXCEPT !.outcome = Classify(r), !.turn = 0]
    <3>1. exec' = [exec EXCEPT ![r] = e]
      BY <1>5 DEF Settle, RunTypeOK
    <3>2. e \in RunLocals
      BY <2>1 DEF RunTypeOK, RunLocals
    <3>3. epc' \in [Runs -> ExecPcs] /\ turnSeq' \in Nat
      BY <1>5 DEF Settle, Goto, RunTypeOK, ExecPcs
    <3> HIDE DEF e
    <3>4. QED
      BY <3>1, <3>2, <3>3, ExecTyped DEF RunTypeOK
  <2>3. RegistryTypeOK'
    BY <1>5, RegistryTyped DEF Settle
  <2>4. QED
    BY <1>5, <2>2, <2>3 DEF Settle
<1>6. CASE Panic(r)
  <2>1. RunTypeOK'
    BY <1>6 DEF Panic, Goto, RunTypeOK, RunLocals, ExecPcs, Outcomes
  <2>2. QED
    BY <1>6, <2>1, RareTyped DEF Panic
<1>7. QED
  BY <1>1, <1>2, <1>3, <1>4, <1>5, <1>6

\* The steps of the loop between two turns.
LEMMA LoopTyped ==
  ASSUME TypeOK, NEW r \in Runs,
         \/ OfferResume(r) \/ Resume(r) \/ Decide(r) \/ Clear(r) \/ ClearFails(r)
         \/ Dequeue(r) \/ DequeueUnusable(r) \/ DequeueFails(r)
         \/ DequeueEmpty(r) \/ TryRetire(r)
  PROVE  TypeOK'
<1> USE Frames DEF TypeOK
<1>1. CASE OfferResume(r) \/ ClearFails(r)
  <2>1. RunTypeOK'
    BY <1>1 DEF OfferResume, ClearFails, Goto, RunTypeOK, ExecPcs
  <2>2. QED
    BY <1>1, <2>1, RareTyped DEF OfferResume, ClearFails
<1>2. CASE Resume(r) \/ Decide(r) \/ DequeueEmpty(r)
  <2>1. RunTypeOK'
    BY <1>2 DEF Resume, Decide, AfterTurn, DequeueEmpty, Goto, RunTypeOK, ExecPcs
  <2>2. QED
    BY <1>2, <2>1 DEF Resume, Decide, DequeueEmpty
<1>3. CASE Clear(r)
  <2>1. RunTypeOK'
    BY <1>3 DEF Clear, Goto, RunTypeOK, ExecPcs
  <2>2. QED
    BY <1>3, <2>1, EditTyped DEF Clear
<1>4. CASE Dequeue(r)
  <2>1. PICK row \in queued :
          /\ Materialize(row)
          /\ exec' = [exec EXCEPT ![r].work = row.parts, ![r].fails = 0]
    BY <1>4 DEF Dequeue
  <2>2. StoreTypeOK' /\ row.parts \in SUBSET Msgs
    BY <2>1, MaterializeTyped
  <2>3. RunTypeOK'
    <3> DEFINE e == [exec[r] EXCEPT !.work = row.parts, !.fails = 0]
    <3>1. exec' = [exec EXCEPT ![r] = e]
      BY <2>1 DEF RunTypeOK
    <3>2. e \in RunLocals
      BY <2>2 DEF RunTypeOK, RunLocals
    <3>3. epc' \in [Runs -> ExecPcs] /\ turnSeq' \in Nat
      BY <1>4 DEF Dequeue, Goto, RunTypeOK, ExecPcs
    <3> HIDE DEF e
    <3>4. QED
      BY <3>1, <3>2, <3>3, ExecTyped DEF RunTypeOK
  <2>4. QED
    BY <1>4, <2>2, <2>3 DEF Dequeue
<1>5. CASE DequeueUnusable(r)
  <2>1. PICK row \in queued : Materialize(row) /\ lost' = lost \cup row.parts
    BY <1>5 DEF DequeueUnusable
  <2>2. StoreTypeOK' /\ row.parts \in SUBSET Msgs
    BY <2>1, MaterializeTyped
  <2>3. RunTypeOK'
    <3> DEFINE e == [exec[r] EXCEPT !.outcome = "err", !.abnormal = FALSE,
                                    !.fails = 0]
    <3>1. exec' = [exec EXCEPT ![r] = e]
      BY <1>5 DEF DequeueUnusable, RunTypeOK
    <3>2. e \in RunLocals
      BY DEF RunTypeOK, RunLocals, Outcomes
    <3>3. epc' \in [Runs -> ExecPcs] /\ turnSeq' \in Nat
      BY <1>5 DEF DequeueUnusable, Goto, RunTypeOK, ExecPcs
    <3> HIDE DEF e
    <3>4. QED
      BY <3>1, <3>2, <3>3, ExecTyped DEF RunTypeOK
  <2>4. HistoryTypeOK'
    BY <1>5, <2>1, <2>2 DEF DequeueUnusable, HistoryTypeOK
  <2>5. QED
    BY <1>5, <2>2, <2>3, <2>4, RareTyped DEF DequeueUnusable
<1>6. CASE DequeueFails(r)
  <2>1. RunTypeOK'
    BY <1>6 DEF DequeueFails, Goto, RunTypeOK, RunLocals, ExecPcs
  <2>2. QED
    BY <1>6, <2>1, RareTyped DEF DequeueFails
<1>7. CASE TryRetire(r)
  <2>1. RunTypeOK'
    BY <1>7 DEF TryRetire, Goto, RunTypeOK, RunLocals, ExecPcs, Outcomes
  <2>2. RegistryTypeOK'
    BY <1>7, RegistryTyped DEF TryRetire
  <2>3. QED
    BY <1>7, <2>1, <2>2 DEF TryRetire
<1>8. QED
  BY <1>1, <1>2, <1>3, <1>4, <1>5, <1>6, <1>7

\* The end of the goroutine.
LEMMA EndTyped ==
  ASSUME TypeOK, NEW r \in Runs,
         Mark(r) \/ SendFinal(r) \/ Finish(r) \/ Recover(r)
  PROVE  TypeOK'
<1> USE Frames DEF TypeOK
<1>1. NotStarted \in RunLocals
  BY NotStartedTyped
<1>2. CASE Mark(r)
  <2>1. RunTypeOK'
    BY <1>2 DEF Mark, Goto, RunTypeOK, ExecPcs
  <2>2. QED
    BY <1>2, <2>1, RegistryTyped DEF Mark
<1>3. CASE SendFinal(r)
  <2>1. RunTypeOK'
    BY <1>3 DEF SendFinal, Goto, RunTypeOK, ExecPcs
  <2>2. SlotTypeOK'
    BY <1>3 DEF SendFinal, SlotTypeOK
  <2>3. QED
    BY <1>3, <2>1, <2>2 DEF SendFinal
<1>4. CASE Finish(r)
  <2>1. RunTypeOK'
    BY <1>1, <1>4 DEF Finish, Goto, RunTypeOK, ExecPcs
  <2>2. QED
    BY <1>4, <2>1, RegistryTyped DEF Finish
<1>5. CASE Recover(r)
  <2>1. RunTypeOK'
    BY <1>1, <1>5 DEF Recover, Goto, RunTypeOK, ExecPcs
  <2>2. SlotTypeOK'
    BY <1>5 DEF Recover, SlotTypeOK
  <2>3. QED
    BY <1>5, <2>1, <2>2, RegistryTyped DEF Recover
<1>6. QED
  BY <1>2, <1>3, <1>4, <1>5
-----------------------------------------------------------------------------
\* A handler's move, and the two ways a claimer lets go of its run.
LEMMA MoveTyped ==
  ASSUME EntryTypeOK, NEW p \in Procs, NEW pc \in HandlerPcs,
         Step(p, pc), hloc' = hloc \/ hloc' = [hloc EXCEPT ![p] = NoLocals]
  PROVE  EntryTypeOK'
  BY DEF EntryTypeOK, Step, NoLocals

LEMMA LaunchTyped ==
  ASSUME TypeOK, NEW p \in Procs, NEW work \in SUBSET Msgs, Launch(p, work),
         UNCHANGED turnSeq
  PROVE  EntryTypeOK' /\ RunTypeOK'
<1>1. EntryTypeOK'
  BY DEF Launch, TypeOK, EntryTypeOK, HandlerPcs, AfterEntry, NoLocals
<1>2. RunTypeOK'
  <2> DEFINE e == [NotStarted EXCEPT !.work = work]
  <2>1. e \in RunLocals
    BY NotStartedTyped
  <2>2. /\ exec' = [exec EXCEPT ![hloc[p].run] = e]
        /\ epc' = [epc EXCEPT ![hloc[p].run] = "start"]
    BY DEF Launch
  <2> HIDE DEF e
  <2>3. QED
    BY <2>1, <2>2 DEF TypeOK, RunTypeOK, ExecPcs
<1>3. QED
  BY <1>1, <1>2

LEMMA AbandonTyped ==
  ASSUME TypeOK, NEW p \in Procs, Abandon(p), UNCHANGED <<turnSeq, exec>>
  PROVE  EntryTypeOK' /\ RunTypeOK'
  BY DEF Abandon, TypeOK, EntryTypeOK, HandlerPcs, AfterEntry, NoLocals,
         RunTypeOK, ExecPcs

LEMMA SubmitTyped ==
  ASSUME TypeOK, NEW p \in Procs, NEW claimed \in HandlerPcs,
         NEW found \in HandlerPcs, Submit(p, claimed, found), UNCHANGED storeVars
  PROVE  TypeOK'
<1> USE Frames DEF TypeOK
<1>1. CASE HandOver(p, found)
  <2>1. EntryTypeOK'
    BY <1>1, MoveTyped DEF HandOver
  <2>2. RegistryTypeOK'
    BY <1>1, RegistryTyped DEF HandOver
  <2>3. QED
    BY <1>1, <2>1, <2>2 DEF Submit, HandOver
<1>2. CASE \E r \in Runs : Claim(p, r, claimed)
  <2>1. PICK r \in Runs : Claim(p, r, claimed)
    BY <1>2
  <2>2. RegistryTypeOK'
    BY <2>1, RegistryTyped DEF Claim
  <2>3. RunTypeOK'
    BY <2>1 DEF Claim, RunTypeOK, ExecPcs
  <2>4. SlotTypeOK'
    BY <2>1 DEF Claim, SlotTypeOK
  <2>5. EntryTypeOK'
    BY <2>1 DEF Claim, EntryTypeOK
  <2>6. HistoryTypeOK'
    BY <2>1 DEF Claim, HistoryTypeOK
  <2>7. QED
    BY <2>2, <2>3, <2>4, <2>5, <2>6 DEF Submit
<1>3. QED
  BY <1>1, <1>2 DEF Submit

\* EnsureConsumer, by the reaper or a sender.
LEMMA EnsureTyped ==
  ASSUME TypeOK, NEW p \in Procs, Ensure(p)
  PROVE  TypeOK'
<1> USE Frames DEF TypeOK
<1>1. AfterEntry(p) \in HandlerPcs
  BY DEF AfterEntry, HandlerPcs
<1>2. CASE CheckShutdown(p)
  <2>1. EntryTypeOK'
    BY <1>1, <1>2, MoveTyped DEF CheckShutdown, HandlerPcs
  <2>2. QED
    BY <1>2, <2>1 DEF CheckShutdown
<1>3. CASE ClaimConsumer(p)
  BY <1>1, <1>3, SubmitTyped DEF ClaimConsumer, HandlerPcs
<1>4. CASE TakeOldest(p)
  <2>1. PICK row \in queued : Materialize(row) /\ Launch(p, row.parts)
    BY <1>4 DEF TakeOldest
  <2>2. StoreTypeOK' /\ row.parts \in SUBSET Msgs
    BY <2>1, MaterializeTyped
  <2>3. EntryTypeOK' /\ RunTypeOK'
    BY <1>4, <2>1, <2>2, LaunchTyped DEF TakeOldest
  <2>4. QED
    BY <1>4, <2>2, <2>3 DEF TakeOldest
<1>5. CASE NothingToTake(p)
  <2>1. EntryTypeOK'
    BY <1>5, MoveTyped DEF NothingToTake, HandlerPcs
  <2>2. left' \in Nat
    BY <1>5, RareTyped DEF NothingToTake
  <2>3. QED
    BY <1>5, <2>1, <2>2 DEF NothingToTake
<1>6. CASE ReleaseConsumer(p)
  <2>1. EntryTypeOK' /\ RunTypeOK'
    BY <1>6, AbandonTyped DEF ReleaseConsumer
  <2>2. QED
    BY <1>6, <2>1, RegistryTyped DEF ReleaseConsumer
<1>7. QED
  BY <1>2, <1>3, <1>4, <1>5, <1>6 DEF Ensure

\* POST /api/ai/queue.
LEMMA QueueEntryTyped ==
  ASSUME TypeOK, NEW m \in Msgs,
         \/ SendQueued(m) \/ SubmitQueued(m) \/ TakeOwnRow(m) \/ OwnRowGone(m)
         \/ OwnRowUnreadable(m) \/ UndoClaim(m) \/ Refuse(m, "idle")
         \/ Refuse(m, "insert")
  PROVE  TypeOK'
<1> USE Frames DEF TypeOK
<1>0. m \in Procs
  BY DEF Procs
<1>1. CASE SendQueued(m)
  <2>1. EntryTypeOK'
    BY <1>0, <1>1 DEF SendQueued, Step, EntryTypeOK, HandlerPcs, StoreTypeOK
  <2>2. QED
    BY <1>1, <2>1, AddQueuedTyped DEF SendQueued
<1>2. CASE SubmitQueued(m)
  BY <1>0, <1>2, SubmitTyped DEF SubmitQueued, HandlerPcs
<1>3. CASE TakeOwnRow(m)
  <2>1. PICK row \in queued : Materialize(row) /\ Launch(m, row.parts)
    BY <1>3 DEF TakeOwnRow
  <2>2. StoreTypeOK' /\ row.parts \in SUBSET Msgs
    BY <2>1, MaterializeTyped
  <2>3. EntryTypeOK' /\ RunTypeOK'
    BY <1>0, <1>3, <2>1, <2>2, LaunchTyped DEF TakeOwnRow
  <2>4. QED
    BY <1>3, <2>2, <2>3 DEF TakeOwnRow
<1>4. CASE OwnRowGone(m)
  <2>1. EntryTypeOK'
    BY <1>0, <1>4, MoveTyped DEF OwnRowGone, HandlerPcs
  <2>2. QED
    BY <1>4, <2>1 DEF OwnRowGone
<1>5. CASE OwnRowUnreadable(m) \/ Refuse(m, "idle") \/ Refuse(m, "insert")
  <2>1. EntryTypeOK'
    BY <1>0, <1>5, MoveTyped DEF OwnRowUnreadable, Refuse, HandlerPcs
  <2>2. left' \in Nat
    BY <1>5, RareTyped DEF OwnRowUnreadable, Refuse
  <2>3. QED
    BY <1>5, <2>1, <2>2 DEF OwnRowUnreadable, Refuse
<1>6. CASE UndoClaim(m)
  <2>1. EntryTypeOK' /\ RunTypeOK'
    BY <1>0, <1>6, AbandonTyped DEF UndoClaim
  <2>2. QED
    BY <1>6, <2>1, RegistryTyped DEF UndoClaim
<1>7. QED
  BY <1>1, <1>2, <1>3, <1>4, <1>5, <1>6

\* POST /api/ai/chat.
LEMMA ChatEntryTyped ==
  ASSUME TypeOK, NEW m \in Msgs,
         \/ SendChat(m) \/ SaveMessage(m) \/ SaveFails(m) \/ InsertMessage(m)
         \/ WakeRunner(m)
  PROVE  TypeOK'
<1> USE Frames DEF TypeOK
<1>0. m \in Procs
  BY DEF Procs
<1>1. CASE SendChat(m)
  BY <1>0, <1>1, SubmitTyped DEF SendChat, HandlerPcs
<1>2. CASE SaveMessage(m)
  <2>1. EntryTypeOK' /\ RunTypeOK'
    BY <1>0, <1>2, LaunchTyped DEF SaveMessage
  <2>2. QED
    BY <1>2, <2>1, AddMessageTyped DEF SaveMessage
<1>3. CASE SaveFails(m)
  <2>1. EntryTypeOK' /\ RunTypeOK'
    BY <1>0, <1>3, AbandonTyped DEF SaveFails
  <2>2. QED
    BY <1>3, <2>1, RegistryTyped, RareTyped DEF SaveFails
<1>4. CASE InsertMessage(m)
  <2>1. EntryTypeOK'
    BY <1>0, <1>4, MoveTyped DEF InsertMessage, HandlerPcs
  <2>2. QED
    BY <1>4, <2>1, AddQueuedTyped DEF InsertMessage
<1>5. CASE WakeRunner(m)
  <2>1. EntryTypeOK'
    BY <1>0, <1>5, MoveTyped DEF WakeRunner, HandlerPcs
  <2>2. RegistryTypeOK'
    BY <1>5, RegistryTyped DEF WakeRunner
  <2>3. QED
    BY <1>5, <2>1, <2>2 DEF WakeRunner
<1>6. QED
  BY <1>1, <1>2, <1>3, <1>4, <1>5

LEMMA ReaperPassTyped == ASSUME TypeOK, ReaperPass PROVE TypeOK'
<1> USE Frames DEF TypeOK
<1>1. EntryTypeOK'
  BY MoveTyped DEF ReaperPass, Procs, HandlerPcs
<1>2. QED
  BY <1>1 DEF ReaperPass

-----------------------------------------------------------------------------
\* CancelSession.
LEMMA CancelTyped ==
  ASSUME TypeOK, CancelTake \/ CancelStep
  PROVE  TypeOK'
<1> USE Frames DEF TypeOK
<1>1. CASE CancelTake
  <2>1. reg.run \in Runs
    BY <1>1 DEF CancelTake, Running, RegistryTypeOK
  <2>2. ControlTypeOK' /\ HistoryTypeOK'
    BY <1>1, <2>1 DEF CancelTake, ControlTypeOK, HistoryTypeOK
  <2>3. QED
    BY <1>1, <2>2, RegistryTyped, RareTyped DEF CancelTake
<1>2. CASE CancelReason
  <2>1. ControlTypeOK' /\ SlotTypeOK'
    BY <1>2 DEF CancelReason, ControlTypeOK, NoCancel, SlotTypeOK, Reasons
  <2>2. QED
    BY <1>2, <2>1 DEF CancelReason
<1>3. CASE CancelRun
  <2>1. ControlTypeOK' /\ cancelling.run \in Runs
    BY <1>3 DEF CancelRun, ControlTypeOK, NoCancel
  <2>2. RegistryTypeOK'
    BY <1>3, <2>1, RegistryTyped DEF CancelRun
  <2>3. QED
    BY <1>3, <2>1, <2>2 DEF CancelRun
<1>4. CASE CancelNotify
  <2>1. ControlTypeOK' /\ SlotTypeOK'
    BY <1>4 DEF CancelNotify, ControlTypeOK, SlotTypeOK
  <2>2. QED
    BY <1>4, <2>1 DEF CancelNotify
<1>5. QED
  BY <1>1, <1>2, <1>3, <1>4 DEF CancelStep

\* QueueInterruptHandler.
LEMMA InterruptTyped ==
  ASSUME TypeOK, InterruptCheck \/ InterruptStep
  PROVE  TypeOK'
<1> USE Frames DEF TypeOK
<1>1. CASE InterruptCheck
  <2>1. ControlTypeOK'
    BY <1>1 DEF InterruptCheck, ControlTypeOK, NoInterrupt, RunTypeOK
  <2>2. QED
    BY <1>1, <2>1, RareTyped DEF InterruptCheck
<1>2. CASE InterruptRead
  <2>1. ControlTypeOK'
    BY <1>2 DEF InterruptRead, ControlTypeOK, NoInterrupt, RunTypeOK,
                RegistryTypeOK
  <2>2. QED
    BY <1>2, <2>1 DEF InterruptRead
<1>3. CASE InterruptAct
  <2>1. ControlTypeOK'
    BY <1>3 DEF InterruptAct, ControlTypeOK, NoInterrupt
  <2>2. RegistryTypeOK'
    BY <1>3, RegistryTyped DEF InterruptAct
  <2>3. QED
    BY <1>3, <2>1, <2>2 DEF InterruptAct
<1>4. CASE InterruptReason
  <2>1. ControlTypeOK' /\ SlotTypeOK'
    BY <1>4 DEF InterruptReason, ControlTypeOK, SlotTypeOK, Reasons
  <2>2. QED
    BY <1>4, <2>1 DEF InterruptReason
<1>5. CASE InterruptStop
  <2>1. ControlTypeOK'
    BY <1>5 DEF InterruptStop, ControlTypeOK, NoInterrupt
  <2>2. RunTypeOK'
    BY <1>5, LocalsTyped DEF InterruptStop, RunTypeOK
  <2>3. QED
    BY <1>5, <2>1, <2>2 DEF InterruptStop
<1>6. QED
  BY <1>1, <1>2, <1>3, <1>4, <1>5 DEF InterruptStep

\* InjectQueuedMessage.
LEMMA InjectTyped ==
  ASSUME TypeOK, InjectTake \/ InjectAccepted \/ InjectDeclined \/ InjectStranded
  PROVE  TypeOK'
<1> USE Frames DEF TypeOK
<1>1. NoInject \in [pc : {"idle", "asking"}, row : QueuedRow, msg : Nat]
  BY DEF NoInject, QueuedRow
<1>2. /\ injecting.row \in QueuedRow
      /\ injecting.row.parts \in SUBSET Msgs
      /\ injecting.msg \in Nat
  BY DEF ControlTypeOK, QueuedRow
<1>3. CASE InjectTake
  <2>1. PICK row \in queued :
          /\ Materialize(row)
          /\ injecting' = [pc |-> "asking", row |-> row, msg |-> lastMsg + 1]
    BY <1>3 DEF InjectTake
  <2>2. StoreTypeOK' /\ row \in QueuedRow
    BY <2>1, MaterializeTyped
  <2>3. ControlTypeOK'
    BY <1>3, <2>1, <2>2 DEF InjectTake, ControlTypeOK, StoreTypeOK
  <2>4. QED
    BY <1>3, <2>2, <2>3, RareTyped DEF InjectTake
<1>4. CASE InjectAccepted
  <2>1. ControlTypeOK'
    BY <1>1, <1>4 DEF InjectAccepted, ControlTypeOK
  <2>2. HistoryTypeOK'
    BY <1>4 DEF InjectAccepted, HistoryTypeOK
  <2>3. QED
    BY <1>4, <2>1, <2>2 DEF InjectAccepted
<1>5. CASE InjectDeclined
  <2>1. ControlTypeOK'
    BY <1>1, <1>5 DEF InjectDeclined, ControlTypeOK
  <2>2. StoreTypeOK'
    BY <1>2, <1>5, RequeueTyped DEF InjectDeclined
  <2>3. QED
    BY <1>5, <2>1, <2>2 DEF InjectDeclined
<1>6. CASE InjectStranded
  <2>1. ControlTypeOK' /\ HistoryTypeOK'
    BY <1>1, <1>2, <1>6 DEF InjectStranded, ControlTypeOK, HistoryTypeOK
  <2>2. QED
    BY <1>6, <2>1 DEF InjectStranded
<1>7. QED
  BY <1>3, <1>4, <1>5, <1>6

LEMMA EditQueueTyped == ASSUME TypeOK, EditQueue PROVE TypeOK'
<1> USE Frames DEF TypeOK
<1>1. StoreTypeOK'
  BY EditTyped DEF EditQueue
<1>2. QED
  BY <1>1, RareTyped DEF EditQueue

\* The shutdown sweep.
LEMMA SweepTyped ==
  ASSUME TypeOK, MarkShuttingDown \/ SweepStep
  PROVE  TypeOK'
<1> USE Frames DEF TypeOK
<1>1. CASE MarkShuttingDown
  <2>1. ControlTypeOK'
    BY <1>1 DEF MarkShuttingDown, ControlTypeOK
  <2>2. QED
    BY <1>1, <2>1, RareTyped DEF MarkShuttingDown
<1>2. CASE SweepSnapshot
  <2>1. ControlTypeOK' /\ HistoryTypeOK'
    BY <1>2 DEF SweepSnapshot, ControlTypeOK, HistoryTypeOK, Running,
                RegistryTypeOK
  <2>2. QED
    BY <1>2, <2>1 DEF SweepSnapshot
<1>3. CASE SweepReason
  <2>1. ControlTypeOK' /\ SlotTypeOK'
    BY <1>3 DEF SweepReason, ControlTypeOK, SlotTypeOK, Reasons
  <2>2. QED
    BY <1>3, <2>1 DEF SweepReason
<1>4. CASE SweepCancel
  <2>1. ControlTypeOK' /\ stopping.run \in Runs
    BY <1>4 DEF SweepCancel, ControlTypeOK
  <2>2. RegistryTypeOK'
    BY <1>4, <2>1, RegistryTyped DEF SweepCancel
  <2>3. QED
    BY <1>4, <2>1, <2>2 DEF SweepCancel
<1>5. CASE SweepRemove
  <2>1. ControlTypeOK'
    BY <1>5 DEF SweepRemove, ControlTypeOK
  <2>2. QED
    BY <1>5, <2>1, RegistryTyped DEF SweepRemove
<1>6. QED
  BY <1>1, <1>2, <1>3, <1>4, <1>5 DEF SweepStep

LEMMA FreshControlTyped ==
  /\ NoEntry \in [run : Runs \cup {NoRun}, wake : BOOLEAN, turn : Nat]
  /\ NoLocals \in [run : Runs \cup {NoRun}, row : Nat]
  /\ NoInterrupt \in [pc : {"idle", "read", "act", "reason", "stop"},
                      seen : Nat, found : Nat, looked : Nat]
  /\ NoInject \in [pc : {"idle", "asking"}, row : QueuedRow, msg : Nat]
  BY DEF NoEntry, NoLocals, NoInterrupt, NoInject, QueuedRow

LEMMA CrashTyped == ASSUME TypeOK, Crash PROVE TypeOK'
<1> USE Frames, FreshControlTyped DEF TypeOK
<1>1. RegistryTypeOK' /\ SlotTypeOK'
  BY DEF Crash, RegistryTypeOK, SlotTypeOK, Reasons
<1>2. RunTypeOK'
  BY NotStartedTyped DEF Crash, RunTypeOK, ExecPcs
<1>3. EntryTypeOK'
  BY DEF Crash, EntryTypeOK, HandlerPcs
<1>4. ControlTypeOK'
  BY DEF Crash, ControlTypeOK
<1>5. HistoryTypeOK'
  <2>1. Held \in SUBSET Msgs
    BY DEF Held
  <2>2. QED
    BY <2>1 DEF Crash, HistoryTypeOK
<1>6. QED
  BY <1>1, <1>2, <1>3, <1>4, <1>5, RareTyped DEF Crash

-----------------------------------------------------------------------------
LEMMA InitTyped == Init => TypeOK
<1> SUFFICES ASSUME Init PROVE TypeOK
  OBVIOUS
<1> USE FreshControlTyped DEF Init
<1>1. StoreTypeOK /\ RegistryTypeOK /\ SlotTypeOK
  BY DEF StoreInit, StoreTypeOK, RegistryInit, RegistryTypeOK, SlotTypeOK, Reasons
<1>2. RunTypeOK /\ EntryTypeOK
  BY NotStartedTyped DEF RunTypeOK, EntryTypeOK, ExecPcs, HandlerPcs
<1>3. ControlTypeOK /\ HistoryTypeOK /\ left \in Nat
  BY EventsAssumption DEF ControlTypeOK, HistoryTypeOK
<1>4. QED
  BY <1>1, <1>2, <1>3 DEF TypeOK

LEMMA NextTyped == ASSUME TypeOK, [Next]_vars PROVE TypeOK'
<1>1. CASE \E r \in Runs : RunStep(r) \/ RunMishap(r)
  BY <1>1, TurnTyped, LoopTyped, EndTyped DEF RunStep, RunMishap
<1>2. CASE \E m \in Msgs : \/ SendQueued(m) \/ SendChat(m)
                           \/ SenderStep(m) \/ EntryMishap(m)
  BY <1>2, QueueEntryTyped, ChatEntryTyped, EnsureTyped
  DEF SenderStep, EntryMishap, Procs
<1>3. CASE ReaperStep
  BY <1>3, ReaperPassTyped, EnsureTyped DEF ReaperStep, Procs
<1>4. CASE \/ CancelTake \/ CancelStep \/ InterruptCheck \/ InterruptStep
           \/ EditQueue \/ MarkShuttingDown \/ SweepStep
  BY <1>4, CancelTyped, InterruptTyped, EditQueueTyped, SweepTyped
<1>5. CASE InjectTake \/ InjectAccepted \/ InjectDeclined \/ InjectStranded
  BY <1>5, InjectTyped
<1>6. CASE Crash
  BY <1>6, CrashTyped
<1>7. CASE UNCHANGED vars
  BY <1>7, Frames DEF vars, runVars, TypeOK
<1>8. QED
  BY <1>1, <1>2, <1>3, <1>4, <1>5, <1>6, <1>7 DEF Next

\* Every variable of the session keeps its type, for any number of messages,
\* runs and events; a cancel or a sweep in progress always holds a run.
THEOREM TypeCorrect == Spec => []TypeOK
  BY InitTyped, NextTyped, PTL DEF Spec

-----------------------------------------------------------------------------
(***************************************************************************)
(* A running session can be cancelled.                                     *)
(*                                                                         *)
(* Two actors cancel a context apart from removing its entry: CancelSession*)
(* and the shutdown sweep.  The former took the entry first, so its run is *)
(* not the registered one, and no claim can register it again; the latter  *)
(* is the exception the property names.                                    *)
(***************************************************************************)
TakenIsNotRegistered == cancelling.run # NoRun => cancelling.run # reg.run

CancellableInv == TypeOK /\ TakenIsNotRegistered /\ RunningIsCancellable

\* What most steps do: the registered run stays or goes, and no context but its
\* own is cancelled, with its entry gone.
LEMMA QuietRegistry ==
  ASSUME CancellableInv,
         UNCHANGED <<cancelling, stopping>>,
         \/ reg'.run = reg.run /\ ctxDone' = ctxDone
         \/ reg'.run = NoRun
  PROVE  TakenIsNotRegistered' /\ RunningIsCancellable'
  BY DEF CancellableInv, TakenIsNotRegistered, RunningIsCancellable, Running

\* The registry operations that are of that kind.
LEMMA QuietOperations ==
  ASSUME RegistryTypeOK,
         \/ UNCHANGED registryVars \/ Wake \/ RetireRefused \/ Retire \/ Remove
         \/ FinishRun \/ ClearTurn \/ \E t \in Nat : RegisterTurn(t)
  PROVE  \/ reg'.run = reg.run /\ ctxDone' = ctxDone
         \/ reg'.run = NoRun
  BY DEF RegistryTypeOK, NoEntry, registryVars, Wake, RetireRefused, Retire,
         Remove, FinishRun, ClearTurn, RegisterTurn

\* A claim registers a run that nobody is about to cancel.
LEMMA SubmitCancellable ==
  ASSUME CancellableInv, NEW p \in Procs, NEW claimed, NEW found,
         Submit(p, claimed, found)
  PROVE  TakenIsNotRegistered' /\ RunningIsCancellable'
<1>1. CASE HandOver(p, found)
  BY <1>1, QuietOperations, QuietRegistry
  DEF Submit, HandOver, CancellableInv, TypeOK, controlVars
<1>2. CASE \E r \in Runs : Claim(p, r, claimed)
  <2>1. PICK r \in Runs : Claim(p, r, claimed)
    BY <1>2
  <2>2. reg'.run = r /\ r # cancelling.run /\ r \notin ctxDone'
    BY <2>1 DEF Claim, Fresh, SubmitNew
  <2>3. UNCHANGED <<cancelling, stopping>>
    BY DEF Submit, controlVars
  <2>4. QED
    BY <2>2, <2>3 DEF TakenIsNotRegistered, RunningIsCancellable
<1>3. QED
  BY <1>1, <1>2 DEF Submit

LEMMA NextCancellable ==
  ASSUME CancellableInv, [Next]_vars
  PROVE  CancellableInv'
<1> USE QuietOperations, QuietRegistry DEF CancellableInv
<1>0. TypeOK' /\ RegistryTypeOK
  BY NextTyped DEF TypeOK
<1>1. CASE \E r \in Runs : RunStep(r) \/ RunMishap(r)
  <2>1. PICK r \in Runs : RunStep(r) \/ RunMishap(r)
    BY <1>1
  <2>2. /\ \/ UNCHANGED registryVars \/ RetireRefused \/ Retire \/ Remove
           \/ FinishRun \/ ClearTurn \/ RegisterTurn(turnSeq + 1)
        /\ UNCHANGED controlVars
    BY <2>1
    DEF RunStep, RunMishap, TurnStart, TurnOpens, TurnFails, TurnEnds, Settle,
        OfferResume, Resume, Decide, Clear, ClearFails, Dequeue, DequeueUnusable,
        DequeueFails, DequeueEmpty, TryRetire, Mark, SendFinal, Panic, Finish,
        Recover
  <2>3. turnSeq + 1 \in Nat
    BY DEF TypeOK, RunTypeOK
  <2>4. QED
    BY <1>0, <2>2, <2>3 DEF controlVars
<1>2. CASE \/ \E m \in Msgs : \/ SendQueued(m) \/ SendChat(m)
                              \/ SenderStep(m) \/ EntryMishap(m)
           \/ ReaperStep
  <2>1. PICK p \in Procs :
          \/ \E claimed, found : Submit(p, claimed, found)
          \/ /\ \/ UNCHANGED registryVars \/ Wake \/ Remove \/ FinishRun
             /\ UNCHANGED controlVars
    BY <1>2
    DEF SenderStep, EntryMishap, ReaperStep, Ensure, SendQueued, SubmitQueued,
        TakeOwnRow, OwnRowGone, OwnRowUnreadable, UndoClaim, SendChat,
        SaveMessage, SaveFails, InsertMessage, WakeRunner, Refuse, ReaperPass,
        CheckShutdown, ClaimConsumer, TakeOldest, NothingToTake, ReleaseConsumer,
        Procs
  <2>2. QED
    BY <1>0, <2>1, SubmitCancellable DEF controlVars
<1>3. CASE CancelTake
  <2>1. reg.run # NoRun /\ cancelling'.run = reg.run /\ reg'.run = NoRun
    BY <1>3 DEF CancelTake, Running, Remove, NoEntry
  <2>2. QED
    BY <1>0, <2>1 DEF TakenIsNotRegistered, RunningIsCancellable, Running
<1>4. CASE CancelReason \/ CancelNotify
  BY <1>0, <1>4
  DEF CancelReason, CancelNotify, NoCancel, registryVars, TakenIsNotRegistered,
      RunningIsCancellable, Running, TypeOK, ControlTypeOK
<1>5. CASE CancelRun
  <2>1. cancelling.run # NoRun
    BY <1>5, NoRunAssumption DEF CancelRun, TypeOK, ControlTypeOK, NoCancel
  <2>2. /\ reg' = reg
        /\ ctxDone' = ctxDone \cup {cancelling.run}
        /\ cancelling'.run = cancelling.run
        /\ stopping' = stopping
    BY <1>5 DEF CancelRun, CancelContext, TypeOK, ControlTypeOK, NoCancel
  <2>3. QED
    BY <1>0, <2>1, <2>2 DEF TakenIsNotRegistered, RunningIsCancellable, Running
<1>6. CASE \/ InterruptCheck \/ InterruptStep
           \/ InjectTake \/ InjectAccepted \/ InjectDeclined \/ InjectStranded
           \/ EditQueue
  <2>1. /\ UNCHANGED registryVars \/ ClearTurn
        /\ UNCHANGED <<cancelling, stopping>>
    BY <1>6
    DEF InterruptCheck, InterruptStep, InterruptRead, InterruptAct,
        InterruptReason, InterruptStop, InjectTake, InjectAccepted,
        InjectDeclined, InjectStranded, EditQueue, controlVars
  <2>2. QED
    BY <1>0, <2>1
<1>7. CASE MarkShuttingDown \/ SweepSnapshot \/ SweepReason
  <2>1. /\ UNCHANGED <<reg, ctxDone, cancelling>>
        /\ stopping.pc # "remove"
    BY <1>7
    DEF MarkShuttingDown, SweepSnapshot, SweepReason, registryVars
  <2>2. QED
    BY <1>0, <2>1 DEF TakenIsNotRegistered, RunningIsCancellable, Running
<1>8. CASE SweepCancel
  <2>1. /\ reg' = reg
        /\ ctxDone' = ctxDone \cup {stopping.run}
        /\ stopping.pc # "remove"
        /\ stopping'.pc = "remove" /\ stopping'.run = stopping.run
        /\ cancelling' = cancelling
    BY <1>8 DEF SweepCancel, CancelContext, TypeOK, ControlTypeOK
  <2>2. QED
    BY <1>0, <2>1 DEF TakenIsNotRegistered, RunningIsCancellable, Running
<1>9. CASE SweepRemove
  <2>1. reg'.run = NoRun /\ cancelling' = cancelling
    BY <1>9 DEF SweepRemove, Remove, NoEntry
  <2>2. QED
    BY <1>0, <2>1 DEF TakenIsNotRegistered, RunningIsCancellable, Running
<1>10. CASE Crash
  <2>1. reg'.run = NoRun /\ cancelling'.run = NoRun
    BY <1>10 DEF Crash, NoEntry, NoCancel
  <2>2. QED
    BY <1>0, <2>1 DEF TakenIsNotRegistered, RunningIsCancellable, Running
<1>11. CASE UNCHANGED vars
  BY <1>0, <1>11 DEF vars, controlVars
<1>12. QED
  BY <1>1, <1>2, <1>3, <1>4, <1>5, <1>6, <1>7, <1>8, <1>9, <1>10, <1>11
  DEF Next, CancelStep, SweepStep

\* A session that is reported as running has a live context to cancel, except
\* between the two halves of the shutdown sweep, for any number of messages,
\* runs and events.
THEOREM RunningIsAlwaysCancellable == Spec => []RunningIsCancellable
<1>1. Init => CancellableInv
  BY InitTyped
  DEF Init, RegistryInit, NoEntry, NoCancel, CancellableInv,
      TakenIsNotRegistered, RunningIsCancellable, Running
<1>2. CancellableInv => RunningIsCancellable
  BY DEF CancellableInv
<1>3. QED
  BY <1>1, <1>2, NextCancellable, PTL DEF Spec

-----------------------------------------------------------------------------
(***************************************************************************)
(* A running session is released.                                          *)
(*                                                                         *)
(* The registered run is a goroutine that will still clear the entry, or a *)
(* claim.  That a claim has an owner needs the converse as well: a handler *)
(* holds a run exactly between its claim and its launch or release, the    *)
(* run is then unlaunched, and no two handlers hold the same one.          *)
(***************************************************************************)
Claiming == {"claimrow", "undo", "save", "take", "release"}

ClaimsAreHeld ==
  \A p \in Procs :
    IF hpc[p] \in Claiming
      THEN hloc[p].run \in Runs /\ epc[hloc[p].run] = "claimed"
      ELSE hloc[p].run = NoRun

ClaimsAreDistinct ==
  \A p, q \in Procs :
    p # q /\ hloc[p].run # NoRun => hloc[p].run # hloc[q].run

ReleasedInv == TypeOK /\ ClaimsAreHeld /\ ClaimsAreDistinct /\ RunningIsReleased

\* Handlers and goroutines stay where they are.
LEMMA QuietRuns ==
  ASSUME ReleasedInv, UNCHANGED <<epc, hpc, hloc>>,
         reg'.run = reg.run \/ reg'.run = NoRun
  PROVE  ClaimsAreHeld' /\ ClaimsAreDistinct' /\ RunningIsReleased'
  BY DEF ReleasedInv, ClaimsAreHeld, ClaimsAreDistinct, RunningIsReleased, Running

\* A goroutine moves on, before or after its final event.
LEMMA GotoReleased ==
  ASSUME ReleasedInv, NEW r \in Runs, NEW pc, Goto(r, pc), UNCHANGED entryVars,
         epc[r] # "claimed",
         \/ reg'.run = NoRun
         \/ /\ reg'.run = reg.run
            /\ \/ pc \notin {"idle", "claimed", "final", "panicked"}
               \/ epc[r] \in {"final", "panicked"}
  PROVE  ClaimsAreHeld' /\ ClaimsAreDistinct' /\ RunningIsReleased'
<1>1. /\ epc \in [Runs -> ExecPcs]
      /\ \A s \in Runs : epc'[s] = IF s = r THEN pc ELSE epc[s]
      /\ UNCHANGED <<hpc, hloc>>
  BY DEF ReleasedInv, TypeOK, RunTypeOK, Goto, entryVars
<1>2. ClaimsAreHeld' /\ ClaimsAreDistinct'
  BY <1>1 DEF ReleasedInv, ClaimsAreHeld, ClaimsAreDistinct
<1>3. CASE reg'.run = NoRun
  BY <1>2, <1>3 DEF RunningIsReleased, Running
<1>4. CASE reg'.run = reg.run /\ reg.run # NoRun
  <2>1. reg.run \in Runs
    BY <1>4 DEF ReleasedInv, TypeOK, RegistryTypeOK
  <2> DEFINE Owned(run, pcs, locals) ==
               \/ pcs[run] \notin {"idle", "claimed", "final", "panicked"}
               \/ pcs[run] = "claimed" /\ \E p \in Procs : locals[p].run = run
  <2>a. Owned(reg.run, epc, hloc)
    BY <1>4 DEF ReleasedInv, RunningIsReleased, Running
  <2>b. Owned(reg.run, epc', hloc) => RunningIsReleased'
    BY <1>1, <1>4 DEF RunningIsReleased
  <2>2. CASE reg.run = r
    <3>1. epc[r] \notin {"final", "panicked"}
      BY <2>2, <2>a
    <3>2. epc'[r] = pc /\ pc \notin {"idle", "claimed", "final", "panicked"}
      BY <1>1, <1>4, <3>1, NoRunAssumption
    <3>3. QED
      BY <1>2, <2>2, <2>b, <3>2
  <2>3. CASE reg.run # r
    <3>1. epc'[reg.run] = epc[reg.run]
      BY <1>1, <2>1, <2>3
    <3>2. QED
      BY <1>2, <2>a, <2>b, <3>1
  <2>4. QED
    BY <2>2, <2>3
<1>5. QED
  BY <1>2, <1>3, <1>4

\* The entry keeps its run, or goes.
LEMMA KeepOrDrop ==
  ASSUME RegistryTypeOK,
         \/ UNCHANGED registryVars \/ Wake \/ RetireRefused \/ ClearTurn
         \/ \E t \in Nat : RegisterTurn(t)
         \/ Retire \/ Remove \/ FinishRun
         \/ \E r \in Runs : CancelContext(r)
  PROVE  /\ reg'.run = reg.run \/ reg'.run = NoRun
         /\ Retire \/ Remove \/ FinishRun => reg'.run = NoRun
  BY DEF RegistryTypeOK, NoEntry, registryVars, Wake, RetireRefused, Retire,
         Remove, FinishRun, ClearTurn, RegisterTurn, CancelContext

LEMMA RunReleased ==
  ASSUME ReleasedInv, NEW r \in Runs, RunStep(r) \/ RunMishap(r)
  PROVE  ClaimsAreHeld' /\ ClaimsAreDistinct' /\ RunningIsReleased'
<1> USE GotoReleased, KeepOrDrop
<1>0. RegistryTypeOK /\ turnSeq + 1 \in Nat
  BY DEF ReleasedInv, TypeOK, RunTypeOK
<1>1. CASE TurnStart(r)
  BY <1>0, <1>1 DEF TurnStart
<1>2. CASE \/ TurnOpens(r) \/ TurnFails(r) \/ TurnEnds(r) \/ OfferResume(r)
           \/ Resume(r) \/ Clear(r) \/ ClearFails(r) \/ Dequeue(r)
           \/ DequeueUnusable(r) \/ DequeueEmpty(r) \/ SendFinal(r) \/ Panic(r)
  BY <1>0, <1>2
  DEF TurnOpens, TurnFails, TurnEnds, OfferResume, Resume, Clear, ClearFails,
      Dequeue, DequeueUnusable, DequeueEmpty, SendFinal, Panic
<1>3. CASE Settle(r)
  BY <1>0, <1>3 DEF Settle
<1>4. CASE Decide(r)
  BY <1>0, <1>4 DEF Decide, AfterTurn
<1>5. CASE DequeueFails(r)
  BY <1>0, <1>5 DEF DequeueFails
<1>6. CASE TryRetire(r)
  BY <1>0, <1>6 DEF TryRetire
<1>7. CASE Mark(r) \/ Finish(r) \/ Recover(r)
  BY <1>0, <1>7 DEF Mark, Finish, Recover
<1>8. QED
  BY <1>1, <1>2, <1>3, <1>4, <1>5, <1>6, <1>7 DEF RunStep, RunMishap

\* A handler moves on and keeps the run it has, if it has one.
LEMMA MoveReleased ==
  ASSUME ReleasedInv, NEW p \in Procs, NEW pc, Step(p, pc),
         pc \in Claiming <=> hpc[p] \in Claiming,
         epc' = epc, \A q \in Procs : hloc'[q].run = hloc[q].run,
         reg'.run = reg.run \/ reg'.run = NoRun
  PROVE  ClaimsAreHeld' /\ ClaimsAreDistinct' /\ RunningIsReleased'
<1>1. \A q \in Procs : hpc'[q] = IF q = p THEN pc ELSE hpc[q]
  BY DEF Step, ReleasedInv, TypeOK, EntryTypeOK
<1>2. ClaimsAreHeld' /\ ClaimsAreDistinct'
  BY <1>1 DEF ReleasedInv, ClaimsAreHeld, ClaimsAreDistinct
<1>3. RunningIsReleased'
  BY DEF ReleasedInv, RunningIsReleased, Running
<1>4. QED
  BY <1>2, <1>3

\* A claimer starts its goroutine.
LEMMA LaunchReleased ==
  ASSUME ReleasedInv, NEW p \in Procs, NEW work, hpc[p] \in Claiming,
         Launch(p, work), reg' = reg
  PROVE  ClaimsAreHeld' /\ ClaimsAreDistinct' /\ RunningIsReleased'
<1> DEFINE mine == hloc[p].run
<1>1. mine \in Runs /\ epc[mine] = "claimed" /\ mine # NoRun
  BY NoRunAssumption DEF ReleasedInv, ClaimsAreHeld
<1>2. /\ \A r \in Runs : epc'[r] = IF r = mine THEN "start" ELSE epc[r]
      /\ \A q \in Procs : hloc'[q] = IF q = p THEN NoLocals ELSE hloc[q]
      /\ \A q \in Procs : hpc'[q] = IF q = p THEN AfterEntry(p) ELSE hpc[q]
  BY DEF Launch, ReleasedInv, TypeOK, RunTypeOK, EntryTypeOK
<1>3. AfterEntry(p) \notin Claiming /\ NoLocals.run = NoRun
  BY DEF AfterEntry, Claiming, NoLocals
<1>4. \A q \in Procs : q # p => hloc[q].run # mine
  BY <1>1 DEF ReleasedInv, ClaimsAreDistinct
<1> HIDE DEF mine
<1>5. ClaimsAreHeld' /\ ClaimsAreDistinct'
  BY <1>1, <1>2, <1>3, <1>4 DEF ReleasedInv, ClaimsAreHeld, ClaimsAreDistinct
<1>6. RunningIsReleased'
  <2> SUFFICES ASSUME reg.run # NoRun
               PROVE  \/ epc'[reg.run] \notin {"idle", "claimed", "final", "panicked"}
                      \/ /\ epc'[reg.run] = "claimed"
                         /\ \E q \in Procs : hloc'[q].run = reg.run
    BY DEF RunningIsReleased, Running
  <2>1. reg.run \in Runs
    BY DEF ReleasedInv, TypeOK, RegistryTypeOK
  <2>2. CASE reg.run = mine
    BY <1>1, <1>2, <2>2
  <2>3. CASE reg.run # mine
    BY <1>1, <1>2, <2>1, <2>3 DEF ReleasedInv, RunningIsReleased, Running, mine
  <2>4. QED
    BY <2>2, <2>3
<1>7. QED
  BY <1>5, <1>6

\* A claimer gives its run up and drops the entry.
LEMMA AbandonReleased ==
  ASSUME ReleasedInv, NEW p \in Procs, hpc[p] \in Claiming, Abandon(p),
         reg'.run = NoRun
  PROVE  ClaimsAreHeld' /\ ClaimsAreDistinct' /\ RunningIsReleased'
<1> DEFINE mine == hloc[p].run
<1>1. mine \in Runs /\ mine # NoRun
  BY NoRunAssumption DEF ReleasedInv, ClaimsAreHeld
<1>2. /\ \A r \in Runs : epc'[r] = IF r = mine THEN "idle" ELSE epc[r]
      /\ \A q \in Procs : hloc'[q] = IF q = p THEN NoLocals ELSE hloc[q]
      /\ \A q \in Procs : hpc'[q] = IF q = p THEN AfterEntry(p) ELSE hpc[q]
  BY DEF Abandon, ReleasedInv, TypeOK, RunTypeOK, EntryTypeOK
<1>3. AfterEntry(p) \notin Claiming /\ NoLocals.run = NoRun
  BY DEF AfterEntry, Claiming, NoLocals
<1>4. \A q \in Procs : q # p => hloc[q].run # mine
  BY <1>1 DEF ReleasedInv, ClaimsAreDistinct
<1> HIDE DEF mine
<1>5. ClaimsAreHeld' /\ ClaimsAreDistinct'
  BY <1>1, <1>2, <1>3, <1>4 DEF ReleasedInv, ClaimsAreHeld, ClaimsAreDistinct
<1>6. QED
  BY <1>5 DEF RunningIsReleased, Running

\* A handler claims a run, or leaves its work to the registered runner.
LEMMA SubmitReleased ==
  ASSUME ReleasedInv, NEW p \in Procs, hpc[p] \notin Claiming,
         NEW claimed \in Claiming, NEW found, found \notin Claiming,
         Submit(p, claimed, found)
  PROVE  ClaimsAreHeld' /\ ClaimsAreDistinct' /\ RunningIsReleased'
<1>1. CASE HandOver(p, found)
  <2>1. hloc[p].run = NoRun
    BY DEF ReleasedInv, ClaimsAreHeld
  <2>2. \A q \in Procs : hloc'[q].run = hloc[q].run
    BY <1>1, <2>1 DEF HandOver, NoLocals, ReleasedInv, TypeOK, EntryTypeOK
  <2>3. reg'.run = reg.run
    BY <1>1 DEF HandOver, Wake, ReleasedInv, TypeOK, RegistryTypeOK
  <2>4. QED
    BY <1>1, <2>2, <2>3, MoveReleased DEF HandOver, runVars
<1>2. CASE \E r \in Runs : Claim(p, r, claimed)
  <2>1. PICK r \in Runs : Claim(p, r, claimed)
    BY <1>2
  <2>2. /\ epc[r] = "idle"
        /\ \A s \in Runs : epc'[s] = IF s = r THEN "claimed" ELSE epc[s]
        /\ \A q \in Procs : hloc'[q].run = IF q = p THEN r ELSE hloc[q].run
        /\ \A q \in Procs : hpc'[q] = IF q = p THEN claimed ELSE hpc[q]
        /\ reg'.run = r
    BY <2>1
    DEF Claim, Fresh, SubmitNew, ReleasedInv, TypeOK, RunTypeOK, EntryTypeOK
  <2>3. \A q \in Procs : hloc[q].run # r
    BY <2>2, NoRunAssumption DEF ReleasedInv, ClaimsAreHeld
  <2>4. r # NoRun
    BY NoRunAssumption
  <2>5. ClaimsAreHeld'
    BY <2>2, <2>3, <2>4 DEF ReleasedInv, ClaimsAreHeld
  <2>6. ClaimsAreDistinct'
    BY <2>2, <2>3 DEF ReleasedInv, ClaimsAreDistinct
  <2>7. RunningIsReleased'
    BY <2>2 DEF RunningIsReleased
  <2>8. QED
    BY <2>5, <2>6, <2>7
<1>3. QED
  BY <1>1, <1>2 DEF Submit

\* The senders and the reaper.
LEMMA EntryReleased ==
  ASSUME ReleasedInv,
         \/ \E m \in Msgs : \/ SendQueued(m) \/ SendChat(m)
                            \/ SenderStep(m) \/ EntryMishap(m)
         \/ ReaperStep
  PROVE  ClaimsAreHeld' /\ ClaimsAreDistinct' /\ RunningIsReleased'
<1> USE DEF At
<1>0. RegistryTypeOK
  BY DEF ReleasedInv, TypeOK
<1>1. PICK p \in Procs : \/ SendQueued(p) \/ SendChat(p) \/ SenderStep(p)
                         \/ EntryMishap(p) \/ Ensure(p)
                         \/ p = Reaper /\ ReaperPass
  <2>1. Reaper \in Procs /\ \A m \in Msgs : m \in Procs
    BY DEF Procs
  <2>2. QED
    BY <2>1, Zenon DEF ReaperStep
<1>2. CASE SendQueued(p)
  <2>1. \A q \in Procs : hloc'[q].run = hloc[q].run
    BY <1>2 DEF SendQueued, ReleasedInv, TypeOK, EntryTypeOK
  <2>2. QED
    BY <1>2, <2>1, MoveReleased
    DEF SendQueued, runVars, registryVars, Claiming
<1>3. CASE SendChat(p) \/ SubmitQueued(p) \/ ClaimConsumer(p)
  BY <1>3, SubmitReleased
  DEF SendChat, SubmitQueued, ClaimConsumer, AfterEntry, Claiming
<1>4. CASE TakeOwnRow(p) \/ SaveMessage(p) \/ TakeOldest(p)
  BY <1>4, LaunchReleased
  DEF TakeOwnRow, SaveMessage, TakeOldest, registryVars, Claiming
<1>5. CASE UndoClaim(p) \/ SaveFails(p) \/ ReleaseConsumer(p)
  BY <1>0, <1>5, AbandonReleased, KeepOrDrop
  DEF UndoClaim, SaveFails, ReleaseConsumer, Claiming
<1>6. CASE \/ OwnRowGone(p) \/ OwnRowUnreadable(p) \/ InsertMessage(p)
           \/ WakeRunner(p) \/ Refuse(p, "idle") \/ Refuse(p, "insert")
           \/ CheckShutdown(p) \/ NothingToTake(p)
           \/ p = Reaper /\ ReaperPass
  <2>1. /\ \E pc : Step(p, pc) /\ (pc \in Claiming <=> hpc[p] \in Claiming)
        /\ UNCHANGED <<epc, hloc>>
        /\ UNCHANGED registryVars \/ Wake
    BY <1>6
    DEF OwnRowGone, OwnRowUnreadable, InsertMessage, WakeRunner, Refuse,
        CheckShutdown, NothingToTake, ReaperPass, AfterEntry, runVars, Claiming
  <2>2. QED
    BY <1>0, <2>1, MoveReleased, KeepOrDrop
<1>7. QED
  BY <1>1, <1>2, <1>3, <1>4, <1>5, <1>6, Zenon
  DEF SenderStep, EntryMishap, Ensure

LEMMA NextReleased ==
  ASSUME ReleasedInv, [Next]_vars
  PROVE  ReleasedInv'
<1>0. TypeOK' /\ RegistryTypeOK
  BY NextTyped DEF ReleasedInv, TypeOK
<1>1. CASE \E r \in Runs : RunStep(r) \/ RunMishap(r)
  BY <1>0, <1>1, RunReleased DEF ReleasedInv
<1>2. CASE \/ \E m \in Msgs : \/ SendQueued(m) \/ SendChat(m)
                              \/ SenderStep(m) \/ EntryMishap(m)
           \/ ReaperStep
  BY <1>0, <1>2, EntryReleased DEF ReleasedInv
<1>3. CASE \/ CancelTake \/ CancelStep \/ InterruptCheck \/ InterruptStep
           \/ InjectTake \/ InjectAccepted \/ InjectDeclined \/ InjectStranded
           \/ EditQueue \/ MarkShuttingDown \/ SweepStep
  <2>1. /\ \/ UNCHANGED registryVars \/ Remove \/ ClearTurn
           \/ \E r \in Runs : CancelContext(r)
        /\ UNCHANGED <<epc, hpc, hloc>>
    BY <1>3, NoRunAssumption
    DEF CancelTake, CancelStep, CancelReason, CancelRun, CancelNotify,
        InterruptCheck, InterruptStep, InterruptRead, InterruptAct,
        InterruptReason, InterruptStop, InjectTake, InjectAccepted,
        InjectDeclined, InjectStranded, EditQueue, MarkShuttingDown, SweepStep,
        SweepSnapshot, SweepReason, SweepCancel, SweepRemove, runVars, entryVars,
        ReleasedInv, TypeOK, ControlTypeOK, NoCancel
  <2>2. QED
    BY <1>0, <2>1, KeepOrDrop, QuietRuns DEF ReleasedInv
<1>4. CASE Crash
  <2>1. reg'.run = NoRun /\ \A p \in Procs : hloc'[p].run = NoRun
    BY <1>4 DEF Crash, NoEntry, NoLocals
  <2>2. \A p \in Procs : hpc'[p] \notin Claiming
    BY <1>4 DEF Crash, Claiming
  <2>3. QED
    BY <1>0, <2>1, <2>2
    DEF ReleasedInv, ClaimsAreHeld, ClaimsAreDistinct, RunningIsReleased, Running
<1>5. CASE UNCHANGED vars
  <2>1. reg' = reg /\ UNCHANGED <<epc, hpc, hloc>>
    BY <1>5 DEF vars, registryVars, runVars, entryVars
  <2>2. QED
    BY <1>0, <2>1, QuietRuns DEF ReleasedInv
<1>6. QED
  BY <1>1, <1>2, <1>3, <1>4, <1>5 DEF Next

LEMMA InitReleased == Init => ReleasedInv
  BY InitTyped
  DEF Init, RegistryInit, NoEntry, NoLocals, ReleasedInv, ClaimsAreHeld,
      ClaimsAreDistinct, RunningIsReleased, Running, Claiming

\* A session that is reported as running has a goroutine that will still clear
\* that, or a request that claimed it and is on its way to launch or release it,
\* for any number of messages, runs and events.
THEOREM RunningIsAlwaysReleased == Spec => []RunningIsReleased
<1>1. Init => ReleasedInv
  BY InitReleased
<1>2. ReleasedInv => RunningIsReleased
  BY DEF ReleasedInv
<1>3. QED
  BY <1>1, <1>2, NextReleased, PTL DEF Spec
-----------------------------------------------------------------------------
(***************************************************************************)
(* An interrupt spares later turns.                                        *)
(*                                                                         *)
(* The registered turn is never newer than the last one handed out, so the *)
(* turn that is looked up is of that time; and what is stopped is what was *)
(* looked up, because a turn that was registered since does not match.     *)
(***************************************************************************)
TurnIsHandedOut == reg.turn <= turnSeq

SeenWhenLooked ==
  interrupting.pc \in {"act", "reason", "stop"} =>
    interrupting.seen <= interrupting.looked

SparesInv == TypeOK /\ TurnIsHandedOut /\ SeenWhenLooked

\* Nobody but the handler moves an interrupt; other steps keep the registered
\* turn or clear it.
LEMMA QuietSpares ==
  ASSUME SparesInv, UNCHANGED <<turnSeq, interrupting>>,
         \/ UNCHANGED registryVars \/ Wake \/ RetireRefused \/ Retire \/ Remove
         \/ FinishRun \/ ClearTurn
         \/ \E r \in Runs : SubmitNew(r) \/ CancelContext(r)
  PROVE  TurnIsHandedOut' /\ SeenWhenLooked'
<1>1. reg'.turn \in {reg.turn, 0} /\ turnSeq \in Nat
  BY DEF SparesInv, TypeOK, RegistryTypeOK, RunTypeOK, NoEntry, registryVars,
         Wake, RetireRefused, Retire, Remove, FinishRun, ClearTurn, SubmitNew,
         CancelContext
<1>2. QED
  BY <1>1 DEF SparesInv, TurnIsHandedOut, SeenWhenLooked

LEMMA InterruptSpares ==
  ASSUME SparesInv, InterruptCheck \/ InterruptStep
  PROVE  TurnIsHandedOut' /\ SeenWhenLooked'
<1>1. turnSeq' = turnSeq
  BY DEF InterruptCheck, InterruptStep, InterruptRead, InterruptAct,
         InterruptReason, InterruptStop, runVars
<1>2. turnSeq \in Nat /\ reg'.turn \in {reg.turn, 0}
  BY DEF SparesInv, TypeOK, RegistryTypeOK, RunTypeOK, InterruptCheck,
         InterruptStep, InterruptRead, InterruptAct, InterruptReason,
         InterruptStop, ClearTurn, registryVars
<1>3. SeenWhenLooked'
  <2> USE DEF SeenWhenLooked
  <2>1. interrupting \in [pc : {"idle", "read", "act", "reason", "stop"},
                          seen : Nat, found : Nat, looked : Nat]
    BY DEF SparesInv, TypeOK, ControlTypeOK
  <2>2. CASE InterruptCheck
    BY <1>2, <2>2 DEF InterruptCheck, NoInterrupt
  <2>3. CASE interrupting' = NoInterrupt
    BY <2>3 DEF NoInterrupt
  <2>4. CASE /\ interrupting.pc = "read"
             /\ interrupting' = [interrupting EXCEPT !.pc = "act",
                                   !.seen = reg.turn, !.looked = turnSeq]
    BY <2>1, <2>4 DEF SparesInv, TurnIsHandedOut
  <2>5. CASE \E pc : /\ interrupting.pc \in {"act", "reason"}
                     /\ interrupting' = [interrupting EXCEPT !.pc = pc]
    BY <2>1, <2>5 DEF SparesInv
  <2>6. QED
    BY <2>2, <2>3, <2>4, <2>5
    DEF InterruptStep, InterruptRead, InterruptAct, InterruptReason,
        InterruptStop
<1>4. QED
  BY <1>1, <1>2, <1>3 DEF SparesInv, TurnIsHandedOut

LEMMA NextSpares == ASSUME SparesInv, [Next]_vars PROVE SparesInv'
<1> USE DEF SparesInv
<1>0. TypeOK'
  BY NextTyped
<1>1. CASE \E r \in Runs : TurnStart(r)
  <2>1. /\ turnSeq' = turnSeq + 1
        /\ RegisterTurn(turnSeq + 1)
        /\ interrupting' = interrupting
    BY <1>1 DEF TurnStart, controlVars
  <2>2. turnSeq \in Nat /\ reg.turn \in Nat
    BY DEF TypeOK, RegistryTypeOK, RunTypeOK
  <2>3. reg'.turn \in {reg.turn, turnSeq + 1}
    BY <2>1 DEF RegisterTurn, TypeOK, RegistryTypeOK
  <2>4. QED
    BY <1>0, <2>1, <2>2, <2>3 DEF TurnIsHandedOut, SeenWhenLooked
<1>2. CASE \E r \in Runs : (RunStep(r) \/ RunMishap(r)) /\ ~TurnStart(r)
  <2>1. /\ \/ UNCHANGED registryVars \/ RetireRefused \/ Retire \/ Remove
           \/ FinishRun \/ ClearTurn
        /\ UNCHANGED <<turnSeq, interrupting>>
    BY <1>2
    DEF RunStep, RunMishap, TurnOpens, TurnFails, TurnEnds, Settle, OfferResume,
        Resume, Decide, Clear, ClearFails, Dequeue, DequeueUnusable,
        DequeueFails, DequeueEmpty, TryRetire, Mark, SendFinal, Panic, Finish,
        Recover, controlVars
  <2>2. QED
    BY <1>0, <2>1, QuietSpares
<1>3. CASE \/ \E m \in Msgs : \/ SendQueued(m) \/ SendChat(m)
                              \/ SenderStep(m) \/ EntryMishap(m)
           \/ ReaperStep
  <2> DEFINE Entered == /\ \/ UNCHANGED registryVars \/ Wake \/ Remove \/ FinishRun
                           \/ \E r \in Runs : SubmitNew(r)
                        /\ UNCHANGED <<turnSeq, interrupting>>
  <2>1. ASSUME NEW h, Ensure(h) PROVE Entered
    BY <2>1
    DEF Ensure, CheckShutdown, ClaimConsumer, TakeOldest, NothingToTake,
        ReleaseConsumer, Submit, HandOver, Claim, runVars, controlVars
  <2>2. ASSUME NEW m, \/ SubmitQueued(m) \/ TakeOwnRow(m) \/ OwnRowGone(m)
                      \/ UndoClaim(m) \/ OwnRowUnreadable(m)
        PROVE  Entered
    BY <2>2
    DEF SubmitQueued, TakeOwnRow, OwnRowGone, UndoClaim, OwnRowUnreadable,
        Submit, HandOver, Claim, runVars, controlVars
  <2>3. ASSUME NEW m, \/ SendQueued(m) \/ SendChat(m) \/ SaveMessage(m)
                      \/ SaveFails(m) \/ InsertMessage(m) \/ WakeRunner(m)
                      \/ Refuse(m, "idle") \/ Refuse(m, "insert")
        PROVE  Entered
    BY <2>3
    DEF SendQueued, SendChat, SaveMessage, SaveFails, InsertMessage, WakeRunner,
        Refuse, Submit, HandOver, Claim, runVars, controlVars
  <2>4. ReaperPass => Entered
    BY DEF ReaperPass, runVars, controlVars
  <2>5. Entered
    BY <1>3, <2>1, <2>2, <2>3, <2>4 DEF SenderStep, EntryMishap, ReaperStep
  <2>6. QED
    BY <1>0, <2>5, QuietSpares
<1>4. CASE \/ CancelTake \/ CancelStep
           \/ InjectTake \/ InjectAccepted \/ InjectDeclined \/ InjectStranded
           \/ EditQueue \/ MarkShuttingDown \/ SweepStep
  <2>1. /\ \/ UNCHANGED registryVars \/ Remove
           \/ \E r \in Runs : CancelContext(r)
        /\ UNCHANGED <<turnSeq, interrupting>>
    BY <1>4, NoRunAssumption
    DEF CancelTake, CancelStep, CancelReason, CancelRun, CancelNotify,
        InjectTake, InjectAccepted, InjectDeclined, InjectStranded, EditQueue,
        MarkShuttingDown, SweepStep, SweepSnapshot, SweepReason, SweepCancel,
        SweepRemove, runVars, controlVars, TypeOK, ControlTypeOK, NoCancel
  <2>2. QED
    BY <1>0, <2>1, QuietSpares
<1>5. CASE InterruptCheck \/ InterruptStep
  BY <1>0, <1>5, InterruptSpares
<1>6. CASE Crash
  BY <1>0, <1>6
  DEF Crash, NoEntry, NoInterrupt, TurnIsHandedOut, SeenWhenLooked
<1>7. CASE UNCHANGED vars
  BY <1>0, <1>7, QuietSpares DEF vars, runVars, controlVars
<1>8. QED
  BY <1>1, <1>2, <1>3, <1>4, <1>5, <1>6, <1>7 DEF Next

\* "Interrupt and send" stops no turn that started after the handler looked up
\* the current one, for any number of messages, runs and events.
THEOREM InterruptSparesEveryLaterTurn == Spec => []InterruptSparesLaterTurns
<1>1. Init => SparesInv
  BY InitTyped
  DEF Init, RegistryInit, NoEntry, NoInterrupt, SparesInv, TurnIsHandedOut,
      SeenWhenLooked
<1>2. SparesInv => InterruptSparesLaterTurns
  BY DEF SparesInv, SeenWhenLooked, InterruptSparesLaterTurns
<1>3. QED
  BY <1>1, <1>2, NextSpares, PTL DEF Spec
=============================================================================
