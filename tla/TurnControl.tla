---------------------------- MODULE TurnControl -----------------------------
(***************************************************************************)
(* Everything that reaches into a session from outside its own loop:       *)
(* CancelSession, "interrupt and send", "insert into the current reply",   *)
(* the queue panel's edits, graceful shutdown, and a crash.                *)
(* At most one request of each kind is in progress.                        *)
(***************************************************************************)
EXTENDS SessionState

-----------------------------------------------------------------------------
(***************************************************************************)
(* CancelSession                                                           *)
(***************************************************************************)

\* A bug: the runner is looked up, not taken.
PeekToCancel ==
  /\ cancelling.pc = "idle"
  /\ Running
  /\ Rare("cancel")
  /\ cancelling' = [pc |-> "reason", run |-> reg.run]
  /\ aimed' = aimed \cup {reg.run}
  /\ UNCHANGED <<storeVars, registryVars, runVars, slotVars, entryVars,
                 interrupting, injecting, stopping, turns, lost>>

\* takeRunner: the session stops running here.
CancelTake ==
  /\ cancelling.pc = "idle"
  /\ Running
  /\ Rare("cancel")
  /\ Remove
  /\ cancelling' = [pc |-> "reason", run |-> reg.run]
  /\ aimed' = aimed \cup {reg.run}
  /\ UNCHANGED <<storeVars, runVars, slotVars, entryVars, interrupting,
                 injecting, stopping, turns, lost>>

CancelReason ==
  /\ cancelling.pc = "reason"
  /\ reason' = "user"
  /\ cancelling' = [cancelling EXCEPT !.pc = "cancel"]
  /\ UNCHANGED <<storeVars, registryVars, runVars, pushDone, entryVars,
                 interrupting, injecting, stopping, left, historyVars>>

CancelRun ==
  /\ cancelling.pc = "cancel"
  /\ CancelContext(cancelling.run)
  /\ cancelling' = [cancelling EXCEPT !.pc = "notify"]
  /\ UNCHANGED <<storeVars, runVars, slotVars, entryVars, interrupting,
                 injecting, stopping, left, historyVars>>

\* markTerminalPushDone, and the cancelled event if it won.
CancelNotify ==
  /\ cancelling.pc = "notify"
  /\ pushDone' = TRUE
  /\ cancelling' = NoCancel
  /\ UNCHANGED <<storeVars, registryVars, runVars, reason, entryVars,
                 interrupting, injecting, stopping, left, historyVars>>

CancelStep == CancelReason \/ CancelRun \/ CancelNotify

-----------------------------------------------------------------------------
(***************************************************************************)
(* QueueInterruptHandler.  found and looked are history fields: the newest *)
(* turn id when the clicked message was found in the queue, and when the   *)
(* current turn was looked up.                                             *)
(***************************************************************************)
InterruptCheck ==
  /\ interrupting.pc = "idle"
  /\ queued # {}
  /\ Rare("interrupt")
  /\ interrupting' = [NoInterrupt EXCEPT !.pc = "read", !.found = turnSeq]
  /\ UNCHANGED <<storeVars, registryVars, runVars, slotVars, entryVars,
                 cancelling, injecting, stopping, historyVars>>

\* CurrentTurnID
InterruptRead ==
  /\ interrupting.pc = "read"
  /\ interrupting' = IF reg.turn = 0 THEN NoInterrupt
                     ELSE [interrupting EXCEPT !.pc = "act", !.seen = reg.turn,
                                               !.looked = turnSeq]
  /\ UNCHANGED <<storeVars, registryVars, runVars, slotVars, entryVars,
                 cancelling, injecting, stopping, left, historyVars>>

\* A bug: whatever turn is registered now is taken.
TakeAnyTurn ==
  /\ interrupting.pc = "act"
  /\ ClearTurn
  /\ interrupting' = IF reg.turn = 0 THEN NoInterrupt
                     ELSE [interrupting EXCEPT !.pc = "reason", !.seen = reg.turn]
  /\ UNCHANGED <<storeVars, runVars, slotVars, entryVars, cancelling, injecting,
                 stopping, left, historyVars>>

\* InterruptSessionTurnIfCurrent up to its unlock.
InterruptAct ==
  /\ interrupting.pc = "act"
  /\ IF reg.turn = interrupting.seen
       THEN ClearTurn /\ interrupting' = [interrupting EXCEPT !.pc = "reason"]
       ELSE UNCHANGED registryVars /\ interrupting' = NoInterrupt
  /\ UNCHANGED <<storeVars, runVars, slotVars, entryVars, cancelling, injecting,
                 stopping, left, historyVars>>

\* LoadOrStore: an earlier reason stays.
InterruptReason ==
  /\ interrupting.pc = "reason"
  /\ reason' = IF reason = "none" THEN "interrupt" ELSE reason
  /\ interrupting' = [interrupting EXCEPT !.pc = "stop"]
  /\ UNCHANGED <<storeVars, registryVars, runVars, pushDone, entryVars,
                 cancelling, injecting, stopping, left, historyVars>>

\* The turn's own cancel func, which does nothing once the turn is over.
InterruptStop ==
  /\ interrupting.pc = "stop"
  /\ exec' = [r \in Runs |-> IF exec[r].turn = interrupting.seen
                               THEN [exec[r] EXCEPT !.stopped = TRUE]
                               ELSE exec[r]]
  /\ interrupting' = NoInterrupt
  /\ UNCHANGED <<storeVars, registryVars, turnSeq, epc, slotVars, entryVars,
                 cancelling, injecting, stopping, left, historyVars>>

InterruptStep ==
  InterruptRead \/ InterruptAct \/ InterruptReason \/ InterruptStop

-----------------------------------------------------------------------------
(***************************************************************************)
(* InjectQueuedMessage                                                     *)
(***************************************************************************)

\* A bug: the row is read, and stays in the queue while the backend is asked.
InjectPeek ==
  /\ injecting.pc = "idle"
  /\ Rare("inject")
  /\ \E row \in queued :
       injecting' = [pc |-> "asking", row |-> row, msg |-> lastMsg + 1]
  /\ UNCHANGED <<storeVars, registryVars, runVars, slotVars, entryVars,
                 cancelling, interrupting, stopping, historyVars>>

\* ClaimByQueueIDAndMaterialize
InjectTake ==
  /\ injecting.pc = "idle"
  /\ Rare("inject")
  /\ \E row \in queued :
       /\ Materialize(row)
       /\ injecting' = [pc |-> "asking", row |-> row, msg |-> lastMsg + 1]
  /\ UNCHANGED <<registryVars, runVars, slotVars, entryVars, cancelling,
                 interrupting, stopping, historyVars>>

\* The backend steers the message into a turn that is streaming.
InjectAccepted ==
  /\ injecting.pc = "asking"
  /\ \E r \in Runs : epc[r] = "turn"
  /\ turns' = [m \in Msgs |-> IF m \in injecting.row.parts THEN turns[m] + 1
                                                           ELSE turns[m]]
  /\ injecting' = NoInject
  /\ UNCHANGED <<storeVars, registryVars, runVars, slotVars, entryVars,
                 cancelling, interrupting, stopping, left, aimed, lost>>

\* A bug: the declined message stays in the history, with no turn to answer it.
ForgetDeclined ==
  /\ injecting.pc = "asking"
  /\ injecting' = NoInject
  /\ UNCHANGED <<storeVars, registryVars, runVars, slotVars, entryVars,
                 cancelling, interrupting, stopping, left, historyVars>>

\* Declined: requeueWithRetry.  No runner is woken.
InjectDeclined ==
  /\ injecting.pc = "asking"
  /\ Requeue(injecting.row, injecting.msg)
  /\ injecting' = NoInject
  /\ UNCHANGED <<registryVars, runVars, slotVars, entryVars, cancelling,
                 interrupting, stopping, left, historyVars>>

\* Declined, and the requeue fails too (ErrMessageStranded): no event of its
\* own, since each insertion is one already.
InjectStranded ==
  /\ injecting.pc = "asking"
  /\ "fault" \in Events
  /\ lost' = lost \cup injecting.row.parts
  /\ injecting' = NoInject
  /\ UNCHANGED <<storeVars, registryVars, runVars, slotVars, entryVars,
                 cancelling, interrupting, stopping, left, turns, aimed>>

-----------------------------------------------------------------------------
\* The queue panel: delete one, delete all, merge.
EditQueue ==
  /\ Rare("edit")
  /\ \/ \E row \in queued : CancelQueued(row)
     \/ queued # {} /\ ClearQueued
     \/ MergeQueued
  /\ UNCHANGED <<registryVars, runVars, slotVars, entryVars, controlVars,
                 historyVars>>

-----------------------------------------------------------------------------
(***************************************************************************)
(* Shutdown: MarkShuttingDown, then CancelAllSessions over a snapshot      *)
(***************************************************************************)
MarkShuttingDown ==
  /\ stopping.pc = "no"
  /\ Rare("shutdown")
  /\ stopping' = [stopping EXCEPT !.pc = "snapshot"]
  /\ UNCHANGED <<storeVars, registryVars, runVars, slotVars, entryVars,
                 cancelling, interrupting, injecting, historyVars>>

SweepSnapshot ==
  /\ stopping.pc = "snapshot"
  /\ IF Running
       THEN /\ stopping' = [pc |-> "reason", run |-> reg.run]
            /\ aimed' = aimed \cup {reg.run}
       ELSE stopping' = [stopping EXCEPT !.pc = "done"] /\ UNCHANGED aimed
  /\ UNCHANGED <<storeVars, registryVars, runVars, slotVars, entryVars,
                 cancelling, interrupting, injecting, left, turns, lost>>

SweepReason ==
  /\ stopping.pc = "reason"
  /\ reason' = "restart"
  /\ stopping' = [stopping EXCEPT !.pc = "cancel"]
  /\ UNCHANGED <<storeVars, registryVars, runVars, pushDone, entryVars,
                 cancelling, interrupting, injecting, left, historyVars>>

SweepCancel ==
  /\ stopping.pc = "cancel"
  /\ CancelContext(stopping.run)
  /\ stopping' = [stopping EXCEPT !.pc = "remove"]
  /\ UNCHANGED <<storeVars, runVars, slotVars, entryVars, cancelling,
                 interrupting, injecting, left, historyVars>>

\* removeRunner, by session id: the runner that is registered now.
SweepRemove ==
  /\ stopping.pc = "remove"
  /\ Remove
  /\ stopping' = [pc |-> "done", run |-> NoRun]
  /\ UNCHANGED <<storeVars, runVars, slotVars, entryVars, cancelling,
                 interrupting, injecting, left, historyVars>>

SweepStep == SweepSnapshot \/ SweepReason \/ SweepCancel \/ SweepRemove

-----------------------------------------------------------------------------
(***************************************************************************)
(* The process dies and starts again: only the tables survive.  A message  *)
(* in the history whose turn had not started is lost to the queue, a       *)
(* request in progress is lost to its client.                              *)
(***************************************************************************)
Held ==
  {m \in Msgs : \/ \E r \in Runs : m \in exec[r].work
                \/ injecting.pc = "asking" /\ m \in injecting.row.parts}

Crash ==
  /\ Rare("crash")
  /\ reg' = NoEntry
  /\ ctxDone' = {}
  /\ turnSeq' = 0
  /\ epc' = [r \in Runs |-> "idle"]
  /\ exec' = [r \in Runs |-> NotStarted]
  /\ reason' = "none"
  /\ pushDone' = FALSE
  /\ hpc' = [p \in Procs |-> IF p # Reaper /\ hpc[p] # "idle" THEN "done"
                                                              ELSE "idle"]
  /\ hloc' = [p \in Procs |-> NoLocals]
  /\ cancelling' = NoCancel
  /\ interrupting' = NoInterrupt
  /\ injecting' = NoInject
  /\ stopping' = [pc |-> "no", run |-> NoRun]
  /\ aimed' = {}
  /\ lost' = lost \cup Held
  /\ UNCHANGED <<storeVars, turns>>
=============================================================================
