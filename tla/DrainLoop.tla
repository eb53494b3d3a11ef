----------------------------- MODULE DrainLoop ------------------------------
(***************************************************************************)
(* The execution goroutine of a run: its first turn, then RunDrainLoop     *)
(* until the queue is empty or a turn ends the loop (drain.go, run_turn.go,*)
(* the goroutines of session_command.go and handler/chat.go).              *)
(*                                                                         *)
(*   start -> open -> turn -> settle -> hooks -> dequeue -> retire -> mark *)
(*                                                                         *)
(* What the agent answers is not modelled, only how a turn ends.           *)
(***************************************************************************)
EXTENDS SessionState

Goto(r, pc) == epc' = [epc EXCEPT ![r] = pc]

\* The turn's context descends from the run's: either cancel ends the turn.
TurnDead(r) == exec[r].stopped \/ r \in ctxDone

-----------------------------------------------------------------------------
(***************************************************************************)
(* One turn (runTurn)                                                      *)
(***************************************************************************)

\* runTurnStart up to the backend: the turn is registered for interrupts.
TurnStart(r) ==
  /\ epc[r] = "start"
  /\ Goto(r, "open")
  /\ turnSeq' = turnSeq + 1
  /\ RegisterTurn(turnSeq + 1)
  /\ exec' = [exec EXCEPT ![r].turn = turnSeq + 1, ![r].stopped = FALSE,
                          ![r].outcome = "ok", ![r].abnormal = FALSE,
                          ![r].work = {}]
  /\ turns' = [m \in Msgs |-> IF m \in exec[r].work THEN turns[m] + 1
                                                    ELSE turns[m]]
  /\ UNCHANGED <<storeVars, slotVars, entryVars, controlVars, left, aimed, lost>>

\* The backend streams: RunWithChannel consumes its events.
TurnOpens(r) ==
  /\ epc[r] = "open"
  /\ Goto(r, "turn")
  /\ UNCHANGED <<storeVars, registryVars, turnSeq, exec, slotVars, entryVars,
                 controlVars, left, historyVars>>

\* failTurn: no backend, no stream or no placeholder row.  Neither the cancel
\* reason nor the turn registration is cleared.
TurnFails(r) ==
  /\ epc[r] = "open"
  /\ Goto(r, "hooks")
  /\ exec' = [exec EXCEPT ![r].outcome = "err", ![r].turn = 0]
  /\ UNCHANGED <<storeVars, registryVars, turnSeq, slotVars, entryVars,
                 controlVars, left, historyVars>>

\* buildResult: the event loop is left (terminal event, closed channel or
\* cancelled context) and the session's reason slot is read and cleared.
\* Without a reason the turn is empty, abnormal (died, retryable warning), both
\* or neither.
TurnEnds(r) ==
  /\ epc[r] = "turn"
  /\ Goto(r, "settle")
  /\ IF reason # "none"
       THEN exec' = [exec EXCEPT ![r].outcome = reason]
       ELSE \E ending \in {<<"ok", FALSE>>, <<"ok", TRUE>>, <<"empty", TRUE>>} :
              exec' = [exec EXCEPT ![r].outcome = ending[1],
                                   ![r].abnormal = ending[2]]
  /\ reason' = "none"
  /\ UNCHANGED <<storeVars, registryVars, turnSeq, pushDone, entryVars,
                 controlVars, left, historyVars>>

\* The switch of runTurnFinalize.  A restart reason has no case of its own: it
\* stays if the shutdown has yet to cancel the context.
Classify(r) ==
  IF TurnDead(r) /\ exec[r].outcome \notin {"user", "interrupt"} THEN "cancel"
  ELSE exec[r].outcome

\* UnregisterSessionTurnCancel, then Finalize and the classification.
Settle(r) ==
  /\ epc[r] = "settle"
  /\ Goto(r, "hooks")
  /\ ClearTurn
  /\ exec' = [exec EXCEPT ![r].outcome = Classify(r), ![r].turn = 0]
  /\ UNCHANGED <<storeVars, turnSeq, slotVars, entryVars, controlVars, left,
                 historyVars>>

-----------------------------------------------------------------------------
(***************************************************************************)
(* The loop (RunDrainLoop)                                                 *)
(***************************************************************************)

\* resumeBeforeTerminal: auto-continue takes an abnormal turn, cruise a clean
\* one, if nothing is queued and the session is still running.
OfferResume(r) ==
  /\ epc[r] = "hooks"
  /\ exec[r].abnormal \/ exec[r].outcome = "ok"
  /\ queued = {}
  /\ Running
  /\ r \notin ctxDone
  /\ Rare("resume")
  /\ Goto(r, "delay")
  /\ UNCHANGED <<storeVars, registryVars, turnSeq, exec, slotVars, entryVars,
                 controlVars, historyVars>>

\* The hook's check after its delay, then a turn of its own, with no message.
Resume(r) ==
  /\ epc[r] = "delay"
  /\ r \notin ctxDone
  /\ Running
  /\ Goto(r, "start")
  /\ UNCHANGED <<storeVars, registryVars, turnSeq, exec, slotVars, entryVars,
                 controlVars, left, historyVars>>

\* drainHandleTerminal, once the hooks declined.
AfterTurn(outcome) ==
  CASE outcome \in {"user", "err", "empty"} -> "clear"
    [] outcome \in {"cancel", "restart"} -> "mark"
    [] OTHER -> "dequeue"

Decide(r) ==
  /\ \/ epc[r] = "hooks"
     \/ epc[r] = "delay" /\ (r \in ctxDone \/ ~Running)
  /\ Goto(r, AfterTurn(exec[r].outcome))
  /\ UNCHANGED <<storeVars, registryVars, turnSeq, exec, slotVars, entryVars,
                 controlVars, left, historyVars>>

\* clearQueueAndEmitCancel, and the clear of abortDrain.
Clear(r) ==
  /\ epc[r] = "clear"
  /\ ClearQueued
  /\ Goto(r, "mark")
  /\ UNCHANGED <<registryVars, turnSeq, exec, slotVars, entryVars, controlVars,
                 left, historyVars>>

\* ... whose error the loop ignores.
ClearFails(r) ==
  /\ epc[r] = "clear"
  /\ Rare("fault")
  /\ Goto(r, "mark")
  /\ UNCHANGED <<storeVars, registryVars, turnSeq, exec, slotVars, entryVars,
                 controlVars, historyVars>>

\* dequeueQueuedMessage: the oldest row, then its turn.
Dequeue(r) ==
  /\ epc[r] = "dequeue"
  /\ \E row \in queued :
       /\ Oldest(row)
       /\ Materialize(row)
       /\ exec' = [exec EXCEPT ![r].work = row.parts, ![r].fails = 0]
  /\ Goto(r, "start")
  /\ UNCHANGED <<registryVars, turnSeq, slotVars, entryVars, controlVars, left,
                 historyVars>>

\* ... whose request cannot be built (buildChatRequestFromQueue): the message
\* is in the history but gets no turn, and the loop ends with an error.
DequeueUnusable(r) ==
  /\ epc[r] = "dequeue"
  /\ Rare("fault")
  /\ \E row \in queued :
       /\ Oldest(row)
       /\ Materialize(row)
       /\ lost' = lost \cup row.parts
  /\ exec' = [exec EXCEPT ![r].outcome = "err", ![r].abnormal = FALSE,
                          ![r].fails = 0]
  /\ Goto(r, "hooks")
  /\ UNCHANGED <<registryVars, turnSeq, slotVars, entryVars, controlVars,
                 turns, aimed>>

\* retryDequeueAfterError: try again, or abortDrain.
DequeueFails(r) ==
  /\ epc[r] = "dequeue"
  /\ Rare("fault")
  /\ exec' = [exec EXCEPT ![r].fails = @ + 1]
  /\ Goto(r, IF exec[r].fails + 1 >= MaxDequeueRetries THEN "clear" ELSE "dequeue")
  /\ UNCHANGED <<storeVars, registryVars, turnSeq, slotVars, entryVars,
                 controlVars, historyVars>>

DequeueEmpty(r) ==
  /\ epc[r] = "dequeue"
  /\ queued = {}
  /\ Goto(r, "retire")
  /\ UNCHANGED <<storeVars, registryVars, turnSeq, exec, slotVars, entryVars,
                 controlVars, left, historyVars>>

\* A bug: the runner leaves although work arrived since it looked.
RetireIgnoringWake(r) ==
  /\ epc[r] = "retire"
  /\ Remove
  /\ exec' = [exec EXCEPT ![r].outcome = "done"]
  /\ Goto(r, "mark")
  /\ UNCHANGED <<storeVars, turnSeq, slotVars, entryVars, controlVars, left,
                 historyVars>>

\* retireRunner, and the loop's decision on its answer.
TryRetire(r) ==
  /\ epc[r] = "retire"
  /\ \/ RetireRefused /\ Goto(r, "dequeue") /\ UNCHANGED exec
     \/ /\ Retire
        /\ exec' = [exec EXCEPT ![r].outcome = "done"]
        /\ Goto(r, "mark")
  /\ UNCHANGED <<storeVars, turnSeq, slotVars, entryVars, controlVars, left,
                 historyVars>>

-----------------------------------------------------------------------------
(***************************************************************************)
(* The end of the goroutine                                                *)
(***************************************************************************)

\* markDoneAndSendFinal, first half: SetSessionRunning(false).
Mark(r) ==
  /\ epc[r] = "mark"
  /\ Remove
  /\ Goto(r, "final")
  /\ UNCHANGED <<storeVars, turnSeq, exec, slotVars, entryVars, controlVars,
                 left, historyVars>>

\* Second half: the terminal event, and for "done" the push, which is sent on
\* this goroutine by the first terminal state only.
SendFinal(r) ==
  /\ epc[r] = "final"
  /\ pushDone' = (pushDone \/ exec[r].outcome = "done")
  /\ Goto(r, "finish")
  /\ UNCHANGED <<storeVars, registryVars, turnSeq, exec, reason, entryVars,
                 controlVars, left, historyVars>>

\* The agent code of a turn panics: the deferred calls run.
Panic(r) ==
  /\ epc[r] \in {"open", "turn", "settle"}
  /\ Rare("fault")
  /\ exec' = [exec EXCEPT ![r].outcome = "panic"]
  /\ Goto(r, "finish")
  /\ UNCHANGED <<storeVars, registryVars, turnSeq, slotVars, entryVars,
                 controlVars, historyVars>>

\* The deferred FinishSessionRun.
Finish(r) ==
  /\ epc[r] = "finish"
  /\ FinishRun
  /\ IF exec[r].outcome = "panic"
       THEN Goto(r, "panicked") /\ UNCHANGED exec
       ELSE Goto(r, "idle") /\ exec' = [exec EXCEPT ![r] = NotStarted]
  /\ UNCHANGED <<storeVars, turnSeq, slotVars, entryVars, controlVars, left,
                 historyVars>>

\* handleSessionPanic: FinishSessionRun once more, and a cancelled push.
Recover(r) ==
  /\ epc[r] = "panicked"
  /\ FinishRun
  /\ pushDone' = TRUE
  /\ exec' = [exec EXCEPT ![r] = NotStarted]
  /\ Goto(r, "idle")
  /\ UNCHANGED <<storeVars, turnSeq, reason, entryVars, controlVars, left,
                 historyVars>>

-----------------------------------------------------------------------------
\* The steps the scheduler and the agent's timeouts guarantee.
RunStep(r) ==
  \/ TurnStart(r) \/ TurnOpens(r) \/ TurnEnds(r) \/ Settle(r)
  \/ Resume(r) \/ Decide(r) \/ Clear(r)
  \/ Dequeue(r) \/ DequeueEmpty(r) \/ TryRetire(r)
  \/ Mark(r) \/ SendFinal(r) \/ Finish(r) \/ Recover(r)

\* The steps that may or may not happen.
RunMishap(r) ==
  \/ TurnFails(r) \/ OfferResume(r) \/ ClearFails(r)
  \/ DequeueUnusable(r) \/ DequeueFails(r) \/ Panic(r)
=============================================================================
