--------------------------- MODULE TaskExecution ---------------------------
(***************************************************************************)
(* Scheduler.executeTask, step by step, from the trigger's claim to the    *)
(* deferred release of the running flag.                                   *)
(*                                                                         *)
(*   free -> claim -> begin (-> script -> scripted -> create)              *)
(*     -> adopt -> store -> turn -> classify (-> backoff -> turn)          *)
(*     -> settle -> forget -> stats | advance -> unregister -> write       *)
(*     -> release -> over                                                  *)
(*                                                                         *)
(* The task row that executeTask works with is the one its trigger read:   *)
(* snap[e] is what it still uses of it after the claim.                    *)
(***************************************************************************)
EXTENDS TaskState

CONSTANTS
  HasScript,    \* the task has a gating script
  MaxRetries    \* ChatAutoContinueMaxRetries

ASSUME ExecutionAssumption == HasScript \in BOOLEAN /\ MaxRetries \in Nat

VARIABLES
  pc,        \* pc[e]: where the goroutine of e is
  snap,      \* snap[e]: mode and expr of the row that was read for e
  fromQueue, \* the executions that the event queue's goroutine runs
  attempt,   \* attempt[e]: turns started so far
  outcome,   \* outcome[e]: how the execution ended; unstarted: no turn began
  newStatus  \* newStatus[e]: what advanceTaskAfterRun decided to write

execVars == <<pc, snap, fromQueue, attempt, outcome, newStatus>>

\* The states in which the execution holds the task's running flag.
Before == {"free", "claim", "over"}
Holding == {"begin", "pausing", "script", "scripted", "skip", "create", "adopt", "store",
            "turn", "classify", "backoff", "settle", "forget", "stats", "advance",
            "unregister", "write", "panicked", "release"}
\* ... in which its turn is under way, or may be resumed.
InTurn == {"turn", "classify", "backoff"}
\* ... in which it is between reading and writing the task's status.
Advancing == {"pausing", "unregister", "write"}

NoSnap == [mode |-> "cron", expr |-> TRUE]

ExecTypeOK ==
  /\ pc \in [Execs -> Before \cup Holding]
  /\ snap \in [Execs -> [mode : AllModes, expr : BOOLEAN]]
  /\ fromQueue \subseteq Execs
  /\ attempt \in [Execs -> Nat]
  /\ outcome \in [Execs -> {"none", "unstarted", "completed", "failed", "cancelled", "skipped"}]
  /\ newStatus \in [Execs -> Statuses]

ExecInit ==
  /\ pc = [e \in Execs |-> "free"]
  /\ snap = [e \in Execs |-> NoSnap]
  /\ fromQueue = {}
  /\ attempt = [e \in Execs |-> 0]
  /\ outcome = [e \in Execs |-> "none"]
  /\ newStatus = [e \in Execs |-> "active"]

Goto(e, s) == pc' = [pc EXCEPT ![e] = s]
EndAs(e, o) == outcome' = [outcome EXCEPT ![e] = o]
\* The loop over the turns is left.
LeaveLoop(e, o) ==
  EndAs(e, o) /\ Goto(e, "settle") /\ attempt' = [attempt EXCEPT ![e] = 0]

\* A trigger has read the row (GetTaskByID) and goes on to the claim.
Read(e) ==
  /\ task.exists
  /\ Goto(e, "claim")
  /\ snap' = [snap EXCEPT ![e] = [mode |-> task.mode, expr |-> task.expr]]
  /\ UNCHANGED <<attempt, outcome, newStatus>>

\* The claim succeeds and executeTask begins.
Claimed(e) ==
  /\ pc[e] = "claim"
  /\ ClaimTask
  /\ Goto(e, "begin")
  /\ UNCHANGED <<taskVars, scriptEntry, aiEntries, registry, ctxDone,
                 snap, fromQueue, attempt, outcome, newStatus>>

\* The task is running already: nothing is started.
Refused(e) ==
  /\ pc[e] = "claim" /\ taskRunning
  /\ Goto(e, "free")
  /\ snap' = [snap EXCEPT ![e] = NoSnap]
  /\ fromQueue' = fromQueue \ {e}
  /\ UNCHANGED <<stateVars, attempt, outcome, newStatus>>

-----------------------------------------------------------------------------
(***************************************************************************)
(* Before the turn                                                         *)
(***************************************************************************)

\* The agent is gone: PauseTask drops the cron entry, then writes the status.
AgentMissing(e) ==
  /\ pc[e] = "begin"
  /\ RemoveCron
  /\ Goto(e, "pausing")
  /\ UNCHANGED <<task, row, runningVars, snap, fromQueue, attempt, outcome, newStatus>>

PausingWrite(e) ==
  /\ pc[e] = "pausing"
  /\ UpdateRow([task EXCEPT !.status = "paused"])
  /\ Goto(e, "release")
  /\ UNCHANGED <<row, entry, jobs, runningVars, snap, fromQueue, attempt, outcome, newStatus>>

\* The task has a script and is not event-triggered: the script is registered.
BeginScript(e) ==
  /\ pc[e] = "begin" /\ HasScript /\ snap[e].mode # "event"
  /\ scriptEntry' = e
  /\ Goto(e, "script")
  /\ UNCHANGED <<taskVars, taskRunning, aiEntries, registry, ctxDone,
                 snap, fromQueue, attempt, outcome, newStatus>>

\* RunTaskScript returns: a done context always means cancelled.
ScriptReturns(e) ==
  /\ pc[e] = "script"
  /\ \E o \in {"none", "skipped", "cancelled"} :
       /\ (o = "cancelled") <=> (e \in ctxDone)
       /\ EndAs(e, o)
  /\ Goto(e, "scripted")
  /\ UNCHANGED <<stateVars, snap, fromQueue, attempt, newStatus>>

\* A bug: the script's entry is not deleted.
ScriptKept(e) ==
  /\ pc[e] = "scripted"
  /\ Goto(e, IF outcome[e] = "none" THEN "create" ELSE "skip")
  /\ UNCHANGED <<stateVars, snap, fromQueue, attempt, outcome, newStatus>>

\* runningExecutions.Delete, then the gate: outcome none opens it.
ScriptForgotten(e) ==
  /\ pc[e] = "scripted"
  /\ scriptEntry' = NoExec
  /\ Goto(e, IF outcome[e] = "none" THEN "create" ELSE "skip")
  /\ UNCHANGED <<taskVars, taskRunning, aiEntries, registry, ctxDone,
                 snap, fromQueue, attempt, outcome, newStatus>>

\* AddTaskExecutionWithStatus, then finishScriptOnlyRun.
RecordSkip(e) ==
  /\ pc[e] = "skip"
  /\ row' = [row EXCEPT ![e] = outcome[e]]
  /\ Goto(e, IF outcome[e] = "cancelled" THEN "stats" ELSE "advance")
  /\ UNCHANGED <<task, entry, jobs, runningVars, snap, fromQueue, attempt, outcome, newStatus>>

\* The gate is open, or there is none.
AtSession(e) ==
  pc[e] = "create" \/ (pc[e] = "begin" /\ (~HasScript \/ snap[e].mode = "event"))

\* CreateSessionWithLockedTitle fails: nothing was recorded yet.
CreateFails(e) ==
  /\ AtSession(e)
  /\ Goto(e, "release")
  /\ UNCHANGED <<stateVars, snap, fromQueue, attempt, outcome, newStatus>>

\* The session is created, AddTaskExecution inserts the row.
CreateSession(e) ==
  /\ AtSession(e)
  /\ row' = [row EXCEPT ![e] = "running"]
  /\ Goto(e, "adopt")
  /\ UNCHANGED <<task, entry, jobs, runningVars, snap, fromQueue, attempt, outcome, newStatus>>

\* RegisterExternalExecution.
Adopt(e) ==
  /\ pc[e] = "adopt"
  /\ registry' = registry \cup {e}
  /\ Goto(e, "store")
  /\ UNCHANGED <<taskVars, taskRunning, scriptEntry, aiEntries, ctxDone,
                 snap, fromQueue, attempt, outcome, newStatus>>

\* runningExecutions.Store, then the first turn.
Store(e) ==
  /\ pc[e] = "store"
  /\ aiEntries' = aiEntries \cup {e}
  /\ Goto(e, "turn")
  /\ attempt' = [attempt EXCEPT ![e] = 1]
  /\ UNCHANGED <<taskVars, taskRunning, scriptEntry, registry, ctxDone,
                 snap, fromQueue, outcome, newStatus>>

-----------------------------------------------------------------------------
(***************************************************************************)
(* The turn and its repetitions                                            *)
(***************************************************************************)

\* runTurnStart could not start the turn: never retried.
NotStarted(e) ==
  /\ pc[e] = "turn"
  /\ LeaveLoop(e, "unstarted")
  /\ UNCHANGED <<stateVars, snap, fromQueue, newStatus>>

\* A bug: the context is not looked at after the turn.
EndTurnUnchecked(e) ==
  /\ pc[e] = "turn"
  /\ Goto(e, "classify")
  /\ UNCHANGED <<stateVars, snap, fromQueue, attempt, outcome, newStatus>>

\* The event loop is over and the context is live.
EndTurn(e) ==
  /\ pc[e] = "turn" /\ e \notin ctxDone
  /\ Goto(e, "classify")
  /\ UNCHANGED <<stateVars, snap, fromQueue, attempt, outcome, newStatus>>

\* ... or the context was cancelled.
EndCancelled(e) ==
  /\ pc[e] = "turn" /\ e \in ctxDone
  /\ LeaveLoop(e, "cancelled")
  /\ UNCHANGED <<stateVars, snap, fromQueue, newStatus>>

\* runTurnFinalize or classifyTurnAbnormality: the turn ended cleanly.
Clean(e) ==
  /\ pc[e] = "classify"
  /\ LeaveLoop(e, "completed")
  /\ UNCHANGED <<stateVars, snap, fromQueue, newStatus>>

\* ... abnormally, and it may be resumed: the retries spent are attempt - 1.
Resumable(e) ==
  /\ pc[e] = "classify" /\ attempt[e] - 1 < MaxRetries
  /\ Goto(e, "backoff")
  /\ UNCHANGED <<stateVars, snap, fromQueue, attempt, outcome, newStatus>>

\* ... abnormally, and it is not resumed: auto-continue is off or spent.
Abnormal(e) ==
  /\ pc[e] = "classify"
  /\ LeaveLoop(e, "failed")
  /\ UNCHANGED <<stateVars, snap, fromQueue, newStatus>>

\* The delay is over, the context live and the notice stored: the next turn.
Resume(e) ==
  /\ pc[e] = "backoff" /\ e \notin ctxDone
  /\ attempt' = [attempt EXCEPT ![e] = @ + 1]
  /\ Goto(e, "turn")
  /\ UNCHANGED <<stateVars, snap, fromQueue, outcome, newStatus>>

\* The delay was cancelled, or the notice could not be stored.
GiveUp(e) ==
  /\ pc[e] = "backoff"
  /\ LeaveLoop(e, "failed")
  /\ UNCHANGED <<stateVars, snap, fromQueue, newStatus>>

\* A panic in the turn: the deferred clean-up runs first,
Panic(e) ==
  /\ pc[e] \in {"turn", "classify"}
  /\ aiEntries' = aiEntries \ {e} /\ registry' = registry \ {e}
  /\ EndAs(e, "failed") /\ Goto(e, "panicked") /\ attempt' = [attempt EXCEPT ![e] = 0]
  /\ UNCHANGED <<taskVars, taskRunning, scriptEntry, ctxDone, snap, fromQueue, newStatus>>

\* ... then the recover handler.
Recovered(e) ==
  /\ pc[e] = "panicked"
  /\ MarkRow(e, "failed")
  /\ Goto(e, "release")
  /\ UNCHANGED <<task, entry, jobs, runningVars, snap, fromQueue, attempt, outcome, newStatus>>

-----------------------------------------------------------------------------
(***************************************************************************)
(* After the turn                                                          *)
(***************************************************************************)

\* UpdateExecutionStatus.
Settle(e) ==
  /\ pc[e] = "settle"
  /\ MarkRow(e, IF outcome[e] = "unstarted" THEN "failed" ELSE outcome[e])
  /\ Goto(e, "forget")
  /\ UNCHANGED <<task, entry, jobs, runningVars, snap, fromQueue, attempt, outcome, newStatus>>

\* runningExecutions.Delete and SetSessionRunning(false).
Forget(e) ==
  /\ pc[e] = "forget"
  /\ aiEntries' = aiEntries \ {e} /\ registry' = registry \ {e}
  /\ Goto(e, CASE outcome[e] = "completed" -> "advance"
               [] outcome[e] = "unstarted" -> "release"
               [] OTHER -> "stats")
  /\ UNCHANGED <<taskVars, taskRunning, scriptEntry, ctxDone,
                 snap, fromQueue, attempt, outcome, newStatus>>

\* UpdateTaskStats after a run that was cancelled or failed.
Stats(e) ==
  /\ pc[e] = "stats"
  /\ CountRun
  /\ Goto(e, "release")
  /\ UNCHANGED <<row, entry, jobs, runningVars, snap, fromQueue, attempt, outcome, newStatus>>

\* A bug: the status is the one the task had when it was triggered.
NextStatusStale(e) ==
  IF ~snap[e].expr THEN "paused"
  ELSE IF task.repeat = "once" \/ (task.repeat = "limited" /\ task.runs + 1 >= MaxRuns)
  THEN "completed" ELSE "active"

\* The status that follows from the row as it is read now.
NextStatus(e) ==
  IF ~snap[e].expr THEN "paused"
  ELSE IF task.repeat = "once" \/ (task.repeat = "limited" /\ task.runs + 1 >= MaxRuns)
  THEN "completed" ELSE task.status

\* advanceTaskAfterRun of an event-triggered task.
AdvanceEvent(e) ==
  /\ pc[e] = "advance" /\ snap[e].mode = "event"
  /\ CountRun
  /\ Goto(e, "release")
  /\ UNCHANGED <<row, entry, jobs, runningVars, snap, fromQueue, attempt, outcome, newStatus>>

\* ... of any other: read the row,
AdvanceRead(e) ==
  /\ pc[e] = "advance" /\ snap[e].mode # "event"
  /\ newStatus' = [newStatus EXCEPT ![e] = NextStatus(e)]
  /\ Goto(e, IF NextStatus(e) = "active" THEN "write" ELSE "unregister")
  /\ UNCHANGED <<stateVars, snap, fromQueue, attempt, outcome>>

\* ... drop the cron entry unless the task stays active,
AdvanceCron(e) ==
  /\ pc[e] = "unregister"
  /\ RemoveCron
  /\ Goto(e, "write")
  /\ UNCHANGED <<task, row, runningVars, snap, fromQueue, attempt, outcome, newStatus>>

\* ... and write status and run_count, whatever the row says by now.
AdvanceWrite(e) ==
  /\ pc[e] = "write"
  /\ UpdateRow([task EXCEPT !.status = newStatus[e], !.runs = @ + 1])
  /\ Goto(e, "release")
  /\ UNCHANGED <<row, entry, jobs, runningVars, snap, fromQueue, attempt, outcome, newStatus>>

\* executeTask returns.
Vanish(e) ==
  /\ Goto(e, "over")
  /\ ctxDone' = ctxDone \ {e}
  /\ snap' = [snap EXCEPT ![e] = NoSnap]
  /\ fromQueue' = fromQueue \ {e}
  /\ attempt' = [attempt EXCEPT ![e] = 0]
  /\ newStatus' = [newStatus EXCEPT ![e] = "active"]
  /\ EndAs(e, "none")

\* defer taskRunning.Delete; the locals and the context are gone with it.
Release(e) ==
  /\ pc[e] = "release"
  /\ taskRunning' = FALSE
  /\ Vanish(e)
  /\ UNCHANGED <<taskVars, scriptEntry, aiEntries, registry>>

\* The steps that the goroutine takes by itself.
Step(e) ==
  \/ Claimed(e) \/ AgentMissing(e) \/ PausingWrite(e)
  \/ BeginScript(e) \/ ScriptReturns(e) \/ ScriptForgotten(e)
  \/ RecordSkip(e) \/ CreateFails(e) \/ CreateSession(e) \/ Adopt(e) \/ Store(e)
  \/ NotStarted(e) \/ EndTurn(e) \/ EndCancelled(e) \/ Clean(e) \/ Resumable(e)
  \/ Abnormal(e) \/ Resume(e) \/ GiveUp(e) \/ Panic(e) \/ Recovered(e)
  \/ Settle(e) \/ Forget(e) \/ Stats(e)
  \/ AdvanceEvent(e) \/ AdvanceRead(e) \/ AdvanceCron(e) \/ AdvanceWrite(e) \/ Release(e)
=============================================================================
