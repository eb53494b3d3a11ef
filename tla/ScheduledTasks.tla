--------------------------- MODULE ScheduledTasks ---------------------------
(***************************************************************************)
(* One scheduled task of the scheduler (internal/service/scheduler.go),    *)
(* its triggers (cron jobs, manual runs, mail, and the forge events of     *)
(* forge_task_trigger.go), the requests that change it                     *)
(* (internal/handler/scheduler.go), and restarts of the server.            *)
(*                                                                         *)
(* Executions run beside each other, beside one request at a time and      *)
(* beside the drain goroutine of the task's event queue; what keeps them   *)
(* apart is the running flag and nothing else.                             *)
(***************************************************************************)
EXTENDS TaskExecution, EventQueue

CONSTANTS
  MaxCalls       \* requests that change the task or cancel one of its sessions,
                 \* and restarts, in one history

ASSUME BoundAssumption == MaxCalls \in Nat

VARIABLES
  call,       \* the request that is in progress: op, step and the row it read
  taken,      \* the executions that a CancelSession has taken and will yet cancel
  calls,      \* requests and restarts so far
  up          \* the server process is up

\* History, for the properties only.
VARIABLES
  stopped,    \* the executions that were cancelled before their last turn ended
  raced,      \* a request overlapped an execution's update of the status
  passedOver  \* the last restart left the task without a job, and it still is

vars == <<stateVars, execVars, queueVars, call, taken, calls, up, stopped, raced, passedOver>>

NoCall == [op |-> "none", step |-> 0, mode |-> "cron", status |-> "active", runs |-> 0]

TypeOK ==
  /\ StateTypeOK /\ ExecTypeOK /\ QueueTypeOK
  /\ call \in [op : {"none", "pause", "resume", "update", "delete"}, step : 0..3,
               mode : AllModes, status : Statuses, runs : Nat]
  /\ taken \subseteq Execs /\ calls \in Nat /\ up \in BOOLEAN
  /\ stopped \subseteq Execs /\ raced \in BOOLEAN /\ passedOver \in BOOLEAN

Init ==
  /\ StateInit /\ ExecInit /\ QueueInit
  /\ call = NoCall /\ taken = {} /\ calls = 0 /\ up = TRUE
  /\ stopped = {} /\ raced = FALSE /\ passedOver = FALSE

\* The status and the mode say that the cron library runs a job of the task.
Due == task.exists /\ task.status = "active" /\ ~HasEventSource(task.mode)

\* A request and an execution's update of the status are both under way.
Overlap == call.op # "none" /\ \E e \in Execs : pc[e] \in Advancing
Watch ==
  /\ raced' = (raced \/ Overlap')
  /\ passedOver' = (passedOver /\ ~entry' /\ Due')

-----------------------------------------------------------------------------
(***************************************************************************)
(* Triggers                                                                *)
(***************************************************************************)

\* A cron job of the task fires, in a goroutine of its own: it reloads the row
\* and goes on only if the task is active.
Tick(e) ==
  /\ pc[e] = "free" /\ jobs > 0 /\ task.status = "active" /\ Read(e)
  /\ UNCHANGED <<stateVars, queueVars, fromQueue>>

\* The "trigger" request and TriggerTask: whatever the status; not for events.
Manual(e) ==
  /\ pc[e] = "free" /\ task.mode # "event" /\ Read(e)
  /\ UNCHANGED <<stateVars, queueVars, fromQueue>>

\* FireMailTaskTriggers found a message for an active email task.
Mail(e) ==
  /\ pc[e] = "free" /\ task.mode = "email" /\ task.status = "active" /\ Read(e)
  /\ UNCHANGED <<stateVars, queueVars, fromQueue>>

\* HandleChange found that the active event task subscribes to an event.
EventArrives ==
  /\ task.exists /\ task.mode = "event" /\ task.status = "active"
  /\ Enqueue \/ StartDrain
  /\ UNCHANGED <<stateVars, execVars>>

EventNext == DrainNext /\ UNCHANGED <<stateVars, execVars>>

\* triggerTaskWithContext, called by the drain goroutine.
EventRead(e) ==
  /\ pc[e] = "free" /\ FireRead /\ Read(e) /\ fromQueue' = fromQueue \cup {e}
  /\ UNCHANGED stateVars
EventGone == ~task.exists /\ FireNothing /\ UNCHANGED <<stateVars, execVars>>
EventBegins(e) == e \in fromQueue /\ Claimed(e) /\ FireBegins
EventBusy(e) == e \in fromQueue /\ Refused(e) /\ FireBusy
EventReturns(e) ==
  /\ e \in fromQueue /\ Release(e) /\ FireReturns

\* Any other trigger that is refused is over with it.
TriggerRefused(e) == e \notin fromQueue /\ Refused(e) /\ UNCHANGED queueVars

\* A step of an execution that the event queue does not wait for.
ExecStep(e) ==
  /\ Step(e)
  /\ e \in fromQueue => pc[e] \notin {"claim", "release"}
  /\ UNCHANGED queueVars

Triggers == \E e \in Execs :
  Tick(e) \/ Manual(e) \/ Mail(e) \/ EventRead(e) \/ EventBegins(e)
    \/ EventBusy(e) \/ EventReturns(e) \/ TriggerRefused(e) \/ ExecStep(e)

-----------------------------------------------------------------------------
(***************************************************************************)
(* Requests that change the task                                           *)
(***************************************************************************)

Begin(op, step, m, s, n) ==
  /\ call.op = "none" /\ calls < MaxCalls /\ task.exists
  /\ calls' = calls + 1
  /\ call' = [op |-> op, step |-> step, mode |-> m, status |-> s, runs |-> n]
At(op, step) == call.op = op /\ call.step = step
NextStep == call' = [call EXCEPT !.step = @ + 1] /\ UNCHANGED calls
Done == call' = NoCall /\ UNCHANGED calls

\* PauseTask: the cron entry, then the status.
PauseCron ==
  /\ Begin("pause", 1, "cron", "active", 0)
  /\ RemoveCron /\ UNCHANGED <<task, row>>
PauseWrite ==
  /\ At("pause", 1) /\ Done
  /\ UpdateRow([task EXCEPT !.status = "paused"]) /\ UNCHANGED <<row, entry, jobs>>

\* ResumeTask: read (an error unless paused with a schedule), write, register.
ResumeRead ==
  /\ Begin("resume", 1, task.mode, "active", 0)
  /\ task.status = "paused" /\ (task.mode = "event" \/ task.expr)
  /\ UNCHANGED taskVars
ResumeWrite ==
  /\ At("resume", 1)
  /\ UpdateRow([task EXCEPT !.status = "active"])
  /\ IF call.mode = "event" THEN Done ELSE NextStep
  /\ UNCHANGED <<row, entry, jobs>>
ResumeCron ==
  /\ At("resume", 2) /\ Done
  /\ IF HasEventSource(call.mode) THEN UNCHANGED <<entry, jobs>> ELSE RegisterCron
  /\ UNCHANGED <<task, row>>

\* The update request: read the row; editing a completed task reactivates it.
UpdateRead(m) ==
  /\ IF task.status = "completed"
     THEN Begin("update", 1, m, "active", 0)
     ELSE Begin("update", 1, m, task.status, task.runs)
  /\ UNCHANGED taskVars
\* UpdateTask: the cron entry, then the whole row.
UpdateCron ==
  /\ At("update", 1) /\ NextStep
  /\ IF ~HasEventSource(call.mode) /\ call.status = "active" THEN ReplaceCron ELSE RemoveCron
  /\ UNCHANGED <<task, row>>
UpdateWrite ==
  /\ At("update", 2) /\ Done
  /\ UpdateRow([task EXCEPT !.mode = call.mode, !.status = call.status,
                            !.runs = call.runs, !.expr = @ \/ call.mode # "event"])
  /\ UNCHANGED <<row, entry, jobs>>

Requests ==
  /\ \/ PauseCron \/ PauseWrite \/ ResumeRead \/ ResumeWrite \/ ResumeCron
     \/ UpdateCron \/ UpdateWrite \/ \E m \in Modes : UpdateRead(m)
  /\ UNCHANGED <<runningVars, taken, stopped>>

\* Cancelling an execution that has not ended its last turn.
Unended == {"script", "scripted", "create", "adopt", "store", "turn", "backoff"}
CancelAll(es) ==
  /\ ctxDone' = ctxDone \cup es
  /\ stopped' = stopped \cup {e \in es : pc[e] \in Unended}

\* CancelAllExecutions ("stop", and CancelAllRunning at shutdown).
Stop ==
  /\ Cancellable \ ctxDone # {} /\ CancelAll(Cancellable)
  /\ UNCHANGED <<taskVars, taskRunning, scriptEntry, aiEntries, registry, taken, call, calls>>

\* CancelSession: takeRunner,
TakeSession(e) ==
  /\ calls < MaxCalls /\ calls' = calls + 1
  /\ e \in registry /\ registry' = registry \ {e} /\ taken' = taken \cup {e}
  /\ UNCHANGED <<taskVars, taskRunning, scriptEntry, aiEntries, ctxDone, stopped, call>>

\* ... then the cancel, unless the execution was over before it came.
CancelSession(e) ==
  /\ e \in taken /\ taken' = taken \ {e} /\ CancelAll({e})
  /\ UNCHANGED <<taskVars, taskRunning, scriptEntry, aiEntries, registry, call, calls>>

\* DELETE: CancelAllExecutions; RemoveTask: the cron entry, then the rows.
DeleteCancel ==
  /\ Begin("delete", 1, "cron", "active", 0)
  /\ CancelAll(Cancellable)
  /\ UNCHANGED <<taskVars, taskRunning, scriptEntry, aiEntries, registry, taken>>
DeleteCron ==
  /\ At("delete", 1) /\ NextStep
  /\ RemoveCron /\ UNCHANGED <<task, row, runningVars, taken, stopped>>
DeleteRows ==
  /\ At("delete", 2) /\ Done
  /\ row' = [e \in Execs |-> "none"]
  /\ task' = [task EXCEPT !.exists = FALSE, !.status = "paused", !.runs = 0]
  /\ UNCHANGED <<entry, jobs, runningVars, taken, stopped>>

Cancels ==
  \/ Stop \/ DeleteCancel \/ DeleteCron \/ DeleteRows
  \/ \E e \in Execs : TakeSession(e) \/ CancelSession(e)

-----------------------------------------------------------------------------
(***************************************************************************)
(* Restarts                                                                *)
(***************************************************************************)

Crash ==
  /\ up /\ calls < MaxCalls
  /\ up' = FALSE /\ calls' = calls + 1
  /\ entry' = FALSE /\ jobs' = 0 /\ taskRunning' = FALSE
  /\ scriptEntry' = NoExec /\ aiEntries' = {} /\ registry' = {} /\ ctxDone' = {}
  /\ pc' = [e \in Execs |-> IF pc[e] \in Holding THEN "over"
                            ELSE IF pc[e] = "claim" THEN "free" ELSE pc[e]]
  /\ fromQueue' = {} /\ snap' = [e \in Execs |-> NoSnap]
  /\ attempt' = [e \in Execs |-> 0] /\ outcome' = [e \in Execs |-> "none"]
  /\ newStatus' = [e \in Execs |-> "active"]
  /\ QueueLost
  /\ call' = NoCall /\ taken' = {}
  /\ stopped' = {} /\ passedOver' = FALSE
  /\ UNCHANGED <<task, row, raced>>

\* LoadTasksFromDB registers an active cron task, unless its agent is not loaded
\* or the registration fails: then the task stays active without a job.
LoadTask ==
  /\ \/ Due /\ RegisterCron
     \/ UNCHANGED <<entry, jobs>>
  /\ passedOver' = (Due /\ ~entry')

\* A bug: the rows of the dead process are left as they are.
RestartKeepingRows ==
  /\ ~up /\ up' = TRUE /\ raced' = FALSE
  /\ LoadTask
  /\ UNCHANGED <<task, row, runningVars, execVars, queueVars, call, taken, calls, stopped>>

\* cleanZombieExecutions, then the tasks.
Restart ==
  /\ ~up /\ up' = TRUE /\ raced' = FALSE
  /\ row' = [e \in Execs |-> IF row[e] = "running" THEN "failed" ELSE row[e]]
  /\ LoadTask
  /\ UNCHANGED <<task, runningVars, execVars, queueVars, call, taken, calls, stopped>>

Next ==
  \/ /\ up
     /\ \/ /\ Triggers \/ EventArrives \/ EventNext \/ EventGone
           /\ stopped' = {e \in stopped : pc'[e] # "over"}
           /\ taken' = {e \in taken : pc'[e] # "over"}
           /\ UNCHANGED <<call, calls>>
        \/ (Requests \/ Cancels) /\ UNCHANGED <<execVars, queueVars>>
     /\ UNCHANGED up
     /\ Watch
  \/ Crash
  \/ Restart

Spec == Init /\ [][Next]_vars

-----------------------------------------------------------------------------
(***************************************************************************)
(* Properties                                                              *)
(***************************************************************************)

\* A task never has two executions at once, however its triggers overlap, and
\* its running flag is set exactly while one is alive: no early return, panic
\* or refusal leaves the task stuck or lets a second execution in.
OneRunAtATime ==
  /\ \A e, f \in Execs : pc[e] \in Holding /\ pc[f] \in Holding => e = f
  /\ taskRunning = (\E e \in Execs : pc[e] \in Holding)

\* While the server is up, a row that says "running" belongs to an execution
\* that is alive and will still write its end; a restart leaves no such row.
RunningRowHasARun ==
  up => \A e \in Execs : row[e] = "running" =>
          pc[e] \in {"adopt", "store", "settle", "panicked"} \cup InTurn

\* "Running" and "cancellable" are the same execution: what a cancel finds in
\* runningExecutions is alive and of this task, and an execution whose turn is
\* under way can be found there and in the session registry (unless a cancel
\* took it from there and has cancelled it, or is about to).
EntriesReachTheRun ==
  /\ \A e \in Cancellable : pc[e] \in {"script", "scripted", "settle", "forget"} \cup InTurn
  /\ \A e \in Execs : pc[e] = "script" => scriptEntry = e
  /\ \A e \in Execs : pc[e] \in InTurn =>
       e \in aiEntries /\ (e \in registry \/ e \in taken \/ e \in ctxDone)

\* An execution that was cancelled before its last turn ended is never
\* recorded as completed, whichever phase the cancel found it in.
CancelIsHonoured ==
  \A e \in stopped : outcome[e] # "completed" /\ row[e] # "completed"

\* Once requests and executions have finished what they were writing, the cron
\* library runs one job for the task or none, and never one for a task that is
\* not an active cron task, however pause, resume, edit, delete, the end of a
\* run and restarts followed each other; an active cron task without a job is
\* one that the last restart passed over and nothing has registered since.
\* A request that overlaps an execution's update of the status may lose against
\* it, so nothing is said after one.
CronFollowsStatus ==
  LET quiet == up /\ ~raced /\ call.op = "none" /\ \A e \in Execs : pc[e] \notin Advancing
  IN quiet => /\ jobs = IF entry THEN 1 ELSE 0
              /\ entry => Due
              /\ Due /\ ~entry => passedOver

\* Every event that was let through is waiting, in hand, fired or given up for
\* one of the stated reasons; and nothing waits without a drain goroutine.
InHand == IF drain.pc \in {"fire", "claiming"} THEN <<drain.event>> ELSE <<>>
Elements(s) == {s[i] : i \in DOMAIN s}
EventsAreKept ==
  /\ 1..accepted = Elements(fired) \cup Elements(InHand) \cup Elements(queue) \cup dropped
  /\ queue # <<>> => Draining

\* Events are fired in the order in which they arrived and once each, also when
\* the task was busy: what was fired, what is in hand and what waits are in the
\* order of arrival, one after the other.
EventsInOrder ==
  LET line == fired \o InHand \o queue
  IN \A i, j \in DOMAIN line : i < j => line[i] < line[j]
=============================================================================
