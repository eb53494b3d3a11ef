----------------------------- MODULE TaskState -----------------------------
(***************************************************************************)
(* What one scheduled task consists of (internal/service/scheduler.go):    *)
(* its row in scheduled_tasks, its rows in task_executions, its cron job,  *)
(* and the scheduler's in-memory maps.  Each operator is one statement     *)
(* sent to the database or one critical section; the actions that are made *)
(* of them are in TaskExecution and ScheduledTasks.                        *)
(*                                                                         *)
(* All of this state is kept per task id, so one task stands for any.  An  *)
(* execution is identified with the chat session it creates.               *)
(***************************************************************************)
EXTENDS Integers, FiniteSets

CONSTANTS
  Execs,      \* executions of the task
  NoExec,     \* no execution
  Modes,      \* the trigger modes a user picks from: cron, event, email
  Repeats,    \* the repeat modes: unlimited, limited, once
  MaxRuns     \* ScheduledTask.MaxRuns

ASSUME TaskAssumption ==
  /\ NoExec \notin Execs
  /\ Modes \subseteq {"cron", "event", "email"}
  /\ Repeats \subseteq {"unlimited", "limited", "once"}
  /\ MaxRuns \in Nat

VARIABLES
  task,         \* the row: exists, status, mode, expr, repeat, runs
  row,          \* row[e]: status of the task_executions row of e, none: no row
  entry,        \* s.entries has a cron entry for the task
  jobs,         \* jobs of the task that the cron library runs
  taskRunning,  \* s.taskRunning holds the task id
  scriptEntry,  \* the execution that runningExecutions["script-<id>"] cancels
  aiEntries,    \* the executions that runningExecutions[<session>] cancels
  registry,     \* the executions in the session registry
  ctxDone       \* the executions whose context is cancelled

taskVars == <<task, row, entry, jobs>>
runningVars == <<taskRunning, scriptEntry, aiEntries, registry, ctxDone>>
stateVars == <<taskVars, runningVars>>

Statuses == {"active", "paused", "completed"}
RowStatuses == {"none", "running", "completed", "failed", "cancelled", "skipped"}
AllModes == {"cron", "event", "email"}
TaskRows == [exists : BOOLEAN, status : Statuses, mode : AllModes, expr : BOOLEAN,
             repeat : {"unlimited", "limited", "once"}, runs : Nat]

StateTypeOK ==
  /\ task \in TaskRows
  /\ row \in [Execs -> RowStatuses]
  /\ entry \in BOOLEAN /\ jobs \in Nat /\ taskRunning \in BOOLEAN
  /\ scriptEntry \in Execs \cup {NoExec}
  /\ aiEntries \subseteq Execs /\ registry \subseteq Execs /\ ctxDone \subseteq Execs

\* HasEventSource: the task runs on an event and never has a cron job.
HasEventSource(m) == m \in {"event", "email"}

\* AddTask: stored as active; a cron task has an expression and gets its job.
StateInit ==
  /\ \E m \in Modes, p \in Repeats :
       /\ task = [exists |-> TRUE, status |-> "active", mode |-> m, expr |-> m = "cron",
                  repeat |-> p, runs |-> 0]
       /\ entry = ~HasEventSource(m)
       /\ jobs = IF HasEventSource(m) THEN 0 ELSE 1
  /\ row = [e \in Execs |-> "none"]
  /\ taskRunning = FALSE /\ scriptEntry = NoExec
  /\ aiEntries = {} /\ registry = {} /\ ctxDone = {}

-----------------------------------------------------------------------------
\* An UPDATE ... WHERE id = ?: it touches nothing once the row is deleted.
UpdateRow(t) == task' = IF task.exists THEN t ELSE task

\* UpdateTaskStats, and the UPDATE of an event-triggered run.
CountRun == UpdateRow([task EXCEPT !.runs = @ + 1])

\* UpdateExecutionStatus: an UPDATE by session id.
MarkRow(e, s) == row' = [row EXCEPT ![e] = IF @ = "none" THEN @ ELSE s]

\* A bug: the job is removed without looking the entry up.
RemoveCronUnchecked == entry' = FALSE /\ jobs' = jobs - 1

\* Under s.mu: cron.Remove and delete(s.entries, id), if there is an entry.
RemoveCron == entry' = FALSE /\ jobs' = IF entry THEN jobs - 1 ELSE jobs

\* registerTaskLocked: another job; the map then names the new one only.
RegisterCron == entry' = TRUE /\ jobs' = jobs + 1

\* UpdateTask, under one hold of s.mu: remove the old entry and register.
ReplaceCron == entry' = TRUE /\ jobs' = IF entry THEN jobs ELSE jobs + 1

\* A bug: the check and the store are two operations.
ClaimUnchecked == taskRunning' = TRUE

\* taskRunning.LoadOrStore with loaded = false.
ClaimTask == ~taskRunning /\ taskRunning' = TRUE

\* The executions a cancel of the task reaches, in runningExecutions.
Cancellable == aiEntries \cup ({scriptEntry} \ {NoExec})
=============================================================================
