------------------------ MODULE ScheduledTasksProofs ------------------------
(***************************************************************************)
(* Proofs about ScheduledTasks, for any number of executions, events,      *)
(* requests and restarts.                                                  *)
(***************************************************************************)
EXTENDS ScheduledTasks, TLAPS

-----------------------------------------------------------------------------
(***************************************************************************)
(* The inductive invariant                                                 *)
(***************************************************************************)

\* The entry names one of the cron library's jobs.
CronInv == entry => jobs # 0

\* Where an outcome stands before the last turn has ended.
OutcomeInv == \A e \in Execs :
  /\ pc[e] \in {"free", "claim", "begin", "script", "create", "adopt", "store"} \cup InTurn =>
       outcome[e] = "none"
  /\ pc[e] = "scripted" => outcome[e] \in {"none", "skipped", "cancelled"}
  /\ pc[e] = "skip" => outcome[e] \in {"skipped", "cancelled"}

\* An execution writes its row once it has a session, or is over without one.
RowInv == \A e \in Execs :
  /\ pc[e] \in {"free", "claim", "begin", "script", "scripted", "skip", "create"} =>
       row[e] = "none"
  /\ pc[e] \in {"adopt", "store"} \cup InTurn => row[e] \in {"none", "running"}

\* The script's entry goes with the script, the other one with the turn; a turn
\* has been adopted before.
EntryInv == \A e \in Execs :
  /\ scriptEntry = e => pc[e] \in {"script", "scripted"}
  /\ e \in aiEntries => pc[e] \in {"settle", "forget"} \cup InTurn
  /\ pc[e] \in {"store"} \cup InTurn => e \in registry \/ e \in taken \/ e \in ctxDone

\* A stopped execution has a dead context, and so never gets past its turn.
StopInv == \A e \in stopped :
  /\ e \in ctxDone
  /\ pc[e] \in Holding \ {"begin", "pausing", "classify"}
  /\ outcome[e] # "completed" /\ row[e] # "completed"

\* Nothing runs while the process is down.
DownInv == up \/ \A e \in Execs : pc[e] \in Before

TaskInv ==
  /\ DownInv /\ CronInv /\ OneRunAtATime /\ OutcomeInv /\ RowInv
  /\ EntryInv /\ EntriesReachTheRun /\ StopInv /\ RunningRowHasARun

-----------------------------------------------------------------------------
(***************************************************************************)
(* Typing                                                                  *)
(***************************************************************************)

\* The operators on the rows and the cron jobs.
LEMMA RowsTyped ==
  ASSUME StateTypeOK, CronInv
  PROVE  /\ CountRun => task' \in TaskRows
         /\ \A s \in Statuses : UpdateRow([task EXCEPT !.status = s]) => task' \in TaskRows
         /\ \A s \in Statuses :
              UpdateRow([task EXCEPT !.status = s, !.runs = @ + 1]) => task' \in TaskRows
         /\ RemoveCron \/ RegisterCron \/ ReplaceCron =>
              entry' \in BOOLEAN /\ jobs' \in Nat /\ CronInv'
         /\ UNCHANGED <<entry, jobs>> => entry' \in BOOLEAN /\ jobs' \in Nat /\ CronInv'
         /\ \A e \in Execs, s \in RowStatuses : MarkRow(e, s) => row' \in [Execs -> RowStatuses]
<1> USE DEF StateTypeOK
<1>1. CountRun => task' \in TaskRows
  BY DEF CountRun, UpdateRow, TaskRows
<1>2. \A s \in Statuses : UpdateRow([task EXCEPT !.status = s]) => task' \in TaskRows
  BY DEF UpdateRow, TaskRows
<1>3. \A s \in Statuses :
        UpdateRow([task EXCEPT !.status = s, !.runs = @ + 1]) => task' \in TaskRows
  <2> SUFFICES ASSUME NEW s \in Statuses
               PROVE  [task EXCEPT !.status = s, !.runs = @ + 1] \in TaskRows
    BY DEF UpdateRow
  <2>1. task.runs + 1 \in Nat /\ [task EXCEPT !.status = s] \in TaskRows
    BY DEF TaskRows
  <2>2. [[task EXCEPT !.status = s] EXCEPT !.runs = task.runs + 1] \in TaskRows
    BY <2>1 DEF TaskRows
  <2>3. [task EXCEPT !.status = s, !.runs = @ + 1] =
          [[task EXCEPT !.status = s] EXCEPT !.runs = task.runs + 1]
    OBVIOUS
  <2>4. QED
    BY <2>2, <2>3
<1>4. RemoveCron \/ RegisterCron \/ ReplaceCron =>
        entry' \in BOOLEAN /\ jobs' \in Nat /\ CronInv'
  <2>1. CASE RemoveCron
    <3>1. entry => jobs - 1 \in Nat
      BY DEF CronInv
    <3>2. QED
      BY <2>1, <3>1 DEF RemoveCron, CronInv
  <2>2. CASE RegisterCron \/ ReplaceCron
    <3>1. jobs + 1 \in Nat /\ jobs + 1 # 0
      OBVIOUS
    <3>2. QED
      BY <2>2, <3>1 DEF RegisterCron, ReplaceCron, CronInv
  <2>3. QED
    BY <2>1, <2>2
<1>5. UNCHANGED <<entry, jobs>> => entry' \in BOOLEAN /\ jobs' \in Nat /\ CronInv'
  BY DEF CronInv
<1>6. \A e \in Execs, s \in RowStatuses : MarkRow(e, s) => row' \in [Execs -> RowStatuses]
  BY DEF MarkRow
<1>7. QED
  BY <1>1, <1>2, <1>3, <1>4, <1>5, <1>6

\* The steps of an execution, but for the claim and the release.
Inner(e) ==
  \/ AgentMissing(e) \/ PausingWrite(e) \/ BeginScript(e) \/ ScriptReturns(e) \/ ScriptForgotten(e)
  \/ RecordSkip(e) \/ CreateFails(e) \/ CreateSession(e) \/ Adopt(e) \/ Store(e)
  \/ NotStarted(e) \/ EndTurn(e) \/ EndCancelled(e) \/ Clean(e) \/ Resumable(e)
  \/ Abnormal(e) \/ Resume(e) \/ GiveUp(e) \/ Panic(e) \/ Recovered(e)
  \/ Settle(e) \/ Forget(e) \/ Stats(e) \/ AdvanceEvent(e) \/ AdvanceRead(e)
  \/ AdvanceCron(e) \/ AdvanceWrite(e)

LEMMA InnerTyped ==
  ASSUME StateTypeOK, ExecTypeOK, CronInv, OutcomeInv, NEW e \in Execs, Inner(e)
  PROVE  StateTypeOK' /\ ExecTypeOK' /\ CronInv'
<1> USE DEF StateTypeOK, ExecTypeOK, stateVars, taskVars, runningVars, Goto, EndAs, LeaveLoop,
            Before, Holding
<1>1. CASE AgentMissing(e)
  BY <1>1, RowsTyped DEF AgentMissing
<1>2. CASE PausingWrite(e)
  BY <1>2, RowsTyped DEF PausingWrite, Statuses
<1>3. CASE BeginScript(e)
  BY <1>3 DEF BeginScript, CronInv
<1>4. CASE ScriptReturns(e)
  BY <1>4 DEF ScriptReturns, CronInv
<1>5. CASE ScriptForgotten(e)
  BY <1>5, TaskAssumption DEF ScriptForgotten, CronInv
<1>6. CASE RecordSkip(e)
  BY <1>6 DEF RecordSkip, RowStatuses, OutcomeInv, CronInv
<1>7. CASE CreateFails(e)
  BY <1>7 DEF CreateFails, CronInv
<1>8. CASE CreateSession(e)
  BY <1>8 DEF CreateSession, RowStatuses, CronInv
<1>9. CASE Adopt(e)
  BY <1>9 DEF Adopt, CronInv
<1>10. CASE Store(e)
  BY <1>10 DEF Store, CronInv
<1>11. CASE NotStarted(e)
  BY <1>11 DEF NotStarted, CronInv
<1>12. CASE EndTurn(e)
  BY <1>12 DEF EndTurn, CronInv
<1>13. CASE EndCancelled(e)
  BY <1>13 DEF EndCancelled, CronInv
<1>14. CASE Clean(e)
  BY <1>14 DEF Clean, CronInv
<1>15. CASE Resumable(e)
  BY <1>15 DEF Resumable, CronInv
<1>16. CASE Abnormal(e)
  BY <1>16 DEF Abnormal, CronInv
<1>17. CASE Resume(e)
  BY <1>17 DEF Resume, CronInv
<1>18. CASE GiveUp(e)
  BY <1>18 DEF GiveUp, CronInv
<1>19. CASE Panic(e)
  BY <1>19 DEF Panic, CronInv
<1>20. CASE Recovered(e)
  BY <1>20, RowsTyped DEF Recovered, RowStatuses
<1>21. CASE Settle(e)
  BY <1>21, RowsTyped DEF Settle, RowStatuses
<1>22. CASE Forget(e)
  BY <1>22 DEF Forget, CronInv
<1>23. CASE Stats(e)
  BY <1>23, RowsTyped DEF Stats
<1>24. CASE AdvanceEvent(e)
  BY <1>24, RowsTyped DEF AdvanceEvent
<1>25. CASE AdvanceRead(e)
  BY <1>25 DEF AdvanceRead, NextStatus, Statuses, TaskRows, CronInv
<1>26. CASE AdvanceCron(e)
  BY <1>26, RowsTyped DEF AdvanceCron
<1>27. CASE AdvanceWrite(e)
  BY <1>27, RowsTyped DEF AdvanceWrite
<1>28. QED
  BY <1>1, <1>2, <1>3, <1>4, <1>5, <1>6, <1>7, <1>8, <1>9, <1>10, <1>11, <1>12, <1>13, <1>14, <1>15, <1>16, <1>17, <1>18, <1>19, <1>20, <1>21, <1>22, <1>23, <1>24, <1>25, <1>26, <1>27 DEF Inner

-----------------------------------------------------------------------------
(***************************************************************************)
(* One step of an execution                                                *)
(***************************************************************************)

\* It stays between the claim and the release.
LEMMA InnerMoves ==
  ASSUME ExecTypeOK, NEW e \in Execs, Inner(e)
  PROVE  /\ pc[e] \in Holding
         /\ \E s \in Holding : pc' = [pc EXCEPT ![e] = s]
         /\ taskRunning' = taskRunning /\ snap' = snap /\ fromQueue' = fromQueue
<1> USE DEF runningVars, stateVars, Goto, LeaveLoop, Holding
<1>1. CASE AgentMissing(e)
  BY <1>1 DEF AgentMissing
<1>2. CASE PausingWrite(e)
  BY <1>2 DEF PausingWrite
<1>3. CASE BeginScript(e)
  BY <1>3 DEF BeginScript
<1>4. CASE ScriptReturns(e)
  BY <1>4 DEF ScriptReturns
<1>5. CASE ScriptForgotten(e)
  BY <1>5 DEF ScriptForgotten
<1>6. CASE RecordSkip(e)
  BY <1>6 DEF RecordSkip
<1>7. CASE CreateFails(e)
  BY <1>7 DEF CreateFails, AtSession
<1>8. CASE CreateSession(e)
  BY <1>8 DEF CreateSession, AtSession
<1>9. CASE Adopt(e)
  BY <1>9 DEF Adopt
<1>10. CASE Store(e)
  BY <1>10 DEF Store
<1>11. CASE NotStarted(e)
  BY <1>11 DEF NotStarted
<1>12. CASE EndTurn(e)
  BY <1>12 DEF EndTurn
<1>13. CASE EndCancelled(e)
  BY <1>13 DEF EndCancelled
<1>14. CASE Clean(e)
  BY <1>14 DEF Clean
<1>15. CASE Resumable(e)
  BY <1>15 DEF Resumable
<1>16. CASE Abnormal(e)
  BY <1>16 DEF Abnormal
<1>17. CASE Resume(e)
  BY <1>17 DEF Resume
<1>18. CASE GiveUp(e)
  BY <1>18 DEF GiveUp
<1>19. CASE Panic(e)
  BY <1>19 DEF Panic
<1>20. CASE Recovered(e)
  BY <1>20 DEF Recovered
<1>21. CASE Settle(e)
  BY <1>21 DEF Settle
<1>22. CASE Forget(e)
  BY <1>22 DEF Forget
<1>23. CASE Stats(e)
  BY <1>23 DEF Stats
<1>24. CASE AdvanceEvent(e)
  BY <1>24 DEF AdvanceEvent
<1>25. CASE AdvanceRead(e)
  BY <1>25 DEF AdvanceRead
<1>26. CASE AdvanceCron(e)
  BY <1>26 DEF AdvanceCron
<1>27. CASE AdvanceWrite(e)
  BY <1>27 DEF AdvanceWrite
<1>28. QED
  BY <1>1, <1>2, <1>3, <1>4, <1>5, <1>6, <1>7, <1>8, <1>9, <1>10, <1>11, <1>12, <1>13, <1>14, <1>15, <1>16, <1>17, <1>18, <1>19, <1>20, <1>21, <1>22, <1>23, <1>24, <1>25, <1>26, <1>27 DEF Inner

\* A cancel that was on its way still is, unless the execution is over.
CancelsRemain == \A f \in taken : f \in taken' \/ pc'[f] = "over"

\* It keeps what is known of outcomes, rows, entries and stops.
LEMMA InnerPhases ==
  ASSUME StateTypeOK, ExecTypeOK, TaskInv, NEW e \in Execs, Inner(e),
         stopped' \subseteq stopped, CancelsRemain, up, up'
  PROVE  /\ OutcomeInv' /\ RowInv' /\ EntryInv' /\ EntriesReachTheRun' /\ StopInv'
         /\ RunningRowHasARun'
<1> USE TaskAssumption
    DEF StateTypeOK, ExecTypeOK, TaskInv, OneRunAtATime, OutcomeInv, RowInv, EntryInv,
        EntriesReachTheRun, Cancellable, StopInv, RunningRowHasARun, Before, Holding, InTurn,
        CancelsRemain, stateVars, taskVars, runningVars, Goto, EndAs, LeaveLoop
<1>1. CASE AgentMissing(e)
  BY <1>1 DEF AgentMissing
<1>2. CASE PausingWrite(e)
  BY <1>2 DEF PausingWrite
<1>3. CASE BeginScript(e)
  BY <1>3 DEF BeginScript
<1>4. CASE ScriptReturns(e)
  BY <1>4 DEF ScriptReturns
<1>5. CASE ScriptForgotten(e)
  <2>1. \A g \in Execs : pc[g] = "script" => FALSE
    BY <1>5 DEF ScriptForgotten
  <2>2. pc' = [pc EXCEPT ![e] = IF outcome[e] = "none" THEN "create" ELSE "skip"]
    BY <1>5 DEF ScriptForgotten
  <2>3. pc[e] = "scripted" /\ outcome[e] \in {"none", "skipped", "cancelled"}
    BY <1>5 DEF ScriptForgotten
  <2>4. /\ scriptEntry' = NoExec /\ aiEntries' = aiEntries /\ registry' = registry
        /\ ctxDone' = ctxDone /\ row' = row /\ outcome' = outcome
    BY <1>5 DEF ScriptForgotten
  <2>5. OutcomeInv' /\ RowInv' /\ RunningRowHasARun'
    BY <2>2, <2>3, <2>4
  <2>6. EntryInv' /\ StopInv'
    BY <2>2, <2>3, <2>4
  <2>7. EntriesReachTheRun'
    BY <2>1, <2>2, <2>3, <2>4
  <2>8. QED
    BY <2>5, <2>6, <2>7
<1>6. CASE RecordSkip(e)
  BY <1>6 DEF RecordSkip
<1>7. CASE CreateFails(e)
  BY <1>7 DEF CreateFails, AtSession
<1>8. CASE CreateSession(e)
  BY <1>8 DEF CreateSession, AtSession
<1>9. CASE Adopt(e)
  BY <1>9 DEF Adopt
<1>10. CASE Store(e)
  BY <1>10 DEF Store
<1>11. CASE NotStarted(e)
  BY <1>11 DEF NotStarted
<1>12. CASE EndTurn(e)
  BY <1>12 DEF EndTurn
<1>13. CASE EndCancelled(e)
  BY <1>13 DEF EndCancelled
<1>14. CASE Clean(e)
  BY <1>14 DEF Clean
<1>15. CASE Resumable(e)
  BY <1>15 DEF Resumable
<1>16. CASE Abnormal(e)
  BY <1>16 DEF Abnormal
<1>17. CASE Resume(e)
  BY <1>17 DEF Resume
<1>18. CASE GiveUp(e)
  BY <1>18 DEF GiveUp
<1>19. CASE Panic(e)
  BY <1>19 DEF Panic
<1>20. CASE Recovered(e)
  BY <1>20 DEF Recovered, MarkRow
<1>21. CASE Settle(e)
  BY <1>21 DEF Settle, MarkRow
<1>22. CASE Forget(e)
  BY <1>22 DEF Forget
<1>23. CASE Stats(e)
  BY <1>23 DEF Stats
<1>24. CASE AdvanceEvent(e)
  BY <1>24 DEF AdvanceEvent
<1>25. CASE AdvanceRead(e)
  BY <1>25 DEF AdvanceRead
<1>26. CASE AdvanceCron(e)
  BY <1>26 DEF AdvanceCron
<1>27. CASE AdvanceWrite(e)
  BY <1>27 DEF AdvanceWrite
<1>28. QED
  BY <1>1, <1>2, <1>3, <1>4, <1>5, <1>6, <1>7, <1>8, <1>9, <1>10, <1>11, <1>12, <1>13, <1>14, <1>15, <1>16, <1>17, <1>18, <1>19, <1>20, <1>21, <1>22, <1>23, <1>24, <1>25, <1>26, <1>27 DEF Inner

\* A trigger reads the task.
LEMMA ReadKeeps ==
  ASSUME StateTypeOK, ExecTypeOK, TaskInv, NEW e \in Execs, pc[e] = "free", Read(e),
         UNCHANGED stateVars, fromQueue' \subseteq fromQueue \cup {e},
         stopped' \subseteq stopped, CancelsRemain, up, up'
  PROVE  StateTypeOK' /\ ExecTypeOK' /\ TaskInv'
<1> USE DEF DownInv, StateTypeOK, ExecTypeOK, TaskInv, stateVars, taskVars, runningVars, Read, Goto,
            Before, Holding, InTurn
<1>1. StateTypeOK' /\ CronInv'
  BY DEF CronInv
<1>2. ExecTypeOK'
  BY DEF TaskRows
<1>3. OneRunAtATime'
  BY DEF OneRunAtATime
<1>4. OutcomeInv' /\ RowInv' /\ EntryInv'
  BY DEF OutcomeInv, RowInv, EntryInv, CancelsRemain
<1>5. EntriesReachTheRun' /\ StopInv' /\ RunningRowHasARun'
  BY DEF EntriesReachTheRun, Cancellable, StopInv, RunningRowHasARun, CancelsRemain
<1>6. QED
  BY <1>1, <1>2, <1>3, <1>4, <1>5

\* It takes the claim: nobody else holds the running flag.
LEMMA ClaimedKeeps ==
  ASSUME StateTypeOK, ExecTypeOK, TaskInv, NEW e \in Execs, Claimed(e),
         stopped' \subseteq stopped, CancelsRemain, up, up'
  PROVE  StateTypeOK' /\ ExecTypeOK' /\ TaskInv'
<1> USE DEF DownInv, StateTypeOK, ExecTypeOK, TaskInv, taskVars, Claimed, ClaimTask, Goto,
            Before, Holding, InTurn
<1>1. StateTypeOK' /\ CronInv' /\ ExecTypeOK'
  BY DEF CronInv
<1>2. OneRunAtATime'
  BY DEF OneRunAtATime
<1>3. OutcomeInv' /\ RowInv' /\ EntryInv'
  BY DEF OutcomeInv, RowInv, EntryInv, CancelsRemain
<1>4. EntriesReachTheRun' /\ StopInv' /\ RunningRowHasARun'
  BY DEF EntriesReachTheRun, Cancellable, StopInv, RunningRowHasARun, CancelsRemain
<1>5. QED
  BY <1>1, <1>2, <1>3, <1>4

\* It is refused.
LEMMA RefusedKeeps ==
  ASSUME StateTypeOK, ExecTypeOK, TaskInv, NEW e \in Execs, Refused(e),
         stopped' \subseteq stopped, CancelsRemain, up, up'
  PROVE  StateTypeOK' /\ ExecTypeOK' /\ TaskInv'
<1> USE DEF DownInv, StateTypeOK, ExecTypeOK, TaskInv, stateVars, taskVars, runningVars, Refused, Goto,
            Before, Holding, InTurn
<1>1. StateTypeOK' /\ CronInv' /\ ExecTypeOK'
  BY DEF CronInv, NoSnap, AllModes
<1>2. OneRunAtATime'
  BY DEF OneRunAtATime
<1>3. OutcomeInv' /\ RowInv' /\ EntryInv'
  BY DEF OutcomeInv, RowInv, EntryInv, CancelsRemain
<1>4. EntriesReachTheRun' /\ StopInv' /\ RunningRowHasARun'
  BY DEF EntriesReachTheRun, Cancellable, StopInv, RunningRowHasARun, CancelsRemain
<1>5. QED
  BY <1>1, <1>2, <1>3, <1>4

\* An execution returns: it was the only one.
LEMMA ReleaseKeeps ==
  ASSUME StateTypeOK, ExecTypeOK, TaskInv, NEW e \in Execs, Release(e),
         stopped' \subseteq stopped \ {e}, CancelsRemain, up, up'
  PROVE  StateTypeOK' /\ ExecTypeOK' /\ TaskInv'
<1> USE DEF DownInv, StateTypeOK, ExecTypeOK, TaskInv, taskVars, Release, Vanish, Goto, EndAs,
            Before, Holding, InTurn
<1>1. StateTypeOK' /\ CronInv'
  BY DEF CronInv
<1>2. ExecTypeOK'
  BY DEF NoSnap, AllModes, Statuses
<1>3. OneRunAtATime'
  BY DEF OneRunAtATime
<1>4. OutcomeInv' /\ RowInv' /\ EntryInv'
  BY DEF OutcomeInv, RowInv, EntryInv, CancelsRemain
<1>5. EntriesReachTheRun' /\ StopInv' /\ RunningRowHasARun'
  BY DEF EntriesReachTheRun, Cancellable, StopInv, RunningRowHasARun, CancelsRemain
<1>6. QED
  BY <1>1, <1>2, <1>3, <1>4, <1>5

\* Any other step of an execution.
LEMMA InnerKeeps ==
  ASSUME StateTypeOK, ExecTypeOK, TaskInv, NEW e \in Execs, Inner(e),
         stopped' \subseteq stopped, CancelsRemain, up, up'
  PROVE  StateTypeOK' /\ ExecTypeOK' /\ TaskInv'
<1> USE DEF DownInv
<1>1. StateTypeOK' /\ ExecTypeOK' /\ CronInv'
  BY InnerTyped DEF TaskInv
<1>2. OneRunAtATime'
  <2>1. PICK s \in Holding : pc' = [pc EXCEPT ![e] = s]
    BY InnerMoves
  <2>2. pc[e] \in Holding /\ taskRunning' = taskRunning
    BY InnerMoves
  <2>3. OneRunAtATime /\ pc \in [Execs -> Before \cup Holding]
    BY DEF TaskInv, ExecTypeOK
  <2>4. \A f \in Execs : pc'[f] \in Holding <=> pc[f] \in Holding
    BY <2>1, <2>2, <2>3
  <2>5. QED
    BY <2>2, <2>3, <2>4 DEF OneRunAtATime
<1>3. QED
  BY <1>1, <1>2, InnerPhases DEF TaskInv

-----------------------------------------------------------------------------
(***************************************************************************)
(* The event queue, requests, cancels and restarts                         *)
(***************************************************************************)

\* The event queue keeps its type.
LEMMA QueueTyped ==
  ASSUME QueueTypeOK,
         \/ Enqueue \/ StartDrain \/ FireNothing \/ FireRead \/ FireBegins \/ FireReturns
         \/ FireBusy \/ DrainNext \/ QueueLost \/ UNCHANGED queueVars
  PROVE  QueueTypeOK'
<1> USE DEF QueueTypeOK
<1>1. CASE Enqueue
  <2> DEFINE q == Append(queue, accepted + 1)
             over == IF Len(q) > MaxQueue THEN Len(q) - MaxQueue ELSE 0
  <2>1. q \in Seq(Nat) /\ Len(q) \in Nat /\ over \in 0..Len(q)
    BY QueueAssumption
  <2>2. SubSeq(q, over + 1, Len(q)) \in Seq(Nat)
    BY <2>1
  <2>3. {q[j] : j \in 1..over} \subseteq Nat
    <3> SUFFICES ASSUME NEW j \in 1..over PROVE q[j] \in Nat
      OBVIOUS
    <3>1. j \in 1..Len(q)
      BY <2>1
    <3> HIDE DEF q
    <3>2. QED
      BY <2>1, <3>1
  <2>4. /\ queue' = SubSeq(q, over + 1, Len(q)) /\ dropped' = dropped \cup {q[j] : j \in 1..over}
        /\ accepted' = accepted + 1 /\ drain' = drain /\ fired' = fired
    BY <1>1 DEF Enqueue
  <2>5. queue' \in Seq(Nat)
    BY <2>2, <2>4
  <2>6. dropped' \subseteq Nat
    BY <2>3, <2>4
  <2> HIDE DEF q, over
  <2>7. QED
    BY <2>4, <2>5, <2>6
<1>2. CASE StartDrain
  BY <1>2 DEF StartDrain
<1>3. CASE FireNothing \/ FireRead \/ FireReturns
  BY <1>3 DEF FireNothing, FireRead, FireReturns
<1>4. CASE FireBegins
  BY <1>4 DEF FireBegins
<1>5. CASE FireBusy
  <2>1. drain.attempts + 1 \in Nat /\ drain.event \in Nat
    OBVIOUS
  <2>2. CASE drain.attempts + 1 >= MaxFireAttempts
    BY <1>5, <2>1, <2>2 DEF FireBusy
  <2>3. CASE ~(drain.attempts + 1 >= MaxFireAttempts)
    <3>1. drain' = [drain EXCEPT !.pc = "fire", !.attempts = drain.attempts + 1]
      BY <1>5, <2>3 DEF FireBusy
    <3>2. drain' = [[drain EXCEPT !.pc = "fire"] EXCEPT !.attempts = drain.attempts + 1]
      BY <3>1
    <3>3. [drain EXCEPT !.pc = "fire"] \in
            [pc : {"idle", "fire", "claiming", "executing", "next"}, event : Nat, attempts : Nat]
      OBVIOUS
    <3>4. drain' \in
            [pc : {"idle", "fire", "claiming", "executing", "next"}, event : Nat, attempts : Nat]
      BY <2>1, <3>2, <3>3
    <3>5. QED
      BY <1>5, <2>3, <3>4 DEF FireBusy
  <2>4. QED
    BY <2>2, <2>3
<1>6. CASE DrainNext
  <2>1. CASE queue = <<>>
    BY <1>6, <2>1 DEF DrainNext, NoDrain
  <2>2. CASE queue # <<>>
    <3>1. Head(queue) \in Nat /\ Tail(queue) \in Seq(Nat)
      BY <2>2
    <3>2. /\ drain' = [pc |-> "fire", event |-> Head(queue), attempts |-> 0]
          /\ queue' = Tail(queue) /\ UNCHANGED <<accepted, fired, dropped>>
      BY <1>6, <2>2 DEF DrainNext
    <3>3. QED
      BY <3>1, <3>2
  <2>3. QED
    BY <2>1, <2>2
<1>7. CASE QueueLost
  <2>1. {queue[i] : i \in DOMAIN queue} \subseteq Nat
    OBVIOUS
  <2>2. (IF drain.pc \in {"fire", "claiming"} THEN {drain.event} ELSE {}) \subseteq Nat
    OBVIOUS
  <2>3. /\ queue' = <<>> /\ drain' = NoDrain
        /\ dropped' = dropped \cup {queue[i] : i \in DOMAIN queue}
             \cup (IF drain.pc \in {"fire", "claiming"} THEN {drain.event} ELSE {})
        /\ UNCHANGED <<accepted, fired>>
    BY <1>7 DEF QueueLost
  <2>4. dropped' \subseteq Nat
    BY <2>1, <2>2, <2>3
  <2>5. QED
    BY <2>3, <2>4 DEF NoDrain
<1>8. CASE UNCHANGED queueVars
  BY <1>8 DEF queueVars
<1>9. QED
  BY <1>1, <1>2, <1>3, <1>4, <1>5, <1>6, <1>7, <1>8

\* What concerns the requests alone.
CallTypeOK ==
  /\ call \in [op : {"none", "pause", "resume", "update", "delete"}, step : 0..3,
               mode : AllModes, status : Statuses, runs : Nat]
  /\ taken \subseteq Execs /\ calls \in Nat

LEMMA TypeParts ==
  TypeOK <=> /\ StateTypeOK /\ ExecTypeOK /\ QueueTypeOK /\ CallTypeOK
             /\ up \in BOOLEAN /\ stopped \subseteq Execs /\ raced \in BOOLEAN
             /\ passedOver \in BOOLEAN
  BY DEF TypeOK, CallTypeOK

LEMMA TypePartsPrime ==
  ASSUME StateTypeOK', ExecTypeOK', QueueTypeOK', CallTypeOK',
         up' \in BOOLEAN, stopped' \subseteq Execs, raced' \in BOOLEAN,
         passedOver' \in BOOLEAN
  PROVE  TypeOK'
  BY DEF TypeOK, CallTypeOK

\* The steps of a request.
LEMMA CallTyped ==
  ASSUME CallTypeOK, taken' \subseteq Execs,
         \/ \E op \in {"pause", "resume", "update", "delete"}, m \in AllModes,
               st \in Statuses, n \in Nat : Begin(op, 1, m, st, n)
         \/ Done
         \/ NextStep /\ call.step \in {1, 2}
         \/ UNCHANGED <<call, calls>>
  PROVE  CallTypeOK'
<1> USE DEF CallTypeOK
<1>1. CASE \E op \in {"pause", "resume", "update", "delete"}, m \in AllModes,
              st \in Statuses, n \in Nat : Begin(op, 1, m, st, n)
  BY <1>1 DEF Begin
<1>2. CASE Done
  BY <1>2 DEF Done, NoCall, AllModes, Statuses
<1>3. CASE NextStep /\ call.step \in {1, 2}
  BY <1>3 DEF NextStep
<1>4. QED
  BY <1>1, <1>2, <1>3

\* Requests change the task's rows and cron entry, and cancel its executions.
LEMMA RequestTyped ==
  ASSUME StateTypeOK, CronInv, CallTypeOK, Requests
  PROVE  /\ StateTypeOK' /\ CronInv' /\ CallTypeOK'
         /\ row' = row /\ UNCHANGED <<runningVars, taken, stopped>>
<1> USE RowsTyped, TaskAssumption DEF taskVars, runningVars, At
<1>0. UNCHANGED <<runningVars, taken, stopped>> /\ taken' \subseteq Execs
  BY DEF Requests, CallTypeOK
<1>1. CASE PauseCron
  <2>1. CallTypeOK'
    BY <1>0, <1>1, CallTyped DEF PauseCron, AllModes, Statuses
  <2>2. QED
    BY <1>0, <1>1, <2>1 DEF PauseCron, StateTypeOK
<1>2. CASE PauseWrite
  BY <1>0, <1>2, CallTyped DEF PauseWrite, StateTypeOK, Statuses
<1>3. CASE ResumeRead
  <2>1. CallTypeOK'
    BY <1>0, <1>3, CallTyped DEF ResumeRead, StateTypeOK, TaskRows, Statuses
  <2>2. QED
    BY <1>0, <1>3, <2>1 DEF ResumeRead, StateTypeOK
<1>4. CASE ResumeWrite
  <2>1. CallTypeOK'
    BY <1>0, <1>4, CallTyped DEF ResumeWrite
  <2>2. QED
    BY <1>0, <1>4, <2>1 DEF ResumeWrite, StateTypeOK, Statuses
<1>5. CASE ResumeCron
  BY <1>0, <1>5, CallTyped DEF ResumeCron, StateTypeOK
<1>6. CASE UpdateCron
  <2>1. CallTypeOK'
    BY <1>0, <1>6, CallTyped DEF UpdateCron
  <2>2. QED
    BY <1>0, <1>6, <2>1 DEF UpdateCron, StateTypeOK
<1>7. CASE UpdateWrite
  <2>1. task' \in TaskRows
    <3>1. call.mode \in AllModes /\ call.status \in Statuses /\ call.runs \in Nat
      BY DEF CallTypeOK
    <3>2. QED
      BY <1>7, <3>1 DEF UpdateWrite, UpdateRow, StateTypeOK, TaskRows
  <2>2. QED
    BY <1>0, <1>7, <2>1, CallTyped DEF UpdateWrite, StateTypeOK
<1>8. CASE \E m \in Modes : UpdateRead(m)
  <2>1. PICK m \in Modes : UpdateRead(m)
    BY <1>8
  <2>2. m \in AllModes /\ task.status \in Statuses /\ task.runs \in Nat
    BY DEF StateTypeOK, TaskRows, AllModes
  <2>3. CallTypeOK'
    BY <1>0, <2>1, <2>2, CallTyped DEF UpdateRead, Statuses
  <2>4. QED
    BY <1>0, <2>1, <2>3 DEF UpdateRead, StateTypeOK
<1>9. QED
  BY <1>1, <1>2, <1>3, <1>4, <1>5, <1>6, <1>7, <1>8 DEF Requests

\* A request leaves the executions alone.
LEMMA RequestKeeps ==
  ASSUME StateTypeOK, TaskInv, CallTypeOK, Requests, UNCHANGED execVars, up, up'
  PROVE  StateTypeOK' /\ TaskInv' /\ CallTypeOK'
<1> USE DEF DownInv
<1>1. /\ StateTypeOK' /\ CronInv' /\ CallTypeOK'
      /\ row' = row /\ UNCHANGED <<runningVars, taken, stopped>>
  BY RequestTyped DEF TaskInv
<1>2. OneRunAtATime' /\ OutcomeInv' /\ RowInv' /\ EntryInv'
  BY <1>1 DEF TaskInv, OneRunAtATime, OutcomeInv, RowInv, EntryInv, runningVars, execVars
<1>3. EntriesReachTheRun' /\ StopInv' /\ RunningRowHasARun'
  BY <1>1 DEF TaskInv, EntriesReachTheRun, Cancellable, StopInv, RunningRowHasARun,
              runningVars, execVars
<1>4. QED
  BY <1>1, <1>2, <1>3 DEF TaskInv

\* Who is cancelled before its last turn ended has not recorded an outcome.
LEMMA CancelKeeps ==
  ASSUME StateTypeOK, ExecTypeOK, TaskInv, stopped \subseteq Execs, NEW es \in SUBSET Execs,
         CancelAll(es), UNCHANGED execVars, up, up', UNCHANGED <<taskVars, taskRunning, scriptEntry, aiEntries>>,
         registry' = registry, taken' \subseteq taken,
         \A e \in taken \ taken' : e \in es
  PROVE  StateTypeOK' /\ TaskInv' /\ stopped' \subseteq Execs
<1> USE DEF DownInv, StateTypeOK, TaskInv, CancelAll, taskVars, execVars
<1>1. StateTypeOK' /\ CronInv' /\ stopped' \subseteq Execs
  BY DEF CronInv
<1>2. OneRunAtATime' /\ OutcomeInv' /\ RowInv' /\ EntryInv'
  BY DEF OneRunAtATime, OutcomeInv, RowInv, EntryInv
<1>3. EntriesReachTheRun' /\ RunningRowHasARun'
  BY DEF EntriesReachTheRun, Cancellable, RunningRowHasARun
<1>4. StopInv'
  BY DEF StopInv, OutcomeInv, RowInv, Unended, Holding, InTurn
<1>5. QED
  BY <1>1, <1>2, <1>3, <1>4

LEMMA CancelsKeep ==
  ASSUME StateTypeOK, ExecTypeOK, TaskInv, CallTypeOK, stopped \subseteq Execs,
         Cancels, UNCHANGED execVars, up, up'
  PROVE  StateTypeOK' /\ TaskInv' /\ CallTypeOK' /\ stopped' \subseteq Execs
<1> USE DEF DownInv
<1>0. Cancellable \subseteq Execs
  BY DEF Cancellable, StateTypeOK
<1>1. CASE Stop
  <2>1. CallTypeOK'
    BY <1>1, CallTyped DEF Stop, CallTypeOK
  <2>2. QED
    BY <1>0, <1>1, <2>1, CancelKeeps DEF Stop, taskVars
<1>2. CASE DeleteCancel
  <2>1. CallTypeOK'
    BY <1>2, CallTyped DEF DeleteCancel, CallTypeOK, AllModes, Statuses
  <2>2. QED
    BY <1>0, <1>2, <2>1, CancelKeeps DEF DeleteCancel, taskVars
<1>3. CASE DeleteCron
  <2>1. CallTypeOK'
    BY <1>3, CallTyped DEF DeleteCron, At, CallTypeOK
  <2>2. CronInv' /\ StateTypeOK'
    BY <1>3, RowsTyped DEF DeleteCron, StateTypeOK, TaskInv, runningVars
  <2>3. OneRunAtATime' /\ OutcomeInv' /\ RowInv' /\ EntryInv'
    BY <1>3 DEF DeleteCron, TaskInv, OneRunAtATime, OutcomeInv, RowInv, EntryInv,
                runningVars, execVars
  <2>4. EntriesReachTheRun' /\ StopInv' /\ RunningRowHasARun' /\ stopped' = stopped
    BY <1>3 DEF DeleteCron, TaskInv, EntriesReachTheRun, Cancellable, StopInv,
                RunningRowHasARun, runningVars, execVars
  <2>5. QED
    BY <2>1, <2>2, <2>3, <2>4 DEF TaskInv
<1>4. CASE DeleteRows
  <2>1. CallTypeOK'
    BY <1>4, CallTyped DEF DeleteRows, CallTypeOK
  <2>2. CronInv' /\ StateTypeOK'
    BY <1>4 DEF DeleteRows, StateTypeOK, TaskInv, CronInv, runningVars, RowStatuses,
                TaskRows, Statuses
  <2>3. OneRunAtATime' /\ OutcomeInv' /\ RowInv' /\ EntryInv'
    BY <1>4 DEF DeleteRows, TaskInv, OneRunAtATime, OutcomeInv, RowInv, EntryInv,
                runningVars, execVars
  <2>4. EntriesReachTheRun' /\ StopInv' /\ RunningRowHasARun' /\ stopped' = stopped
    BY <1>4 DEF DeleteRows, TaskInv, EntriesReachTheRun, Cancellable, StopInv,
                RunningRowHasARun, runningVars, execVars
  <2>5. QED
    BY <2>1, <2>2, <2>3, <2>4 DEF TaskInv
<1>5. CASE \E e \in Execs : TakeSession(e)
  <2>1. PICK e \in Execs : TakeSession(e)
    BY <1>5
  <2>2. CallTypeOK'
    BY <2>1, CallTyped DEF TakeSession, CallTypeOK
  <2>3. CronInv' /\ StateTypeOK' /\ stopped' = stopped
    BY <2>1 DEF TakeSession, StateTypeOK, TaskInv, CronInv, taskVars
  <2>4. OneRunAtATime' /\ OutcomeInv' /\ RowInv' /\ EntryInv'
    BY <2>1 DEF TakeSession, TaskInv, OneRunAtATime, OutcomeInv, RowInv, EntryInv,
                taskVars, execVars
  <2>5. EntriesReachTheRun' /\ StopInv' /\ RunningRowHasARun'
    BY <2>1 DEF TakeSession, TaskInv, EntriesReachTheRun, Cancellable, StopInv,
                RunningRowHasARun, taskVars, execVars
  <2>6. QED
    BY <2>2, <2>3, <2>4, <2>5 DEF TaskInv
<1>6. CASE \E e \in Execs : CancelSession(e)
  <2>1. PICK e \in Execs : CancelSession(e)
    BY <1>6
  <2>2. CallTypeOK'
    BY <2>1, CallTyped DEF CancelSession, CallTypeOK
  <2>3. CancelAll({e}) /\ taken' \subseteq taken /\ \A f \in taken \ taken' : f \in {e}
    BY <2>1 DEF CancelSession
  <2>4. QED
    BY <2>1, <2>2, <2>3, CancelKeeps DEF CancelSession, taskVars
<1>7. QED
  BY <1>1, <1>2, <1>3, <1>4, <1>5, <1>6 DEF Cancels

\* A dead process leaves rows behind and nothing else.
LEMMA CrashKeeps ==
  ASSUME StateTypeOK, ExecTypeOK, QueueTypeOK, CallTypeOK, TaskInv, Crash
  PROVE  StateTypeOK' /\ ExecTypeOK' /\ QueueTypeOK' /\ CallTypeOK' /\ TaskInv' /\ stopped' = {}
<1> USE DEF Crash
<1>1. StateTypeOK' /\ CronInv'
  BY DEF StateTypeOK, CronInv
<1>2. ExecTypeOK'
  BY DEF ExecTypeOK, NoSnap, AllModes, Statuses, Before, Holding
<1>3. QueueTypeOK' /\ stopped' = {}
  BY QueueTyped
<1>4. CallTypeOK'
  BY DEF CallTypeOK, NoCall, AllModes, Statuses
<1>5. \A e \in Execs : pc'[e] \in Before /\ (pc'[e] # "over" => pc[e] \in {"free", "claim"})
  BY DEF ExecTypeOK, Before, Holding
<1>6. OneRunAtATime' /\ OutcomeInv' /\ EntryInv' /\ EntriesReachTheRun'
  BY <1>5, TaskAssumption DEF OneRunAtATime, OutcomeInv, EntryInv, EntriesReachTheRun, Cancellable,
              Before, Holding, InTurn
<1>7. RowInv'
  BY <1>5 DEF TaskInv, RowInv, Before, Holding, InTurn
<1>8. StopInv' /\ RunningRowHasARun' /\ DownInv'
  BY <1>5 DEF StopInv, RunningRowHasARun, DownInv
<1>9. QED
  BY <1>1, <1>2, <1>3, <1>4, <1>6, <1>7, <1>8 DEF TaskInv

\* The next process marks them as failed.
LEMMA RestartKeeps ==
  ASSUME StateTypeOK, ExecTypeOK, QueueTypeOK, CallTypeOK, TaskInv, Restart
  PROVE  /\ StateTypeOK' /\ ExecTypeOK' /\ QueueTypeOK' /\ CallTypeOK' /\ TaskInv'
         /\ stopped' = stopped
<1> USE DEF Restart
<1>1. row' \in [Execs -> RowStatuses] /\ \A e \in Execs : row'[e] # "running"
  BY DEF StateTypeOK, RowStatuses
<1>2. StateTypeOK' /\ CronInv'
  BY <1>1, RowsTyped DEF StateTypeOK, TaskInv, CronInv, runningVars, LoadTask
<1>3. ExecTypeOK' /\ QueueTypeOK' /\ CallTypeOK' /\ stopped' = stopped
  BY DEF ExecTypeOK, QueueTypeOK, CallTypeOK, execVars, queueVars
<1>4. OneRunAtATime' /\ OutcomeInv' /\ EntryInv' /\ EntriesReachTheRun'
  BY DEF TaskInv, OneRunAtATime, OutcomeInv, EntryInv, EntriesReachTheRun, Cancellable,
         execVars, runningVars
<1>5. RowInv'
  <2>1. \A e \in Execs : row[e] = "none" => row'[e] = "none"
    BY DEF StateTypeOK
  <2>2. \A e \in Execs : row[e] \in {"none", "running"} => row'[e] \in {"none", "failed"}
    BY DEF StateTypeOK
  <2>3. \A e \in Execs : pc[e] \notin {"adopt", "store"} \cup InTurn
    BY DEF TaskInv, DownInv, Before, InTurn
  <2>4. QED
    BY <2>1, <2>3 DEF TaskInv, RowInv, execVars
<1>6. StopInv' /\ RunningRowHasARun' /\ DownInv'
  BY <1>1 DEF TaskInv, StopInv, RunningRowHasARun, DownInv, StateTypeOK, execVars, runningVars
<1>7. QED
  BY <1>1, <1>2, <1>3, <1>4, <1>5, <1>6 DEF TaskInv

-----------------------------------------------------------------------------
(***************************************************************************)
(* The whole                                                               *)
(***************************************************************************)
IInv == TypeOK /\ TaskInv

LEMMA InitInv == ASSUME Init PROVE IInv
<1> USE DEF Init, StateInit, ExecInit, QueueInit
<1>1. PICK m \in Modes, p \in Repeats :
        /\ task = [exists |-> TRUE, status |-> "active", mode |-> m, expr |-> m = "cron",
                   repeat |-> p, runs |-> 0]
        /\ entry = ~HasEventSource(m)
        /\ jobs = IF HasEventSource(m) THEN 0 ELSE 1
  OBVIOUS
<1>2. StateTypeOK /\ CronInv
  <2>1. m \in AllModes /\ p \in {"unlimited", "limited", "once"} /\ (m = "cron") \in BOOLEAN
    BY TaskAssumption DEF AllModes
  <2>2. task \in TaskRows
    BY <1>1, <2>1 DEF TaskRows, Statuses
  <2>3. entry \in BOOLEAN /\ jobs \in Nat /\ CronInv
    <3>1. CASE HasEventSource(m)
      BY <1>1, <3>1 DEF CronInv
    <3>2. CASE ~HasEventSource(m)
      BY <1>1, <3>2 DEF CronInv
    <3>3. QED
      BY <3>1, <3>2
  <2>4. QED
    BY <2>2, <2>3 DEF StateTypeOK, RowStatuses
<1>3. ExecTypeOK /\ QueueTypeOK /\ CallTypeOK
  BY DEF ExecTypeOK, QueueTypeOK, CallTypeOK, NoDrain, NoCall, NoSnap, AllModes, Statuses,
         Before, Holding
<1>4. DownInv /\ OneRunAtATime /\ OutcomeInv /\ RowInv
  BY DEF DownInv, OneRunAtATime, OutcomeInv, RowInv, Before, Holding, InTurn
<1>5. EntryInv /\ EntriesReachTheRun /\ StopInv /\ RunningRowHasARun
  BY TaskAssumption DEF EntryInv, EntriesReachTheRun, Cancellable, StopInv, RunningRowHasARun,
                        Before, Holding, InTurn
<1>6. QED
  BY <1>2, <1>3, <1>4, <1>5, TypeParts DEF IInv, TaskInv

\* The steps of executions and of the triggers.
LEMMA TriggersKeep ==
  ASSUME StateTypeOK, ExecTypeOK, QueueTypeOK, TaskInv, up, up', Triggers, CancelsRemain,
         stopped' = {e \in stopped : pc'[e] # "over"}
  PROVE  StateTypeOK' /\ ExecTypeOK' /\ QueueTypeOK' /\ TaskInv'
<1>1. PICK e \in Execs :
        Tick(e) \/ Manual(e) \/ Mail(e) \/ EventRead(e) \/ EventBegins(e)
          \/ EventBusy(e) \/ EventReturns(e) \/ TriggerRefused(e) \/ ExecStep(e)
  BY DEF Triggers
<1>2. stopped' \subseteq stopped
  OBVIOUS
<1>3. ASSUME Release(e) PROVE stopped' \subseteq stopped \ {e}
  BY <1>3 DEF Release, Vanish, Goto, ExecTypeOK
<1>4. CASE Tick(e) \/ Manual(e) \/ Mail(e)
  BY <1>2, <1>4, ReadKeeps, QueueTyped DEF Tick, Manual, Mail
<1>5. CASE EventRead(e)
  BY <1>2, <1>5, ReadKeeps, QueueTyped DEF EventRead
<1>6. CASE EventBegins(e)
  BY <1>2, <1>6, ClaimedKeeps, QueueTyped DEF EventBegins
<1>7. CASE EventBusy(e)
  BY <1>2, <1>7, RefusedKeeps, QueueTyped DEF EventBusy
<1>8. CASE EventReturns(e)
  BY <1>3, <1>8, ReleaseKeeps, QueueTyped DEF EventReturns
<1>9. CASE TriggerRefused(e)
  BY <1>2, <1>9, RefusedKeeps, QueueTyped DEF TriggerRefused
<1>10. CASE ExecStep(e)
  <2>1. QueueTypeOK' /\ Step(e)
    BY <1>10, QueueTyped DEF ExecStep
  <2>2. CASE Claimed(e)
    BY <1>2, <2>1, <2>2, ClaimedKeeps
  <2>3. CASE Release(e)
    BY <1>3, <2>1, <2>3, ReleaseKeeps
  <2>4. CASE Inner(e)
    BY <1>2, <2>1, <2>4, InnerKeeps
  <2>5. QED
    BY <2>1, <2>2, <2>3, <2>4 DEF Step, Inner
<1>11. QED
  BY <1>1, <1>4, <1>5, <1>6, <1>7, <1>8, <1>9, <1>10

\* Events that come and go beside the executions.
LEMMA EventsKeep ==
  ASSUME StateTypeOK, ExecTypeOK, QueueTypeOK, TaskInv, up, up', CancelsRemain,
         EventArrives \/ EventNext \/ EventGone,
         stopped' = {e \in stopped : pc'[e] # "over"}
  PROVE  StateTypeOK' /\ ExecTypeOK' /\ QueueTypeOK' /\ TaskInv'
<1>1. UNCHANGED <<stateVars, execVars>> /\ QueueTypeOK'
  BY QueueTyped DEF EventArrives, EventNext, EventGone
<1>2. StateTypeOK' /\ ExecTypeOK'
  BY <1>1 DEF StateTypeOK, ExecTypeOK, stateVars, taskVars, runningVars, execVars
<1>3. DownInv' /\ CronInv' /\ OneRunAtATime' /\ OutcomeInv' /\ RowInv'
  BY <1>1 DEF TaskInv, DownInv, CronInv, OneRunAtATime, OutcomeInv, RowInv,
              stateVars, taskVars, runningVars, execVars
<1>4. EntryInv' /\ EntriesReachTheRun' /\ StopInv' /\ RunningRowHasARun'
  BY <1>1 DEF TaskInv, EntryInv, EntriesReachTheRun, Cancellable, StopInv, RunningRowHasARun,
              CancelsRemain, InTurn, stateVars, taskVars, runningVars, execVars
<1>5. QED
  BY <1>1, <1>2, <1>3, <1>4 DEF TaskInv

LEMMA NextInv == ASSUME IInv, [Next]_vars PROVE IInv'
<1> USE TypeParts, TypePartsPrime DEF IInv
<1>1. CASE /\ up /\ up' = up /\ Watch
           /\ Triggers \/ EventArrives \/ EventNext \/ EventGone
           /\ stopped' = {e \in stopped : pc'[e] # "over"}
           /\ taken' = {e \in taken : pc'[e] # "over"}
           /\ UNCHANGED <<call, calls>>
  <2>1. /\ raced' \in BOOLEAN /\ passedOver' \in BOOLEAN
        /\ stopped' \subseteq Execs /\ CallTypeOK'
    BY <1>1 DEF Watch, CallTypeOK
  <2>2. StateTypeOK' /\ ExecTypeOK' /\ QueueTypeOK' /\ TaskInv'
    BY <1>1, TriggersKeep, EventsKeep DEF CancelsRemain
  <2>3. QED
    BY <1>1, <2>1, <2>2
<1>2. CASE up /\ up' = up /\ Watch /\ Requests /\ UNCHANGED <<execVars, queueVars>>
  <2>1. raced' \in BOOLEAN /\ passedOver' \in BOOLEAN /\ QueueTypeOK'
    BY <1>2, QueueTyped DEF Watch
  <2>2. ExecTypeOK' /\ stopped' = stopped
    BY <1>2 DEF ExecTypeOK, execVars, Requests
  <2>3. StateTypeOK' /\ TaskInv' /\ CallTypeOK'
    BY <1>2, RequestKeeps
  <2>4. QED
    BY <1>2, <2>1, <2>2, <2>3
<1>3. CASE up /\ up' = up /\ Watch /\ Cancels /\ UNCHANGED <<execVars, queueVars>>
  <2>1. raced' \in BOOLEAN /\ passedOver' \in BOOLEAN /\ QueueTypeOK'
    BY <1>3, QueueTyped DEF Watch
  <2>2. ExecTypeOK'
    BY <1>3 DEF ExecTypeOK, execVars
  <2>3. StateTypeOK' /\ TaskInv' /\ CallTypeOK' /\ stopped' \subseteq Execs
    BY <1>3, CancelsKeep
  <2>4. QED
    BY <1>3, <2>1, <2>2, <2>3
<1>4. CASE Crash
  BY <1>4, CrashKeeps DEF Crash, TaskInv
<1>5. CASE Restart
  BY <1>5, RestartKeeps DEF Restart, LoadTask
<1>6. CASE UNCHANGED vars
  <2> USE DEF vars, stateVars, taskVars, runningVars, execVars, queueVars
  <2>1. StateTypeOK' /\ ExecTypeOK' /\ QueueTypeOK' /\ CallTypeOK'
    BY <1>6 DEF StateTypeOK, ExecTypeOK, QueueTypeOK, CallTypeOK
  <2>2. DownInv' /\ CronInv' /\ OneRunAtATime' /\ OutcomeInv' /\ RowInv'
    BY <1>6 DEF TaskInv, DownInv, CronInv, OneRunAtATime, OutcomeInv, RowInv
  <2>3. EntryInv' /\ EntriesReachTheRun' /\ StopInv' /\ RunningRowHasARun'
    BY <1>6 DEF TaskInv, EntryInv, EntriesReachTheRun, Cancellable, StopInv, RunningRowHasARun
  <2>4. QED
    BY <1>6, <2>1, <2>2, <2>3 DEF TaskInv
<1>7. QED
  BY <1>1, <1>2, <1>3, <1>4, <1>5, <1>6 DEF Next

LEMMA AlwaysInv == Spec => []IInv
  BY InitInv, NextInv, PTL DEF Spec

\* Every variable keeps to its type; in particular the cron library never has
\* fewer jobs than none, though requests and executions both remove them.
THEOREM TypeCorrect == Spec => []TypeOK
<1>1. IInv => TypeOK
  BY DEF IInv
<1>2. QED
  BY <1>1, AlwaysInv, PTL

\* The running flag of the task excludes a second execution and is never left
\* behind, for any number of triggers.
THEOREM TaskRunsOnce == Spec => []OneRunAtATime
<1>1. IInv => OneRunAtATime
  BY DEF IInv, TaskInv
<1>2. QED
  BY <1>1, AlwaysInv, PTL

\* Whatever a stop finds is alive, and it finds whatever has a turn under way.
THEOREM StopFindsTheRun == Spec => []EntriesReachTheRun
<1>1. IInv => EntriesReachTheRun
  BY DEF IInv, TaskInv
<1>2. QED
  BY <1>1, AlwaysInv, PTL

\* A run that was stopped before its last turn ended is not recorded as
\* completed.
THEOREM StopIsHonoured == Spec => []CancelIsHonoured
<1>1. IInv => CancelIsHonoured
  BY DEF IInv, TaskInv, StopInv, CancelIsHonoured
<1>2. QED
  BY <1>1, AlwaysInv, PTL

\* A row that says "running" has an execution that will still end it, also
\* after any number of crashes.
THEOREM RunningRowsAreAlive == Spec => []RunningRowHasARun
<1>1. IInv => RunningRowHasARun
  BY DEF IInv, TaskInv
<1>2. QED
  BY <1>1, AlwaysInv, PTL

-----------------------------------------------------------------------------
(***************************************************************************)
(* The cron job and the status: what a request, or an execution that       *)
(* updates the status, has left to write.                                  *)
(***************************************************************************)
\* The task is due and the last restart did not pass it over.
Scheduled == Due /\ ~passedOver
JobIs(b) == entry = b /\ jobs = IF b THEN 1 ELSE 0
Quiet == \A e \in Execs : pc[e] \notin Advancing

\* An overlap is remembered; a request has found the task, which only a request
\* can delete; a dead process runs no job; a task that a restart passed over is
\* due and has none.
OverlapInv ==
  /\ up /\ Overlap => raced
  /\ call.op # "none" => task.exists
  /\ ~up => call.op = "none" /\ JobIs(FALSE)
  /\ passedOver => Due /\ ~entry

\* Where the job stands between two steps of a request.
RequestInv ==
  /\ call.op = "none" => JobIs(Scheduled)
  /\ call.op = "pause" => JobIs(FALSE)
  /\ call.op = "resume" =>
       /\ JobIs(FALSE) /\ call.mode = task.mode
       /\ call.step = 1 => task.status = "paused"
       /\ call.step = 2 => task.status = "active"
       /\ call.step \in {1, 2}
  /\ At("update", 1) => JobIs(Scheduled)
  /\ At("update", 2) => JobIs(call.status = "active" /\ ~HasEventSource(call.mode))
  /\ At("delete", 1) => JobIs(Scheduled)
  /\ At("delete", 2) => JobIs(FALSE)

\* ... and between two steps of an execution.
UpdateInv == \A e \in Execs :
  /\ pc[e] = "pausing" => JobIs(FALSE)
  /\ pc[e] = "unregister" => JobIs(Scheduled) /\ newStatus[e] # "active"
  /\ pc[e] = "write" => IF newStatus[e] = "active" THEN JobIs(Scheduled) /\ task.status = "active"
                                                   ELSE JobIs(FALSE)

JobInv ==
  /\ OverlapInv
  /\ up /\ ~raced => (Quiet => RequestInv) /\ UpdateInv

\* The three ways to touch the job.
LEMMA JobMoves ==
  /\ \A b \in BOOLEAN : JobIs(b) /\ RemoveCron => JobIs(FALSE)'
  /\ \A b \in BOOLEAN : JobIs(b) /\ ReplaceCron => JobIs(TRUE)'
  /\ JobIs(FALSE) /\ RegisterCron => JobIs(TRUE)'
<1>1. ASSUME NEW b \in BOOLEAN, JobIs(b), RemoveCron PROVE JobIs(FALSE)'
  <2>1. b = TRUE => entry = TRUE /\ jobs = 1
    BY <1>1 DEF JobIs
  <2>2. b = FALSE => entry = FALSE /\ jobs = 0
    BY <1>1 DEF JobIs
  <2>3. QED
    BY <1>1, <2>1, <2>2 DEF JobIs, RemoveCron
<1>2. ASSUME NEW b \in BOOLEAN, JobIs(b), ReplaceCron PROVE JobIs(TRUE)'
  <2>1. b = TRUE => entry = TRUE /\ jobs = 1
    BY <1>2 DEF JobIs
  <2>2. b = FALSE => entry = FALSE /\ jobs = 0
    BY <1>2 DEF JobIs
  <2>3. QED
    BY <1>2, <2>1, <2>2 DEF JobIs, ReplaceCron
<1>3. ASSUME JobIs(FALSE), RegisterCron PROVE JobIs(TRUE)'
  <2>1. entry = FALSE /\ jobs = 0
    BY <1>3 DEF JobIs
  <2>2. QED
    BY <1>3, <2>1 DEF JobIs, RegisterCron
<1>4. QED
  BY <1>1, <1>2, <1>3

\* Which task is due does not depend on its counter, and who was passed over
\* stays so as long as the entry and the task do.
LEMMA ScheduledStays ==
  ASSUME OverlapInv, Watch, entry' = entry, task'.exists = task.exists, task'.status = task.status, task'.mode = task.mode
  PROVE  Scheduled' = Scheduled /\ Due' = Due
<1>1. Due' = Due
  BY DEF Due, HasEventSource
<1>2. QED
  BY <1>1 DEF Scheduled, Due, OverlapInv, Watch

\* A step that leaves alone what requests and updates of the status are about.
LEMMA JobUntouched ==
  ASSUME JobInv, up, up', Watch,
         UNCHANGED <<entry, jobs, call>>,
         task'.exists = task.exists, task'.status = task.status, task'.mode = task.mode,
         \A e \in Execs : pc'[e] \in Advancing \/ pc[e] \in Advancing =>
                            pc'[e] = pc[e] /\ newStatus'[e] = newStatus[e]
  PROVE  JobInv'
<1> USE DEF Watch
<1>1. Scheduled' = Scheduled /\ Quiet' = Quiet
  BY ScheduledStays DEF Quiet, JobInv
<1>2. OverlapInv'
  BY DEF JobInv, OverlapInv, Watch
<1>3. ASSUME ~raced', Quiet' PROVE RequestInv'
  BY <1>1, <1>3 DEF JobInv, RequestInv, JobIs, At
<1>4. ASSUME ~raced' PROVE UpdateInv'
  <2>1. UpdateInv
    BY <1>4 DEF JobInv
  <2>2. \A e \in Execs : pc'[e] \in {"pausing", "unregister", "write"} =>
                           pc'[e] = pc[e] /\ newStatus'[e] = newStatus[e]
    BY DEF Advancing
  <2>3. QED
    BY <1>1, <2>1, <2>2 DEF UpdateInv, JobIs
<1>5. QED
  BY <1>2, <1>3, <1>4 DEF JobInv

\* Nobody else is running.
LEMMA RunsAlone ==
  ASSUME TaskInv, NEW e \in Execs, pc[e] \in Holding
  PROVE  \A f \in Execs : f # e => pc[f] \notin Advancing
  BY DEF TaskInv, OneRunAtATime, Holding, Advancing

\* The first step of an update: no request is in progress, or it is an overlap.
LEMMA UpdateBegins ==
  ASSUME StateTypeOK, ExecTypeOK, TaskInv, JobInv, up, up', Watch,
         UNCHANGED call, NEW e \in Execs, AgentMissing(e) \/ AdvanceRead(e)
  PROVE  JobInv'
<1> USE DEF Watch
<1>1. /\ pc[e] \in Holding /\ pc[e] \notin Advancing
      /\ pc' = [pc EXCEPT ![e] = pc'[e]] /\ pc'[e] \in Advancing
      /\ task' = task
  BY DEF AgentMissing, AdvanceRead, Goto, Holding, Advancing, ExecTypeOK, stateVars, taskVars
<1>2. \A f \in Execs : f # e => pc[f] \notin Advancing /\ pc'[f] = pc[f]
  BY <1>1, RunsAlone DEF ExecTypeOK
<1>3. ~Quiet' /\ Quiet
  BY <1>1, <1>2 DEF Quiet
<1>4. OverlapInv'
  BY <1>1 DEF JobInv, OverlapInv, Watch
<1>5. ASSUME ~raced' PROVE UpdateInv'
  <2>1. call.op = "none"
    BY <1>1, <1>5 DEF Overlap
  <2>2. JobIs(Scheduled) /\ Scheduled \in BOOLEAN
    BY <1>3, <1>5, <2>1 DEF JobInv, RequestInv, Scheduled, Due
  <2>3. \A f \in Execs : pc'[f] \in {"pausing", "unregister", "write"} => f = e
    BY <1>2 DEF Advancing
  <2>4. CASE AgentMissing(e)
    <3>1. JobIs(FALSE)' /\ pc'[e] = "pausing"
      BY <2>2, <2>4, JobMoves DEF AgentMissing, Goto, ExecTypeOK
    <3>2. QED
      BY <2>3, <3>1 DEF UpdateInv
  <2>5. CASE AdvanceRead(e)
    <3>1. /\ UNCHANGED <<entry, jobs>> /\ newStatus'[e] = NextStatus(e)
          /\ pc'[e] = IF NextStatus(e) = "active" THEN "write" ELSE "unregister"
      BY <2>5 DEF AdvanceRead, Goto, ExecTypeOK, stateVars, taskVars
    <3>2. JobIs(Scheduled)'
      <4>1. Scheduled' = Scheduled
        BY <1>1, <3>1, ScheduledStays DEF JobInv
      <4>2. QED
        BY <2>2, <3>1, <4>1 DEF JobIs
    <3>3. NextStatus(e) = "active" => task.status = "active"
      BY DEF NextStatus
    <3>4. QED
      BY <1>1, <2>3, <3>1, <3>2, <3>3 DEF UpdateInv
  <2>6. QED
    BY <2>4, <2>5
<1>6. QED
  BY <1>3, <1>4, <1>5 DEF JobInv

\* Its second step drops the job.
LEMMA UpdateDropsJob ==
  ASSUME StateTypeOK, ExecTypeOK, TaskInv, JobInv, up, up', Watch,
         UNCHANGED call, NEW e \in Execs, AdvanceCron(e)
  PROVE  JobInv'
<1> USE DEF Watch
<1>1. /\ pc[e] = "unregister" /\ pc' = [pc EXCEPT ![e] = "write"] /\ pc'[e] = "write"
      /\ task' = task /\ newStatus' = newStatus /\ RemoveCron
  BY DEF AdvanceCron, Goto, ExecTypeOK
<1>2. \A f \in Execs : f # e => pc[f] \notin Advancing /\ pc'[f] = pc[f]
  BY <1>1, RunsAlone DEF ExecTypeOK, Holding
<1>3. ~Quiet'
  BY <1>1 DEF Quiet, Advancing
<1>4. OverlapInv'
  BY <1>1 DEF JobInv, OverlapInv, Watch
<1>5. ASSUME ~raced' PROVE UpdateInv'
  <2>1. JobIs(Scheduled) /\ newStatus[e] # "active" /\ Scheduled \in BOOLEAN
    BY <1>1, <1>5 DEF JobInv, UpdateInv, Scheduled, Due
  <2>2. JobIs(FALSE)' /\ newStatus'[e] # "active"
    BY <1>1, <2>1, JobMoves
  <2>3. \A f \in Execs : pc'[f] \in {"pausing", "unregister", "write"} => f = e
    BY <1>2 DEF Advancing
  <2>4. QED
    BY <1>1, <2>2, <2>3 DEF UpdateInv
<1>6. QED
  BY <1>3, <1>4, <1>5 DEF JobInv

\* Its last step writes the status that the job stands for.
LEMMA UpdateEnds ==
  ASSUME StateTypeOK, ExecTypeOK, TaskInv, JobInv, up, up', Watch,
         UNCHANGED call, NEW e \in Execs, PausingWrite(e) \/ AdvanceWrite(e)
  PROVE  JobInv'
<1> USE DEF Watch
<1>1. /\ pc[e] \in {"pausing", "write"} /\ pc' = [pc EXCEPT ![e] = "release"]
      /\ UNCHANGED <<entry, jobs>>
  BY DEF PausingWrite, AdvanceWrite, Goto
<1>2. \A f \in Execs : pc'[f] \notin Advancing
  BY <1>1, RunsAlone DEF ExecTypeOK, Holding, Advancing
<1>3. task \in TaskRows
  BY DEF StateTypeOK
<1>4. /\ task'.exists = task.exists /\ task'.mode = task.mode
      /\ task.exists =>
           task'.status = IF pc[e] = "pausing" THEN "paused" ELSE newStatus[e]
  <2>1. CASE PausingWrite(e)
    BY <1>3, <2>1 DEF PausingWrite, UpdateRow, TaskRows
  <2>2. CASE AdvanceWrite(e)
    <3>1. pc[e] = "write" /\ UpdateRow([task EXCEPT !.status = newStatus[e], !.runs = @ + 1])
      BY <2>2 DEF AdvanceWrite
    <3>2. LET t == [task EXCEPT !.status = newStatus[e], !.runs = @ + 1]
          IN t.exists = task.exists /\ t.mode = task.mode /\ t.status = newStatus[e]
      BY <1>3 DEF TaskRows
    <3>3. QED
      BY <3>1, <3>2 DEF UpdateRow
  <2>3. QED
    BY <2>1, <2>2
<1>5. OverlapInv'
  BY <1>4 DEF JobInv, OverlapInv, Watch
<1>6. ASSUME ~raced' PROVE RequestInv'
  <2>1. call.op = "none"
    BY <1>1, <1>6 DEF JobInv, OverlapInv, Overlap, Advancing
  <2>2. pc[e] = "pausing" => JobIs(FALSE) /\ ~Scheduled'
    BY <1>1, <1>4, <1>6 DEF JobInv, UpdateInv, Scheduled, Due
  <2>3. pc[e] = "write" /\ newStatus[e] # "active" => JobIs(FALSE) /\ ~Scheduled'
    BY <1>4, <1>6 DEF JobInv, UpdateInv, Scheduled, Due
  <2>4. pc[e] = "write" /\ newStatus[e] = "active" => JobIs(Scheduled) /\ Scheduled' = Scheduled
    <3>1. ASSUME pc[e] = "write", newStatus[e] = "active"
          PROVE  JobIs(Scheduled) /\ task.status = "active" /\ task'.status = task.status
      BY <1>4, <1>6, <3>1 DEF JobInv, UpdateInv, UpdateRow, PausingWrite, AdvanceWrite
    <3>2. QED
      BY <1>1, <1>4, <3>1, ScheduledStays DEF JobInv
  <2>5. JobIs(Scheduled)'
    <3>1. CASE JobIs(FALSE) /\ ~Scheduled'
      BY <1>1, <3>1 DEF JobIs, Scheduled, Due
    <3>2. CASE JobIs(Scheduled) /\ Scheduled' = Scheduled
      BY <1>1, <3>2 DEF JobIs
    <3>3. QED
      BY <1>1, <2>2, <2>3, <2>4, <3>1, <3>2
  <2>6. QED
    BY <2>1, <2>5 DEF RequestInv, At
<1>7. UpdateInv'
  BY <1>2 DEF UpdateInv, Advancing
<1>8. QED
  BY <1>5, <1>6, <1>7 DEF JobInv

\* Every other step of an execution leaves job, status and update alone.
LEMMA InnerSparesJob ==
  ASSUME StateTypeOK, ExecTypeOK, NEW e \in Execs, Inner(e),
         ~AgentMissing(e), ~PausingWrite(e), ~AdvanceRead(e), ~AdvanceCron(e), ~AdvanceWrite(e)
  PROVE  /\ UNCHANGED <<entry, jobs, newStatus>>
         /\ task'.exists = task.exists /\ task'.status = task.status /\ task'.mode = task.mode
         /\ \A f \in Execs : pc'[f] \in Advancing \/ pc[f] \in Advancing => pc'[f] = pc[f]
<1> USE DEF stateVars, taskVars, Goto, LeaveLoop, Advancing, ExecTypeOK
<1>1. CASE BeginScript(e) \/ ScriptReturns(e) \/ ScriptForgotten(e) \/ RecordSkip(e)
  BY <1>1 DEF BeginScript, ScriptReturns, ScriptForgotten, RecordSkip
<1>2. CASE CreateFails(e) \/ CreateSession(e) \/ Adopt(e) \/ Store(e)
  BY <1>2 DEF CreateFails, CreateSession, AtSession, Adopt, Store
<1>3. CASE NotStarted(e) \/ EndTurn(e) \/ EndCancelled(e) \/ Clean(e) \/ Resumable(e)
  BY <1>3 DEF NotStarted, EndTurn, EndCancelled, Clean, Resumable
<1>4. CASE Abnormal(e) \/ Resume(e) \/ GiveUp(e) \/ Panic(e) \/ Recovered(e)
  BY <1>4 DEF Abnormal, Resume, GiveUp, Panic, Recovered
<1>5. CASE Settle(e) \/ Forget(e)
  BY <1>5 DEF Settle, Forget
<1>6. CASE Stats(e) \/ AdvanceEvent(e)
  <2>1. UNCHANGED <<entry, jobs, newStatus>> /\ CountRun
    BY <1>6 DEF Stats, AdvanceEvent
  <2>2. task'.exists = task.exists /\ task'.status = task.status /\ task'.mode = task.mode
    BY <2>1 DEF CountRun, UpdateRow, StateTypeOK, TaskRows
  <2>3. pc[e] \in {"stats", "advance"} /\ pc' = [pc EXCEPT ![e] = "release"]
    BY <1>6 DEF Stats, AdvanceEvent
  <2>4. QED
    BY <2>1, <2>2, <2>3
<1>7. QED
  BY <1>1, <1>2, <1>3, <1>4, <1>5, <1>6 DEF Inner

LEMMA ExecutionsKeepJob ==
  ASSUME StateTypeOK, ExecTypeOK, TaskInv, JobInv, up, up', Watch,
         UNCHANGED call, Triggers \/ EventArrives \/ EventNext \/ EventGone
  PROVE  JobInv'
<1>1. CASE EventArrives \/ EventNext \/ EventGone
  <2>1. UNCHANGED <<entry, jobs, task, pc, newStatus>>
    BY <1>1 DEF EventArrives, EventNext, EventGone, stateVars, taskVars, execVars
  <2>2. QED
    BY <2>1, JobUntouched
<1>2. CASE Triggers
  <2>1. PICK e \in Execs :
          \/ Tick(e) \/ Manual(e) \/ Mail(e) \/ EventRead(e)
          \/ Claimed(e) \/ Refused(e) \/ Release(e) \/ Inner(e)
    <3>1. PICK e \in Execs :
            Tick(e) \/ Manual(e) \/ Mail(e) \/ EventRead(e) \/ EventBegins(e)
              \/ EventBusy(e) \/ EventReturns(e) \/ TriggerRefused(e) \/ ExecStep(e)
      BY <1>2 DEF Triggers
    <3>2. ExecStep(e) => Claimed(e) \/ Release(e) \/ Inner(e)
      BY DEF ExecStep, Step, Inner
    <3>3. QED
      BY <3>1, <3>2 DEF EventBegins, EventBusy, EventReturns, TriggerRefused
  <2>2. CASE Tick(e) \/ Manual(e) \/ Mail(e) \/ EventRead(e)
    <3>1. pc[e] = "free" /\ Read(e) /\ UNCHANGED stateVars
      BY <2>2 DEF Tick, Manual, Mail, EventRead
    <3>2. /\ UNCHANGED <<entry, jobs, task, newStatus>>
          /\ \A f \in Execs : pc'[f] \in Advancing \/ pc[f] \in Advancing => pc'[f] = pc[f]
      BY <3>1 DEF Read, Goto, stateVars, taskVars, Advancing, ExecTypeOK
    <3>3. QED
      BY <3>2, JobUntouched
  <2>3. CASE Claimed(e) \/ Refused(e)
    <3>1. /\ UNCHANGED <<entry, jobs, task, newStatus>>
          /\ \A f \in Execs : pc'[f] \in Advancing \/ pc[f] \in Advancing => pc'[f] = pc[f]
      BY <2>3 DEF Claimed, Refused, Goto, stateVars, taskVars, Advancing, ExecTypeOK
    <3>2. QED
      BY <3>1, JobUntouched
  <2>4. CASE Release(e)
    <3>1. /\ UNCHANGED <<entry, jobs, task>>
          /\ \A f \in Execs : pc'[f] \in Advancing \/ pc[f] \in Advancing =>
                                pc'[f] = pc[f] /\ newStatus'[f] = newStatus[f]
      BY <2>4 DEF Release, Vanish, Goto, taskVars, Advancing, ExecTypeOK
    <3>2. QED
      BY <3>1, JobUntouched
  <2>5. CASE Inner(e)
    <3>1. CASE AgentMissing(e) \/ AdvanceRead(e)
      BY <3>1, UpdateBegins
    <3>2. CASE AdvanceCron(e)
      BY <3>2, UpdateDropsJob
    <3>3. CASE PausingWrite(e) \/ AdvanceWrite(e)
      BY <3>3, UpdateEnds
    <3>4. CASE /\ ~AgentMissing(e) /\ ~AdvanceRead(e) /\ ~AdvanceCron(e)
               /\ ~PausingWrite(e) /\ ~AdvanceWrite(e)
      BY <2>5, <3>4, InnerSparesJob, JobUntouched
    <3>5. QED
      BY <3>1, <3>2, <3>3, <3>4
  <2>6. QED
    BY <2>1, <2>2, <2>3, <2>4, <2>5
<1>3. QED
  BY <1>1, <1>2

\* Without an overlap a request has the job and the status to itself.
LEMMA RequestIsAlone ==
  ASSUME JobInv, up, UNCHANGED pc, Watch, ~raced',
         call.op # "none" \/ call'.op # "none"
  PROVE  RequestInv /\ UpdateInv'
<1> USE DEF Watch
<1>1. Quiet
  BY DEF JobInv, OverlapInv, Overlap, Quiet
<1>2. RequestInv
  BY <1>1 DEF JobInv
<1>3. UpdateInv'
  BY <1>1 DEF Quiet, UpdateInv, Advancing
<1>4. QED
  BY <1>2, <1>3

\* What the steps of a request do to the request.
LEMMA CallMoves ==
  ASSUME CallTypeOK
  PROVE  /\ \A op, step, m, s, n : Begin(op, step, m, s, n) =>
              /\ call.op = "none" /\ task.exists
              /\ call'.op = op /\ call'.step = step /\ call'.mode = m /\ call'.status = s
         /\ Done => call'.op = "none"
         /\ NextStep => /\ call'.op = call.op /\ call'.step = call.step + 1
                        /\ call'.mode = call.mode /\ call'.status = call.status
  BY DEF CallTypeOK, Begin, Done, NoCall, NextStep

LEMMA RowMoves ==
  ASSUME StateTypeOK
  PROVE  /\ \A s \in Statuses : UpdateRow([task EXCEPT !.status = s]) =>
              /\ task'.exists = task.exists /\ task'.mode = task.mode
              /\ task.exists => task'.status = s
         /\ UpdateWrite =>
              /\ task'.exists = task.exists
              /\ task.exists => task'.mode = call.mode /\ task'.status = call.status
<1>1. task \in TaskRows
  BY DEF StateTypeOK
<1>2. ASSUME NEW s \in Statuses, UpdateRow([task EXCEPT !.status = s])
      PROVE  /\ task'.exists = task.exists /\ task'.mode = task.mode
             /\ task.exists => task'.status = s
  BY <1>1, <1>2 DEF UpdateRow, TaskRows
<1>3. ASSUME UpdateWrite
      PROVE  /\ task'.exists = task.exists
             /\ task.exists => task'.mode = call.mode /\ task'.status = call.status
  <2>1. task' = IF task.exists
                THEN [task EXCEPT !.mode = call.mode, !.status = call.status,
                                  !.runs = call.runs, !.expr = @ \/ call.mode # "event"]
                ELSE task
    BY <1>3 DEF UpdateWrite, UpdateRow
  <2>2. QED
    BY <1>1, <2>1 DEF TaskRows
<1>4. QED
  BY <1>2, <1>3

\* The job follows when the task is due as before, or is not due any more.
LEMMA JobAndTask ==
  ASSUME UNCHANGED <<entry, jobs>>
  PROVE  /\ JobIs(FALSE) => JobIs(FALSE)'
         /\ ~Scheduled' /\ JobIs(FALSE) => JobIs(Scheduled)'
         /\ Scheduled' = Scheduled /\ JobIs(Scheduled) => JobIs(Scheduled)'
<1>1. JobIs(FALSE) => entry' = FALSE /\ jobs' = 0
  BY DEF JobIs
<1>2. ~Scheduled' /\ JobIs(FALSE) => JobIs(Scheduled)'
  <2>1. ~Scheduled' => Scheduled' = FALSE
    BY DEF Scheduled, Due
  <2>2. QED
    BY <1>1, <2>1 DEF JobIs
<1>3. Scheduled' = Scheduled /\ JobIs(Scheduled) => JobIs(Scheduled)'
  BY DEF JobIs
<1>4. QED
  BY <1>1, <1>2, <1>3 DEF JobIs

\* With the request over, only the task counts.
LEMMA RequestEnds == ASSUME call'.op = "none", JobIs(Scheduled)' PROVE RequestInv'
  BY DEF RequestInv, At

\* With the job gone, a delete and a resume have this left to know.
LEMMA RequestGoesOn ==
  ASSUME JobIs(FALSE)'
  PROVE  /\ call'.op = "delete" /\ call'.step = 2 => RequestInv'
         /\ /\ call'.op = "resume" /\ call'.mode = task'.mode
            /\ \/ call'.step = 1 /\ task'.status = "paused"
               \/ call'.step = 2 /\ task'.status = "active"
            => RequestInv'
<1>1. call'.op = "delete" /\ call'.step = 2 => RequestInv'
  BY DEF RequestInv, At, JobIs
<1>2. ASSUME call'.op = "resume", call'.mode = task'.mode,
             \/ call'.step = 1 /\ task'.status = "paused"
             \/ call'.step = 2 /\ task'.status = "active"
      PROVE  RequestInv'
  BY <1>2 DEF RequestInv, At, JobIs
<1>3. QED
  BY <1>1, <1>2

LEMMA RequestsKeepJob ==
  ASSUME StateTypeOK, CallTypeOK, JobInv, up, up', Watch,
         UNCHANGED execVars, Requests
  PROVE  JobInv'
<1>1. UNCHANGED pc
  BY DEF execVars
<1>2. call.op # "none" => task.exists
  BY DEF JobInv, OverlapInv
<1>3. Scheduled \in BOOLEAN
  BY DEF Scheduled, Due
<1>4. ASSUME PauseCron PROVE JobInv'
  <2>1. call.op = "none" /\ task.exists /\ call'.op = "pause" /\ RemoveCron /\ task' = task
    BY <1>4, CallMoves DEF PauseCron
  <2>2. OverlapInv'
    BY <2>1 DEF OverlapInv, Watch
  <2>3. ~raced' => RequestInv' /\ UpdateInv'
    <3>1. ~raced' => RequestInv /\ UpdateInv'
      BY <1>1, <2>1, RequestIsAlone
    <3>2. RequestInv => JobIs(FALSE)'
      BY <1>3, <2>1, JobMoves DEF RequestInv
    <3>3. QED
      BY <2>1, <3>1, <3>2 DEF RequestInv, At
  <2>4. QED
    BY <2>2, <2>3 DEF JobInv
<1>5. ASSUME PauseWrite PROVE JobInv'
  <2>1. call.op = "pause" /\ call'.op = "none" /\ UNCHANGED <<entry, jobs>>
    BY <1>5, CallMoves DEF PauseWrite, At
  <2>2. task'.exists = task.exists /\ task'.status = "paused" /\ ~Scheduled'
    BY <1>2, <1>5, <2>1, RowMoves DEF PauseWrite, Statuses, Scheduled, Due
  <2>3. OverlapInv'
    BY <2>1 DEF OverlapInv, Watch
  <2>4. ~raced' => RequestInv' /\ UpdateInv'
    <3>1. ~raced' => RequestInv /\ UpdateInv'
      BY <1>1, <2>1, RequestIsAlone
    <3>2. RequestInv => JobIs(FALSE)
      BY <2>1 DEF RequestInv
    <3>3. QED
      BY <2>1, <2>2, <3>1, <3>2, JobAndTask, RequestEnds
  <2>5. QED
    BY <2>3, <2>4 DEF JobInv
<1>6. ASSUME ResumeRead PROVE JobInv'
  <2>1. /\ call.op = "none" /\ call'.op = "resume" /\ call'.step = 1 /\ call'.mode = task.mode
        /\ task.exists /\ task.status = "paused" /\ UNCHANGED <<task, entry, jobs>>
    BY <1>6, CallMoves DEF ResumeRead, taskVars
  <2>2. OverlapInv'
    BY <2>1 DEF OverlapInv, Watch
  <2>3. ~raced' => RequestInv' /\ UpdateInv'
    <3>1. ~raced' => RequestInv /\ UpdateInv'
      BY <1>1, <2>1, RequestIsAlone
    <3>2. RequestInv => JobIs(FALSE)
      <4>1. RequestInv => JobIs(Scheduled)
        BY <2>1 DEF RequestInv
      <4>2. Scheduled = FALSE
        BY <2>1 DEF Scheduled, Due
      <4>3. QED
        BY <4>1, <4>2
    <3>3. RequestInv => JobIs(FALSE)'
      BY <2>1, <3>2, JobAndTask
    <3>4. QED
      BY <2>1, <3>1, <3>3, RequestGoesOn
  <2>4. QED
    BY <2>2, <2>3 DEF JobInv
<1>7. ASSUME ResumeWrite PROVE JobInv'
  <2>1. /\ call.op = "resume" /\ call.step = 1 /\ UNCHANGED <<entry, jobs>>
        /\ IF call.mode = "event" THEN Done ELSE NextStep
    BY <1>7 DEF ResumeWrite, At
  <2>2. task'.exists = task.exists /\ task'.mode = task.mode /\ task'.status = "active" /\ task.exists
    BY <1>2, <1>7, <2>1, RowMoves DEF ResumeWrite, Statuses
  <2>3. OverlapInv'
    BY <2>2 DEF OverlapInv, Watch
  <2>4. ~raced' => RequestInv' /\ UpdateInv'
    <3>1. ~raced' => RequestInv /\ UpdateInv'
      BY <1>1, <2>1, RequestIsAlone
    <3>2. RequestInv => JobIs(FALSE)' /\ call.mode = task.mode
      BY <2>1, JobAndTask DEF RequestInv
    <3>3. CASE call.mode = "event"
      <4>1. call'.op = "none"
        BY <2>1, <3>3, CallMoves
      <4>2. RequestInv => ~Scheduled'
        BY <2>2, <3>2, <3>3 DEF Scheduled, Due, HasEventSource
      <4>3. RequestInv => JobIs(FALSE)
        BY <2>1 DEF RequestInv
      <4>4. QED
        BY <2>1, <3>1, <4>1, <4>2, <4>3, JobAndTask, RequestEnds
    <3>4. CASE call.mode # "event"
      <4>1. call'.op = "resume" /\ call'.step = 2 /\ call'.mode = call.mode
        BY <2>1, <3>4, CallMoves
      <4>2. RequestInv => JobIs(FALSE)' /\ call'.mode = task'.mode
        BY <2>2, <3>2, <4>1
      <4>3. QED
        BY <2>2, <3>1, <4>1, <4>2, RequestGoesOn
    <3>5. QED
      BY <3>3, <3>4
  <2>5. QED
    BY <2>3, <2>4 DEF JobInv
<1>8. ASSUME ResumeCron PROVE JobInv'
  <2>1. /\ call.op = "resume" /\ call.step = 2 /\ call'.op = "none" /\ task' = task
        /\ IF HasEventSource(call.mode) THEN UNCHANGED <<entry, jobs>> ELSE RegisterCron
    BY <1>8, CallMoves DEF ResumeCron, At
  <2>2. OverlapInv'
    BY <2>1 DEF OverlapInv, Watch
  <2>3. ~raced' => RequestInv' /\ UpdateInv'
    <3>1. ~raced' => RequestInv /\ UpdateInv'
      BY <1>1, <2>1, RequestIsAlone
    <3>2. RequestInv => JobIs(FALSE) /\ call.mode = task.mode /\ task.status = "active"
      BY <2>1 DEF RequestInv
    <3>3. Due' = Due /\ task.exists
      BY <1>2, <2>1 DEF Due, HasEventSource
    <3>4. RequestInv => JobIs(Scheduled)'
      <4>1. CASE HasEventSource(call.mode)
        <5>1. RequestInv => ~Scheduled'
          BY <3>2, <3>3, <4>1 DEF Scheduled, Due
        <5>2. QED
          BY <2>1, <3>2, <4>1, <5>1, JobAndTask
      <4>2. CASE ~HasEventSource(call.mode)
        <5>1. RequestInv => Scheduled'
          BY <2>1, <3>2, <3>3, <4>2 DEF Scheduled, Due, Watch, RegisterCron
        <5>2. RequestInv => JobIs(TRUE)'
          BY <2>1, <3>2, <4>2, JobMoves
        <5>3. QED
          BY <5>1, <5>2 DEF JobIs
      <4>3. QED
        BY <4>1, <4>2
    <3>5. QED
      BY <2>1, <3>1, <3>4 DEF RequestInv, At
  <2>4. QED
    BY <2>2, <2>3 DEF JobInv
<1>9. ASSUME UpdateCron PROVE JobInv'
  <2>1. /\ call.op = "update" /\ call.step = 1 /\ task' = task
        /\ call'.op = "update" /\ call'.step = 2
        /\ call'.mode = call.mode /\ call'.status = call.status
        /\ IF ~HasEventSource(call.mode) /\ call.status = "active" THEN ReplaceCron ELSE RemoveCron
    BY <1>9, CallMoves DEF UpdateCron, At
  <2>2. OverlapInv'
    BY <1>2, <2>1 DEF OverlapInv, Watch
  <2>3. ~raced' => RequestInv' /\ UpdateInv'
    <3>1. ~raced' => RequestInv /\ UpdateInv'
      BY <1>1, <2>1, RequestIsAlone
    <3>2. DEFINE on == call'.status = "active" /\ ~HasEventSource(call'.mode)
    <3>3. RequestInv => JobIs(Scheduled)
      BY <2>1 DEF RequestInv, At
    <3>4. RequestInv => IF on THEN JobIs(TRUE)' ELSE JobIs(FALSE)'
      BY <1>3, <2>1, <3>3, JobMoves
    <3>5. RequestInv => entry' = on /\ jobs' = IF on THEN 1 ELSE 0
      BY <3>4 DEF JobIs
    <3>6. QED
      BY <2>1, <3>1, <3>5 DEF RequestInv, At, JobIs
  <2>4. QED
    BY <2>2, <2>3 DEF JobInv
<1>10. ASSUME UpdateWrite PROVE JobInv'
  <2>1. call.op = "update" /\ call.step = 2 /\ call'.op = "none" /\ UNCHANGED <<entry, jobs>>
    BY <1>10, CallMoves DEF UpdateWrite, At
  <2>2. task'.exists = task.exists /\ task'.mode = call.mode /\ task'.status = call.status
        /\ task.exists
    BY <1>2, <1>10, <2>1, RowMoves
  <2>3. OverlapInv'
    BY <2>1 DEF OverlapInv, Watch
  <2>4. ~raced' => RequestInv' /\ UpdateInv'
    <3>1. ~raced' => RequestInv /\ UpdateInv'
      BY <1>1, <2>1, RequestIsAlone
    <3>2. Due' = (call.status = "active" /\ ~HasEventSource(call.mode))
      BY <2>2 DEF Due, HasEventSource
    <3>3. RequestInv => JobIs(Due)'
      BY <2>1, <3>2 DEF RequestInv, At, JobIs
    <3>4. RequestInv => Scheduled' = Due'
      <4>1. Due' \in BOOLEAN /\ (RequestInv => entry' = Due')
        BY <3>3 DEF Due, JobIs
      <4>2. CASE Due' = TRUE
        BY <4>1, <4>2 DEF Scheduled, Watch
      <4>3. CASE Due' = FALSE
        BY <4>3 DEF Scheduled
      <4>4. QED
        BY <4>1, <4>2, <4>3
    <3>5. RequestInv => JobIs(Scheduled)'
      BY <3>3, <3>4 DEF JobIs
    <3>6. QED
      BY <2>1, <3>1, <3>5 DEF RequestInv, At
  <2>5. QED
    BY <2>3, <2>4 DEF JobInv
<1>11. ASSUME NEW m \in Modes, UpdateRead(m) PROVE JobInv'
  <2>1. /\ call.op = "none" /\ call'.op = "update" /\ call'.step = 1
        /\ task.exists /\ UNCHANGED <<task, entry, jobs>>
    BY <1>11, CallMoves DEF UpdateRead, taskVars
  <2>2. OverlapInv'
    BY <2>1 DEF OverlapInv, Watch
  <2>3. ~raced' => RequestInv' /\ UpdateInv'
    <3>1. ~raced' => RequestInv /\ UpdateInv'
      BY <1>1, <2>1, RequestIsAlone
    <3>2. Scheduled' = Scheduled
      BY <2>1, ScheduledStays DEF JobInv
    <3>3. QED
      BY <2>1, <3>1, <3>2 DEF RequestInv, At, JobIs
  <2>4. QED
    BY <2>2, <2>3 DEF JobInv
<1>12. QED
  BY <1>4, <1>5, <1>6, <1>7, <1>8, <1>9, <1>10, <1>11 DEF Requests

LEMMA CancelsKeepJob ==
  ASSUME StateTypeOK, CallTypeOK, JobInv, up, up', Watch,
         UNCHANGED execVars, Cancels
  PROVE  JobInv'
<1>1. UNCHANGED <<pc, newStatus>>
  BY DEF execVars
<1>2. CASE Stop \/ \E e \in Execs : TakeSession(e) \/ CancelSession(e)
  <2>1. UNCHANGED <<entry, jobs, call, task>>
    BY <1>2 DEF Stop, TakeSession, CancelSession, taskVars
  <2>2. QED
    BY <1>1, <2>1, JobUntouched
<1>3. CASE DeleteCancel
  <2>1. /\ call.op = "none" /\ call'.op = "delete" /\ call'.step = 1
        /\ task.exists /\ UNCHANGED <<task, entry, jobs>>
    BY <1>3, CallMoves DEF DeleteCancel, taskVars
  <2>2. OverlapInv'
    BY <2>1 DEF OverlapInv, Watch
  <2>3. ~raced' => RequestInv /\ UpdateInv'
    BY <1>1, <2>1, RequestIsAlone
  <2>4. Scheduled' = Scheduled
    BY <2>1, ScheduledStays DEF JobInv
  <2>5. ~raced' => RequestInv'
    BY <2>1, <2>3, <2>4 DEF RequestInv, At, JobIs
  <2>6. QED
    BY <2>2, <2>3, <2>5 DEF JobInv
<1>4. CASE DeleteCron
  <2>1. /\ call.op = "delete" /\ call.step = 1 /\ task' = task /\ RemoveCron
        /\ call'.op = "delete" /\ call'.step = 2
    BY <1>4, CallMoves DEF DeleteCron, At
  <2>2. OverlapInv'
    BY <2>1 DEF JobInv, OverlapInv, Watch
  <2>3. ~raced' => RequestInv /\ UpdateInv'
    BY <1>1, <2>1, RequestIsAlone
  <2>4. RequestInv => JobIs(FALSE)'
    <3>1. RequestInv => JobIs(Scheduled) /\ Scheduled \in BOOLEAN
      BY <2>1 DEF RequestInv, At, Scheduled, Due
    <3>2. QED
      BY <2>1, <3>1, JobMoves
  <2>5. ~raced' => RequestInv'
    BY <2>1, <2>3, <2>4, RequestGoesOn
  <2>6. QED
    BY <2>2, <2>3, <2>5 DEF JobInv
<1>5. CASE DeleteRows
  <2>1. /\ call.op = "delete" /\ call.step = 2 /\ call'.op = "none" /\ UNCHANGED <<entry, jobs>>
    BY <1>5, CallMoves DEF DeleteRows, At
  <2>2. ~Scheduled'
    BY <1>5 DEF DeleteRows, Scheduled, Due, StateTypeOK, TaskRows
  <2>3. OverlapInv'
    BY <2>1 DEF OverlapInv, Watch
  <2>4. ~raced' => RequestInv /\ UpdateInv'
    BY <1>1, <2>1, RequestIsAlone
  <2>5. RequestInv => JobIs(FALSE)
    BY <2>1 DEF RequestInv, At
  <2>6. ~raced' => RequestInv'
    BY <2>1, <2>2, <2>4, <2>5, JobAndTask, RequestEnds
  <2>7. QED
    BY <2>3, <2>4, <2>6 DEF JobInv
<1>6. QED
  BY <1>2, <1>3, <1>4, <1>5 DEF Cancels

\* A crash takes the jobs, the next process registers what is due.
LEMMA RestartsKeepJob == ASSUME TaskInv, JobInv, Crash \/ Restart PROVE JobInv'
<1>1. CASE Crash
  BY <1>1 DEF Crash, JobInv, OverlapInv, JobIs, NoCall
<1>2. CASE Restart
  <2>1. /\ ~up /\ up' /\ UNCHANGED <<task, call, pc>>
        /\ (Due /\ RegisterCron) \/ UNCHANGED <<entry, jobs>>
        /\ passedOver' = (Due /\ ~entry')
    BY <1>2 DEF Restart, LoadTask, execVars
  <2>2. call.op = "none" /\ JobIs(FALSE) /\ \A e \in Execs : pc[e] \in Before
    BY <2>1 DEF JobInv, OverlapInv, TaskInv, DownInv
  <2>3. Due' = Due
    BY <2>1 DEF Due, HasEventSource
  <2>4. JobIs(Scheduled)'
    <3>1. CASE Due /\ RegisterCron
      <4>1. JobIs(TRUE)'
        BY <2>2, <3>1, JobMoves
      <4>2. QED
        BY <2>1, <2>3, <3>1, <4>1 DEF JobIs, Scheduled
    <3>2. CASE UNCHANGED <<entry, jobs>>
      BY <2>1, <2>2, <2>3, <3>2 DEF JobIs, Scheduled
    <3>3. QED
      BY <2>1, <3>1, <3>2
  <2>5. OverlapInv'
    BY <2>1, <2>2, <2>3 DEF OverlapInv, Overlap
  <2>6. RequestInv'
    BY <2>1, <2>2, <2>4 DEF RequestInv, At
  <2>7. UpdateInv'
    BY <2>1, <2>2 DEF UpdateInv, Before
  <2>8. QED
    BY <2>5, <2>6, <2>7 DEF JobInv
<1>3. QED
  BY <1>1, <1>2

LEMMA InitJobInv == ASSUME Init PROVE JobInv
<1> USE DEF Init, StateInit, ExecInit
<1>1. /\ call.op = "none" /\ up
      /\ \A e \in Execs : pc[e] = "free"
  BY DEF NoCall
<1>2. JobIs(Scheduled)
  <2>1. PICK m \in Modes, p \in Repeats :
        /\ task = [exists |-> TRUE, status |-> "active", mode |-> m, expr |-> m = "cron",
                   repeat |-> p, runs |-> 0]
        /\ entry = ~HasEventSource(m)
        /\ jobs = IF HasEventSource(m) THEN 0 ELSE 1
    OBVIOUS
  <2>2. Scheduled = ~HasEventSource(m)
    BY <2>1 DEF Scheduled, Due
  <2>3. QED
    BY <2>1, <2>2 DEF JobIs
<1>3. QED
  BY <1>1, <1>2 DEF JobInv, OverlapInv, Overlap, RequestInv, UpdateInv, At

LEMMA NextJobInv == ASSUME IInv, JobInv, [Next]_vars PROVE JobInv'
<1> USE TypeParts DEF IInv
<1>1. CASE /\ up /\ up' = up /\ Watch /\ UNCHANGED call
           /\ Triggers \/ EventArrives \/ EventNext \/ EventGone
  BY <1>1, ExecutionsKeepJob DEF Watch
<1>2. CASE up /\ up' = up /\ Watch /\ (Requests \/ Cancels) /\ UNCHANGED execVars
  BY <1>2, RequestsKeepJob, CancelsKeepJob DEF Watch
<1>3. CASE Crash \/ Restart
  BY <1>3, RestartsKeepJob
<1>4. CASE UNCHANGED vars
  <2>1. UNCHANGED <<task, entry, jobs, pc, newStatus, call, up, raced, passedOver>>
    BY <1>4 DEF vars, stateVars, taskVars, execVars
  <2>2. Due' = Due
    BY <2>1 DEF Due, HasEventSource
  <2>3. Scheduled' = Scheduled /\ Quiet' = Quiet /\ Overlap' = Overlap
    BY <2>1, <2>2 DEF Scheduled, Quiet, Overlap
  <2>4. OverlapInv' = OverlapInv
    BY <2>1, <2>2, <2>3 DEF OverlapInv, JobIs
  <2>5. RequestInv' = RequestInv /\ UpdateInv' = UpdateInv
    BY <2>1, <2>3 DEF RequestInv, UpdateInv, JobIs, At
  <2>6. QED
    BY <2>1, <2>3, <2>4, <2>5 DEF JobInv
<1>5. QED
  BY <1>1, <1>2, <1>3, <1>4 DEF Next

\* Between requests and updates of the status, the cron library runs the one job
\* of an active cron task, or none if the last restart passed the task over, and
\* none of any other task, for any number of executions, requests and restarts,
\* unless a request and an update overlapped.
THEOREM JobFollowsStatus == Spec => []CronFollowsStatus
<1>1. Init => IInv /\ JobInv
  BY InitInv, InitJobInv
<1>2. IInv /\ JobInv /\ [Next]_vars => (IInv /\ JobInv)'
  BY NextInv, NextJobInv
<1>3. IInv /\ JobInv => CronFollowsStatus
  BY DEF JobInv, Quiet, RequestInv, CronFollowsStatus, JobIs, Scheduled, Due
<1>4. QED
  BY <1>1, <1>2, <1>3, PTL DEF Spec
=============================================================================
