---------------------------- MODULE SessionRuns -----------------------------
(***************************************************************************)
(* One chat session: senders, the queue reaper, execution goroutines and   *)
(* control requests interleave on its tables and on its registry entry.    *)
(***************************************************************************)
EXTENDS DrainLoop, MessageEntry, TurnControl

Next ==
  \/ \E r \in Runs : RunStep(r) \/ RunMishap(r)
  \/ \E m \in Msgs : SendQueued(m) \/ SendChat(m) \/ SenderStep(m) \/ EntryMishap(m)
  \/ ReaperStep
  \/ CancelTake \/ CancelStep
  \/ InterruptCheck \/ InterruptStep
  \/ InjectTake \/ InjectAccepted \/ InjectDeclined \/ InjectStranded
  \/ EditQueue
  \/ MarkShuttingDown \/ SweepStep
  \/ Crash

Spec == Init /\ [][Next]_vars

\* Goroutines and requests that were started go on; a turn ends because the
\* agent answers or because the idle timeouts of its backend stop it.  Users,
\* faults and crashes owe nothing.
Fairness ==
  /\ \A r \in Runs : WF_vars(RunStep(r))
  /\ \A m \in Msgs : WF_vars(SenderStep(m))
  /\ WF_vars(ReaperStep)
  /\ WF_vars(CancelStep)
  /\ WF_vars(InterruptStep)
  /\ WF_vars(InjectAccepted \/ InjectDeclined)
  /\ WF_vars(SweepStep)

FairSpec == Spec /\ Fairness

-----------------------------------------------------------------------------
(***************************************************************************)
(* Safety                                                                  *)
(***************************************************************************)

\* A session that is reported as running can be cancelled: the context of the
\* registered runner is live (session_runtime.go: "a true result guarantees a
\* live cancel func"), except while the shutdown sweep is about to remove it.
RunningIsCancellable ==
  Running /\ reg.run \in ctxDone =>
    /\ stopping.pc = "remove"
    /\ stopping.run = reg.run

\* A session that is reported as running has somebody who will clear that: its
\* goroutine, which has not sent its final event yet, or the request that
\* claimed it.  Otherwise no message would ever start a run again.
RunningIsReleased ==
  Running =>
    \/ epc[reg.run] \notin {"idle", "claimed", "final", "panicked"}
    \/ epc[reg.run] = "claimed" /\ \E p \in Procs : hloc[p].run = reg.run

\* No message is given to the agent twice, whichever of the claims by id, by
\* queue id and by age compete for its row.
AtMostOneTurn == \A m \in Msgs : turns[m] <= 1

\* A message that left the queue for the history and was not given to the agent
\* is in somebody's hands: a cancel between claim and launch loses nothing, and
\* a declined insertion returns what it took.  (The reaper only looks at the
\* queue, so nobody else would find it.)
TakenIsHeld ==
  \A m \in Delivered : turns[m] = 0 /\ m \notin lost => m \in Held

\* A runner that retires its own entry leaves no message behind: a message that
\* still waits has a sender that is about to submit or to wake (session_runner.go:
\* "the decision to exit and the check for late work are one atomic step").
\* Another goroutine of the session may consume the mark, and a declined
\* insertion (it deletes the history row it wrote) sets none: see NoStranding.
RetireLeavesNoWork ==
  [][ \A r \in Runs :
        /\ epc[r] = "retire"
        /\ epc'[r] = "mark"
        /\ reg.run = r
        /\ \A s \in Runs \ {r} : epc[s] = "idle"
        /\ lastMsg = Cardinality(history)
        => \A m \in Waiting : hpc[m] \in {"queued", "wake"} ]_vars

\* "Interrupt and send" does not stop a turn that started after the handler
\* looked up the current one.
InterruptSparesLaterTurns ==
  interrupting.pc \in {"reason", "stop"} =>
    interrupting.seen <= interrupting.looked

-----------------------------------------------------------------------------
(***************************************************************************)
(* The session implements MessageDelivery                                  *)
(***************************************************************************)
Stage(m) ==
  IF turns[m] > 0 THEN "answered"
  ELSE IF m \in Delivered THEN "taken"
  ELSE IF m \in Waiting THEN "waiting"
  ELSE IF hpc[m] \in {"idle", "save", "insert"} THEN "new"
  ELSE "dropped"

Delivery == INSTANCE MessageDelivery WITH status <- [m \in Msgs |-> Stage(m)]

\* Every behaviour of the session is one of the delivery promise: in particular
\* no row is answered straight from the queue, and nothing that was answered or
\* dropped comes back.
ImplementsDelivery == Delivery!DeliverySpec

-----------------------------------------------------------------------------
(***************************************************************************)
(* Liveness                                                                *)
(***************************************************************************)

\* A message in the queue does not stay there: a runner, a sender or the reaper
\* takes it, or it is withdrawn; also after a crash (queue_reaper.go).
WaitingIsTaken == \A m \in Msgs : m \in Waiting ~> m \notin Waiting

\* Once the users stop, the session comes to rest: not running, nothing queued,
\* no goroutine left.
ComesToRest ==
  <>[](~Running /\ queued = {} /\ \A r \in Runs : epc[r] = "idle")

-----------------------------------------------------------------------------
(***************************************************************************)
(* What comments of the source say and the code does not keep              *)
(***************************************************************************)
Executing == {"start", "open", "turn", "settle", "hooks", "delay", "dequeue"}

\* "The execution goroutine cancels its own context via FinishSessionRun":
\* a goroutine that nobody chose to stop runs under a live context.
OwnContextOnly ==
  \A r \in Runs : epc[r] \in Executing /\ r \in ctxDone => r \in aimed

\* The reason slot is "read by the executor as why did THIS turn end": a turn
\* ends as cancelled by the user only if a cancel was aimed at its run.
ReasonIsOfThisTurn ==
  \A r \in Runs : epc[r] = "settle" /\ exec[r].outcome = "user" => r \in aimed

\* "A message can no longer be stranded": when no request and no goroutine is
\* active, the queue is empty without the reaper's help.
NoStranding ==
  /\ ~Running
  /\ \A r \in Runs : epc[r] = "idle"
  /\ \A p \in Procs : hpc[p] \in {"idle", "done"}
  /\ injecting.pc = "idle"
  => queued = {}

\* "Interrupting that one would cut off the reply to a message the user never
\* asked to stop": the interrupted turn was running when the clicked message
\* was found in the queue.
InterruptSparesOwnMessage ==
  interrupting.pc \in {"reason", "stop"} =>
    interrupting.seen <= interrupting.found
=============================================================================
