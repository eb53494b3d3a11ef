---------------------------- MODULE MessageEntry ----------------------------
(***************************************************************************)
(* How a message enters a session, and who starts a run for it:            *)
(*                                                                         *)
(*   POST /api/ai/queue   EnqueueAndMaybeStart: insert, then claim         *)
(*   POST /api/ai/chat    AIChat: claim, then insert                       *)
(*   EnsureConsumer       the reaper's and WakeSessionRunner's last resort *)
(*                                                                         *)
(* A sender is named by its message; the client sends a message once.      *)
(***************************************************************************)
EXTENDS SessionState

At(p, pc) == hpc[p] = pc
Step(p, pc) == hpc' = [hpc EXCEPT ![p] = pc]

\* submitRunner finding a runner: the caller leaves its work to that runner.
HandOver(p, then) ==
  /\ Wake
  /\ Step(p, then)
  /\ hloc' = [hloc EXCEPT ![p] = NoLocals]
  /\ UNCHANGED <<runVars, slotVars, historyVars>>

Submit(p, claimed, found) ==
  /\ \/ \E r \in Runs : Claim(p, r, claimed)
     \/ HandOver(p, found)
  /\ UNCHANGED <<controlVars, left>>

\* The request fails and its message is gone: the client is told so.
Refuse(m, pc) ==
  /\ At(m, pc)
  /\ Rare("fault")
  /\ Step(m, "done")
  /\ UNCHANGED <<storeVars, registryVars, runVars, slotVars, hloc,
                 controlVars, historyVars>>

-----------------------------------------------------------------------------
(***************************************************************************)
(* POST /api/ai/queue                                                      *)
(***************************************************************************)
SendQueued(m) ==
  /\ At(m, "idle")
  /\ AddQueued(m)
  /\ hloc' = [hloc EXCEPT ![m].row = lastRow + 1]
  /\ Step(m, "queued")
  /\ UNCHANGED <<registryVars, runVars, slotVars, controlVars, left,
                 historyVars>>

SubmitQueued(m) ==
  /\ At(m, "queued")
  /\ Submit(m, "claimrow", "done")
  /\ UNCHANGED storeVars

\* A bug: the row is copied to the history but not taken out of the queue.
CopyOwnRow(m) ==
  /\ At(m, "claimrow")
  /\ \E row \in queued :
       /\ row.id = hloc[m].row
       /\ history' = history \cup {[id |-> lastMsg + 1, parts |-> row.parts]}
       /\ lastMsg' = lastMsg + 1
       /\ Launch(m, row.parts)
  /\ UNCHANGED <<queued, lastRow, registryVars, turnSeq, slotVars, controlVars,
                 left, historyVars>>

\* ClaimByIDAndMaterialize, then the goroutine.
TakeOwnRow(m) ==
  /\ At(m, "claimrow")
  /\ \E row \in queued :
       /\ row.id = hloc[m].row
       /\ Materialize(row)
       /\ Launch(m, row.parts)
  /\ UNCHANGED <<registryVars, turnSeq, slotVars, controlVars, left,
                 historyVars>>

OwnRowGone(m) ==
  /\ At(m, "claimrow")
  /\ \A row \in queued : row.id # hloc[m].row
  /\ Step(m, "undo")
  /\ UNCHANGED <<storeVars, registryVars, runVars, slotVars, hloc,
                 controlVars, left, historyVars>>

\* A bug: the claim reports an error although it committed.
ClaimedButFailed(m) ==
  /\ At(m, "claimrow")
  /\ Rare("fault")
  /\ \E row \in queued : row.id = hloc[m].row /\ Materialize(row)
  /\ Step(m, "undo")
  /\ UNCHANGED <<registryVars, runVars, slotVars, hloc, controlVars,
                 historyVars>>

\* The claim fails, nothing was committed.
OwnRowUnreadable(m) ==
  /\ At(m, "claimrow")
  /\ Rare("fault")
  /\ Step(m, "undo")
  /\ UNCHANGED <<storeVars, registryVars, runVars, slotVars, hloc,
                 controlVars, historyVars>>

\* FinishSessionRun releases the claim.
UndoClaim(m) ==
  /\ At(m, "undo")
  /\ FinishRun
  /\ Abandon(m)
  /\ UNCHANGED <<storeVars, turnSeq, exec, slotVars, controlVars, left,
                 historyVars>>

-----------------------------------------------------------------------------
(***************************************************************************)
(* POST /api/ai/chat                                                       *)
(***************************************************************************)
SendChat(m) ==
  /\ At(m, "idle")
  /\ Submit(m, "save", "insert")
  /\ UNCHANGED storeVars

\* Idle session: the message goes to the history at once.
SaveMessage(m) ==
  /\ At(m, "save")
  /\ AddMessage(m)
  /\ Launch(m, {m})
  /\ UNCHANGED <<registryVars, turnSeq, slotVars, controlVars, left,
                 historyVars>>

\* A bug: the request fails and leaves the session running.
KeepRunOnSaveError(m) ==
  /\ At(m, "save")
  /\ Rare("fault")
  /\ Abandon(m)
  /\ UNCHANGED <<storeVars, registryVars, turnSeq, exec, slotVars, controlVars,
                 historyVars>>

\* ... or cannot be saved: SetSessionRunning(false).
SaveFails(m) ==
  /\ At(m, "save")
  /\ Rare("fault")
  /\ Remove
  /\ Abandon(m)
  /\ UNCHANGED <<storeVars, turnSeq, exec, slotVars, controlVars,
                 historyVars>>

\* Busy session: the message waits.
InsertMessage(m) ==
  /\ At(m, "insert")
  /\ AddQueued(m)
  /\ Step(m, "wake")
  /\ UNCHANGED <<registryVars, runVars, slotVars, hloc, controlVars, left,
                 historyVars>>

\* WakeSessionRunner: wake the runner, or become the consumer's starter.
WakeRunner(m) ==
  /\ At(m, "wake")
  /\ \/ Wake /\ Step(m, "done")
     \/ ~Running /\ Step(m, "check") /\ UNCHANGED registryVars
  /\ UNCHANGED <<storeVars, runVars, slotVars, hloc, controlVars, left,
                 historyVars>>

-----------------------------------------------------------------------------
(***************************************************************************)
(* EnsureConsumer, called by the reaper or by the sender of a message      *)
(***************************************************************************)

\* A bug: the pass skips the sessions that have no runner.
ReapRunningOnly ==
  /\ At(Reaper, "idle")
  /\ queued # {}
  /\ Running
  /\ Step(Reaper, "check")
  /\ UNCHANGED <<storeVars, registryVars, runVars, slotVars, hloc,
                 controlVars, left, historyVars>>

\* reap: a row older than the grace period, and no runner.  Time is left out.
ReaperPass ==
  /\ At(Reaper, "idle")
  /\ queued # {}
  /\ ~Running
  /\ Step(Reaper, "check")
  /\ UNCHANGED <<storeVars, registryVars, runVars, slotVars, hloc,
                 controlVars, left, historyVars>>

\* IsShuttingDown; MarkShuttingDown is never taken back.
CheckShutdown(p) ==
  /\ At(p, "check")
  /\ Step(p, IF stopping.pc = "no" THEN "claim" ELSE AfterEntry(p))
  /\ UNCHANGED <<storeVars, registryVars, runVars, slotVars, hloc,
                 controlVars, left, historyVars>>

ClaimConsumer(p) ==
  /\ At(p, "claim")
  /\ Submit(p, "take", AfterEntry(p))
  /\ UNCHANGED storeVars

TakeOldest(p) ==
  /\ At(p, "take")
  /\ \E row \in queued :
       /\ Oldest(row)
       /\ Materialize(row)
       /\ Launch(p, row.parts)
  /\ UNCHANGED <<registryVars, turnSeq, slotVars, controlVars, left,
                 historyVars>>

NothingToTake(p) ==
  /\ At(p, "take")
  /\ \/ queued = {} /\ UNCHANGED left
     \/ Rare("fault")
  /\ Step(p, "release")
  /\ UNCHANGED <<storeVars, registryVars, runVars, slotVars, hloc,
                 controlVars, historyVars>>

\* A bug: the claim is kept although nothing runs under it.
KeepClaim(p) ==
  /\ At(p, "release")
  /\ Abandon(p)
  /\ UNCHANGED <<storeVars, registryVars, turnSeq, exec, slotVars, controlVars,
                 left, historyVars>>

\* SetSessionRunning(false): the entry goes, with whatever mark it carries.
ReleaseConsumer(p) ==
  /\ At(p, "release")
  /\ Remove
  /\ Abandon(p)
  /\ UNCHANGED <<storeVars, turnSeq, exec, slotVars, controlVars, left,
                 historyVars>>

-----------------------------------------------------------------------------
Ensure(p) ==
  \/ CheckShutdown(p) \/ ClaimConsumer(p) \/ TakeOldest(p) \/ NothingToTake(p)
  \/ ReleaseConsumer(p)

\* What the sender of m does once the client has sent it.
SenderStep(m) ==
  \/ SubmitQueued(m) \/ TakeOwnRow(m) \/ OwnRowGone(m) \/ UndoClaim(m)
  \/ SaveMessage(m) \/ InsertMessage(m) \/ WakeRunner(m)
  \/ Ensure(m)

ReaperStep == ReaperPass \/ Ensure(Reaper)

EntryMishap(m) ==
  \/ OwnRowUnreadable(m) \/ SaveFails(m)
  \/ Refuse(m, "idle") \/ Refuse(m, "insert")
=============================================================================
