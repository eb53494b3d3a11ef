--------------------------- MODULE DeliveryProofs ---------------------------
(***************************************************************************)
(* What becomes of a message in SessionRuns, for any number of messages,   *)
(* runs and events: it is given to the agent once, between the queue and   *)
(* its turn somebody holds it, every step of the session is one that       *)
(* MessageDelivery allows, and the last runner leaves none behind.         *)
(*                                                                         *)
(* The holders are the goroutines (a message they took and whose turn they *)
(* are about to start) and an insertion in progress.  Neither TakenIsHeld  *)
(* nor AtMostOneTurn is inductive: a message held twice would get a second *)
(* turn, a holder that already holds one would forget it when it takes the *)
(* next, and a declined insertion would delete another message's row if    *)
(* its own was not in the history.                                         *)
(***************************************************************************)
EXTENDS SessionRunsProofs, QueueStoreProofs, FiniteSetTheorems

Unsent == {"idle", "save", "insert"}

\* A goroutine starts the turn of what it took before anything else.
WorkIsAtStart == \A r \in Runs : exec[r].work # {} => epc[r] = "start"

Inserting == IF injecting.pc = "asking" THEN injecting.row.parts ELSE {}

HoldersAreDistinct ==
  /\ \A r, s \in Runs : r # s => exec[r].work \cap exec[s].work = {}
  /\ \A r \in Runs : exec[r].work \cap Inserting = {}

HeldIsUnanswered ==
  /\ \A r \in Runs : \A m \in exec[r].work : m \in Delivered /\ turns[m] = 0
  /\ \A m \in Inserting : m \in Delivered /\ turns[m] = 0

InsertionIsRecorded ==
  injecting.pc = "asking" =>
    \E h \in history : h.id = injecting.msg /\ h.parts = injecting.row.parts

AnsweredIsDelivered == \A m \in Msgs : turns[m] > 0 => m \in Delivered

UnsentIsNew ==
  \A m \in Msgs : hpc[m] \in Unsent => m \notin Waiting \cup Delivered

HoldersInv ==
  /\ WorkIsAtStart
  /\ HoldersAreDistinct
  /\ HeldIsUnanswered
  /\ InsertionIsRecorded
  /\ AnsweredIsDelivered
  /\ UnsentIsNew
  /\ AtMostOneTurn
  /\ TakenIsHeld

MessageInv == ReleasedInv /\ StoreInv /\ HoldersInv

-----------------------------------------------------------------------------
(***************************************************************************)
(* What the steps do to the holders                                        *)
(***************************************************************************)

\* What a claim does to the tables.
LEMMA MaterializeMoves ==
  ASSUME StoreInv, NEW row \in queued, Materialize(row)
  PROVE  /\ StoreInv'
         /\ row \in QueuedRow
         /\ row.parts \in SUBSET Msgs
         /\ row.parts \subseteq Waiting
         /\ row.parts \cap Delivered = {}
         /\ Waiting' = Waiting \ row.parts
         /\ Delivered' = Delivered \cup row.parts
         /\ \A h \in history : h \in history'
         /\ \E h \in history' : h.id = lastMsg + 1 /\ h.parts = row.parts
<1> DEFINE new == [id |-> lastMsg + 1, parts |-> row.parts]
<1>1. queued' = queued \ {row} /\ history' = history \cup {new}
  BY DEF Materialize
<1>2. new.id = lastMsg + 1 /\ new.parts = row.parts
  OBVIOUS
<1> HIDE DEF new
<1>3. StoreInv'
  BY MaterializeKeepsInv
<1>4. row \in QueuedRow /\ row.parts \in SUBSET Msgs
  BY DEF StoreInv, StoreTypeOK, QueuedRow
<1>5. row.parts \subseteq Waiting /\ row.parts \cap Delivered = {}
  BY DEF StoreInv, NoDuplicates, Waiting, Delivered
<1>6. Waiting' = Waiting \ row.parts
  <2>1. \A q \in queued : q # row => q.parts \cap row.parts = {}
    BY DEF StoreInv, NoDuplicates
  <2>2. QED
    BY <1>1, <2>1 DEF Waiting
<1>7. Delivered' = Delivered \cup row.parts
  BY <1>1, <1>2 DEF Delivered
<1>8. QED
  BY <1>1, <1>2, <1>3, <1>4, <1>5, <1>6, <1>7

\* The history and what anybody holds stay; the queue may change, but not by a
\* message that is still to be sent.
LEMMA QueueStep ==
  ASSUME MessageInv, UNCHANGED <<history, turns, injecting>>, lost \subseteq lost',
         \A r \in Runs : exec'[r].work = exec[r].work,
         \A r \in Runs : exec[r].work # {} => epc'[r] = "start",
         \A m \in Msgs : hpc'[m] \in Unsent => hpc[m] \in Unsent /\ m \notin Waiting'
  PROVE  HoldersInv'
<1>1. Delivered' = Delivered /\ Inserting' = Inserting
  BY DEF Delivered, Inserting
<1>2. WorkIsAtStart' /\ HoldersAreDistinct' /\ HeldIsUnanswered'
  BY <1>1 DEF MessageInv, HoldersInv, WorkIsAtStart, HoldersAreDistinct,
              HeldIsUnanswered
<1>3. InsertionIsRecorded' /\ AnsweredIsDelivered' /\ AtMostOneTurn'
  BY <1>1 DEF MessageInv, HoldersInv, InsertionIsRecorded, AnsweredIsDelivered,
              AtMostOneTurn
<1>4. UnsentIsNew'
  BY <1>1 DEF MessageInv, HoldersInv, UnsentIsNew
<1>5. TakenIsHeld'
  <2>1. Held' = Held
    BY DEF Held
  <2>2. QED
    BY <1>1, <2>1 DEF MessageInv, HoldersInv, TakenIsHeld
<1>6. QED
  BY <1>2, <1>3, <1>4, <1>5 DEF HoldersInv

\* Neither the tables nor the turns change, and no message becomes new.
Rests ==
  /\ UNCHANGED <<Waiting, Delivered, turns>>
  /\ \A m \in Msgs : hpc'[m] \in Unsent => hpc[m] \in Unsent

\* Neither the tables nor the holders change.
LEMMA QuietStep ==
  ASSUME MessageInv, UNCHANGED <<storeVars, turns, injecting>>, lost \subseteq lost',
         \A r \in Runs : exec'[r].work = exec[r].work,
         \A r \in Runs : exec[r].work # {} => epc'[r] = "start",
         \A m \in Msgs : hpc'[m] \in Unsent => hpc[m] \in Unsent
  PROVE  StoreInv' /\ HoldersInv' /\ Rests
<1>1. StoreInv'
  BY DEF MessageInv, storeVars, StoreInv, StoreTypeOK, IdsAreFresh, IdsAreUnique,
         NoDuplicates, Waiting, Delivered
<1>2. history' = history /\ Waiting' = Waiting
  BY DEF storeVars, Waiting
<1>3. \A m \in Msgs : hpc[m] \in Unsent => m \notin Waiting
  BY DEF MessageInv, HoldersInv, UnsentIsNew
<1>4. Rests
  BY <1>2 DEF Rests, storeVars, Delivered
<1>5. QED
  BY <1>1, <1>2, <1>3, <1>4, QueueStep

\* A goroutine that holds nothing gets the messages of a group that was not in
\* the history, and is about to start their turn.
LEMMA TakeStep ==
  ASSUME MessageInv, NEW r \in Runs, NEW group \in SUBSET Msgs,
         group \cap Delivered = {},
         Delivered' = Delivered \cup group,
         \A h \in history : h \in history',
         Waiting' \subseteq Waiting,
         UNCHANGED <<turns, lost, injecting>>,
         exec[r].work = {}, exec'[r].work = group, epc'[r] = "start",
         \A s \in Runs \ {r} : exec'[s].work = exec[s].work /\ epc'[s] = epc[s],
         \A m \in Msgs : hpc'[m] \in Unsent => hpc[m] \in Unsent /\ m \notin group
  PROVE  HoldersInv'
<1>1. Inserting' = Inserting
  BY DEF Inserting
<1>2. \A m \in group : turns[m] = 0
  BY DEF MessageInv, HoldersInv, AnsweredIsDelivered, ReleasedInv, TypeOK,
         HistoryTypeOK
<1>3. /\ \A s \in Runs : exec[s].work \subseteq Delivered
      /\ Inserting \subseteq Delivered
  BY DEF MessageInv, HoldersInv, HeldIsUnanswered
<1>4. WorkIsAtStart'
  BY DEF MessageInv, HoldersInv, WorkIsAtStart
<1>5. HoldersAreDistinct'
  BY <1>1, <1>3 DEF MessageInv, HoldersInv, HoldersAreDistinct
<1>6. HeldIsUnanswered'
  BY <1>1, <1>2 DEF MessageInv, HoldersInv, HeldIsUnanswered
<1>7. InsertionIsRecorded' /\ AnsweredIsDelivered' /\ AtMostOneTurn'
  BY DEF MessageInv, HoldersInv, InsertionIsRecorded, AnsweredIsDelivered,
         AtMostOneTurn
<1>8. UnsentIsNew'
  BY DEF MessageInv, HoldersInv, UnsentIsNew
<1>9. TakenIsHeld'
  <2>1. Held' = Held \cup group
    BY DEF Held
  <2>2. QED
    BY <2>1 DEF MessageInv, HoldersInv, TakenIsHeld
<1>10. QED
  BY <1>4, <1>5, <1>6, <1>7, <1>8, <1>9 DEF HoldersInv

-----------------------------------------------------------------------------
(***************************************************************************)
(* The goroutines                                                          *)
(***************************************************************************)

\* A goroutine that is not about to start a turn holds nothing.
LEMMA OnlyStartHolds ==
  ASSUME MessageInv, NEW r \in Runs, epc[r] # "start"
  PROVE  exec[r].work = {}
  BY DEF MessageInv, HoldersInv, WorkIsAtStart

\* Most steps move one goroutine that holds nothing, before and after.
LEMMA MoveStep ==
  ASSUME MessageInv, NEW r \in Runs, NEW pc, Goto(r, pc), epc[r] # "start",
         \A s \in Runs \ {r} : exec'[s] = exec[s], exec'[r].work = {}
  PROVE  /\ \A s \in Runs : exec'[s].work = exec[s].work
         /\ \A s \in Runs : exec[s].work # {} => epc'[s] = "start"
<1>1. epc \in [Runs -> ExecPcs]
  BY DEF MessageInv, ReleasedInv, TypeOK, RunTypeOK
<1>2. exec[r].work = {}
  BY OnlyStartHolds
<1>3. QED
  BY <1>1, <1>2 DEF Goto, MessageInv, HoldersInv, WorkIsAtStart

LEMMA QuietRunStep ==
  ASSUME MessageInv, NEW r \in Runs,
         \/ TurnOpens(r) \/ TurnFails(r) \/ TurnEnds(r) \/ Settle(r)
         \/ OfferResume(r) \/ Resume(r) \/ Decide(r) \/ ClearFails(r)
         \/ DequeueFails(r) \/ DequeueEmpty(r) \/ TryRetire(r)
         \/ Mark(r) \/ SendFinal(r) \/ Panic(r) \/ Finish(r) \/ Recover(r)
  PROVE  StoreInv' /\ HoldersInv' /\ Rests
<1>1. /\ UNCHANGED <<storeVars, turns, injecting, lost, hpc>>
      /\ epc[r] # "start"
      /\ \E pc : Goto(r, pc)
  BY DEF TurnOpens, TurnFails, TurnEnds, Settle, OfferResume, Resume, Decide,
         ClearFails, DequeueFails, DequeueEmpty, TryRetire, Mark, SendFinal,
         Panic, Finish, Recover, entryVars, controlVars, historyVars
<1>2. exec[r].work = {}
  BY <1>1, OnlyStartHolds
<1>3. exec \in [Runs -> RunLocals]
  BY DEF MessageInv, ReleasedInv, TypeOK, RunTypeOK
<1>4. \A s \in Runs \ {r} : exec'[s] = exec[s]
  BY <1>3 DEF TurnOpens, TurnFails, TurnEnds, Settle, OfferResume, Resume, Decide,
         ClearFails, DequeueFails, DequeueEmpty, TryRetire, Mark, SendFinal,
         Panic, Finish, Recover
<1>5. exec'[r].work = {}
  <2>1. CASE exec' = exec
    BY <1>2, <2>1
  <2>2. CASE TurnFails(r) \/ TurnEnds(r) \/ Settle(r) \/ DequeueFails(r) \/ Panic(r)
    BY <1>2, <1>3, <2>2
    DEF TurnFails, TurnEnds, Settle, DequeueFails, Panic, RunLocals
  <2>3. CASE TryRetire(r)
    BY <1>2, <1>3, <2>3 DEF TryRetire, RunLocals
  <2>4. CASE Finish(r) \/ Recover(r)
    BY <1>2, <1>3, <2>4 DEF Finish, Recover, NotStarted
  <2>5. QED
    BY <2>1, <2>2, <2>3, <2>4
    DEF TurnOpens, OfferResume, Resume, Decide, ClearFails, DequeueEmpty, Mark,
        SendFinal
<1>6. QED
  BY <1>1, <1>4, <1>5, MoveStep, QuietStep DEF storeVars

\* A turn starts: what its goroutine held is answered now, and only now.
LEMMA TurnStartStep ==
  ASSUME MessageInv, NEW r \in Runs, TurnStart(r)
  PROVE  StoreInv' /\ HoldersInv'
<1>1. /\ UNCHANGED <<storeVars, injecting, lost, hpc>>
      /\ turns' = [m \in Msgs |-> IF m \in exec[r].work THEN turns[m] + 1
                                                        ELSE turns[m]]
  BY DEF TurnStart, entryVars, controlVars
<1>2. exec \in [Runs -> RunLocals] /\ epc \in [Runs -> ExecPcs]
  BY DEF MessageInv, ReleasedInv, TypeOK, RunTypeOK
<1>3. \A s \in Runs : exec'[s].work = IF s = r THEN {} ELSE exec[s].work
  BY <1>2 DEF TurnStart, RunLocals
<1>4. \A s \in Runs \ {r} : epc'[s] = epc[s]
  BY <1>2 DEF TurnStart, Goto
<1>5. turns \in [Msgs -> Nat]
  BY DEF MessageInv, ReleasedInv, TypeOK, HistoryTypeOK
<1>6. StoreInv'
  BY <1>1 DEF MessageInv, storeVars, StoreInv, StoreTypeOK, IdsAreFresh,
              IdsAreUnique, NoDuplicates, Waiting, Delivered
<1>7. Delivered' = Delivered /\ Waiting' = Waiting /\ history' = history
  BY <1>1 DEF storeVars, Delivered, Waiting
<1>8. Inserting' = Inserting
  BY <1>1 DEF Inserting
<1>9. WorkIsAtStart'
  BY <1>3, <1>4 DEF MessageInv, HoldersInv, WorkIsAtStart
<1>10. HoldersAreDistinct'
  BY <1>3, <1>8 DEF MessageInv, HoldersInv, HoldersAreDistinct
<1>11. HeldIsUnanswered'
  <2>1. ASSUME NEW s \in Runs, NEW m \in exec'[s].work
        PROVE  m \in Delivered /\ turns'[m] = 0
    <3>1. s # r /\ m \in exec[s].work /\ m \in Msgs
      BY <1>2, <1>3, <2>1 DEF RunLocals
    <3>2. m \notin exec[r].work /\ turns[m] = 0 /\ m \in Delivered
      BY <3>1 DEF MessageInv, HoldersInv, HoldersAreDistinct, HeldIsUnanswered
    <3>3. QED
      BY <1>1, <3>1, <3>2
  <2>2. ASSUME NEW m \in Inserting
        PROVE  m \in Delivered /\ turns'[m] = 0
    <3>1. m \in Msgs
      BY <2>2 DEF MessageInv, ReleasedInv, TypeOK, ControlTypeOK, QueuedRow,
                  Inserting
    <3>2. m \notin exec[r].work /\ turns[m] = 0 /\ m \in Delivered
      BY DEF MessageInv, HoldersInv, HoldersAreDistinct, HeldIsUnanswered
    <3>3. QED
      BY <1>1, <3>1, <3>2
  <2>3. QED
    BY <1>7, <1>8, <2>1, <2>2 DEF HeldIsUnanswered
<1>12. \A m \in exec[r].work : turns[m] = 0 /\ m \in Delivered
  BY DEF MessageInv, HoldersInv, HeldIsUnanswered
<1>13. AnsweredIsDelivered' /\ AtMostOneTurn'
  BY <1>1, <1>5, <1>7, <1>12 DEF MessageInv, HoldersInv, AnsweredIsDelivered,
                                 AtMostOneTurn
<1>14. InsertionIsRecorded' /\ UnsentIsNew'
  BY <1>1, <1>7 DEF MessageInv, HoldersInv, InsertionIsRecorded, UnsentIsNew
<1>15. TakenIsHeld'
  <2>1. SUFFICES ASSUME NEW m \in Delivered, turns'[m] = 0, m \notin lost
                 PROVE  m \in Held'
    BY <1>1, <1>7 DEF TakenIsHeld
  <2>2. m \in Msgs
    BY DEF MessageInv, StoreInv, StoreTypeOK, HistoryRow, Delivered
  <2>3. turns[m] = 0 /\ m \notin exec[r].work
    BY <1>1, <1>5, <2>1, <2>2
  <2>4. m \in Held
    BY <2>1, <2>3 DEF MessageInv, HoldersInv, TakenIsHeld
  <2>5. QED
    BY <1>1, <1>3, <2>2, <2>3, <2>4 DEF Held
<1>16. QED
  BY <1>6, <1>9, <1>10, <1>11, <1>13, <1>14, <1>15 DEF HoldersInv

\* The next message is taken: the goroutine held nothing before.
LEMMA DequeueStep ==
  ASSUME MessageInv, NEW r \in Runs, Dequeue(r)
  PROVE  StoreInv' /\ HoldersInv'
<1>1. PICK row \in queued :
        /\ Materialize(row)
        /\ exec' = [exec EXCEPT ![r].work = row.parts, ![r].fails = 0]
  BY DEF Dequeue
<1>2. /\ epc[r] = "dequeue"
      /\ Goto(r, "start")
      /\ UNCHANGED <<turns, lost, injecting, hpc>>
  BY DEF Dequeue, entryVars, controlVars, historyVars
<1>3. exec \in [Runs -> RunLocals] /\ epc \in [Runs -> ExecPcs]
  BY DEF MessageInv, ReleasedInv, TypeOK, RunTypeOK
<1>4. /\ exec[r].work = {}
      /\ exec'[r].work = row.parts
      /\ epc'[r] = "start"
      /\ \A s \in Runs \ {r} : exec'[s].work = exec[s].work /\ epc'[s] = epc[s]
  BY <1>1, <1>2, <1>3, OnlyStartHolds DEF Goto, RunLocals
<1>5. StoreInv
  BY DEF MessageInv
<1> DEFINE group == row.parts
<1>6. /\ StoreInv'
      /\ group \in SUBSET Msgs
      /\ group \subseteq Waiting
      /\ group \cap Delivered = {}
      /\ Waiting' \subseteq Waiting
      /\ Delivered' = Delivered \cup group
      /\ \A h \in history : h \in history'
  BY <1>1, <1>5, MaterializeMoves
<1>7. \A m \in Msgs : hpc'[m] \in Unsent => hpc[m] \in Unsent /\ m \notin group
  BY <1>2, <1>6 DEF MessageInv, HoldersInv, UnsentIsNew
<1>8. exec'[r].work = group
  BY <1>4
<1> HIDE DEF group
<1>9. HoldersInv'
  BY <1>2, <1>4, <1>6, <1>7, <1>8, TakeStep
<1>10. QED
  BY <1>6, <1>9

\* A message whose request cannot be built is in the history, and reported.
LEMMA UnusableStep ==
  ASSUME MessageInv, NEW r \in Runs, DequeueUnusable(r)
  PROVE  StoreInv' /\ HoldersInv'
<1>1. PICK row \in queued : Materialize(row) /\ lost' = lost \cup row.parts
  BY DEF DequeueUnusable
<1>2. /\ epc[r] # "start"
      /\ Goto(r, "hooks")
      /\ UNCHANGED <<turns, injecting, hpc>>
  BY DEF DequeueUnusable, entryVars, controlVars
<1>3. exec \in [Runs -> RunLocals] /\ exec[r].work = {}
  BY <1>2, OnlyStartHolds DEF MessageInv, ReleasedInv, TypeOK, RunTypeOK
<1>4. /\ \A s \in Runs \ {r} : exec'[s] = exec[s]
      /\ exec'[r].work = {}
  BY <1>3 DEF DequeueUnusable, RunLocals
<1>5. /\ \A s \in Runs : exec'[s].work = exec[s].work
      /\ \A s \in Runs : exec[s].work # {} => epc'[s] = "start"
  BY <1>2, <1>4, MoveStep
<1>6. StoreInv
  BY DEF MessageInv
<1>7. /\ StoreInv'
      /\ Waiting' \subseteq Waiting
      /\ row.parts \subseteq Waiting
      /\ Delivered' = Delivered \cup row.parts
      /\ \A h \in history : h \in history'
  BY <1>1, <1>6, MaterializeMoves
<1>8. Inserting' = Inserting /\ Held' = Held
  BY <1>2, <1>5 DEF Inserting, Held
<1>9. WorkIsAtStart' /\ HoldersAreDistinct' /\ HeldIsUnanswered'
  BY <1>2, <1>5, <1>7, <1>8 DEF MessageInv, HoldersInv, WorkIsAtStart,
                                HoldersAreDistinct, HeldIsUnanswered
<1>10. InsertionIsRecorded' /\ AnsweredIsDelivered' /\ AtMostOneTurn'
  BY <1>2, <1>7 DEF MessageInv, HoldersInv, InsertionIsRecorded,
                    AnsweredIsDelivered, AtMostOneTurn
<1>11. UnsentIsNew'
  BY <1>2, <1>7 DEF MessageInv, HoldersInv, UnsentIsNew
<1>12. TakenIsHeld'
  BY <1>1, <1>2, <1>7, <1>8 DEF MessageInv, HoldersInv, TakenIsHeld
<1>13. QED
  BY <1>7, <1>9, <1>10, <1>11, <1>12 DEF HoldersInv

\* A terminal outcome clears the queue.
LEMMA ClearStep ==
  ASSUME MessageInv, NEW r \in Runs, Clear(r)
  PROVE  StoreInv' /\ HoldersInv'
<1>1. /\ ClearQueued
      /\ UNCHANGED <<exec, turns, lost, injecting, hpc>>
      /\ Goto(r, "mark")
      /\ epc[r] # "start"
  BY DEF Clear, entryVars, controlVars, historyVars
<1>2. StoreInv'
  BY <1>1, RemovalKeepsInv DEF MessageInv
<1>3. history' = history /\ Waiting' = {}
  BY <1>1 DEF ClearQueued, Waiting
<1>4. exec[r].work = {}
  BY <1>1, OnlyStartHolds
<1>5. \A s \in Runs : exec[s].work # {} => epc'[s] = "start"
  BY <1>1, <1>4, MoveStep
<1>6. QED
  BY <1>1, <1>2, <1>3, <1>5, QueueStep

LEMMA RunHolders ==
  ASSUME MessageInv, NEW r \in Runs, RunStep(r) \/ RunMishap(r)
  PROVE  StoreInv' /\ HoldersInv'
  BY QuietRunStep, TurnStartStep, DequeueStep, UnusableStep, ClearStep
  DEF RunStep, RunMishap

-----------------------------------------------------------------------------
(***************************************************************************)
(* Senders and the reaper                                                  *)
(***************************************************************************)

\* The handler moves on and changes neither the tables nor a goroutine that
\* holds something.
LEMMA QuietEntryStep ==
  ASSUME MessageInv, NEW p \in Procs,
         UNCHANGED <<storeVars, exec, turns, lost, injecting>>,
         \A r \in Runs : epc[r] = "start" => epc'[r] = "start",
         NEW pc, hpc' = [hpc EXCEPT ![p] = pc],
         pc \in Unsent => hpc[p] \in Unsent \/ p = Reaper
  PROVE  StoreInv' /\ HoldersInv' /\ Rests
<1>1. hpc \in [Procs -> HandlerPcs]
  BY DEF MessageInv, ReleasedInv, TypeOK, EntryTypeOK
<1>2. \A m \in Msgs : hpc'[m] \in Unsent => hpc[m] \in Unsent
  BY <1>1, ReaperAssumption DEF Procs
<1>3. \A r \in Runs : exec[r].work # {} => epc'[r] = "start"
  BY DEF MessageInv, HoldersInv, WorkIsAtStart
<1>4. QED
  BY <1>2, <1>3, QuietStep

\* A claim's run holds nothing, and no other handler has it.
LEMMA LaunchStep ==
  ASSUME MessageInv, StoreInv', NEW p \in Procs, NEW group \in SUBSET Msgs,
         hpc[p] \in Claiming, Launch(p, group),
         group \cap Delivered = {},
         Delivered' = Delivered \cup group,
         \A h \in history : h \in history',
         Waiting' \subseteq Waiting,
         UNCHANGED <<turns, lost, injecting>>,
         \A m \in Msgs \ {p} : hpc[m] \in Unsent => m \notin group
  PROVE  HoldersInv'
<1> DEFINE r == hloc[p].run
<1>1. r \in Runs /\ epc[r] = "claimed"
  BY DEF MessageInv, ReleasedInv, ClaimsAreHeld
<1>2. /\ exec \in [Runs -> RunLocals]
      /\ epc \in [Runs -> ExecPcs]
      /\ hpc \in [Procs -> HandlerPcs]
  BY DEF MessageInv, ReleasedInv, TypeOK, RunTypeOK, EntryTypeOK
<1>3. /\ epc' = [epc EXCEPT ![r] = "start"]
      /\ exec' = [exec EXCEPT ![r] = [NotStarted EXCEPT !.work = group]]
      /\ hpc' = [hpc EXCEPT ![p] = AfterEntry(p)]
  BY DEF Launch
<1>4. [NotStarted EXCEPT !.work = group].work = group
  BY DEF NotStarted
<1> HIDE DEF r
<1>5. exec[r].work = {}
  BY <1>1, OnlyStartHolds
<1>6. exec'[r].work = group /\ epc'[r] = "start"
  BY <1>1, <1>2, <1>3, <1>4
<1>7. \A s \in Runs \ {r} : exec'[s].work = exec[s].work /\ epc'[s] = epc[s]
  BY <1>1, <1>2, <1>3
<1>8. \A m \in Msgs : hpc'[m] \in Unsent => hpc[m] \in Unsent /\ m \notin group
  <2>1. SUFFICES ASSUME NEW m \in Msgs, hpc'[m] \in Unsent
                 PROVE  hpc[m] \in Unsent /\ m \notin group
    OBVIOUS
  <2>2. m # p
    BY <1>2, <1>3, <2>1, ReaperAssumption DEF AfterEntry, Unsent, Procs
  <2>3. hpc'[m] = hpc[m]
    BY <1>2, <1>3, <2>2 DEF Procs
  <2>4. QED
    BY <2>1, <2>2, <2>3
<1>9. QED
  BY <1>1, <1>5, <1>6, <1>7, <1>8, TakeStep

\* Steps that only move the handler.
LEMMA QuietMoves ==
  ASSUME MessageInv, NEW p \in Procs,
         \/ OwnRowGone(p) \/ OwnRowUnreadable(p) \/ WakeRunner(p)
         \/ CheckShutdown(p) \/ NothingToTake(p)
         \/ Refuse(p, "idle") \/ Refuse(p, "insert")
         \/ p = Reaper /\ ReaperPass
  PROVE  StoreInv' /\ HoldersInv' /\ Rests
<1>1. /\ UNCHANGED <<storeVars, runVars, turns, lost, injecting>>
      /\ \E pc : Step(p, pc) /\ (pc \in Unsent => p = Reaper)
  BY DEF OwnRowGone, OwnRowUnreadable, WakeRunner, CheckShutdown, NothingToTake,
         Refuse, ReaperPass, AfterEntry, Unsent, controlVars, historyVars
<1>2. PICK pc : Step(p, pc) /\ (pc \in Unsent => p = Reaper)
  BY <1>1
<1>3. QED
  BY <1>1, <1>2, QuietEntryStep DEF Step, runVars

\* Submitting claims a run or leaves the work to the runner that is there.
LEMMA SubmitStep ==
  ASSUME MessageInv, NEW p \in Procs, SubmitQueued(p) \/ SendChat(p) \/ ClaimConsumer(p)
  PROVE  StoreInv' /\ HoldersInv' /\ Rests
<1>1. /\ UNCHANGED <<storeVars, exec, turns, lost, injecting>>
      /\ epc' = epc \/ \E r \in Runs : Fresh(r) /\ epc' = [epc EXCEPT ![r] = "claimed"]
  BY DEF SubmitQueued, SendChat, ClaimConsumer, Submit, Claim, HandOver,
         controlVars, historyVars, runVars
<1>2. epc \in [Runs -> ExecPcs]
  BY DEF MessageInv, ReleasedInv, TypeOK, RunTypeOK
<1>3. \A r \in Runs : epc[r] = "start" => epc'[r] = "start"
  BY <1>1, <1>2 DEF Fresh
<1>4. \E pc : /\ hpc' = [hpc EXCEPT ![p] = pc]
              /\ pc \in Unsent => hpc[p] \in Unsent \/ p = Reaper
  BY DEF SubmitQueued, SendChat, ClaimConsumer, Submit, Claim, HandOver, At,
         Step, AfterEntry, Unsent
<1>5. QED
  BY <1>1, <1>3, <1>4, QuietEntryStep

\* A claim that is given up was not started.
LEMMA AbandonStep ==
  ASSUME MessageInv, NEW p \in Procs, UndoClaim(p) \/ SaveFails(p) \/ ReleaseConsumer(p)
  PROVE  StoreInv' /\ HoldersInv' /\ Rests
<1>1. /\ UNCHANGED <<storeVars, exec, turns, lost, injecting>>
      /\ hpc[p] \in Claiming
      /\ Abandon(p)
  BY DEF UndoClaim, SaveFails, ReleaseConsumer, At, Claiming, controlVars,
         historyVars
<1>2. epc[hloc[p].run] = "claimed"
  BY <1>1 DEF MessageInv, ReleasedInv, ClaimsAreHeld
<1>3. epc \in [Runs -> ExecPcs]
  BY DEF MessageInv, ReleasedInv, TypeOK, RunTypeOK
<1>4. \A r \in Runs : epc[r] = "start" => epc'[r] = "start"
  BY <1>1, <1>2, <1>3 DEF Abandon
<1>5. /\ hpc' = [hpc EXCEPT ![p] = AfterEntry(p)]
      /\ AfterEntry(p) \in Unsent => p = Reaper
  BY <1>1 DEF Abandon, AfterEntry, Unsent
<1>6. QED
  BY <1>1, <1>4, <1>5, QuietEntryStep

\* A new message waits; its sender has nothing left to insert.
LEMMA EnqueueStep ==
  ASSUME MessageInv, NEW m \in Msgs, SendQueued(m) \/ InsertMessage(m)
  PROVE  StoreInv' /\ HoldersInv'
<1>1. /\ AddQueued(m)
      /\ UNCHANGED <<epc, exec, turns, lost, injecting>>
      /\ hpc[m] \in Unsent
      /\ \E pc : pc \notin Unsent /\ hpc' = [hpc EXCEPT ![m] = pc]
  BY DEF SendQueued, InsertMessage, At, Step, Unsent, runVars, controlVars,
         historyVars
<1>2. hpc \in [Procs -> HandlerPcs] /\ m \in Procs
  BY DEF MessageInv, ReleasedInv, TypeOK, EntryTypeOK, Procs
<1>3. m \notin Waiting \cup Delivered
  BY <1>1 DEF MessageInv, HoldersInv, UnsentIsNew
<1>4. StoreInv'
  BY <1>1, <1>3, AddQueuedKeepsInv DEF MessageInv
<1>5. history' = history /\ Waiting' = Waiting \cup {m}
  <2> DEFINE row == [id |-> lastRow + 1, created |-> lastRow + 1, parts |-> {m}]
  <2>1. queued' = queued \cup {row} /\ history' = history
    BY <1>1 DEF AddQueued, InsertRow
  <2>2. row.parts = {m}
    OBVIOUS
  <2> HIDE DEF row
  <2>3. QED
    BY <2>1, <2>2 DEF Waiting
<1>6. \A n \in Msgs : hpc'[n] \in Unsent => hpc[n] \in Unsent /\ n \notin Waiting'
  BY <1>1, <1>2, <1>5 DEF MessageInv, HoldersInv, UnsentIsNew, Procs
<1>7. \A r \in Runs : exec[r].work # {} => epc'[r] = "start"
  BY <1>1 DEF MessageInv, HoldersInv, WorkIsAtStart
<1>8. QED
  BY <1>1, <1>4, <1>5, <1>6, <1>7, QueueStep

\* A message taken from the queue by its sender, by another sender or by the
\* reaper.
LEMMA TakeRowStep ==
  ASSUME MessageInv, NEW p \in Procs, TakeOwnRow(p) \/ TakeOldest(p)
  PROVE  StoreInv' /\ HoldersInv'
<1>1. PICK row \in queued : Materialize(row) /\ Launch(p, row.parts)
  BY DEF TakeOwnRow, TakeOldest
<1>2. /\ UNCHANGED <<turns, lost, injecting>>
      /\ hpc[p] \in Claiming
  BY DEF TakeOwnRow, TakeOldest, At, Claiming, controlVars, historyVars
<1> DEFINE group == row.parts
<1>3. /\ StoreInv'
      /\ group \in SUBSET Msgs
      /\ group \subseteq Waiting
      /\ group \cap Delivered = {}
      /\ Waiting' \subseteq Waiting
      /\ Delivered' = Delivered \cup group
      /\ \A h \in history : h \in history'
  BY <1>1, MaterializeMoves DEF MessageInv
<1>4. Launch(p, group)
  BY <1>1
<1>5. \A m \in Msgs \ {p} : hpc[m] \in Unsent => m \notin group
  BY <1>3 DEF MessageInv, HoldersInv, UnsentIsNew
<1> HIDE DEF group
<1>6. QED
  BY <1>2, <1>3, <1>4, <1>5, LaunchStep

\* The idle path of a chat request: the message goes to the history at once.
LEMMA SaveStep ==
  ASSUME MessageInv, NEW m \in Msgs, SaveMessage(m)
  PROVE  StoreInv' /\ HoldersInv'
<1>1. /\ AddMessage(m)
      /\ Launch(m, {m})
      /\ UNCHANGED <<turns, lost, injecting>>
      /\ hpc[m] = "save"
  BY DEF SaveMessage, At, controlVars, historyVars
<1>2. m \in Procs /\ hpc[m] \in Claiming /\ hpc[m] \in Unsent
  BY <1>1 DEF Procs, Claiming, Unsent
<1>3. m \notin Waiting \cup Delivered
  BY <1>2 DEF MessageInv, HoldersInv, UnsentIsNew
<1>4. StoreInv'
  BY <1>1, <1>3, AddMessageKeepsInv DEF MessageInv
<1>5. /\ Waiting' = Waiting
      /\ Delivered' = Delivered \cup {m}
      /\ \A h \in history : h \in history'
  <2> DEFINE row == [id |-> lastMsg + 1, parts |-> {m}]
  <2>1. queued' = queued /\ history' = history \cup {row}
    BY <1>1 DEF AddMessage
  <2>2. row.parts = {m}
    OBVIOUS
  <2> HIDE DEF row
  <2>3. QED
    BY <2>1, <2>2 DEF Waiting, Delivered
<1> DEFINE group == {m}
<1>6. /\ group \in SUBSET Msgs
      /\ group \cap Delivered = {}
      /\ Delivered' = Delivered \cup group
      /\ Launch(m, group)
      /\ \A n \in Msgs \ {m} : hpc[n] \in Unsent => n \notin group
  BY <1>1, <1>3, <1>5
<1> HIDE DEF group
<1>7. QED
  BY <1>1, <1>2, <1>4, <1>5, <1>6, LaunchStep

LEMMA EntryHolders ==
  ASSUME MessageInv,
         \/ \E m \in Msgs : SendQueued(m) \/ SendChat(m) \/ SenderStep(m)
                              \/ EntryMishap(m)
         \/ ReaperStep
  PROVE  StoreInv' /\ HoldersInv'
<1>1. Reaper \in Procs /\ \A m \in Msgs : m \in Procs
  BY DEF Procs
<1>2. ASSUME NEW p \in Procs, Ensure(p)
      PROVE  StoreInv' /\ HoldersInv'
  BY <1>2, QuietMoves, SubmitStep, TakeRowStep, AbandonStep DEF Ensure
<1>3. CASE ReaperStep
  BY <1>1, <1>2, <1>3, QuietMoves DEF ReaperStep
<1>4. ASSUME NEW m \in Msgs, SenderStep(m)
      PROVE  StoreInv' /\ HoldersInv'
  BY <1>1, <1>2, <1>4, QuietMoves, SubmitStep, TakeRowStep, AbandonStep,
     EnqueueStep, SaveStep
  DEF SenderStep
<1>5. ASSUME NEW m \in Msgs, SendQueued(m) \/ SendChat(m) \/ EntryMishap(m)
      PROVE  StoreInv' /\ HoldersInv'
  BY <1>1, <1>5, QuietMoves, SubmitStep, AbandonStep, EnqueueStep
  DEF EntryMishap
<1>6. QED
  BY <1>3, <1>4, <1>5

-----------------------------------------------------------------------------
(***************************************************************************)
(* Control                                                                 *)
(***************************************************************************)

\* Cancel, interrupt and the sweep touch contexts, reasons and the registry.
LEMMA QuietControl ==
  ASSUME MessageInv,
         \/ CancelTake \/ CancelStep \/ InterruptCheck \/ InterruptStep
         \/ MarkShuttingDown \/ SweepStep
  PROVE  StoreInv' /\ HoldersInv' /\ Rests
<1>1. UNCHANGED <<storeVars, turns, injecting, lost, epc, hpc>>
  BY DEF CancelTake, CancelStep, CancelReason, CancelRun, CancelNotify,
         InterruptCheck, InterruptStep, InterruptRead, InterruptAct,
         InterruptReason, InterruptStop, MarkShuttingDown, SweepStep,
         SweepSnapshot, SweepReason, SweepCancel, SweepRemove, runVars,
         entryVars, historyVars
<1>2. exec \in [Runs -> RunLocals]
  BY DEF MessageInv, ReleasedInv, TypeOK, RunTypeOK
<1>3. \A r \in Runs : exec'[r].work = exec[r].work
  <2>1. CASE InterruptStop
    BY <1>2, <2>1 DEF InterruptStop, RunLocals
  <2>2. CASE ~InterruptStop
    BY <2>2
    DEF CancelTake, CancelStep, CancelReason, CancelRun, CancelNotify,
        InterruptCheck, InterruptStep, InterruptRead, InterruptAct,
        InterruptReason, MarkShuttingDown, SweepStep, SweepSnapshot,
        SweepReason, SweepCancel, SweepRemove, runVars
  <2>3. QED
    BY <2>1, <2>2
<1>4. QED
  BY <1>1, <1>3, QuietStep DEF MessageInv, HoldersInv, WorkIsAtStart

\* The panel's edits leave the history alone and add no message to the queue.
LEMMA EditStep ==
  ASSUME MessageInv, EditQueue
  PROVE  StoreInv' /\ HoldersInv'
<1>1. UNCHANGED <<turns, injecting, lost, epc, exec, hpc>>
  BY DEF EditQueue, runVars, entryVars, controlVars, historyVars
<1>2. StoreInv' /\ history' = history /\ Waiting' \subseteq Waiting
  <2>1. CASE ClearQueued \/ \E row \in queued : CancelQueued(row)
    <3>1. queued' \subseteq queued /\ history' = history
      BY <2>1 DEF ClearQueued, CancelQueued
    <3>2. QED
      BY <2>1, <3>1, RemovalKeepsInv DEF MessageInv, Waiting
  <2>2. CASE MergeQueued
    BY <2>2, MergeKeepsInv DEF MessageInv, MergeQueued
  <2>3. QED
    BY <2>1, <2>2 DEF EditQueue
<1>3. \A m \in Msgs : hpc'[m] \in Unsent => hpc[m] \in Unsent /\ m \notin Waiting'
  BY <1>1, <1>2 DEF MessageInv, HoldersInv, UnsentIsNew
<1>4. QED
  BY <1>1, <1>2, <1>3, QueueStep DEF MessageInv, HoldersInv, WorkIsAtStart

\* An insertion takes its message as a claim does, and holds it.
LEMMA InjectTakeStep ==
  ASSUME MessageInv, InjectTake
  PROVE  StoreInv' /\ HoldersInv'
<1>1. PICK row \in queued :
        /\ Materialize(row)
        /\ injecting' = [pc |-> "asking", row |-> row, msg |-> lastMsg + 1]
  BY DEF InjectTake
<1>2. /\ injecting.pc = "idle"
      /\ UNCHANGED <<turns, lost, epc, exec, hpc>>
  BY DEF InjectTake, runVars, entryVars, historyVars
<1>3. /\ StoreInv'
      /\ row.parts \in SUBSET Msgs
      /\ row.parts \subseteq Waiting
      /\ row.parts \cap Delivered = {}
      /\ Waiting' = Waiting \ row.parts
      /\ Delivered' = Delivered \cup row.parts
      /\ \E h \in history' : h.id = lastMsg + 1 /\ h.parts = row.parts
  BY <1>1, MaterializeMoves DEF MessageInv
<1>4. Inserting' = row.parts
  BY <1>1 DEF Inserting
<1>5. \A m \in row.parts : turns[m] = 0
  BY <1>3 DEF MessageInv, HoldersInv, AnsweredIsDelivered, ReleasedInv, TypeOK,
              HistoryTypeOK
<1>6. \A r \in Runs : exec[r].work \subseteq Delivered
  BY DEF MessageInv, HoldersInv, HeldIsUnanswered
<1>7. WorkIsAtStart' /\ HoldersAreDistinct' /\ HeldIsUnanswered'
  BY <1>2, <1>3, <1>4, <1>5, <1>6 DEF MessageInv, HoldersInv, WorkIsAtStart,
                                      HoldersAreDistinct, HeldIsUnanswered
<1>8. InsertionIsRecorded'
  BY <1>1, <1>3 DEF InsertionIsRecorded
<1>9. AnsweredIsDelivered' /\ AtMostOneTurn' /\ UnsentIsNew'
  BY <1>2, <1>3 DEF MessageInv, HoldersInv, AnsweredIsDelivered, AtMostOneTurn,
                    UnsentIsNew
<1>10. TakenIsHeld'
  <2>1. Held' = Held \cup row.parts
    BY <1>1, <1>2, <1>3 DEF Held
  <2>2. QED
    BY <1>2, <1>3, <2>1 DEF MessageInv, HoldersInv, TakenIsHeld
<1>11. QED
  BY <1>3, <1>7, <1>8, <1>9, <1>10 DEF HoldersInv

\* What every end of an insertion has in common.
LEMMA InsertionEnds ==
  ASSUME MessageInv, injecting.pc = "asking", injecting' = NoInject
  PROVE  /\ Inserting = injecting.row.parts
         /\ Inserting \in SUBSET Msgs
         /\ Inserting' = {}
         /\ InsertionIsRecorded'
         /\ \A m \in Inserting : m \in Delivered /\ turns[m] = 0
<1>1. injecting.row.parts \in SUBSET Msgs
  BY DEF MessageInv, ReleasedInv, TypeOK, ControlTypeOK, QueuedRow
<1>2. QED
  BY <1>1 DEF Inserting, NoInject, InsertionIsRecorded, MessageInv, HoldersInv,
              HeldIsUnanswered

\* The streaming turn answers the message, unless it is declined.
LEMMA AcceptStep ==
  ASSUME MessageInv, InjectAccepted
  PROVE  StoreInv' /\ HoldersInv'
<1>1. /\ injecting.pc = "asking"
      /\ injecting' = NoInject
      /\ UNCHANGED <<storeVars, lost, epc, exec, hpc>>
      /\ turns' = [m \in Msgs |-> IF m \in injecting.row.parts
                                    THEN turns[m] + 1 ELSE turns[m]]
  BY DEF InjectAccepted, runVars, entryVars
<1>2. /\ Inserting = injecting.row.parts
      /\ Inserting' = {}
      /\ InsertionIsRecorded'
      /\ \A m \in Inserting : m \in Delivered /\ turns[m] = 0
  BY <1>1, InsertionEnds
<1>3. turns \in [Msgs -> Nat] /\ exec \in [Runs -> RunLocals]
  BY DEF MessageInv, ReleasedInv, TypeOK, RunTypeOK, HistoryTypeOK
<1>4. StoreInv'
  BY <1>1 DEF MessageInv, storeVars, StoreInv, StoreTypeOK, IdsAreFresh,
              IdsAreUnique, NoDuplicates, Waiting, Delivered
<1>5. Delivered' = Delivered /\ Waiting' = Waiting
  BY <1>1 DEF storeVars, Delivered, Waiting
<1>6. \A r \in Runs : \A m \in exec[r].work : m \in Msgs /\ turns'[m] = turns[m]
  BY <1>1, <1>2, <1>3 DEF MessageInv, HoldersInv, HoldersAreDistinct, RunLocals
<1>7. WorkIsAtStart' /\ HoldersAreDistinct' /\ HeldIsUnanswered'
  BY <1>1, <1>2, <1>5, <1>6 DEF MessageInv, HoldersInv, WorkIsAtStart,
                                HoldersAreDistinct, HeldIsUnanswered
<1>8. AnsweredIsDelivered' /\ AtMostOneTurn'
  BY <1>1, <1>2, <1>3, <1>5 DEF MessageInv, HoldersInv, AnsweredIsDelivered,
                                AtMostOneTurn
<1>9. UnsentIsNew'
  BY <1>1, <1>5 DEF MessageInv, HoldersInv, UnsentIsNew
<1>10. TakenIsHeld'
  <2>1. SUFFICES ASSUME NEW m \in Delivered, turns'[m] = 0, m \notin lost
                 PROVE  m \in Held'
    BY <1>1, <1>5 DEF TakenIsHeld
  <2>2. m \in Msgs
    BY DEF MessageInv, StoreInv, StoreTypeOK, HistoryRow, Delivered
  <2>3. turns[m] = 0 /\ m \notin Inserting
    BY <1>1, <1>2, <1>3, <2>1, <2>2
  <2>4. m \in Held
    BY <2>1, <2>3 DEF MessageInv, HoldersInv, TakenIsHeld
  <2>5. QED
    BY <1>1, <1>2, <2>3, <2>4 DEF Held
<1>11. QED
  BY <1>2, <1>4, <1>7, <1>8, <1>9, <1>10 DEF HoldersInv

\* A declined message goes back: the history row its insertion wrote, and no
\* other, is deleted.
LEMMA DeclineMoves ==
  ASSUME MessageInv, InjectDeclined
  PROVE  /\ StoreInv'
         /\ Waiting' = Waiting \cup Inserting
         /\ Delivered' = Delivered \ Inserting
<1>1. injecting.pc = "asking" /\ Requeue(injecting.row, injecting.msg)
  BY DEF InjectDeclined
<1>2. injecting.row \in QueuedRow /\ injecting.msg \in Nat
  BY DEF MessageInv, ReleasedInv, TypeOK, ControlTypeOK
<1>3. \A h \in history : h.id = injecting.msg => h.parts = injecting.row.parts
  BY <1>1 DEF MessageInv, HoldersInv, InsertionIsRecorded, StoreInv, IdsAreUnique
<1>4. StoreInv'
  BY <1>1, <1>2, <1>3, RequeueKeepsInv DEF MessageInv
<1>5. PICK h \in history : h.id = injecting.msg /\ history' = history \ {h}
  BY <1>1 DEF Requeue
<1>6. Inserting = injecting.row.parts /\ h.parts = injecting.row.parts
  BY <1>1, <1>3, <1>5 DEF Inserting
<1>7. Delivered' = Delivered \ Inserting
  <2>1. \A g \in history : g # h => g.parts \cap h.parts = {}
    BY <1>5 DEF MessageInv, StoreInv, NoDuplicates
  <2>2. QED
    BY <1>5, <1>6, <2>1 DEF Delivered
<1>8. Waiting' = Waiting \cup Inserting
  <2> DEFINE row == [id |-> lastRow + 1, created |-> injecting.row.created,
                     parts |-> injecting.row.parts]
  <2>1. queued' = queued \cup {row}
    BY <1>1 DEF Requeue, InsertRow
  <2>2. row.parts = Inserting
    BY <1>6
  <2> HIDE DEF row
  <2>3. QED
    BY <2>1, <2>2 DEF Waiting
<1>9. QED
  BY <1>4, <1>7, <1>8

LEMMA DeclineStep ==
  ASSUME MessageInv, InjectDeclined
  PROVE  StoreInv' /\ HoldersInv'
<1>1. /\ injecting.pc = "asking"
      /\ injecting' = NoInject
      /\ UNCHANGED <<turns, lost, epc, exec, hpc>>
  BY DEF InjectDeclined, runVars, entryVars, historyVars
<1>2. /\ Inserting = injecting.row.parts
      /\ Inserting' = {}
      /\ InsertionIsRecorded'
      /\ \A m \in Inserting : m \in Delivered /\ turns[m] = 0
  BY <1>1, InsertionEnds
<1>3. /\ StoreInv'
      /\ Waiting' = Waiting \cup Inserting
      /\ Delivered' = Delivered \ Inserting
  BY DeclineMoves
<1>4. WorkIsAtStart' /\ HoldersAreDistinct' /\ HeldIsUnanswered'
  BY <1>1, <1>2, <1>3 DEF MessageInv, HoldersInv, WorkIsAtStart,
                          HoldersAreDistinct, HeldIsUnanswered
<1>5. AnsweredIsDelivered' /\ AtMostOneTurn' /\ UnsentIsNew'
  BY <1>1, <1>2, <1>3 DEF MessageInv, HoldersInv, AnsweredIsDelivered,
                          AtMostOneTurn, UnsentIsNew
<1>6. TakenIsHeld'
  <2>1. SUFFICES ASSUME NEW m \in Delivered, m \notin Inserting, turns[m] = 0,
                        m \notin lost
                 PROVE  m \in Held'
    BY <1>1, <1>3 DEF TakenIsHeld
  <2>2. m \in Held
    BY <2>1 DEF MessageInv, HoldersInv, TakenIsHeld
  <2>3. QED
    BY <1>1, <1>2, <2>1, <2>2 DEF Held
<1>7. QED
  BY <1>2, <1>3, <1>4, <1>5, <1>6 DEF HoldersInv

\* Neither inserted nor requeued: reported as stranded.
LEMMA StrandStep ==
  ASSUME MessageInv, InjectStranded
  PROVE  StoreInv' /\ HoldersInv'
<1>1. /\ injecting.pc = "asking"
      /\ injecting' = NoInject
      /\ lost' = lost \cup injecting.row.parts
      /\ UNCHANGED <<storeVars, turns, epc, exec, hpc>>
  BY DEF InjectStranded, runVars, entryVars
<1>2. /\ Inserting = injecting.row.parts
      /\ Inserting' = {}
      /\ InsertionIsRecorded'
  BY <1>1, InsertionEnds
<1>3. StoreInv'
  BY <1>1 DEF MessageInv, storeVars, StoreInv, StoreTypeOK, IdsAreFresh,
              IdsAreUnique, NoDuplicates, Waiting, Delivered
<1>4. Delivered' = Delivered /\ Waiting' = Waiting
  BY <1>1 DEF storeVars, Delivered, Waiting
<1>5. WorkIsAtStart' /\ HoldersAreDistinct' /\ HeldIsUnanswered'
  BY <1>1, <1>2, <1>4 DEF MessageInv, HoldersInv, WorkIsAtStart,
                          HoldersAreDistinct, HeldIsUnanswered
<1>6. AnsweredIsDelivered' /\ AtMostOneTurn' /\ UnsentIsNew'
  BY <1>1, <1>4 DEF MessageInv, HoldersInv, AnsweredIsDelivered, AtMostOneTurn,
                    UnsentIsNew
<1>7. TakenIsHeld'
  <2>1. SUFFICES ASSUME NEW m \in Delivered, turns[m] = 0, m \notin lost,
                        m \notin Inserting
                 PROVE  m \in Held'
    BY <1>1, <1>2, <1>4 DEF TakenIsHeld
  <2>2. m \in Held
    BY <2>1 DEF MessageInv, HoldersInv, TakenIsHeld
  <2>3. QED
    BY <1>1, <1>2, <2>1, <2>2 DEF Held
<1>8. QED
  BY <1>2, <1>3, <1>5, <1>6, <1>7 DEF HoldersInv

\* A crash empties every hand and reports what was in it.
LEMMA CrashStep ==
  ASSUME MessageInv, Crash
  PROVE  StoreInv' /\ HoldersInv'
<1>1. /\ injecting' = NoInject
      /\ exec' = [r \in Runs |-> NotStarted]
      /\ lost' = lost \cup Held
      /\ hpc' = [p \in Procs |-> IF p # Reaper /\ hpc[p] # "idle" THEN "done"
                                                                 ELSE "idle"]
      /\ UNCHANGED <<storeVars, turns>>
  BY DEF Crash
<1>2. Inserting' = {} /\ \A r \in Runs : exec'[r].work = {}
  BY <1>1 DEF Inserting, NoInject, NotStarted
<1>3. StoreInv'
  BY <1>1 DEF MessageInv, storeVars, StoreInv, StoreTypeOK, IdsAreFresh,
              IdsAreUnique, NoDuplicates, Waiting, Delivered
<1>4. Delivered' = Delivered /\ Waiting' = Waiting
  BY <1>1 DEF storeVars, Delivered, Waiting
<1>5. WorkIsAtStart' /\ HoldersAreDistinct' /\ HeldIsUnanswered'
  BY <1>2 DEF WorkIsAtStart, HoldersAreDistinct, HeldIsUnanswered
<1>6. InsertionIsRecorded'
  BY <1>1 DEF InsertionIsRecorded, NoInject
<1>7. AnsweredIsDelivered' /\ AtMostOneTurn'
  BY <1>1, <1>4 DEF MessageInv, HoldersInv, AnsweredIsDelivered, AtMostOneTurn
<1>8. UnsentIsNew'
  <2>1. \A m \in Msgs : hpc'[m] \in Unsent => hpc[m] \in Unsent
    BY <1>1, ReaperAssumption DEF Procs, Unsent
  <2>2. QED
    BY <1>4, <2>1 DEF MessageInv, HoldersInv, UnsentIsNew
<1>9. TakenIsHeld'
  BY <1>1, <1>4 DEF MessageInv, HoldersInv, TakenIsHeld
<1>10. QED
  BY <1>3, <1>5, <1>6, <1>7, <1>8, <1>9 DEF HoldersInv

-----------------------------------------------------------------------------
LEMMA InitHolders == Init => MessageInv
<1> SUFFICES ASSUME Init PROVE MessageInv
  OBVIOUS
<1>1. StoreInv
  BY StoreInitInv DEF Init
<1>2. ReleasedInv
  BY InitReleased
<1>3. /\ Delivered = {} /\ Waiting = {} /\ Inserting = {}
      /\ \A r \in Runs : exec[r].work = {}
      /\ \A m \in Msgs : turns[m] = 0
      /\ injecting.pc # "asking"
  BY DEF Init, StoreInit, Delivered, Waiting, Inserting, NoInject, NotStarted
<1>4. HoldersInv
  BY <1>3 DEF HoldersInv, WorkIsAtStart, HoldersAreDistinct, HeldIsUnanswered,
              InsertionIsRecorded, AnsweredIsDelivered, UnsentIsNew,
              AtMostOneTurn, TakenIsHeld
<1>5. QED
  BY <1>1, <1>2, <1>4 DEF MessageInv

LEMMA NextHolders ==
  ASSUME MessageInv, [Next]_vars
  PROVE  MessageInv'
<1>1. ReleasedInv'
  BY NextReleased DEF MessageInv
<1>2. StoreInv' /\ HoldersInv'
  <2>1. CASE UNCHANGED vars
    BY <2>1, QuietStep DEF vars, runVars, entryVars, controlVars, historyVars,
                           MessageInv, HoldersInv, WorkIsAtStart
  <2>2. CASE Next
    BY <2>2, RunHolders, EntryHolders, QuietControl, EditStep, InjectTakeStep,
       AcceptStep, DeclineStep, StrandStep, CrashStep
    DEF Next
  <2>3. QED
    BY <2>1, <2>2
<1>3. QED
  BY <1>1, <1>2 DEF MessageInv

\* The holders invariant holds in every state of the session.
THEOREM HoldersCorrect == Spec => []MessageInv
<1>1. Init => MessageInv
  BY InitHolders
<1>2. MessageInv /\ [Next]_vars => MessageInv'
  BY NextHolders
<1>3. QED
  BY <1>1, <1>2, PTL DEF Spec

\* The tables stay in order under everything the session does to them: no
\* message is in two rows, and a row id names one row (queue_store.go).
THEOREM TablesStayInOrder == Spec => []StoreInv
<1>1. MessageInv => StoreInv
  BY DEF MessageInv
<1>2. QED
  BY <1>1, HoldersCorrect, PTL

\* No message is given to the agent twice, whichever of the claims by id, by
\* queue id and by age compete for its row (queue_store.go) and however often
\* it is taken for an insertion and returned.
THEOREM NoMessageIsAnsweredTwice == Spec => []AtMostOneTurn
<1>1. MessageInv => AtMostOneTurn
  BY DEF MessageInv, HoldersInv
<1>2. QED
  BY <1>1, HoldersCorrect, PTL

\* A message that left the queue is answered, or in the hands of a goroutine or
\* an insertion, or reported as lost: no interleaving of claims, cancels and
\* retirements drops it silently (session_runner.go, drain.go).
THEOREM TakenIsAlwaysHeld == Spec => []TakenIsHeld
<1>1. MessageInv => TakenIsHeld
  BY DEF MessageInv, HoldersInv
<1>2. QED
  BY <1>1, HoldersCorrect, PTL

-----------------------------------------------------------------------------
(***************************************************************************)
(* Nothing vanishes from the tables                                        *)
(***************************************************************************)

\* All that a step of the session may do to the tables, but for a declined
\* insertion.
StoreStep ==
  \/ UNCHANGED storeVars
  \/ \E m \in Msgs : AddQueued(m) \/ AddMessage(m)
  \/ \E row \in queued : Materialize(row)
  \/ ClearQueued
  \/ \E row \in queued : CancelQueued(row)
  \/ MergeQueued

LEMMA NextStoreStep ==
  ASSUME Next, ~InjectDeclined
  PROVE  StoreStep
<1>1. CASE \E r \in Runs : RunStep(r) \/ RunMishap(r)
  <2>1. PICK r \in Runs : RunStep(r) \/ RunMishap(r)
    BY <1>1
  <2>2. CASE Dequeue(r) \/ DequeueUnusable(r)
    BY <2>2 DEF Dequeue, DequeueUnusable, StoreStep
  <2>3. CASE Clear(r)
    BY <2>3 DEF Clear, StoreStep
  <2>4. CASE ~(Dequeue(r) \/ DequeueUnusable(r) \/ Clear(r))
    <3>1. UNCHANGED storeVars
      BY <2>1, <2>4
      DEF RunStep, RunMishap, TurnStart, TurnOpens, TurnFails, TurnEnds, Settle,
          OfferResume, Resume, Decide, ClearFails, DequeueFails, DequeueEmpty,
          TryRetire, Mark, SendFinal, Panic, Finish, Recover
    <3>2. QED
      BY <3>1 DEF StoreStep
  <2>5. QED
    BY <2>2, <2>3, <2>4
<1>2. CASE \/ \E m \in Msgs : \/ SendQueued(m) \/ SendChat(m)
                              \/ SenderStep(m) \/ EntryMishap(m)
           \/ ReaperStep
  <2>1. \/ UNCHANGED storeVars
        \/ \E m \in Msgs : AddQueued(m) \/ AddMessage(m)
        \/ \E row \in queued : Materialize(row)
    BY <1>2
    DEF SenderStep, EntryMishap, ReaperStep, Ensure, SendQueued, SubmitQueued,
        TakeOwnRow, OwnRowGone, OwnRowUnreadable, UndoClaim, SendChat,
        SaveMessage, SaveFails, InsertMessage, WakeRunner, Refuse, ReaperPass,
        CheckShutdown, ClaimConsumer, TakeOldest, NothingToTake, ReleaseConsumer
  <2>2. QED
    BY <2>1 DEF StoreStep
<1>3. CASE InjectTake \/ EditQueue
  BY <1>3 DEF InjectTake, EditQueue, StoreStep
<1>4. CASE \/ CancelTake \/ CancelStep \/ InterruptCheck \/ InterruptStep
           \/ InjectAccepted \/ InjectStranded
           \/ MarkShuttingDown \/ SweepStep \/ Crash
  <2>1. UNCHANGED storeVars
    BY <1>4
    DEF CancelTake, CancelStep, CancelReason, CancelRun, CancelNotify,
        InterruptCheck, InterruptStep, InterruptRead, InterruptAct,
        InterruptReason, InterruptStop, InjectAccepted, InjectStranded,
        MarkShuttingDown, SweepStep, SweepSnapshot, SweepReason, SweepCancel,
        SweepRemove, Crash
  <2>2. QED
    BY <2>1 DEF StoreStep
<1>5. QED
  BY <1>1, <1>2, <1>3, <1>4 DEF Next

\* Of these only a clear and a withdrawn row take a message out of the tables.
LEMMA StepKeepsMessages ==
  ASSUME MessageInv, Next, NEW m \in Waiting \cup Delivered
  PROVE  \/ m \in (Waiting \cup Delivered)'
         \/ ClearQueued
         \/ \E row \in queued : m \in row.parts /\ CancelQueued(row)
<1>1. StoreInv
  BY DEF MessageInv
<1>2. CASE InjectDeclined
  BY <1>2, DeclineMoves
<1>3. CASE UNCHANGED storeVars
  BY <1>3 DEF storeVars, Waiting, Delivered
<1>4. CASE \E n \in Msgs : AddQueued(n) \/ AddMessage(n)
  BY <1>4 DEF AddQueued, AddMessage, InsertRow, Waiting, Delivered
<1>5. CASE \E row \in queued : Materialize(row)
  BY <1>1, <1>5, MaterializeMoves
<1>6. CASE \E row \in queued : CancelQueued(row)
  BY <1>6 DEF CancelQueued, Waiting, Delivered
<1>7. CASE MergeQueued
  BY <1>1, <1>7, MergeKeepsInv DEF MergeQueued, Delivered
<1>8. QED
  BY <1>2, <1>3, <1>4, <1>5, <1>6, <1>7, NextStoreStep DEF StoreStep

\* Whatever requests, goroutines and crashes do to the tables, a message leaves
\* them only by a cancel of its row or a clear of the queue (queue_store.go).
THEOREM SessionLosesNothing == Spec => NothingVanishes
<1> DEFINE Kept ==
      \A m \in Waiting \cup Delivered :
        \/ m \in (Waiting \cup Delivered)'
        \/ ClearQueued
        \/ \E row \in queued : m \in row.parts /\ CancelQueued(row)
<1>1. MessageInv /\ [Next]_vars => [Kept]_storeVars
  BY StepKeepsMessages DEF vars
<1>2. QED
  BY <1>1, HoldersCorrect, PTL DEF Spec, NothingVanishes

-----------------------------------------------------------------------------
(***************************************************************************)
(* The session implements MessageDelivery                                  *)
(***************************************************************************)
Status == [m \in Msgs |-> Stage(m)]

LEMMA GroupMoves ==
  ASSUME NEW from, NEW to, NEW group \in SUBSET Msgs,
         \A m \in group : Stage(m) = from /\ Stage(m)' = to,
         \A m \in Msgs \ group : Stage(m)' = Stage(m)
  PROVE  Delivery!Move(from, to) \/ Status' = Status
<1>1. CASE group = {}
  BY <1>1 DEF Status
<1>2. CASE group # {}
  <2>1. \A m \in group : Status[m] = from
    BY DEF Status
  <2>2. Status' = [m \in Msgs |-> IF m \in group THEN to ELSE Status[m]]
    BY DEF Status
  <2>3. QED
    BY <1>2, <2>1, <2>2 DEF Delivery!Move, Status
<1>3. QED
  BY <1>1, <1>2

Promised == Delivery!DeliveryNext \/ Status' = Status

\* The tables and the turns rest; a request may fail.
LEMMA RestPromised ==
  ASSUME MessageInv, Rests
  PROVE  Promised
<1> DEFINE group == {m \in Msgs : /\ hpc[m] \in Unsent
                                  /\ hpc'[m] \notin Unsent}
<1>1. \A m \in group : m \notin Waiting \cup Delivered /\ ~(turns[m] > 0)
  BY DEF MessageInv, HoldersInv, UnsentIsNew, AnsweredIsDelivered
<1>2. \A m \in group : Stage(m) = "new" /\ Stage(m)' = "dropped"
  BY <1>1 DEF Stage, Rests, Unsent
<1>3. \A m \in Msgs \ group : Stage(m)' = Stage(m)
  BY DEF Stage, Rests, Unsent
<1>4. group \in SUBSET Msgs
  OBVIOUS
<1> HIDE DEF group
<1>5. Delivery!Move("new", "dropped") \/ Status' = Status
  BY <1>2, <1>3, <1>4, GroupMoves
<1>6. QED
  BY <1>5 DEF Promised, Delivery!DeliveryNext, Delivery!Refuse

\* Messages leave the queue for the history.
LEMMA TakePromised ==
  ASSUME MessageInv, NEW group \in SUBSET Msgs, group \subseteq Waiting,
         Waiting' = Waiting \ group, Delivered' = Delivered \cup group,
         turns' = turns,
         \A m \in Msgs : hpc'[m] \in Unsent <=> hpc[m] \in Unsent
  PROVE  Promised
<1>1. \A m \in group : ~(turns[m] > 0) /\ m \notin Delivered
  BY DEF MessageInv, StoreInv, NoDuplicates, HoldersInv, AnsweredIsDelivered
<1>2. \A m \in group : Stage(m) = "waiting" /\ Stage(m)' = "taken"
  BY <1>1 DEF Stage
<1>3. \A m \in Msgs \ group : Stage(m)' = Stage(m)
  BY DEF Stage, Unsent
<1>4. Delivery!Move("waiting", "taken") \/ Status' = Status
  BY <1>2, <1>3, GroupMoves
<1>5. QED
  BY <1>4 DEF Promised, Delivery!DeliveryNext, Delivery!Take

\* Messages leave the queue and are gone.
LEMMA WithdrawPromised ==
  ASSUME MessageInv, Waiting' \subseteq Waiting, UNCHANGED <<Delivered, turns, hpc>>
  PROVE  Promised
<1> DEFINE group == Waiting \ Waiting'
<1>1. group \in SUBSET Msgs
  BY DEF MessageInv, StoreInv, StoreTypeOK, QueuedRow, Waiting
<1>2. \A m \in group : m \notin Delivered /\ ~(turns[m] > 0) /\ hpc[m] \notin Unsent
  BY <1>1 DEF MessageInv, StoreInv, NoDuplicates, HoldersInv, AnsweredIsDelivered,
              UnsentIsNew
<1>3. \A m \in group : Stage(m) = "waiting" /\ Stage(m)' = "dropped"
  BY <1>2 DEF Stage, Unsent
<1>4. \A m \in Msgs \ group : Stage(m)' = Stage(m)
  BY DEF Stage
<1> HIDE DEF group
<1>5. Delivery!Move("waiting", "dropped") \/ Status' = Status
  BY <1>1, <1>3, <1>4, GroupMoves
<1>6. QED
  BY <1>5 DEF Promised, Delivery!DeliveryNext, Delivery!Withdraw

\* Messages of the history get their turn.
LEMMA AnswerPromised ==
  ASSUME MessageInv, NEW group \in SUBSET Msgs,
         \A m \in group : m \in Delivered /\ turns[m] = 0,
         turns' = [m \in Msgs |-> IF m \in group THEN turns[m] + 1 ELSE turns[m]],
         UNCHANGED <<Waiting, Delivered, hpc>>
  PROVE  Promised
<1>1. turns \in [Msgs -> Nat]
  BY DEF MessageInv, ReleasedInv, TypeOK, HistoryTypeOK
<1>2. \A m \in group : turns'[m] = 1
  BY <1>1
<1>3. \A m \in group : Stage(m) = "taken" /\ Stage(m)' = "answered"
  BY <1>2 DEF Stage
<1>4. \A m \in Msgs \ group : turns'[m] = turns[m]
  BY <1>1
<1>5. \A m \in Msgs \ group : Stage(m)' = Stage(m)
  BY <1>4 DEF Stage
<1>6. Delivery!Move("taken", "answered") \/ Status' = Status
  BY <1>3, <1>5, GroupMoves
<1>7. QED
  BY <1>6 DEF Promised, Delivery!DeliveryNext, Delivery!Answer

-----------------------------------------------------------------------------
LEMMA RunPromised ==
  ASSUME MessageInv, NEW r \in Runs, RunStep(r) \/ RunMishap(r)
  PROVE  Promised
<1>1. CASE TurnStart(r)
  <2>1. exec[r].work \in SUBSET Msgs
    BY DEF MessageInv, ReleasedInv, TypeOK, RunTypeOK, RunLocals
  <2>2. \A m \in exec[r].work : m \in Delivered /\ turns[m] = 0
    BY DEF MessageInv, HoldersInv, HeldIsUnanswered
  <2>3. UNCHANGED <<Waiting, Delivered, hpc>>
    BY <1>1 DEF TurnStart, storeVars, entryVars, Waiting, Delivered
  <2> DEFINE group == exec[r].work
  <2>4. turns' = [m \in Msgs |-> IF m \in group THEN turns[m] + 1 ELSE turns[m]]
    BY <1>1 DEF TurnStart
  <2>5. group \in SUBSET Msgs /\ \A m \in group : m \in Delivered /\ turns[m] = 0
    BY <2>1, <2>2
  <2> HIDE DEF group
  <2>6. QED
    BY <2>3, <2>4, <2>5, AnswerPromised
<1>2. CASE Dequeue(r) \/ DequeueUnusable(r)
  <2>1. PICK row \in queued : Materialize(row)
    BY <1>2 DEF Dequeue, DequeueUnusable
  <2>2. UNCHANGED <<turns, hpc>>
    BY <1>2 DEF Dequeue, DequeueUnusable, entryVars, historyVars
  <2>3. QED
    BY <2>1, <2>2, MaterializeMoves, TakePromised DEF MessageInv
<1>3. CASE Clear(r)
  BY <1>3, WithdrawPromised
  DEF Clear, ClearQueued, Waiting, Delivered, entryVars, historyVars
<1>4. CASE ~(TurnStart(r) \/ Dequeue(r) \/ DequeueUnusable(r) \/ Clear(r))
  BY <1>4, QuietRunStep, RestPromised DEF RunStep, RunMishap
<1>5. QED
  BY <1>1, <1>2, <1>3, <1>4

LEMMA SendPromised ==
  ASSUME MessageInv, NEW m \in Msgs,
         SendQueued(m) \/ InsertMessage(m) \/ SaveMessage(m)
  PROVE  Promised
<1>1. hpc \in [Procs -> HandlerPcs] /\ m \in Procs
  BY DEF MessageInv, ReleasedInv, TypeOK, EntryTypeOK, Procs
<1>2. /\ hpc[m] \in Unsent
      /\ turns' = turns
      /\ \E pc : pc \notin Unsent /\ hpc' = [hpc EXCEPT ![m] = pc]
  BY ReaperAssumption
  DEF SendQueued, InsertMessage, SaveMessage, Launch, AfterEntry, At, Step,
      Unsent, historyVars
<1>3. \A n \in Msgs \ {m} : hpc'[n] = hpc[n]
  BY <1>1, <1>2 DEF Procs
<1>4. m \notin Waiting \cup Delivered /\ ~(turns[m] > 0)
  BY <1>2 DEF MessageInv, HoldersInv, UnsentIsNew, AnsweredIsDelivered
<1>5. Stage(m) = "new"
  BY <1>2, <1>4 DEF Stage, Unsent
<1> DEFINE group == {m}
<1>6. group \in SUBSET Msgs
  OBVIOUS
<1>7. CASE AddQueued(m)
  <2>1. Waiting' = Waiting \cup {m} /\ Delivered' = Delivered
    <3> DEFINE row == [id |-> lastRow + 1, created |-> lastRow + 1, parts |-> {m}]
    <3>1. queued' = queued \cup {row} /\ history' = history
      BY <1>7 DEF AddQueued, InsertRow
    <3>2. row.parts = {m}
      OBVIOUS
    <3> HIDE DEF row
    <3>3. QED
      BY <3>1, <3>2 DEF Waiting, Delivered
  <2>2. Stage(m)' = "waiting"
    BY <1>2, <1>4, <2>1 DEF Stage
  <2>3. \A n \in Msgs \ group : Stage(n)' = Stage(n)
    BY <1>2, <1>3, <2>1 DEF Stage
  <2>4. \A n \in group : Stage(n) = "new" /\ Stage(n)' = "waiting"
    BY <1>5, <2>2
  <2> HIDE DEF group
  <2>5. Delivery!Move("new", "waiting") \/ Status' = Status
    BY <1>6, <2>3, <2>4, GroupMoves
  <2>6. QED
    BY <2>5 DEF Promised, Delivery!DeliveryNext, Delivery!Queue
<1>8. CASE AddMessage(m)
  <2>1. Waiting' = Waiting /\ Delivered' = Delivered \cup {m}
    <3> DEFINE row == [id |-> lastMsg + 1, parts |-> {m}]
    <3>1. queued' = queued /\ history' = history \cup {row}
      BY <1>8 DEF AddMessage
    <3>2. row.parts = {m}
      OBVIOUS
    <3> HIDE DEF row
    <3>3. QED
      BY <3>1, <3>2 DEF Waiting, Delivered
  <2>2. Stage(m)' = "taken"
    BY <1>2, <1>4, <2>1 DEF Stage
  <2>3. \A n \in Msgs \ group : Stage(n)' = Stage(n)
    BY <1>2, <1>3, <2>1 DEF Stage
  <2>4. \A n \in group : Stage(n) = "new" /\ Stage(n)' = "taken"
    BY <1>5, <2>2
  <2> HIDE DEF group
  <2>5. Delivery!Move("new", "taken") \/ Status' = Status
    BY <1>6, <2>3, <2>4, GroupMoves
  <2>6. QED
    BY <2>5 DEF Promised, Delivery!DeliveryNext, Delivery!Start
<1>9. QED
  BY <1>7, <1>8 DEF SendQueued, InsertMessage, SaveMessage

LEMMA TakeRowPromised ==
  ASSUME MessageInv, NEW p \in Procs, TakeOwnRow(p) \/ TakeOldest(p)
  PROVE  Promised
<1>1. PICK row \in queued : Materialize(row) /\ Launch(p, row.parts)
  BY DEF TakeOwnRow, TakeOldest
<1>2. hpc[p] \notin Unsent /\ turns' = turns
  BY DEF TakeOwnRow, TakeOldest, At, Unsent, historyVars
<1>3. hpc \in [Procs -> HandlerPcs]
  BY DEF MessageInv, ReleasedInv, TypeOK, EntryTypeOK
<1>4. hpc' = [hpc EXCEPT ![p] = AfterEntry(p)]
  BY <1>1 DEF Launch
<1>5. \A m \in Msgs : hpc'[m] \in Unsent <=> hpc[m] \in Unsent
  BY <1>2, <1>3, <1>4, ReaperAssumption DEF AfterEntry, Procs, Unsent
<1>6. QED
  BY <1>1, <1>2, <1>5, MaterializeMoves, TakePromised DEF MessageInv

LEMMA EntryPromised ==
  ASSUME MessageInv,
         \/ \E m \in Msgs : SendQueued(m) \/ SendChat(m) \/ SenderStep(m)
                              \/ EntryMishap(m)
         \/ ReaperStep
  PROVE  Promised
<1>1. Reaper \in Procs /\ \A m \in Msgs : m \in Procs
  BY DEF Procs
<1>2. ASSUME NEW p \in Procs, Ensure(p)
      PROVE  Promised
  BY <1>2, QuietMoves, SubmitStep, AbandonStep, RestPromised, TakeRowPromised
  DEF Ensure
<1>3. CASE ReaperStep
  BY <1>1, <1>2, <1>3, QuietMoves, RestPromised DEF ReaperStep
<1>4. ASSUME NEW m \in Msgs, SenderStep(m)
      PROVE  Promised
  BY <1>1, <1>2, <1>4, QuietMoves, SubmitStep, AbandonStep, RestPromised,
     TakeRowPromised, SendPromised
  DEF SenderStep
<1>5. ASSUME NEW m \in Msgs, SendQueued(m) \/ SendChat(m) \/ EntryMishap(m)
      PROVE  Promised
  BY <1>1, <1>5, QuietMoves, SubmitStep, AbandonStep, RestPromised, SendPromised
  DEF EntryMishap
<1>6. QED
  BY <1>3, <1>4, <1>5

LEMMA InjectPromised ==
  ASSUME MessageInv,
         InjectTake \/ InjectAccepted \/ InjectDeclined \/ InjectStranded
  PROVE  Promised
<1>1. hpc' = hpc
  BY DEF InjectTake, InjectAccepted, InjectDeclined, InjectStranded, entryVars
<1>2. CASE InjectTake
  <2>1. PICK row \in queued : Materialize(row)
    BY <1>2 DEF InjectTake
  <2>2. turns' = turns
    BY <1>2 DEF InjectTake, historyVars
  <2>3. QED
    BY <1>1, <2>1, <2>2, MaterializeMoves, TakePromised DEF MessageInv
<1>3. CASE InjectAccepted \/ InjectDeclined
  <2>1. injecting.pc = "asking" /\ injecting' = NoInject
    BY <1>3 DEF InjectAccepted, InjectDeclined
  <2>2. /\ Inserting = injecting.row.parts
        /\ Inserting \in SUBSET Msgs
        /\ \A m \in Inserting : m \in Delivered /\ turns[m] = 0
    BY <2>1, InsertionEnds
  <2>3. CASE InjectAccepted
    <3>1. turns' = [m \in Msgs |-> IF m \in Inserting THEN turns[m] + 1
                                                      ELSE turns[m]]
      BY <2>2, <2>3 DEF InjectAccepted
    <3>2. UNCHANGED <<Waiting, Delivered>>
      BY <2>3 DEF InjectAccepted, storeVars, Waiting, Delivered
    <3>3. QED
      BY <1>1, <2>2, <3>1, <3>2, AnswerPromised
  <2>4. CASE InjectDeclined
    <3>1. /\ turns' = turns
          /\ Waiting' = Waiting \cup Inserting
          /\ Delivered' = Delivered \ Inserting
      BY <2>4, DeclineMoves DEF InjectDeclined, historyVars
    <3>2. \A m \in Inserting : Stage(m) = "taken" /\ Stage(m)' = "waiting"
      BY <2>2, <3>1 DEF Stage
    <3>3. \A m \in Msgs \ Inserting : Stage(m)' = Stage(m)
      BY <1>1, <3>1 DEF Stage
    <3>4. Delivery!Move("taken", "waiting") \/ Status' = Status
      BY <2>2, <3>2, <3>3, GroupMoves
    <3>5. QED
      BY <3>4 DEF Promised, Delivery!DeliveryNext, Delivery!Return
  <2>5. QED
    BY <1>3, <2>3, <2>4
<1>4. CASE InjectStranded
  BY <1>1, <1>4, RestPromised
  DEF InjectStranded, Rests, storeVars, Waiting, Delivered
<1>5. QED
  BY <1>2, <1>3, <1>4

LEMMA NextPromised ==
  ASSUME MessageInv, [Next]_vars
  PROVE  Promised
<1>1. CASE EditQueue
  <2>1. Waiting' \subseteq Waiting /\ UNCHANGED <<Delivered, turns, hpc>>
    BY <1>1, MergeKeepsInv
    DEF EditQueue, CancelQueued, ClearQueued, MergeQueued, Waiting, Delivered,
        entryVars, historyVars, MessageInv
  <2>2. QED
    BY <2>1, WithdrawPromised
<1>2. CASE Crash
  <2>1. \A m \in Msgs : hpc'[m] \in Unsent => hpc[m] \in Unsent
    BY <1>2, ReaperAssumption DEF Crash, Procs, Unsent
  <2>2. QED
    BY <1>2, <2>1, RestPromised DEF Crash, Rests, storeVars, Waiting, Delivered
<1>3. CASE UNCHANGED vars
  BY <1>3, RestPromised
  DEF vars, Rests, storeVars, Waiting, Delivered, entryVars, historyVars
<1>4. CASE Next /\ ~EditQueue /\ ~Crash
  BY <1>4, RunPromised, EntryPromised, InjectPromised, QuietControl, RestPromised
  DEF Next
<1>5. QED
  BY <1>1, <1>2, <1>3, <1>4

\* The session keeps the promise of MessageDelivery: whatever requests,
\* goroutines and crashes interleave, a message is given to the agent only after
\* it entered the history (queue_store.go), only a waiting one can be withdrawn,
\* and what was answered or dropped never comes back.
THEOREM SessionImplementsDelivery == Spec => ImplementsDelivery
<1>1. Init => Delivery!DeliveryInit
  BY DEF Init, StoreInit, Waiting, Delivered, Stage, Delivery!DeliveryInit, Procs
<1>2. MessageInv /\ [Next]_vars => [Delivery!DeliveryNext]_Status
  BY NextPromised DEF Promised
<1>3. QED
  BY <1>1, <1>2, HoldersCorrect, PTL
  DEF Spec, ImplementsDelivery, Delivery!DeliverySpec, Status
-----------------------------------------------------------------------------
(***************************************************************************)
(* The last runner leaves no work behind.                                  *)
(*                                                                         *)
(* While the only goroutine of the session is about to retire and no mark  *)
(* was set, whatever waits was inserted since the goroutine found the queue*)
(* empty, by a sender that has not told anybody yet.  A claim that was just*)
(* given up does not count: giving it up removed the entry.                *)
(*                                                                         *)
(* A declined insertion puts a message back that nobody announces.  It     *)
(* leaves a trace: the history has fewer rows than ids were handed out, for*)
(* ever after, because an insert adds one to both.                         *)
(***************************************************************************)
EveryRowIsKept == lastMsg = Cardinality(history)

HistoryIsCounted == IsFiniteSet(history) /\ Cardinality(history) <= lastMsg

Announcing == {m \in Msgs : hpc[m] \in {"queued", "wake"}}

SoleRunner(r) ==
  /\ epc[r] = "retire"
  /\ reg.run = r
  /\ ~reg.wake
  /\ \A s \in Runs \ {r} : epc[s] = "idle"

NoLateWork ==
  \A r \in Runs :
    SoleRunner(r) /\ EveryRowIsKept => Waiting \subseteq Announcing

RetireInv == MessageInv /\ HistoryIsCounted /\ NoLateWork

\* An insert keeps the difference between the rows and the ids.
LEMMA InsertIsCounted ==
  ASSUME RetireInv, NEW parts,
         history' = history \cup {[id |-> lastMsg + 1, parts |-> parts]},
         lastMsg' = lastMsg + 1
  PROVE  HistoryIsCounted' /\ (EveryRowIsKept' => EveryRowIsKept)
<1> DEFINE row == [id |-> lastMsg + 1, parts |-> parts]
<1>1. lastMsg \in Nat /\ \A h \in history : h.id <= lastMsg
  BY DEF RetireInv, MessageInv, StoreInv, StoreTypeOK, IdsAreFresh
<1>2. row \notin history
  <2>1. row.id = lastMsg + 1
    OBVIOUS
  <2>2. ~(lastMsg + 1 <= lastMsg)
    BY <1>1
  <2>3. QED
    BY <1>1, <2>1, <2>2
<1>3. IsFiniteSet(history) /\ Cardinality(history) \in Nat
  BY FS_CardinalityType DEF RetireInv, HistoryIsCounted
<1>4. history' = history \cup {row}
  OBVIOUS
<1> HIDE DEF row
<1>5. IsFiniteSet(history') /\ Cardinality(history') = Cardinality(history) + 1
  BY <1>2, <1>3, <1>4, FS_AddElement
<1>6. QED
  BY <1>1, <1>3, <1>5 DEF RetireInv, HistoryIsCounted, EveryRowIsKept

\* A declined insertion is never made up for.
LEMMA DeclineIsCounted ==
  ASSUME RetireInv, InjectDeclined
  PROVE  HistoryIsCounted' /\ ~EveryRowIsKept'
<1>1. PICK h \in history : history' = history \ {h} /\ lastMsg' = lastMsg
  BY DEF InjectDeclined, Requeue
<1>2. IsFiniteSet(history) /\ Cardinality(history) \in Nat /\ lastMsg \in Nat
  BY FS_CardinalityType
  DEF RetireInv, HistoryIsCounted, MessageInv, StoreInv, StoreTypeOK
<1>3. IsFiniteSet(history') /\ Cardinality(history') = Cardinality(history) - 1
  BY <1>1, <1>2, FS_RemoveElement
<1>4. QED
  BY <1>1, <1>2, <1>3 DEF RetireInv, HistoryIsCounted, EveryRowIsKept

\* The rows of the history through a step: what the insert and the requeue do
\* is said above, no other operation touches it.
LEMMA NextIsCounted ==
  ASSUME RetireInv, [Next]_vars
  PROVE  /\ HistoryIsCounted'
         /\ InjectDeclined \/ (EveryRowIsKept' => EveryRowIsKept)
<1>1. CASE UNCHANGED <<history, lastMsg>>
  BY <1>1 DEF RetireInv, HistoryIsCounted, EveryRowIsKept
<1>2. CASE InjectDeclined
  BY <1>2, DeclineIsCounted
<1>3. CASE \/ \E row \in queued : Materialize(row)
           \/ \E m \in Msgs : AddMessage(m)
  <2>1. PICK parts :
          /\ history' = history \cup {[id |-> lastMsg + 1, parts |-> parts]}
          /\ lastMsg' = lastMsg + 1
    BY <1>3 DEF Materialize, AddMessage
  <2>2. HistoryIsCounted' /\ (EveryRowIsKept' => EveryRowIsKept)
    BY <2>1, InsertIsCounted
  <2>3. QED
    BY <2>2
<1>4. CASE \E r \in Runs : RunStep(r) \/ RunMishap(r)
  <2>1. PICK r \in Runs : RunStep(r) \/ RunMishap(r)
    BY <1>4
  <2>2. CASE Dequeue(r) \/ DequeueUnusable(r)
    BY <1>3, <2>2 DEF Dequeue, DequeueUnusable
  <2>3. CASE ~(Dequeue(r) \/ DequeueUnusable(r))
    BY <1>1, <2>1, <2>3
    DEF RunStep, RunMishap, TurnStart, TurnOpens, TurnFails, TurnEnds, Settle,
        OfferResume, Resume, Decide, Clear, ClearFails, DequeueFails,
        DequeueEmpty, TryRetire, Mark, SendFinal, Panic, Finish, Recover,
        ClearQueued, storeVars
  <2>4. QED
    BY <2>2, <2>3
<1>5. CASE \/ \E m \in Msgs : \/ SendQueued(m) \/ SendChat(m)
                              \/ SenderStep(m) \/ EntryMishap(m)
           \/ ReaperStep
  <2>1. \/ UNCHANGED <<history, lastMsg>>
        \/ \E row \in queued : Materialize(row)
        \/ \E m \in Msgs : AddMessage(m)
    BY <1>5
    DEF SenderStep, EntryMishap, ReaperStep, Ensure, SendQueued, SubmitQueued,
        TakeOwnRow, OwnRowGone, OwnRowUnreadable, UndoClaim, SendChat,
        SaveMessage, SaveFails, InsertMessage, WakeRunner, Refuse, ReaperPass,
        CheckShutdown, ClaimConsumer, TakeOldest, NothingToTake, ReleaseConsumer,
        AddQueued, storeVars
  <2>2. QED
    BY <1>1, <1>3, <2>1
<1>6. CASE \/ CancelTake \/ CancelStep \/ InterruptCheck \/ InterruptStep
           \/ InjectTake \/ InjectAccepted \/ InjectStranded
           \/ EditQueue \/ MarkShuttingDown \/ SweepStep \/ Crash
           \/ UNCHANGED vars
  <2>1. UNCHANGED <<history, lastMsg>> \/ \E row \in queued : Materialize(row)
    BY <1>6
    DEF CancelTake, CancelStep, CancelReason, CancelRun, CancelNotify,
        InterruptCheck, InterruptStep, InterruptRead, InterruptAct,
        InterruptReason, InterruptStop, InjectTake, InjectAccepted,
        InjectStranded, EditQueue, MarkShuttingDown, SweepStep, SweepSnapshot,
        SweepReason, SweepCancel, SweepRemove, Crash, CancelQueued, ClearQueued,
        MergeQueued, storeVars, vars
  <2>2. QED
    BY <1>1, <1>3, <2>1
<1>7. QED
  BY <1>2, <1>4, <1>5, <1>6 DEF Next
\* Six reasons why a step leaves no late work behind: the entry is gone, the
\* mark is set, another goroutine is about, nothing waits, a message went back,
\* or the goroutines rest and whatever comes to wait is announced.
Announced ==
  /\ epc' = epc
  /\ reg'.run = reg.run
  /\ reg'.wake = reg.wake
  /\ \A m \in Waiting' : m \notin Announcing' => m \in Waiting \ Announcing

LEMMA ReasonsForNoLateWork ==
  ASSUME RetireInv, [Next]_vars,
         \/ reg'.run = NoRun
         \/ reg'.wake = TRUE
         \/ \E s \in Runs : epc'[s] \notin {"idle", "retire"}
         \/ queued' = {}
         \/ InjectDeclined
         \/ Announced
  PROVE  NoLateWork'
<1> SUFFICES ASSUME NEW r \in Runs, SoleRunner(r)', EveryRowIsKept'
             PROVE  Waiting' \subseteq Announcing'
  BY DEF NoLateWork
<1>1. /\ reg'.run = r /\ r # NoRun
      /\ ~reg'.wake
      /\ epc'[r] = "retire"
      /\ \A s \in Runs \ {r} : epc'[s] = "idle"
  BY NoRunAssumption DEF SoleRunner
<1>2. CASE queued' = {}
  BY <1>2 DEF Waiting
<1>3. CASE InjectDeclined
  BY <1>3, DeclineIsCounted
<1>4. CASE Announced
  <2>1. SoleRunner(r)
    BY <1>1, <1>4 DEF Announced, SoleRunner, RetireInv, MessageInv, ReleasedInv,
                      TypeOK, RegistryTypeOK
  <2>2. InjectDeclined \/ EveryRowIsKept
    BY NextIsCounted
  <2>3. InjectDeclined \/ Waiting \subseteq Announcing
    BY <2>1, <2>2 DEF RetireInv, NoLateWork
  <2>4. QED
    BY <1>3, <1>4, <2>3 DEF Announced
<1>5. QED
  BY <1>1, <1>2, <1>3, <1>4

LEMMA RunLeavesNoLateWork ==
  ASSUME RetireInv, NEW r \in Runs, RunStep(r) \/ RunMishap(r)
  PROVE  NoLateWork'
<1>0. [Next]_vars /\ epc \in [Runs -> ExecPcs]
  BY DEF Next, RetireInv, MessageInv, ReleasedInv, TypeOK, RunTypeOK
<1>1. CASE Finish(r) \/ Recover(r)
  <2>1. reg'.run = NoRun
    BY <1>1 DEF Finish, Recover, FinishRun, NoEntry
  <2>2. QED
    BY <1>0, <2>1, ReasonsForNoLateWork
<1>2. CASE DequeueEmpty(r)
  <2>1. queued' = {}
    BY <1>2 DEF DequeueEmpty, storeVars
  <2>2. QED
    BY <1>0, <2>1, ReasonsForNoLateWork
<1>3. CASE ~(Finish(r) \/ Recover(r) \/ DequeueEmpty(r))
  <2>1. \E pc : pc \notin {"idle", "retire"} /\ Goto(r, pc)
    BY <1>3
    DEF RunStep, RunMishap, TurnStart, TurnOpens, TurnFails, TurnEnds, Settle,
        OfferResume, Resume, Decide, AfterTurn, Clear, ClearFails, Dequeue,
        DequeueUnusable, DequeueFails, TryRetire, Mark, SendFinal, Panic
  <2>2. epc'[r] \notin {"idle", "retire"}
    BY <1>0, <2>1 DEF Goto
  <2>3. QED
    BY <1>0, <2>2, ReasonsForNoLateWork
<1>4. QED
  BY <1>1, <1>2, <1>3

\* A claimer's run is a goroutine that is about, before its launch and after.
LEMMA ClaimersAreAbout ==
  ASSUME RetireInv, [Next]_vars, NEW p \in Procs, hpc[p] \in Claiming,
         epc' = epc \/ \E work : Launch(p, work)
  PROVE  NoLateWork'
<1>1. hloc[p].run \in Runs /\ epc[hloc[p].run] = "claimed"
  BY DEF RetireInv, MessageInv, ReleasedInv, ClaimsAreHeld
<1>2. epc \in [Runs -> ExecPcs]
  BY DEF RetireInv, MessageInv, ReleasedInv, TypeOK, RunTypeOK
<1>3. epc'[hloc[p].run] \in {"claimed", "start"}
  BY <1>1, <1>2 DEF Launch
<1>4. QED
  BY <1>1, <1>3, ReasonsForNoLateWork

LEMMA SubmitLeavesNoLateWork ==
  ASSUME RetireInv, [Next]_vars, NEW p, NEW claimed, NEW found,
         Submit(p, claimed, found)
  PROVE  NoLateWork'
<1>1. CASE HandOver(p, found)
  <2>1. reg'.wake = TRUE
    BY <1>1 DEF HandOver, Wake, RetireInv, MessageInv, ReleasedInv, TypeOK,
                RegistryTypeOK
  <2>2. QED
    BY <2>1, ReasonsForNoLateWork
<1>2. CASE \E r \in Runs : Claim(p, r, claimed)
  <2>1. PICK r \in Runs : Claim(p, r, claimed)
    BY <1>2
  <2>2. epc'[r] = "claimed"
    BY <2>1 DEF Claim, RetireInv, MessageInv, ReleasedInv, TypeOK, RunTypeOK
  <2>3. QED
    BY <2>2, ReasonsForNoLateWork
<1>3. QED
  BY <1>1, <1>2 DEF Submit

\* A sender that inserts its row announces it; one that does neither has none.
LEMMA SendersAnnounce ==
  ASSUME RetireInv, [Next]_vars, NEW m \in Procs,
         \/ m \in Msgs /\ (SendQueued(m) \/ InsertMessage(m))
         \/ CheckShutdown(m) \/ Refuse(m, "idle") \/ Refuse(m, "insert")
  PROVE  NoLateWork'
<1> USE DEF At, Step
<1>0. hpc \in [Procs -> HandlerPcs]
  BY DEF RetireInv, MessageInv, ReleasedInv, TypeOK, EntryTypeOK
<1>1. epc' = epc /\ reg' = reg
  BY DEF SendQueued, InsertMessage, CheckShutdown, Refuse, runVars, registryVars
<1>2. CASE m \in Msgs /\ (SendQueued(m) \/ InsertMessage(m))
  <2>1. /\ Waiting' = Waiting \cup {m}
        /\ \E pc \in {"queued", "wake"} : hpc' = [hpc EXCEPT ![m] = pc]
    <3>1. AddQueued(m)
      BY <1>2 DEF SendQueued, InsertMessage
    <3>2. Waiting' = Waiting \cup {m}
      <4> DEFINE row == [id |-> lastRow + 1, created |-> lastRow + 1,
                         parts |-> {m}]
      <4>1. queued' = queued \cup {row} /\ row.parts = {m}
        BY <3>1 DEF AddQueued, InsertRow
      <4> HIDE DEF row
      <4>2. QED
        BY <4>1 DEF Waiting
    <3>3. \E pc \in {"queued", "wake"} : hpc' = [hpc EXCEPT ![m] = pc]
      BY <1>2 DEF SendQueued, InsertMessage
    <3>4. QED
      BY <3>2, <3>3
  <2>2. hpc[m] \notin {"queued", "wake"}
    BY <1>2 DEF SendQueued, InsertMessage
  <2>3. Announcing' = Announcing \cup {m}
    BY <1>0, <1>2, <2>1 DEF Announcing, Procs
  <2>4. QED
    BY <1>1, <2>1, <2>3, ReasonsForNoLateWork DEF Announced
<1>3. CASE CheckShutdown(m) \/ Refuse(m, "idle") \/ Refuse(m, "insert")
  <2>1. /\ queued' = queued
        /\ hpc[m] \notin {"queued", "wake"}
        /\ \E pc : pc \notin {"queued", "wake"} /\ hpc' = [hpc EXCEPT ![m] = pc]
    BY <1>3 DEF CheckShutdown, Refuse, AfterEntry, storeVars
  <2>2. Waiting' = Waiting /\ Announcing' = Announcing
    BY <1>0, <2>1 DEF Waiting, Announcing, Procs
  <2>3. QED
    BY <1>1, <2>2, ReasonsForNoLateWork DEF Announced
<1>4. QED
  BY <1>2, <1>3

LEMMA EntryLeavesNoLateWork ==
  ASSUME RetireInv,
         \/ \E m \in Msgs : \/ SendQueued(m) \/ SendChat(m)
                            \/ SenderStep(m) \/ EntryMishap(m)
         \/ ReaperStep
  PROVE  NoLateWork'
<1> USE DEF At
<1>0. [Next]_vars /\ RegistryTypeOK
  BY DEF Next, RetireInv, MessageInv, ReleasedInv, TypeOK
<1>1. PICK p \in Procs : \/ p \in Msgs /\ (SendQueued(p) \/ InsertMessage(p))
                         \/ SendChat(p) \/ SubmitQueued(p) \/ ClaimConsumer(p)
                         \/ TakeOwnRow(p) \/ SaveMessage(p) \/ TakeOldest(p)
                         \/ UndoClaim(p) \/ SaveFails(p) \/ ReleaseConsumer(p)
                         \/ OwnRowGone(p) \/ OwnRowUnreadable(p)
                         \/ NothingToTake(p)
                         \/ WakeRunner(p) \/ (p = Reaper /\ ReaperPass)
                         \/ CheckShutdown(p)
                         \/ Refuse(p, "idle") \/ Refuse(p, "insert")
  <2>1. Reaper \in Procs /\ \A m \in Msgs : m \in Procs
    BY DEF Procs
  <2>2. QED
    BY <2>1, Zenon DEF SenderStep, EntryMishap, ReaperStep, Ensure
<1>2. CASE \/ p \in Msgs /\ (SendQueued(p) \/ InsertMessage(p))
           \/ CheckShutdown(p) \/ Refuse(p, "idle") \/ Refuse(p, "insert")
  BY <1>0, <1>2, SendersAnnounce
<1>3. CASE SendChat(p) \/ SubmitQueued(p) \/ ClaimConsumer(p)
  BY <1>0, <1>3, SubmitLeavesNoLateWork DEF SendChat, SubmitQueued, ClaimConsumer
<1>4. CASE \/ TakeOwnRow(p) \/ SaveMessage(p) \/ TakeOldest(p)
           \/ OwnRowGone(p) \/ OwnRowUnreadable(p) \/ NothingToTake(p)
  <2>1. hpc[p] \in Claiming /\ (epc' = epc \/ \E work : Launch(p, work))
    BY <1>4
    DEF TakeOwnRow, SaveMessage, TakeOldest, OwnRowGone, OwnRowUnreadable,
        NothingToTake, Claiming, runVars
  <2>2. QED
    BY <1>0, <2>1, ClaimersAreAbout
<1>5. CASE \/ UndoClaim(p) \/ SaveFails(p) \/ ReleaseConsumer(p)
           \/ WakeRunner(p) \/ (p = Reaper /\ ReaperPass)
  <2>1. reg'.run = NoRun \/ reg'.wake = TRUE
    BY <1>0, <1>5
    DEF UndoClaim, SaveFails, ReleaseConsumer, FinishRun, Remove, NoEntry,
        WakeRunner, ReaperPass, Wake, Running, registryVars, RegistryTypeOK
  <2>2. QED
    BY <1>0, <2>1, ReasonsForNoLateWork
<1>6. QED
  BY <1>1, <1>2, <1>3, <1>4, <1>5

LEMMA ControlLeavesNoLateWork ==
  ASSUME RetireInv,
         \/ CancelTake \/ CancelStep \/ InterruptCheck \/ InterruptStep
         \/ InjectTake \/ InjectAccepted \/ InjectDeclined \/ InjectStranded
         \/ EditQueue \/ MarkShuttingDown \/ SweepStep \/ Crash
         \/ UNCHANGED vars
  PROVE  NoLateWork'
<1>0. [Next]_vars /\ RegistryTypeOK
  BY DEF Next, RetireInv, MessageInv, ReleasedInv, TypeOK
<1>1. CASE CancelTake \/ SweepRemove \/ Crash
  <2>1. reg'.run = NoRun
    BY <1>1 DEF CancelTake, SweepRemove, Crash, Remove, NoEntry
  <2>2. QED
    BY <1>0, <2>1, ReasonsForNoLateWork
<1>2. CASE InjectDeclined
  BY <1>0, <1>2, ReasonsForNoLateWork
<1>3. CASE EditQueue \/ InjectTake
  <2>1. Waiting' \subseteq Waiting
    <3>1. CASE \/ ClearQueued \/ \E row \in queued : CancelQueued(row)
               \/ \E row \in queued : Materialize(row)
      BY <3>1 DEF ClearQueued, CancelQueued, Materialize, Waiting
    <3>2. CASE MergeQueued
      BY <3>2 DEF MergeQueued, Waiting
    <3>3. QED
      BY <1>3, <3>1, <3>2 DEF EditQueue, InjectTake
  <2>2. UNCHANGED <<epc, hpc, reg>>
    BY <1>3 DEF EditQueue, InjectTake, runVars, entryVars, registryVars
  <2>3. Announced
    BY <2>1, <2>2 DEF Announced, Announcing
  <2>4. QED
    BY <1>0, <2>3, ReasonsForNoLateWork
<1>4. CASE \/ CancelStep \/ InterruptCheck \/ InterruptStep
           \/ InjectAccepted \/ InjectStranded \/ MarkShuttingDown
           \/ SweepSnapshot \/ SweepReason \/ SweepCancel
           \/ UNCHANGED vars
  <2>1. /\ UNCHANGED <<queued, epc, hpc>>
        /\ reg' = reg \/ ClearTurn
    BY <1>4
    DEF CancelStep, CancelReason, CancelRun, CancelNotify, CancelContext,
        InterruptCheck, InterruptStep, InterruptRead, InterruptAct,
        InterruptReason, InterruptStop, InjectAccepted, InjectStranded,
        MarkShuttingDown, SweepSnapshot, SweepReason, SweepCancel, vars, runVars,
        entryVars, registryVars, storeVars
  <2>2. reg'.run = reg.run /\ reg'.wake = reg.wake
    BY <1>0, <2>1 DEF ClearTurn, RegistryTypeOK
  <2>3. Announced
    BY <2>1, <2>2 DEF Announced, Announcing, Waiting
  <2>4. QED
    BY <1>0, <2>3, ReasonsForNoLateWork
<1>5. QED
  BY <1>1, <1>2, <1>3, <1>4 DEF SweepStep

LEMMA NextRetires == ASSUME RetireInv, [Next]_vars PROVE RetireInv'
<1>1. MessageInv' /\ HistoryIsCounted'
  BY NextHolders, NextIsCounted DEF RetireInv
<1>2. NoLateWork'
  BY RunLeavesNoLateWork, EntryLeavesNoLateWork, ControlLeavesNoLateWork DEF Next
<1>3. QED
  BY <1>1, <1>2 DEF RetireInv

\* Only its own attempt to retire takes a goroutine from there to its end.
LEMMA OnlyRetireMarks ==
  ASSUME RetireInv, [Next]_vars, NEW r \in Runs,
         epc[r] = "retire", epc'[r] = "mark"
  PROVE  TryRetire(r) /\ ~reg.wake
<1> USE DEF RetireInv, MessageInv, ReleasedInv, TypeOK, RunTypeOK
<1>1. CASE \E s \in Runs : RunStep(s) \/ RunMishap(s)
  <2>1. PICK s \in Runs : RunStep(s) \/ RunMishap(s)
    BY <1>1
  <2>2. \E pc : Goto(s, pc)
    BY <2>1
    DEF RunStep, RunMishap, TurnStart, TurnOpens, TurnFails, TurnEnds, Settle,
        OfferResume, Resume, Decide, Clear, ClearFails, Dequeue, DequeueUnusable,
        DequeueFails, DequeueEmpty, TryRetire, Mark, SendFinal, Panic, Finish,
        Recover
  <2>3. s = r
    BY <2>2 DEF Goto
  <2>4. TryRetire(r)
    BY <2>1, <2>3
    DEF RunStep, RunMishap, TurnStart, TurnOpens, TurnFails, TurnEnds, Settle,
        OfferResume, Resume, Decide, Clear, ClearFails, Dequeue, DequeueUnusable,
        DequeueFails, DequeueEmpty, Mark, SendFinal, Panic, Finish, Recover
  <2>5. QED
    BY <2>4 DEF TryRetire, RetireRefused, Retire, Goto
<1>2. CASE \/ \E m \in Msgs : \/ SendQueued(m) \/ SendChat(m)
                              \/ SenderStep(m) \/ EntryMishap(m)
           \/ ReaperStep
  <2> DEFINE Entered == \/ epc' = epc
                        \/ \E s : epc' = [epc EXCEPT ![s] = "claimed"]
                        \/ \E s : epc' = [epc EXCEPT ![s] = "start"]
                        \/ \E s : epc' = [epc EXCEPT ![s] = "idle"]
  <2>1. ASSUME NEW h, Ensure(h) PROVE Entered
    BY <2>1
    DEF Ensure, CheckShutdown, ClaimConsumer, TakeOldest, NothingToTake,
        ReleaseConsumer, Submit, HandOver, Claim, Launch, Abandon, runVars
  <2>2. ASSUME NEW m, \/ SubmitQueued(m) \/ TakeOwnRow(m) \/ OwnRowGone(m)
                      \/ UndoClaim(m) \/ OwnRowUnreadable(m)
        PROVE  Entered
    BY <2>2
    DEF SubmitQueued, TakeOwnRow, OwnRowGone, UndoClaim, OwnRowUnreadable,
        Submit, HandOver, Claim, Launch, Abandon, runVars
  <2>3. ASSUME NEW m, \/ SendQueued(m) \/ SendChat(m) \/ SaveMessage(m)
                      \/ SaveFails(m) \/ InsertMessage(m) \/ WakeRunner(m)
                      \/ Refuse(m, "idle") \/ Refuse(m, "insert")
        PROVE  Entered
    BY <2>3
    DEF SendQueued, SendChat, SaveMessage, SaveFails, InsertMessage, WakeRunner,
        Refuse, Submit, HandOver, Claim, Launch, Abandon, runVars
  <2>4. ReaperPass => Entered
    BY DEF ReaperPass, runVars
  <2>5. Entered
    BY <1>2, <2>1, <2>2, <2>3, <2>4 DEF SenderStep, EntryMishap, ReaperStep
  <2>6. QED
    BY <2>5
<1>3. CASE \/ CancelTake \/ CancelStep \/ InterruptCheck \/ InterruptStep
           \/ InjectTake \/ InjectAccepted \/ InjectDeclined \/ InjectStranded
           \/ EditQueue \/ MarkShuttingDown \/ SweepStep \/ Crash
           \/ UNCHANGED vars
  <2>1. epc' = epc \/ epc' = [s \in Runs |-> "idle"]
    BY <1>3
    DEF CancelTake, CancelStep, CancelReason, CancelRun, CancelNotify,
        InterruptCheck, InterruptStep, InterruptRead, InterruptAct,
        InterruptReason, InterruptStop, InjectTake, InjectAccepted,
        InjectDeclined, InjectStranded, EditQueue, MarkShuttingDown, SweepStep,
        SweepSnapshot, SweepReason, SweepCancel, SweepRemove, Crash, runVars, vars
  <2>2. QED
    BY <2>1
<1>4. QED
  BY <1>1, <1>2, <1>3 DEF Next

\* "The decision to exit and the check for late work are one atomic step": when
\* the only goroutine of the session leaves the registry on its own, every
\* message that still waits has a sender that is about to claim or to wake, for
\* any number of messages, runs and events.
THEOREM RetireNeverLeavesWork == Spec => RetireLeavesNoWork
<1>1. Init => RetireInv
  <2> SUFFICES ASSUME Init PROVE HistoryIsCounted /\ NoLateWork
    BY InitHolders DEF RetireInv
  <2>1. HistoryIsCounted
    BY FS_EmptySet DEF Init, StoreInit, HistoryIsCounted
  <2>2. NoLateWork
    BY DEF Init, StoreInit, NoLateWork, Waiting
  <2>3. QED
    BY <2>1, <2>2
<1>2. ASSUME RetireInv, [Next]_vars
      PROVE  [ \A r \in Runs :
                 /\ epc[r] = "retire"
                 /\ epc'[r] = "mark"
                 /\ reg.run = r
                 /\ \A s \in Runs \ {r} : epc[s] = "idle"
                 /\ lastMsg = Cardinality(history)
                 => \A m \in Waiting : hpc[m] \in {"queued", "wake"} ]_vars
  <2> SUFFICES ASSUME NEW r \in Runs, epc[r] = "retire", epc'[r] = "mark",
                      reg.run = r, \A s \in Runs \ {r} : epc[s] = "idle",
                      lastMsg = Cardinality(history)
               PROVE  \A m \in Waiting : hpc[m] \in {"queued", "wake"}
    OBVIOUS
  <2>1. SoleRunner(r) /\ EveryRowIsKept
    BY <1>2, OnlyRetireMarks DEF SoleRunner, EveryRowIsKept
  <2>2. Waiting \subseteq Announcing
    BY <1>2, <2>1 DEF RetireInv, NoLateWork
  <2>3. QED
    BY <2>2 DEF Announcing
<1>3. QED
  BY <1>1, <1>2, NextRetires, PTL DEF Spec, RetireLeavesNoWork
=============================================================================
