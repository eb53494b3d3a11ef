---------------------------- MODULE SessionState ----------------------------
(***************************************************************************)
(* The state of one chat session that its actors share, and the steps that *)
(* hand a run from one actor to another.                                   *)
(*                                                                         *)
(*   tables     QueueStore: queued_messages, chat_history                  *)
(*   registry   RunnerRegistry: the runner of the session, if any          *)
(*   runs       the execution goroutines, each in its drain loop           *)
(*   entry      the requests that send messages, and the queue reaper      *)
(*   control    requests that stop a run or edit the queue, and shutdown   *)
(*                                                                         *)
(* The registry, sessionCancelReasons and terminalPushDone are keyed by    *)
(* the session id, never by the run.                                       *)
(***************************************************************************)
EXTENDS QueueStore, RunnerRegistry

CONSTANTS
  Reaper,            \* the queue reaper, beside one sender per message
  MaxDequeueRetries, \* maxDequeueRetries of drain.go
  Events,            \* the kinds of rare events that may happen
  MaxEvents          \* bound on how many of them happen altogether

ASSUME ReaperAssumption == Reaper \notin Msgs
ASSUME RetriesAssumption == MaxDequeueRetries \in Nat \ {0}
ASSUME EventsAssumption ==
  /\ Events \subseteq {"cancel", "interrupt", "inject", "edit", "fault",
                       "resume", "shutdown", "crash"}
  /\ MaxEvents \in Nat

Procs == Msgs \cup {Reaper}

VARIABLES
  turnSeq,      \* the last turn id handed out
  reason,       \* sessionCancelReasons: one slot per session
  pushDone,     \* terminalPushDone: this run's terminal state was pushed
  epc,          \* run -> where its goroutine stands
  exec,         \* run -> locals of its goroutine
  hpc,          \* sender or reaper -> where its handler stands
  hloc,         \* sender or reaper -> the run it claimed, the row it inserted
  cancelling,   \* CancelSession in progress
  interrupting, \* QueueInterruptHandler in progress
  injecting,    \* InjectQueuedMessage in progress
  stopping,     \* the shutdown goroutine of main
  left,         \* what remains of MaxEvents
  turns,        \* history variable: message -> turns it was given to
  aimed,        \* history variable: runs that somebody chose to stop
  lost          \* history variable: messages a crash or a fault orphaned

runVars == <<turnSeq, epc, exec>>
slotVars == <<reason, pushDone>>
entryVars == <<hpc, hloc>>
controlVars == <<cancelling, interrupting, injecting, stopping>>
historyVars == <<turns, aimed, lost>>

vars == <<storeVars, registryVars, runVars, slotVars, entryVars, controlVars,
          left, historyVars>>

Reasons == {"none", "user", "interrupt", "restart"}

\* DrainResult: how the last turn ended.  "cancel" is a context cancelled for
\* no recorded reason, "done" marks the loop's own end.
Outcomes == {"ok", "empty", "err", "cancel", "done", "panic"}
              \cup (Reasons \ {"none"})

NotStarted == [outcome |-> "ok", abnormal |-> FALSE, turn |-> 0,
               stopped |-> FALSE, work |-> {}, fails |-> 0]

ExecPcs == {"idle", "claimed", "start", "open", "turn", "settle", "hooks",
            "delay", "clear", "dequeue", "retire", "mark", "final", "finish",
            "panicked"}

HandlerPcs == {"idle", "queued", "claimrow", "undo", "save", "insert", "wake",
               "check", "claim", "take", "release", "done"}

NoLocals == [run |-> NoRun, row |-> 0]
NoCancel == [pc |-> "idle", run |-> NoRun]
NoInterrupt == [pc |-> "idle", seen |-> 0, found |-> 0, looked |-> 0]
NoInject == [pc |-> "idle", row |-> [id |-> 0, created |-> 0, parts |-> {}],
             msg |-> 0]

RunLocals == [outcome : Outcomes, abnormal : BOOLEAN, turn : Nat,
              stopped : BOOLEAN, work : SUBSET Msgs, fails : Nat]

RunTypeOK ==
  /\ turnSeq \in Nat
  /\ epc \in [Runs -> ExecPcs]
  /\ exec \in [Runs -> RunLocals]

SlotTypeOK ==
  /\ reason \in Reasons
  /\ pushDone \in BOOLEAN

EntryTypeOK ==
  /\ hpc \in [Procs -> HandlerPcs]
  /\ hloc \in [Procs -> [run : Runs \cup {NoRun}, row : Nat]]

ControlTypeOK ==
  /\ cancelling \in {NoCancel} \cup [pc : {"reason", "cancel", "notify"},
                                     run : Runs]
  /\ interrupting \in [pc : {"idle", "read", "act", "reason", "stop"},
                       seen : Nat, found : Nat, looked : Nat]
  /\ injecting \in [pc : {"idle", "asking"}, row : QueuedRow, msg : Nat]
  /\ stopping \in [pc : {"no", "snapshot", "done"}, run : {NoRun}]
                    \cup [pc : {"reason", "cancel", "remove"}, run : Runs]

HistoryTypeOK ==
  /\ turns \in [Msgs -> Nat]
  /\ aimed \subseteq Runs
  /\ lost \subseteq Msgs

\* Also: a cancel or a sweep in progress has a run in its hands.
TypeOK ==
  /\ StoreTypeOK
  /\ RegistryTypeOK
  /\ RunTypeOK
  /\ SlotTypeOK
  /\ EntryTypeOK
  /\ ControlTypeOK
  /\ left \in Nat
  /\ HistoryTypeOK

Init ==
  /\ StoreInit
  /\ RegistryInit
  /\ turnSeq = 0
  /\ reason = "none"
  /\ pushDone = FALSE
  /\ epc = [r \in Runs |-> "idle"]
  /\ exec = [r \in Runs |-> NotStarted]
  /\ hpc = [p \in Procs |-> "idle"]
  /\ hloc = [p \in Procs |-> NoLocals]
  /\ cancelling = NoCancel
  /\ interrupting = NoInterrupt
  /\ injecting = NoInject
  /\ stopping = [pc |-> "no", run |-> NoRun]
  /\ left = MaxEvents
  /\ turns = [m \in Msgs |-> 0]
  /\ aimed = {}
  /\ lost = {}

-----------------------------------------------------------------------------
\* A rare event: it may happen, and it is counted.
Rare(kind) ==
  /\ kind \in Events
  /\ left > 0
  /\ left' = left - 1

\* A run identity nobody holds any more.
Fresh(r) ==
  /\ epc[r] = "idle"
  /\ r \notin {reg.run, cancelling.run, stopping.run}

\* tryClaimSessionRun creating a runner: the claimer owns run r from here on,
\* and the terminal push guard of the session is open again.
Claim(p, r, then) ==
  /\ Fresh(r)
  /\ SubmitNew(r)
  /\ pushDone' = FALSE
  /\ epc' = [epc EXCEPT ![r] = "claimed"]
  /\ hpc' = [hpc EXCEPT ![p] = then]
  /\ hloc' = [hloc EXCEPT ![p].run = r]
  /\ aimed' = aimed \ {r}
  /\ UNCHANGED <<turnSeq, exec, reason, turns, lost>>

AfterEntry(p) == IF p = Reaper THEN "idle" ELSE "done"

\* The claimer starts the goroutine of its run with a message it materialized.
Launch(p, work) ==
  /\ epc' = [epc EXCEPT ![hloc[p].run] = "start"]
  /\ exec' = [exec EXCEPT ![hloc[p].run] = [NotStarted EXCEPT !.work = work]]
  /\ hpc' = [hpc EXCEPT ![p] = AfterEntry(p)]
  /\ hloc' = [hloc EXCEPT ![p] = NoLocals]

\* The claimer gives its run up; what happens to the registry is the caller's.
Abandon(p) ==
  /\ epc' = [epc EXCEPT ![hloc[p].run] = "idle"]
  /\ hpc' = [hpc EXCEPT ![p] = AfterEntry(p)]
  /\ hloc' = [hloc EXCEPT ![p] = NoLocals]
=============================================================================
