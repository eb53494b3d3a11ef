--------------------------- MODULE RunnerRegistry ---------------------------
(***************************************************************************)
(* The runner registry of one chat session                                 *)
(* (internal/service/session_runner.go, session_runtime.go).               *)
(*                                                                         *)
(* registry[sessionID] is the single source of truth for "is the session   *)
(* running, and how is it stopped".  The session id is the only key: an    *)
(* operation acts on whatever runner is registered when it takes           *)
(* registryMu, whoever created it.  Each operation below is one critical   *)
(* section.  A run is the identity of a runner and of the context it owns. *)
(***************************************************************************)
EXTENDS Naturals

CONSTANTS
  Runs,      \* executions that may exist at the same time
  NoRun      \* no runner registered

ASSUME NoRunAssumption == NoRun \notin Runs

VARIABLES
  reg,       \* the registry entry: run, wake mark, current turn (0: none)
  ctxDone    \* the runs whose context is cancelled

registryVars == <<reg, ctxDone>>

NoEntry == [run |-> NoRun, wake |-> FALSE, turn |-> 0]

RegistryTypeOK ==
  /\ reg \in [run : Runs \cup {NoRun}, wake : BOOLEAN, turn : Nat]
  /\ ctxDone \subseteq Runs

RegistryInit ==
  /\ reg = NoEntry
  /\ ctxDone = {}

\* IsSessionRunning
Running == reg.run # NoRun

-----------------------------------------------------------------------------
\* submitRunner, no entry: a new runner with a fresh context.
SubmitNew(r) ==
  /\ ~Running
  /\ reg' = [run |-> r, wake |-> FALSE, turn |-> 0]
  /\ ctxDone' = ctxDone \ {r}

\* submitRunner and wakeRunnerIfPresent, entry found: set the wake mark.
Wake ==
  /\ Running
  /\ reg' = [reg EXCEPT !.wake = TRUE]
  /\ UNCHANGED ctxDone

\* retireRunner returning false: late work, the mark is consumed.
RetireRefused ==
  /\ Running
  /\ reg.wake
  /\ reg' = [reg EXCEPT !.wake = FALSE]
  /\ UNCHANGED ctxDone

\* retireRunner returning true: no entry, or an entry without a wake mark.
Retire ==
  /\ ~reg.wake
  /\ reg' = NoEntry
  /\ UNCHANGED ctxDone

\* removeRunner, and takeRunner up to the cancel of what it took.
Remove ==
  /\ reg' = NoEntry
  /\ UNCHANGED ctxDone

\* A bug: the cancel func is called whether or not an entry was found.
FinishUnchecked ==
  /\ reg' = NoEntry
  /\ ctxDone' = ctxDone \cup {reg.run}

\* finishRunner: remove the entry and cancel the context it holds.
FinishRun ==
  /\ reg' = NoEntry
  /\ ctxDone' = IF Running THEN ctxDone \cup {reg.run} ELSE ctxDone

\* A cancel func called on a run that is no longer looked up.
CancelContext(r) ==
  /\ ctxDone' = ctxDone \cup {r}
  /\ UNCHANGED reg

\* RegisterSessionTurnCancel: the turn is recorded on the registered runner.
RegisterTurn(t) ==
  /\ reg' = IF Running THEN [reg EXCEPT !.turn = t] ELSE reg
  /\ UNCHANGED ctxDone

\* UnregisterSessionTurnCancel, and the clear in InterruptSessionTurnIfCurrent.
ClearTurn ==
  /\ reg' = [reg EXCEPT !.turn = 0]
  /\ UNCHANGED ctxDone
=============================================================================
