-------------------------- MODULE AgentConnection ---------------------------
(***************************************************************************)
(* The connections of one chat session to its agent program                *)
(* (internal/ai/acp_pool.go, acp_conn_lifecycle.go, acp_conn_prompt.go and *)
(* ExecuteStream of acp_backend.go).                                       *)
(*                                                                         *)
(* The pool holds at most one ACPConn for the session.  A connection is    *)
(* kept over turns; its agent process comes and goes.  The fields of a     *)
(* connection are protected by its mutex c.mu.  Every kill gives the mutex *)
(* up while it waits for the process, so a critical section that kills is  *)
(* three steps here: take the process, reap it, clear the fields.  RPCs    *)
(* made under the mutex are part of the step that holds it; their failures *)
(* are its other outcomes.                                                 *)
(*                                                                         *)
(* The actors: a goroutine per turn, with a stall watchdog, and the turn's *)
(* executor; a goroutine per process that waits for the end of its         *)
(* connection; the idle sweep; the handlers that drop the connection; the  *)
(* agent processes, which may die, hang, or die while a child of theirs    *)
(* keeps the pipe open.                                                    *)
(*                                                                         *)
(*   turn:  idle -> get (-> forget) -> ensure (-> respawn -> spawn)        *)
(*          -> (emit ->) read -> config -> wait -> leave -> done -> over,  *)
(*          and to failed from ensure or spawn, back to get for a retry    *)
(*   kill:  off -> begin -> reap -> mark -> off                            *)
(*                                                                         *)
(* What goes wrong is counted in upsets: cancels, sweeps, closes, rewinds, *)
(* edits of the configuration, failed spawns, handshakes, recoveries and   *)
(* writes, turns the agent did not run, and faults of its processes.  A    *)
(* rewind counts twice, as the cancel and the close it is.                 *)
(***************************************************************************)
EXTENDS Integers

CONSTANTS
  MaxTurns,       \* turns of the session in one history
  MaxConns,       \* connections of it that anything still refers to
  MaxProcs,       \* ... and agent processes
  MaxSessions,    \* sessions opened at the agent
  MaxUpsets       \* things that go wrong

ASSUME ConnectionAssumption ==
  {MaxTurns, MaxConns, MaxProcs, MaxSessions, MaxUpsets} \subseteq Nat

VARIABLES
  pool,           \* the session's entry in m.conns, None: no entry
  conn,           \* conn[c]: the fields of a connection
  proc,           \* proc[p]: none, up, hung, lost (died, its pipe still open)
                  \*   or gone (its connection's Done() is closed)
  watch,          \* watch[p]: the watchProcessDeath started with p
  killer,         \* killer[k]: a kill in progress
  turn,           \* turn[t]: where the turn is, and its locals
  lastSession,    \* sessions opened so far
  saved,          \* chat_sessions.external_session_id
  upsets          \* used up so far

\* History, for the properties only: the sessions up to this one were opened
\* before the last rewind began, and are not back since.
VARIABLE retired

connVars == <<pool, conn>>
procVars == <<proc, watch>>
sessionVars == <<lastSession, saved, retired>>
vars == <<connVars, procVars, sessionVars, killer, turn, upsets>>

None == 0
Turns == 1..MaxTurns
Conns == 1..MaxConns
Procs == 1..MaxProcs

Of(t) == <<"turn", t>>
Sweeper == <<"sweep", None>>
Closer == <<"close", None>>
Killers == {Of(t) : t \in Turns} \cup {Sweeper, Closer}

NewConn(session) ==
  [cmd |-> None, conn |-> None, alive |-> FALSE, acpSID |-> session,
   promptCancel |-> None, tool |-> FALSE]

Idle == [at |-> "off", on |-> None, cmd |-> None]

\* A turn's locals: the try it is at, the connection and the process it is on,
\* the session it read, whether to retry, whether its run was cancelled,
\* whether its prompt was; the session id under way to its executor.  History,
\* for the properties: the sessions between which its own must lie.
NoTurn ==
  [pc |-> "idle", stage |-> "first", on |-> None, pre |-> None, cmd |-> None,
   using |-> None, session |-> None, again |-> FALSE, cancelled |-> FALSE,
   woken |-> FALSE, captured |-> None, span |-> <<0, MaxSessions>>]

Init ==
  /\ pool = None
  /\ conn = [c \in Conns |-> NewConn(None)]
  /\ proc = [p \in Procs |-> "none"]
  /\ watch = [p \in Procs |-> None]
  /\ killer = [k \in Killers |-> Idle]
  /\ turn = [t \in Turns |-> NoTurn]
  /\ lastSession = 0 /\ saved = None
  /\ retired = 0
  /\ upsets = 0

-----------------------------------------------------------------------------
(* The connection.                                                         *)

\* The fields after a kill or a failed spawn.
Cleared(c, session) ==
  [conn EXCEPT ![c].cmd = None, ![c].conn = None, ![c].alive = FALSE,
               ![c].acpSID = session]

\* What nothing refers to any more is taken for what is made next.
FreeConns == {c \in Conns :
  /\ pool # c
  /\ \A t \in Turns : turn[t].on # c
  /\ \A k \in Killers : killer[k].on # c
  /\ \A p \in Procs : watch[p] # c}

FreeProcs == {p \in Procs :
  /\ proc[p] \in {"none", "gone"} /\ watch[p] = None
  /\ \A c \in Conns \ FreeConns : p \notin {conn[c].cmd, conn[c].conn}
  /\ \A t \in Turns : p \notin {turn[t].using, turn[t].cmd}
  /\ \A k \in Killers : killer[k].cmd # p}

NewOne(free) == {x \in free : \A y \in free : x <= y}

\* isAliveLocked.  The probe of a process that died may or may not see it: on
\* Unix it answers until somebody has waited for it.
Probes(c) ==
  IF conn[c].conn = None \/ proc[conn[c].conn] = "gone" THEN {FALSE}
  ELSE IF conn[c].cmd # None /\ proc[conn[c].cmd] \in {"lost", "gone"}
       THEN BOOLEAN
  ELSE {TRUE}

\* IsAlive: the flag and the probe.
SeenAlive(c) == {conn[c].alive /\ probe : probe \in Probes(c)}

MarkDeadIfCurrent(c, p) ==
  IF conn[c].conn = p THEN [conn EXCEPT ![c].alive = FALSE] ELSE conn

Upset == upsets < MaxUpsets /\ upsets' = upsets + 1

\* The session's turns that its registry entry still stands for.
Running(t) == turn[t].pc \notin {"idle", "over"} /\ ~turn[t].cancelled
SessionRuns == \E t \in Turns : Running(t)

\* A turn goes on; its locals of the part it leaves mean nothing any more.
Move(t, pc) == turn' = [turn EXCEPT ![t].pc = pc]
Ensured(t, pc) ==
  turn' = [turn EXCEPT ![t].pc = pc, ![t].pre = None, ![t].cmd = None]
Leaves(t, again) ==
  turn' = [turn EXCEPT ![t].pc = "leave", ![t].again = again,
                       ![t].woken = FALSE, ![t].using = None, ![t].session = None]
Ends(t) ==
  turn' = [turn EXCEPT ![t] = [NoTurn EXCEPT !.pc = "done",
             !.cancelled = turn[t].cancelled, !.captured = turn[t].captured]]

-----------------------------------------------------------------------------
(* Kills: killAndMarkDead, close.                                          *)

\* Under the mutex: the process is taken, the mutex is given up.
KillBegin(k) ==
  LET c == killer[k].on IN
  /\ killer[k].at = "begin"
  /\ IF conn[c].cmd = None
     THEN /\ conn' = Cleared(c, IF k = Closer THEN None ELSE conn[c].acpSID)
          /\ killer' = [killer EXCEPT ![k] = Idle]
     ELSE /\ killer' = [killer EXCEPT ![k].at = "reap", ![k].cmd = conn[c].cmd]
          /\ UNCHANGED conn
  /\ UNCHANGED <<pool, procVars, sessionVars, turn, upsets>>

\* reapProcess: the filter is closed, the process group killed and waited for.
Reaped(p) ==
  /\ proc' = [proc EXCEPT ![p] = "gone"]
  /\ UNCHANGED watch

KillReap(k) ==
  /\ killer[k].at = "reap"
  /\ Reaped(killer[k].cmd)
  /\ killer' = [killer EXCEPT ![k].at = "mark"]
  /\ UNCHANGED <<connVars, sessionVars, turn, upsets>>

\* Under the mutex again: the fields are cleared, whoever set them meanwhile.
KillMark(k) ==
  LET c == killer[k].on IN
  /\ killer[k].at = "mark"
  /\ conn' = Cleared(c, IF k = Closer THEN None ELSE conn[c].acpSID)
  /\ killer' = [killer EXCEPT ![k] = Idle]
  /\ UNCHANGED <<pool, procVars, sessionVars, turn, upsets>>

-----------------------------------------------------------------------------
(* Getting a connection: GetOrCreateConn, ensureAliveWithSession.          *)

Rewinding == killer[Closer].at \in {"drain", "remove"}

HasConversationHistory(t) == \E s \in Turns \ {t} : turn[s].pc # "idle"

BeginTurn(t) ==
  /\ turn[t].pc = "idle" /\ ~SessionRuns
  /\ \A s \in Turns : s < t => turn[s].pc # "idle"
  /\ turn' = [turn EXCEPT ![t].pc = "get", ![t].span =
       <<IF Rewinding THEN 0 ELSE retired,
         IF saved # None /\ ~Rewinding THEN lastSession ELSE MaxSessions>>]
  /\ UNCHANGED <<connVars, procVars, sessionVars, killer, upsets>>

\* The pool's entry, or a new one that knows the persisted session.  Only
\* NewSessionFallback makes one that does not.
Get(t) ==
  LET fallback == turn[t].stage = "fallback" IN
  /\ turn[t].pc = "get"
  /\ \E c \in IF pool # None THEN {pool} ELSE NewOne(FreeConns) :
       /\ pool' = c
       /\ conn' = IF pool # None THEN conn
                  ELSE [conn EXCEPT ![c] =
                          NewConn(IF fallback THEN None ELSE saved)]
       /\ turn' = [turn EXCEPT ![t].on = c,
                     ![t].pc = IF fallback THEN "forget" ELSE "ensure"]
  /\ UNCHANGED <<procVars, sessionVars, killer, upsets>>

\* NewSessionFallback drops the session the connection remembers.
Forget(t) ==
  /\ turn[t].pc = "forget"
  /\ conn' = [conn EXCEPT ![turn[t].on].acpSID = None]
  /\ Move(t, "ensure")
  /\ UNCHANGED <<pool, procVars, sessionVars, killer, upsets>>

\* The turn goes on with its session established.
Established(t, isNew) ==
  Ensured(t, IF isNew \/ turn[t].stage = "fallback" THEN "emit" ELSE "read")

\* A bug: a spawn that fails leaves the fields of the process before.
SpawnFailsAsItWas(t, c) ==
  /\ \/ (turn[t].cancelled \/ FreeProcs = {}) /\ UNCHANGED upsets
     \/ Upset
  /\ conn' = [conn EXCEPT ![c].cmd = None]
  /\ Ensured(t, "failed")
  /\ UNCHANGED <<procVars, sessionVars, killer>>

\* spawnLocked fails: the connection is left explicitly dead.  The handshake
\* runs under the turn's context and fails for a turn that was cancelled.
SpawnFails(t, c) ==
  /\ \/ (turn[t].cancelled \/ FreeProcs = {}) /\ UNCHANGED upsets
     \/ Upset
  /\ conn' = Cleared(c, conn[c].acpSID)
  /\ Ensured(t, "failed")
  /\ UNCHANGED <<procVars, sessionVars, killer>>

\* The process p comes up: the connection has no session yet.
SpawnSucceeds(t, c, p, session) ==
  /\ ~turn[t].cancelled
  /\ proc' = [proc EXCEPT ![p] = "up"]
  /\ watch' = [watch EXCEPT ![p] = c]
  /\ conn' = [conn EXCEPT ![c].cmd = p, ![c].conn = p, ![c].acpSID = session,
                          ![c].alive = session # None]

\* Still under the mutex a session is opened if none is to be recovered ...
Create(t, c, p) ==
  /\ UNCHANGED <<saved, retired, killer>>
  /\ \/ /\ lastSession < MaxSessions /\ lastSession' = lastSession + 1
        /\ SpawnSucceeds(t, c, p, lastSession + 1)
        /\ Ensured(t, "emit")
        /\ UNCHANGED upsets
     \/ /\ IF lastSession = MaxSessions THEN UNCHANGED upsets ELSE Upset
        /\ SpawnSucceeds(t, c, p, None)
        /\ Ensured(t, "failed")
        /\ UNCHANGED lastSession

\* ... or else that one is recovered; a failure kills the process again.
Recover(t, c, p, session) ==
  /\ UNCHANGED sessionVars
  /\ \/ /\ SpawnSucceeds(t, c, p, session)
        /\ Established(t, FALSE)
        /\ UNCHANGED <<killer, upsets>>
     \/ /\ Upset
        /\ SpawnSucceeds(t, c, p, None)
        /\ killer' = [killer EXCEPT ![Of(t)] =
                        [at |-> "reap", on |-> c, cmd |-> p]]
        /\ Ensured(t, "failed")

\* A bug: only the session the connection knew is recovered.
OnlyRemembered(pre) == pre

\* The session the connection knew before the spawn, or the persisted one.
RecoverableSessionID(pre) == IF pre # None THEN pre ELSE saved

Spawn(t, c, pre) ==
  \/ SpawnFails(t, c)
  \/ \E p \in NewOne(FreeProcs) :
       IF RecoverableSessionID(pre) = None THEN Create(t, c, p)
       ELSE Recover(t, c, p, RecoverableSessionID(pre))

\* Reuse, or replace: after an edit of the policy or the provider a living
\* process is replaced too.
Ensure(t) ==
  LET c == turn[t].on IN
  /\ turn[t].pc = "ensure"
  /\ UNCHANGED pool
  /\ \E alive \in SeenAlive(c) :
       LET reusable == alive /\ conn[c].acpSID # None IN
       \/ /\ reusable
          /\ Established(t, FALSE)
          /\ UNCHANGED <<conn, procVars, sessionVars, killer, upsets>>
       \/ /\ conn[c].cmd # None
          /\ (~reusable /\ UNCHANGED upsets) \/ Upset
          /\ turn' = [turn EXCEPT ![t].pc = "respawn",
                        ![t].pre = conn[c].acpSID, ![t].cmd = conn[c].cmd]
          /\ UNCHANGED <<conn, procVars, sessionVars, killer>>
       \/ /\ conn[c].cmd = None /\ ~reusable
          /\ Spawn(t, c, conn[c].acpSID)

\* spawnLocked kills the old process first, without the mutex ...
RespawnReap(t) ==
  /\ turn[t].pc = "respawn"
  /\ Reaped(turn[t].cmd)
  /\ Move(t, "spawn")
  /\ UNCHANGED <<connVars, sessionVars, killer, upsets>>

\* ... and then starts the new one.
Respawn(t) ==
  /\ turn[t].pc = "spawn"
  /\ Spawn(t, turn[t].on, turn[t].pre)
  /\ UNCHANGED pool

\* ExecuteStream without a connection: one more attempt if the agent went away,
\* then a new session if there is no conversation to lose, then the error.
GiveUp(t) ==
  /\ turn[t].pc = "failed" /\ killer[Of(t)].at = "off"
  /\ \/ /\ turn[t].stage = "first"
        /\ turn' = [turn EXCEPT ![t].pc = "get", ![t].stage = "second"]
        /\ UNCHANGED pool
     \/ /\ turn[t].stage = "second" /\ ~HasConversationHistory(t)
        /\ turn' = [turn EXCEPT ![t].pc = "get", ![t].stage = "fallback"]
        /\ UNCHANGED pool
     \/ /\ pool' = IF turn[t].stage = "fallback" /\ pool = turn[t].on
                   THEN None ELSE pool
        /\ Ends(t)
  /\ UNCHANGED <<conn, procVars, sessionVars, killer, upsets>>

-----------------------------------------------------------------------------
(* The prompt.                                                             *)

\* emitSessionAndCacheState: session_capture carries the id of a new session to
\* the turn's executor ...
Emit(t) ==
  /\ turn[t].pc = "emit"
  /\ turn' = [turn EXCEPT ![t].pc = "read",
       ![t].captured = IF @ = None THEN conn[turn[t].on].acpSID ELSE @]
  /\ UNCHANGED <<connVars, procVars, sessionVars, killer, upsets>>

\* A turn that the last rewind cut short and did not wait for is about to bring
\* its session back.
Revives(t) ==
  /\ saved = None /\ killer[Closer].at # "drain"
  /\ turn[t].cancelled /\ turn[t].captured <= retired

\* Nobody is held any more to sessions after x.
Down(span, x) == IF span[1] < x THEN span ELSE <<x - 1, span[2]>>

\* ... which persists it unless there is one, or fails to.  It still does when
\* it drains the events of a cancelled turn.
Capture(t) ==
  LET x == turn[t].captured
      drained == [turn EXCEPT ![t].captured = None]
  IN
  /\ x # None
  /\ \/ /\ saved' = IF saved = None THEN x ELSE saved
        /\ IF Revives(t)
             THEN /\ retired' = x - 1
                  /\ turn' = [s \in Turns |->
                       [drained[s] EXCEPT !.span = Down(@, x)]]
             ELSE turn' = drained /\ UNCHANGED retired
        /\ UNCHANGED upsets
     \/ Upset /\ turn' = drained /\ UNCHANGED <<saved, retired>>
  /\ UNCHANGED <<connVars, procVars, lastSession, killer>>

\* Finalize: the events are drained.
Finalize(t) ==
  /\ turn[t].pc = "done" /\ turn[t].captured = None
  /\ turn' = [turn EXCEPT ![t] = [NoTurn EXCEPT !.pc = "over"]]
  /\ UNCHANGED <<connVars, procVars, sessionVars, killer, upsets>>

\* Prompt reads the connection and the session under the mutex; no tool runs.
ReadConn(t) ==
  LET c == conn[turn[t].on]
      ok == c.conn # None /\ c.acpSID # None
  IN
  /\ turn[t].pc = "read"
  /\ IF ok THEN turn' = [turn EXCEPT ![t].pc = "config", ![t].using = c.conn,
                                     ![t].session = c.acpSID]
     ELSE Ends(t)
  /\ conn' = [conn EXCEPT ![turn[t].on].tool = FALSE]
  /\ UNCHANGED <<pool, procVars, sessionVars, killer, upsets>>

\* The error of a prompt: one retry on a fresh connection.
Retry(t, again) ==
  IF again /\ turn[t].stage # "retry" /\ ~turn[t].cancelled
  THEN turn' = [turn EXCEPT ![t] = [NoTurn EXCEPT
         !.pc = "get", !.stage = "retry", !.captured = turn[t].captured,
         !.span = turn[t].span]]
  ELSE Ends(t)

\* The options of the turn are set; an option may kill the connection.  Then
\* the prompt is sent, with its cancel function registered.
Send(t) ==
  LET c == turn[t].on IN
  /\ turn[t].pc = "config"
  /\ \/ /\ FALSE \in SeenAlive(c)
        /\ Retry(t, TRUE)
        /\ UNCHANGED conn
     \/ /\ conn' = [conn EXCEPT ![c].promptCancel = t]
        /\ turn' = [turn EXCEPT ![t].pc = "wait", ![t].woken = FALSE]
  /\ UNCHANGED <<pool, procVars, sessionVars, killer, upsets>>

\* The agent answered; or it answered without having run the model, and the
\* connection's process, whichever it is by now, is killed.
Answered(t) ==
  /\ turn[t].pc = "wait" /\ proc[turn[t].using] = "up"
  /\ \/ /\ Leaves(t, FALSE)
        /\ UNCHANGED <<killer, upsets>>
     \/ /\ Upset
        /\ Leaves(t, TRUE)
        /\ killer' = [killer EXCEPT ![Of(t)] =
                        [at |-> "begin", on |-> turn[t].on, cmd |-> None]]
  /\ UNCHANGED <<connVars, procVars, sessionVars>>

\* conn.Prompt returns an error.  Only a lost connection is worth a retry; it
\* is marked dead unless it has been replaced.
PromptError(t) ==
  LET c == turn[t].on
      disconnected == proc[turn[t].using] \in {"lost", "gone"}
  IN
  /\ \E again \in {disconnected, disconnected /\ ~turn[t].woken} :
       Leaves(t, again)
  /\ \E alive \in IF turn[t].cancelled THEN Probes(c) ELSE SeenAlive(c) :
       conn' = IF alive THEN conn ELSE MarkDeadIfCurrent(c, turn[t].using)
  /\ UNCHANGED <<pool, procVars, sessionVars, killer, upsets>>

\* Its connection is gone, or its context is cancelled ...
PromptFails(t) ==
  /\ turn[t].pc = "wait"
  /\ proc[turn[t].using] = "gone" \/ turn[t].woken \/ turn[t].cancelled
  /\ PromptError(t)

\* ... or the process was dead before the request was written.  One that dies
\* after it and leaves the pipe open is not noticed.
WriteFails(t) ==
  turn[t].pc = "wait" /\ proc[turn[t].using] = "lost" /\ PromptError(t)

\* The deferred calls: the watchdog is stopped, which waits for its kill; then
\* the registered cancel function is dropped, whoever registered it.
Leave(t) ==
  /\ turn[t].pc = "leave" /\ killer[Of(t)].at = "off"
  /\ conn' = [conn EXCEPT ![turn[t].on].promptCancel = None]
  /\ Retry(t, turn[t].again)
  /\ UNCHANGED <<pool, procVars, sessionVars, killer, upsets>>

\* A bug: the watchdog looks at the process, not at its progress.
StallIfDead(t) ==
  /\ turn[t].pc = "wait" /\ proc[turn[t].using] = "lost"
  /\ ~conn[turn[t].on].tool
  /\ ~turn[t].woken /\ ~turn[t].cancelled
  /\ turn' = [turn EXCEPT ![t].woken = TRUE]
  /\ killer' = [killer EXCEPT ![Of(t)] =
                  [at |-> "begin", on |-> turn[t].on, cmd |-> None]]
  /\ UNCHANGED <<connVars, procVars, sessionVars, upsets>>

\* No progress for the stall window and no tool in flight: the prompt is
\* cancelled, then the process killed.
Stall(t) ==
  /\ turn[t].pc = "wait" /\ proc[turn[t].using] # "up"
  /\ ~conn[turn[t].on].tool
  /\ ~turn[t].woken /\ ~turn[t].cancelled
  /\ turn' = [turn EXCEPT ![t].woken = TRUE]
  /\ killer' = [killer EXCEPT ![Of(t)] =
                  [at |-> "begin", on |-> turn[t].on, cmd |-> None]]
  /\ UNCHANGED <<connVars, procVars, sessionVars, upsets>>

-----------------------------------------------------------------------------
(* watchProcessDeath.                                                      *)

\* Its connection is closed: whatever the fields hold by now is marked dead.
WatchDone(p) ==
  LET c == watch[p]
      t == conn[c].promptCancel
  IN
  /\ c # None /\ proc[p] = "gone"
  /\ conn' = [conn EXCEPT ![c].alive = FALSE, ![c].promptCancel = None]
  /\ turn' = IF t # None /\ turn[t].pc = "wait"
             THEN [turn EXCEPT ![t].woken = TRUE] ELSE turn
  /\ watch' = [watch EXCEPT ![p] = None]
  /\ UNCHANGED <<pool, proc, sessionVars, killer, upsets>>

-----------------------------------------------------------------------------
(* The sweep, the handlers and the agents.                                 *)

\* CancelSession: the session is free at once, its turn has yet to notice.
Cancelled ==
  [t \in Turns |->
     IF Running(t) THEN [turn[t] EXCEPT !.cancelled = TRUE] ELSE turn[t]]

Cancel ==
  /\ Upset /\ SessionRuns
  /\ turn' = Cancelled
  /\ UNCHANGED <<connVars, procVars, sessionVars, killer>>

\* collectIdleConns and the re-check of killIdleConns.
Sweep ==
  /\ Upset /\ killer[Sweeper].at = "off"
  /\ pool # None /\ conn[pool].alive /\ ~SessionRuns
  /\ killer' = [killer EXCEPT ![Sweeper].at = "look"]
  /\ UNCHANGED <<connVars, procVars, sessionVars, turn>>

\* The entry is read once more, then killed.
SweepLook ==
  /\ killer[Sweeper].at = "look"
  /\ killer' = [killer EXCEPT ![Sweeper] =
       IF pool = None THEN Idle
       ELSE [at |-> "begin", on |-> pool, cmd |-> None]]
  /\ UNCHANGED <<connVars, procVars, sessionVars, turn, upsets>>

Remove ==
  /\ pool' = None
  /\ killer' = [killer EXCEPT ![Closer] =
       IF pool = None THEN Idle
       ELSE [at |-> "begin", on |-> pool, cmd |-> None]]

\* CloseConn: a transport switch; after a Cancel a reset or an archive.
Close ==
  /\ Upset /\ killer[Closer].at = "off" /\ pool # None
  /\ Remove
  /\ UNCHANGED <<conn, procVars, sessionVars, turn>>

\* A rewind cancels the run, whose turn is held to nothing any more, ...
Rewind ==
  /\ upsets + 2 <= MaxUpsets /\ upsets' = upsets + 2
  /\ killer[Closer].at = "off"
  /\ turn' = [t \in Turns |-> [Cancelled[t] EXCEPT !.span = NoTurn.span]]
  /\ killer' = [killer EXCEPT ![Closer].at = "drain"]
  /\ retired' = lastSession
  /\ UNCHANGED <<connVars, procVars, lastSession, saved>>

\* forgets the session ...  It waits for a turn that runs, for two seconds at most,
\* and for none that was cancelled before: the wait holds nothing back.
RewindForget ==
  /\ killer[Closer].at = "drain"
  /\ saved' = None
  /\ killer' = [killer EXCEPT ![Closer].at = "remove"]
  /\ UNCHANGED <<connVars, procVars, lastSession, retired, turn, upsets>>

\* and takes the connection out of the pool before it answers.
RewindRemove ==
  /\ killer[Closer].at = "remove"
  /\ Remove
  /\ UNCHANGED <<conn, procVars, sessionVars, turn, upsets>>

\* An agent process dies, dies with its pipe held open, or hangs; a tool call
\* of its prompt may be in flight when it falls silent.
Fault(p) ==
  LET prompted == \E t \in Turns : turn[t].pc = "wait" /\ turn[t].using = p IN
  /\ Upset
  /\ proc[p] \in {"up", "hung"}
  /\ \/ /\ \E end \in {"gone", "lost"} : proc' = [proc EXCEPT ![p] = end]
        /\ UNCHANGED conn
     \/ /\ proc[p] = "up"
        /\ \E end \in {"hung", "lost"} : proc' = [proc EXCEPT ![p] = end]
        /\ prompted /\ conn' = [conn EXCEPT ![watch[p]].tool = TRUE]
     \/ /\ proc[p] = "up" /\ proc' = [proc EXCEPT ![p] = "hung"]
        /\ UNCHANGED conn
  /\ UNCHANGED <<pool, watch, sessionVars, killer, turn>>

-----------------------------------------------------------------------------
TurnStep(t) ==
  \/ Get(t) \/ Forget(t) \/ Ensure(t) \/ RespawnReap(t) \/ Respawn(t)
  \/ GiveUp(t) \/ Emit(t) \/ ReadConn(t) \/ Send(t)
  \/ Answered(t) \/ PromptFails(t) \/ Leave(t)

ExecutorStep(t) == Capture(t) \/ Finalize(t)

KillStep(k) == KillBegin(k) \/ KillReap(k) \/ KillMark(k)

Next ==
  \/ \E t \in Turns :
       \/ BeginTurn(t) \/ TurnStep(t) \/ ExecutorStep(t)
       \/ Stall(t) \/ WriteFails(t)
  \/ \E k \in Killers : KillStep(k)
  \/ \E p \in Procs : WatchDone(p) \/ Fault(p)
  \/ Cancel \/ Sweep \/ SweepLook \/ Close
  \/ Rewind \/ RewindForget \/ RewindRemove

\* The goroutines of the turns are scheduled, RPCs other than the prompt have
\* deadlines, and an agent that is up answers in the end.  Nothing else has to
\* happen.
Fairness == \A t \in Turns :
  /\ WF_vars(TurnStep(t) \/ ExecutorStep(t))
  /\ WF_vars(Stall(t) \/ KillStep(Of(t)))

Spec == Init /\ [][Next]_vars
FairSpec == Spec /\ Fairness

-----------------------------------------------------------------------------
\* A connection that calls itself alive has the process it talks to: a spawn
\* that fails half-way, or a kill, never leaves the flag of the process before
\* (markSpawnFailedLocked), whatever the others did while c.mu was free.
AliveHasItsProcess ==
  \A c \in Conns : conn[c].alive =>
    conn[c].cmd # None /\ conn[c].conn = conn[c].cmd

\* A turn prompts in the session of its conversation: in none from before the
\* last rewind (ClearExternalSessionID, RemoveConn), unless a turn that was
\* cancelled brought that one back after the rewind forgot it (Revives), and in
\* no new one if one was persisted when it began (recoverableSessionIDLocked),
\* whatever died, was killed, swept, closed or failed to be recovered on the way.
PromptsInItsSession ==
  \A t \in Turns : turn[t].pc = "wait" =>
    turn[t].session \in turn[t].span[1] + 1 .. turn[t].span[2]

\* The watchdog leaves a turn alone whose agent runs a tool, however long.
WaitsForTool(t) ==
  /\ turn[t].pc = "wait" /\ ~turn[t].cancelled /\ ~turn[t].woken
  /\ conn[turn[t].on].tool

\* Every turn comes to its end, although conn.Prompt has no deadline and agents
\* die, hang or leave their pipes open (startStallWatchdog), unless it waits for
\* a tool that was in flight when its agent fell silent.
TurnsEnd ==
  []<>(\A t \in Turns : turn[t].pc \in {"idle", "over"} \/ WaitsForTool(t))
=============================================================================
