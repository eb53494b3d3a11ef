----------------------- MODULE AgentConnectionProofs ------------------------
(***************************************************************************)
(* Proofs about the connections of a session: the flag of a connection is  *)
(* never that of a process before, and a turn never prompts in a session   *)
(* that is not its conversation's.                                         *)
(***************************************************************************)
EXTENDS AgentConnection, TLAPS

Steps == {"idle", "get", "forget", "ensure", "respawn", "spawn", "failed",
          "emit", "read", "config", "wait", "leave", "done", "over"}

ConnRecs ==
  [cmd : Procs \cup {None}, conn : Procs \cup {None}, alive : BOOLEAN,
   acpSID : Nat, promptCancel : Turns \cup {None}, tool : BOOLEAN]

TurnRecs ==
  [pc : Steps, stage : {"first", "second", "fallback", "retry"},
   on : Conns \cup {None}, pre : Nat, cmd : Procs \cup {None},
   using : Procs \cup {None}, session : Nat, again : BOOLEAN,
   cancelled : BOOLEAN, woken : BOOLEAN, captured : Nat, span : Nat \X Nat]

KillRecs ==
  [at : {"off", "look", "drain", "remove", "begin", "reap", "mark"},
   on : Conns \cup {None}, cmd : Procs \cup {None}]

TypeInv ==
  /\ pool \in Conns \cup {None}
  /\ conn \in [Conns -> ConnRecs]
  /\ watch \in [Procs -> Conns \cup {None}]
  /\ killer \in [Killers -> KillRecs]
  /\ turn \in [Turns -> TurnRecs]
  /\ lastSession \in Nat /\ saved \in Nat /\ retired \in Nat

\* A turn past its first step has a connection, one that has not begun or has
\* ended no locals; a kill has a target.
TurnPlaced(r) ==
  /\ r.pc \notin {"idle", "over", "get", "done"} => r.on \in Conns
  /\ r.pc \in {"idle", "over"} =>
       /\ r.on = None /\ r.captured = None
       /\ r.stage = "first" /\ ~r.cancelled
  /\ r.pre # None => r.pc \in {"respawn", "spawn"}

KillPlaced(r) == r.at \in {"begin", "reap", "mark"} => r.on \in Conns

ShapeInv ==
  /\ TypeInv
  /\ \A t \in Turns : TurnPlaced(turn[t])
  /\ \A k \in Killers : KillPlaced(killer[k])

-----------------------------------------------------------------------------
(* Types of what the operators make.                                       *)

LEMMA NumbersAreNatural ==
  /\ MaxSessions \in Nat /\ None \in Nat
  /\ None \notin Conns /\ None \notin Procs /\ None \notin Turns
BY ConnectionAssumption, SMT DEF None, Conns, Procs, Turns

LEMMA NewConnTyped ==
  ASSUME NEW n \in Nat
  PROVE  /\ NewConn(n) \in ConnRecs
         /\ NewConn(n).acpSID = n /\ ~NewConn(n).alive
BY NumbersAreNatural, SMT DEF NewConn, ConnRecs

LEMMA NoTurnTyped == NoTurn \in TurnRecs
BY NumbersAreNatural, SMT DEF NoTurn, TurnRecs, Steps

LEMMA IdleTyped == Idle \in KillRecs
BY SMT DEF Idle, KillRecs

LEMMA KillersDiffer ==
  /\ Closer \in Killers /\ Sweeper \in Killers /\ Sweeper # Closer
  /\ \A t \in Turns : Of(t) \in Killers /\ Of(t) # Closer
<1>1. Closer \in Killers /\ Sweeper \in Killers
  BY DEF Killers
<1>2. \A t \in Turns : Of(t) \in Killers
  BY DEF Killers
<1>3. Sweeper # Closer
  BY SMT DEF Sweeper, Closer
<1>4. \A t \in Turns : Of(t) # Closer
  BY SMT DEF Of, Closer
<1> QED BY <1>1, <1>2, <1>3, <1>4

\* The record a turn is left with.
LEMMA MoveTyped ==
  ASSUME TypeInv, NEW t \in Turns, NEW pc \in Steps, Move(t, pc)
  PROVE  /\ turn' \in [Turns -> TurnRecs]
         /\ \A s \in Turns \ {t} : turn'[s] = turn[s]
         /\ turn'[t] = [turn[t] EXCEPT !.pc = pc]
<1>1. turn' = [turn EXCEPT ![t] = [turn[t] EXCEPT !.pc = pc]]
  BY DEF Move
<1>2. [turn[t] EXCEPT !.pc = pc] \in TurnRecs
  BY SMT DEF TypeInv, TurnRecs
<1> QED BY <1>1, <1>2, SMT DEF TypeInv

LEMMA TurnSet ==
  ASSUME TypeInv, NEW t \in Turns, NEW r \in TurnRecs, turn' = [turn EXCEPT ![t] = r]
  PROVE  /\ turn' \in [Turns -> TurnRecs] /\ turn'[t] = r
         /\ \A s \in Turns \ {t} : turn'[s] = turn[s]
BY SMT DEF TypeInv

LEMMA EnsuredTyped ==
  ASSUME TypeInv, NEW t \in Turns, NEW pc \in Steps, Ensured(t, pc)
  PROVE  /\ turn' \in [Turns -> TurnRecs]
         /\ \A s \in Turns \ {t} : turn'[s] = turn[s]
         /\ turn'[t] = [turn[t] EXCEPT !.pc = pc, !.pre = None, !.cmd = None]
<1> DEFINE r == [turn[t] EXCEPT !.pc = pc, !.pre = None, !.cmd = None]
<1>1. turn'[t] = r /\ \A s \in Turns \ {t} : turn'[s] = turn[s]
  BY SMT DEF Ensured, TypeInv
<1>2. turn[t] \in TurnRecs
  BY DEF TypeInv
<1>3. r \in TurnRecs
  BY <1>2, NumbersAreNatural, Zenon DEF TurnRecs
<1> HIDE DEF r
<1>4. turn' \in [Turns -> TurnRecs]
  BY <1>1, <1>3, SMT DEF TypeInv, Ensured
<1> QED BY <1>1, <1>4 DEF r

LEMMA LeavesTyped ==
  ASSUME TypeInv, NEW t \in Turns, NEW again \in BOOLEAN, Leaves(t, again)
  PROVE  /\ turn' \in [Turns -> TurnRecs]
         /\ \A s \in Turns \ {t} : turn'[s] = turn[s]
         /\ turn'[t] = [turn[t] EXCEPT !.pc = "leave", !.again = again,
                          !.woken = FALSE, !.using = None, !.session = None]
<1> DEFINE r == [turn[t] EXCEPT !.pc = "leave", !.again = again,
                   !.woken = FALSE, !.using = None, !.session = None]
<1>1. turn'[t] = r /\ \A s \in Turns \ {t} : turn'[s] = turn[s]
  BY SMT DEF Leaves, TypeInv
<1>2. turn[t] \in TurnRecs /\ "leave" \in Steps
  BY DEF TypeInv, Steps
<1>3. r \in TurnRecs
  BY <1>2, NumbersAreNatural, Zenon DEF TurnRecs
<1> HIDE DEF r
<1>4. turn' \in [Turns -> TurnRecs]
  <2>1. DOMAIN turn' = Turns
    BY DEF TypeInv, Leaves
  <2>2. turn' = [s \in DOMAIN turn' |-> turn'[s]]
    BY Zenon DEF TypeInv, Leaves
  <2>3. \A s \in Turns : turn'[s] \in TurnRecs
    BY <1>1, <1>3 DEF TypeInv
  <2> QED BY <2>1, <2>2, <2>3, Zenon
<1> QED BY <1>1, <1>4 DEF r

LEMMA EndsTyped ==
  ASSUME TypeInv, NEW t \in Turns, Ends(t)
  PROVE  /\ turn' \in [Turns -> TurnRecs]
         /\ \A s \in Turns \ {t} : turn'[s] = turn[s]
         /\ turn'[t] = [NoTurn EXCEPT !.pc = "done",
              !.cancelled = turn[t].cancelled, !.captured = turn[t].captured]
<1> DEFINE r == [NoTurn EXCEPT !.pc = "done",
              !.cancelled = turn[t].cancelled, !.captured = turn[t].captured]
<1>1. turn' = [turn EXCEPT ![t] = r]
  BY DEF Ends
<1>2. turn[t] \in TurnRecs /\ "done" \in Steps
  BY DEF TypeInv, Steps
<1>3. turn[t].cancelled \in BOOLEAN /\ turn[t].captured \in Nat
  BY <1>2, Zenon DEF TurnRecs
<1>4. r \in TurnRecs
  BY <1>2, <1>3, NoTurnTyped, Zenon DEF TurnRecs
<1> HIDE DEF r
<1>5. turn' \in [Turns -> TurnRecs] /\ turn'[t] = r
      /\ \A s \in Turns \ {t} : turn'[s] = turn[s]
  BY <1>1, <1>4, SMT DEF TypeInv
<1> QED BY <1>5 DEF r

\* A retry keeps the turn's conversation; otherwise the turn is at its end.
LEMMA RetryTyped ==
  ASSUME TypeInv, NEW t \in Turns, NEW again, Retry(t, again)
  PROVE  /\ turn' \in [Turns -> TurnRecs]
         /\ \A s \in Turns \ {t} : turn'[s] = turn[s]
         /\ \/ /\ ~turn[t].cancelled
               /\ turn'[t] = [NoTurn EXCEPT !.pc = "get", !.stage = "retry",
                    !.captured = turn[t].captured, !.span = turn[t].span]
            \/ turn'[t] = [NoTurn EXCEPT !.pc = "done",
                 !.cancelled = turn[t].cancelled, !.captured = turn[t].captured]
<1> DEFINE r == [NoTurn EXCEPT !.pc = "get", !.stage = "retry",
                   !.captured = turn[t].captured, !.span = turn[t].span]
<1>1. CASE again /\ turn[t].stage # "retry" /\ ~turn[t].cancelled
  <2>1. turn' = [turn EXCEPT ![t] = r]
    BY <1>1 DEF Retry
  <2>2. turn[t] \in TurnRecs /\ "get" \in Steps
    BY DEF TypeInv, Steps
  <2>3. turn[t].span \in Nat \X Nat /\ turn[t].captured \in Nat
    BY <2>2, Zenon DEF TurnRecs
  <2>4. r \in TurnRecs
    BY <2>2, <2>3, NoTurnTyped, Zenon DEF TurnRecs
  <2> HIDE DEF r
  <2>5. turn' \in [Turns -> TurnRecs] /\ turn'[t] = r
        /\ \A s \in Turns \ {t} : turn'[s] = turn[s]
    BY <2>1, <2>4, SMT DEF TypeInv
  <2> QED BY <1>1, <2>5 DEF r
<1>2. CASE ~(again /\ turn[t].stage # "retry" /\ ~turn[t].cancelled)
  <2>1. Ends(t)
    BY <1>2 DEF Retry
  <2> QED BY <2>1, EndsTyped
<1> QED BY <1>1, <1>2

LEMMA CancelledTyped ==
  ASSUME TypeInv
  PROVE  /\ Cancelled \in [Turns -> TurnRecs]
         /\ \A s \in Turns :
              Cancelled[s] = IF Running(s) THEN [turn[s] EXCEPT !.cancelled = TRUE]
                                           ELSE turn[s]
<1>1. \A s \in Turns : turn[s] \in TurnRecs
  BY DEF TypeInv
<1>2. \A s \in Turns : [turn[s] EXCEPT !.cancelled = TRUE] \in TurnRecs
  BY <1>1, ZenonT(40) DEF TurnRecs
<1>3. Cancelled = [s \in Turns |-> IF Running(s)
                     THEN [turn[s] EXCEPT !.cancelled = TRUE] ELSE turn[s]]
  BY DEF Cancelled
<1> QED BY <1>1, <1>2, <1>3, Zenon

LEMMA ClearedTyped ==
  ASSUME TypeInv, NEW c \in Conns, NEW n \in Nat, conn' = Cleared(c, n)
  PROVE  /\ conn' \in [Conns -> ConnRecs]
         /\ \A d \in Conns \ {c} : conn'[d] = conn[d]
         /\ conn'[c] = [conn[c] EXCEPT !.cmd = None, !.conn = None,
                                       !.alive = FALSE, !.acpSID = n]
<1> DEFINE r == [conn[c] EXCEPT !.cmd = None, !.conn = None,
                                !.alive = FALSE, !.acpSID = n]
<1>1. conn'[c] = r /\ \A d \in Conns \ {c} : conn'[d] = conn[d]
  BY SMT DEF Cleared, TypeInv
<1>2. conn[c] \in ConnRecs
  BY DEF TypeInv
<1>3. r \in ConnRecs
  BY <1>2, Zenon DEF ConnRecs
<1> HIDE DEF r
<1>4. conn' \in [Conns -> ConnRecs]
  BY <1>1, <1>3, SMT DEF TypeInv, Cleared
<1> QED BY <1>1, <1>4 DEF r

LEMMA SpawnTyped ==
  ASSUME TypeInv, NEW t, NEW c \in Conns, NEW p \in Procs, NEW n \in Nat,
         SpawnSucceeds(t, c, p, n)
  PROVE  /\ conn' \in [Conns -> ConnRecs]
         /\ watch' \in [Procs -> Conns \cup {None}]
         /\ \A d \in Conns \ {c} : conn'[d] = conn[d]
         /\ conn'[c].cmd = p /\ conn'[c].conn = p /\ conn'[c].acpSID = n
         /\ n = None => ~conn'[c].alive
<1> DEFINE r == [conn[c] EXCEPT !.cmd = p, !.conn = p, !.acpSID = n,
                                !.alive = (n # None)]
<1>1. conn'[c] = r /\ \A d \in Conns \ {c} : conn'[d] = conn[d]
  BY SMT DEF SpawnSucceeds, TypeInv
<1>2. conn[c] \in ConnRecs
  BY DEF TypeInv
<1>3. r \in ConnRecs
  BY <1>2, Zenon DEF ConnRecs
<1>4. watch' \in [Procs -> Conns \cup {None}]
  BY SMT DEF SpawnSucceeds, TypeInv
<1> HIDE DEF r
<1>5. conn' \in [Conns -> ConnRecs]
  BY <1>1, <1>3, SMT DEF TypeInv, SpawnSucceeds
<1>6. /\ conn'[c].cmd = p /\ conn'[c].conn = p /\ conn'[c].acpSID = n
      /\ n = None => ~conn'[c].alive
  BY <1>1, <1>2, Zenon DEF r, ConnRecs
<1> QED BY <1>1, <1>4, <1>5, <1>6

-----------------------------------------------------------------------------
(***************************************************************************)
(* Calm steps: no session is opened, saved or retired, no rewind moves on, *)
(* and what a connection or a turn holds of sessions stays or is dropped.  *)
(***************************************************************************)

\* How far the rewind is; every other step of the closer is "off".
PhaseOf(r) == IF r.at \in {"drain", "remove"} THEN r.at ELSE "off"
Phase == PhaseOf(killer[Closer])

SID(c) == conn[c].acpSID
NewSID(c) == conn'[c].acpSID

\* Before the agent was asked anything in this try.
Early == {"idle", "get", "forget", "ensure", "respawn", "spawn", "failed"}
FirstTry(r) == r.stage # "retry" /\ r.pc \in Early
FellBack(r) == r.stage = "fallback" /\ r.pc \in Early
IsLive(r) == r.pc \notin {"idle", "over"}
Prompting(r) == r.pc \in {"config", "wait"}
Anywhere == <<0, MaxSessions>>

CalmTurn(r, q) ==
  /\ q.on \in {r.on, None} /\ q.pre \in {r.pre, None}
  /\ q.captured = r.captured
  /\ q.pc = "idle" <=> r.pc = "idle"
  /\ IsLive(q) => IsLive(r)
  /\ r.cancelled => q.cancelled \/ (q.captured = None /\ q.pc = "over")
  /\ q.span \in {r.span, Anywhere}
  /\ q.pc = "emit" => r.pc = "emit" /\ q.on = r.on
  /\ Prompting(q) =>
       \/ Prompting(r) /\ q.session = r.session
       \/ r.pc = "read" /\ q.session = SID(r.on) /\ q.session # None
  /\ FirstTry(q) => FirstTry(r)
  /\ FellBack(q) => FellBack(r) \/ lastSession = 0

CalmConn(c) == conn'[c].acpSID \in {conn[c].acpSID, None}

\* What a rewind leaves alone too: it forgets the saved session, retires those
\* there are and empties the pool.
CalmData ==
  /\ lastSession' = lastSession /\ saved' \in {saved, None}
  /\ pool' \in {pool, None}
  /\ \A c \in Conns : CalmConn(c)
  /\ \A t \in Turns : CalmTurn(turn[t], turn'[t])

Calm ==
  /\ CalmData
  /\ saved' = saved /\ retired' = retired
  /\ Phase' = Phase

\* The flag comes with the process, and goes with it.
FlagStep(c) ==
  conn'[c].alive =>
    \/ /\ conn[c].alive
       /\ conn'[c].cmd = conn[c].cmd /\ conn'[c].conn = conn[c].conn
    \/ conn'[c].cmd \in Procs /\ conn'[c].conn = conn'[c].cmd

FlagSteps == \A c \in Conns : FlagStep(c)

LEMMA SameTurnIsCalm == \A r : CalmTurn(r, r)
BY SMT DEF CalmTurn

\* One turn moves.
LEMMA OneTurn ==
  ASSUME ShapeInv, NEW t \in Turns,
         turn' \in [Turns -> TurnRecs],
         \A s \in Turns \ {t} : turn'[s] = turn[s],
         TurnPlaced(turn'[t])
  PROVE  /\ \A s \in Turns : TurnPlaced(turn'[s])
         /\ CalmTurn(turn[t], turn'[t]) =>
              \A s \in Turns : CalmTurn(turn[s], turn'[s])
BY SameTurnIsCalm, Zenon DEF ShapeInv

LEMMA NoTurnMoves ==
  ASSUME ShapeInv, UNCHANGED turn
  PROVE  /\ turn' \in [Turns -> TurnRecs]
         /\ \A s \in Turns : TurnPlaced(turn'[s])
         /\ \A s \in Turns : CalmTurn(turn[s], turn'[s])
BY SameTurnIsCalm, Zenon DEF ShapeInv, TypeInv

LEMMA NoConnMoves ==
  ASSUME ShapeInv, UNCHANGED conn
  PROVE  /\ conn' \in [Conns -> ConnRecs] /\ FlagSteps
         /\ \A c \in Conns : CalmConn(c)
BY Zenon DEF ShapeInv, TypeInv, FlagSteps, FlagStep, CalmConn

LEMMA NoKillMoves ==
  ASSUME ShapeInv, UNCHANGED killer
  PROVE  /\ killer' \in [Killers -> KillRecs]
         /\ \A k \in Killers : KillPlaced(killer'[k])
         /\ Phase' = Phase
BY Zenon DEF ShapeInv, TypeInv, Phase

\* One kill moves: another than the closer's, or one that is not a rewind's.
LEMMA KillerMoves ==
  ASSUME ShapeInv, NEW k \in Killers,
         killer' \in [Killers -> KillRecs],
         \A j \in Killers \ {k} : killer'[j] = killer[j],
         KillPlaced(killer'[k])
  PROVE  /\ \A j \in Killers : KillPlaced(killer'[j])
         /\ k # Closer \/ PhaseOf(killer'[k]) = PhaseOf(killer[k]) => Phase' = Phase
<1>1. \A j \in Killers : KillPlaced(killer'[j])
  BY Zenon DEF ShapeInv
<1>2. k # Closer \/ PhaseOf(killer'[k]) = PhaseOf(killer[k]) => Phase' = Phase
  BY KillersDiffer, Zenon DEF Phase
<1> QED BY <1>1, <1>2

LEMMA OneKill ==
  ASSUME ShapeInv, NEW k \in Killers, NEW r \in KillRecs, KillPlaced(r),
         killer' = [killer EXCEPT ![k] = r]
  PROVE  /\ killer' \in [Killers -> KillRecs]
         /\ \A j \in Killers : KillPlaced(killer'[j])
         /\ k # Closer \/ PhaseOf(r) = PhaseOf(killer[k]) => Phase' = Phase
<1>1. /\ killer' \in [Killers -> KillRecs]
      /\ \A j \in Killers \ {k} : killer'[j] = killer[j]
      /\ killer'[k] = r
  BY SMT DEF ShapeInv, TypeInv
<1> QED BY <1>1, KillerMoves, Zenon

\* One connection changes, in a field that says nothing about its process or
\* its session.
LEMMA OtherFields ==
  ASSUME ShapeInv, NEW c \in Conns, NEW x \in Turns \cup {None}, NEW b \in BOOLEAN,
         \/ conn' = [conn EXCEPT ![c].promptCancel = x]
         \/ conn' = [conn EXCEPT ![c].tool = b]
  PROVE  /\ conn' \in [Conns -> ConnRecs] /\ FlagSteps
         /\ \A d \in Conns : CalmConn(d)
<1>1. conn[c] \in ConnRecs
  BY DEF ShapeInv, TypeInv
<1>2. CASE conn' = [conn EXCEPT ![c].promptCancel = x]
  <2>1. [conn[c] EXCEPT !.promptCancel = x] \in ConnRecs
    BY <1>1, Zenon DEF ConnRecs
  <2>2. conn' \in [Conns -> ConnRecs]
    BY <1>2, <2>1, SMT DEF ShapeInv, TypeInv
  <2> QED BY <1>2, <2>2, SMT DEF ShapeInv, TypeInv, ConnRecs, FlagSteps, FlagStep, CalmConn
<1>3. CASE conn' = [conn EXCEPT ![c].tool = b]
  <2>1. [conn[c] EXCEPT !.tool = b] \in ConnRecs
    BY <1>1, Zenon DEF ConnRecs
  <2>2. conn' \in [Conns -> ConnRecs]
    BY <1>3, <2>1, SMT DEF ShapeInv, TypeInv
  <2> QED BY <1>3, <2>2, SMT DEF ShapeInv, TypeInv, ConnRecs, FlagSteps, FlagStep, CalmConn
<1> QED BY <1>2, <1>3

\* A connection is cleared, keeping its session or not.
LEMMA ClearedIsCalm ==
  ASSUME ShapeInv, NEW c \in Conns, NEW n \in {conn[c].acpSID, None},
         conn' = Cleared(c, n)
  PROVE  /\ conn' \in [Conns -> ConnRecs] /\ FlagSteps
         /\ \A d \in Conns : CalmConn(d)
<1>1. n \in Nat /\ TypeInv
  BY NumbersAreNatural, SMT DEF ShapeInv, TypeInv, ConnRecs
<1>2. /\ conn' \in [Conns -> ConnRecs]
      /\ \A d \in Conns \ {c} : conn'[d] = conn[d]
      /\ conn'[c] = [conn[c] EXCEPT !.cmd = None, !.conn = None,
                                    !.alive = FALSE, !.acpSID = n]
  BY <1>1, ClearedTyped
<1>3. conn[c] \in ConnRecs
  BY <1>1 DEF TypeInv
<1>4. conn'[c].acpSID = n /\ ~conn'[c].alive
  BY <1>2, <1>3, SMT DEF ConnRecs
<1> QED BY <1>2, <1>4, Zenon DEF FlagSteps, FlagStep, CalmConn

Quiet == ShapeInv' /\ FlagSteps /\ Calm

\* What a quiet step is made of.
LEMMA QuietFrom ==
  ASSUME ShapeInv, UNCHANGED sessionVars, pool' \in {pool, None},
         watch' \in [Procs -> Conns \cup {None}],
         conn' \in [Conns -> ConnRecs], FlagSteps,
         \A c \in Conns : CalmConn(c),
         killer' \in [Killers -> KillRecs],
         \A k \in Killers : KillPlaced(killer'[k]),
         Phase' = Phase,
         turn' \in [Turns -> TurnRecs],
         \A s \in Turns : TurnPlaced(turn'[s]),
         \A s \in Turns : CalmTurn(turn[s], turn'[s])
  PROVE  Quiet
<1>1. lastSession' = lastSession /\ saved' = saved /\ retired' = retired
  BY DEF sessionVars
<1>2. pool' \in Conns \cup {None}
  BY DEF ShapeInv, TypeInv
<1>3. TypeInv'
  BY <1>1, <1>2, Zenon DEF ShapeInv, TypeInv
<1>4. ShapeInv'
  BY <1>3, Zenon DEF ShapeInv
<1>5. Calm
  BY <1>1, Zenon DEF Calm, CalmData
<1> QED BY <1>4, <1>5 DEF Quiet

LEMMA WatchTyped ==
  ASSUME ShapeInv, UNCHANGED watch
  PROVE  watch' \in [Procs -> Conns \cup {None}]
BY DEF ShapeInv, TypeInv

-----------------------------------------------------------------------------
(* Kills.                                                                  *)

LEMMA KillBeginIsQuiet ==
  ASSUME ShapeInv, NEW k \in Killers, KillBegin(k)
  PROVE  Quiet
<1> DEFINE c == killer[k].on
<1> DEFINE n == IF k = Closer THEN None ELSE conn[c].acpSID
<1>1. /\ UNCHANGED <<sessionVars, turn, watch>> /\ pool' = pool
      /\ killer[k].at = "begin"
  BY DEF KillBegin, procVars
<1>2. killer[k] \in KillRecs /\ c \in Conns
  BY <1>1 DEF ShapeInv, TypeInv, KillPlaced
<1>3. conn[c] \in ConnRecs
  BY <1>2 DEF ShapeInv, TypeInv
<1>4. n \in {conn[c].acpSID, None}
  OBVIOUS
<1>5. CASE conn[c].cmd = None
  <2>1. conn' = Cleared(c, n) /\ killer' = [killer EXCEPT ![k] = Idle]
    BY <1>5 DEF KillBegin
  <2>2. KillPlaced(Idle) /\ PhaseOf(Idle) = "off" /\ PhaseOf(killer[k]) = "off"
    BY <1>1 DEF KillPlaced, Idle, PhaseOf
  <2> HIDE DEF c, n
  <2> QED BY <1>1, <1>2, <1>4, <2>1, <2>2, IdleTyped, ClearedIsCalm, OneKill, NoTurnMoves,
        WatchTyped, QuietFrom, Zenon
<1>6. CASE conn[c].cmd # None
  <2> DEFINE r == [killer[k] EXCEPT !.at = "reap", !.cmd = conn[c].cmd]
  <2>1. UNCHANGED conn /\ killer' = [killer EXCEPT ![k].at = "reap", ![k].cmd = conn[c].cmd]
    BY <1>6 DEF KillBegin
  <2>2. conn[c].cmd \in Procs \cup {None}
    BY <1>3 DEF ConnRecs
  <2>3. r \in KillRecs
    BY <1>2, <2>2, Zenon DEF KillRecs
  <2>4. KillPlaced(r) /\ PhaseOf(r) = "off" /\ PhaseOf(killer[k]) = "off"
    BY <1>1, <1>2, SMT DEF KillPlaced, PhaseOf, KillRecs
  <2>5. killer'[k] = r /\ \A j \in Killers \ {k} : killer'[j] = killer[j]
    BY <2>1, SMT DEF ShapeInv, TypeInv
  <2>6. killer' \in [Killers -> KillRecs]
    <3> HIDE DEF r
    <3> QED BY <2>1, <2>3, <2>5, SMT DEF ShapeInv, TypeInv
  <2> HIDE DEF c, n, r
  <2> QED BY <1>1, <2>1, <2>4, <2>5, <2>6, NoConnMoves, KillerMoves, NoTurnMoves, WatchTyped,
        QuietFrom, Zenon
<1> QED BY <1>5, <1>6

LEMMA KillReapIsQuiet ==
  ASSUME ShapeInv, NEW k \in Killers, KillReap(k)
  PROVE  Quiet
<1> DEFINE r == [killer[k] EXCEPT !.at = "mark"]
<1>1. /\ UNCHANGED <<sessionVars, turn, watch, conn>> /\ pool' = pool
      /\ killer[k].at = "reap"
      /\ killer' = [killer EXCEPT ![k] = r]
  BY DEF KillReap, Reaped, connVars
<1>2. killer[k] \in KillRecs /\ killer[k].on \in Conns
  BY <1>1 DEF ShapeInv, TypeInv, KillPlaced
<1>3. r \in KillRecs
  BY <1>2, Zenon DEF KillRecs
<1>4. KillPlaced(r) /\ PhaseOf(r) = "off" /\ PhaseOf(killer[k]) = "off"
  BY <1>1, <1>2, SMT DEF KillPlaced, PhaseOf, KillRecs
<1> HIDE DEF r
<1> QED BY <1>1, <1>3, <1>4, NoConnMoves, OneKill, NoTurnMoves, WatchTyped, QuietFrom, Zenon

LEMMA KillMarkIsQuiet ==
  ASSUME ShapeInv, NEW k \in Killers, KillMark(k)
  PROVE  Quiet
<1> DEFINE c == killer[k].on
<1> DEFINE n == IF k = Closer THEN None ELSE conn[c].acpSID
<1>1. /\ UNCHANGED <<sessionVars, turn, watch>> /\ pool' = pool
      /\ killer[k].at = "mark"
      /\ conn' = Cleared(c, n) /\ killer' = [killer EXCEPT ![k] = Idle]
  BY DEF KillMark, procVars
<1>2. c \in Conns
  BY <1>1 DEF ShapeInv, KillPlaced
<1>3. n \in {conn[c].acpSID, None}
  OBVIOUS
<1>4. KillPlaced(Idle) /\ PhaseOf(Idle) = "off" /\ PhaseOf(killer[k]) = "off"
  BY <1>1 DEF KillPlaced, Idle, PhaseOf
<1> HIDE DEF c, n
<1> QED BY <1>1, <1>2, <1>3, <1>4, IdleTyped, ClearedIsCalm, OneKill, NoTurnMoves,
      WatchTyped, QuietFrom, Zenon

-----------------------------------------------------------------------------
(* Getting a connection.                                                   *)

LEMMA ForgetIsQuiet ==
  ASSUME ShapeInv, NEW t \in Turns, Forget(t)
  PROVE  Quiet
<1> DEFINE c == turn[t].on
<1>1. /\ UNCHANGED <<sessionVars, killer, watch>> /\ pool' = pool
      /\ turn[t].pc = "forget" /\ Move(t, "ensure")
      /\ conn' = [conn EXCEPT ![c].acpSID = None]
  BY DEF Forget, procVars
<1>2. turn[t] \in TurnRecs /\ TurnPlaced(turn[t]) /\ c \in Conns /\ TypeInv
  BY <1>1 DEF ShapeInv, TypeInv, TurnPlaced
<1>3. /\ turn' \in [Turns -> TurnRecs]
      /\ \A s \in Turns \ {t} : turn'[s] = turn[s]
      /\ turn'[t] = [turn[t] EXCEPT !.pc = "ensure"]
  <2>1. "ensure" \in Steps
    BY DEF Steps
  <2> QED BY <1>1, <1>2, <2>1, MoveTyped, Zenon
<1>4. TurnPlaced(turn'[t]) /\ CalmTurn(turn[t], turn'[t])
  BY <1>1, <1>2, <1>3, SMT DEF TurnPlaced, CalmTurn, TurnRecs, IsLive, Prompting,
    FirstTry, FellBack, Early
<1>5. /\ conn' \in [Conns -> ConnRecs] /\ FlagSteps
      /\ \A d \in Conns : CalmConn(d)
  <2>1. conn[c] \in ConnRecs
    BY <1>2 DEF TypeInv
  <2>2. [conn[c] EXCEPT !.acpSID = None] \in ConnRecs
    BY <2>1, NumbersAreNatural, Zenon DEF ConnRecs
  <2>3. conn' \in [Conns -> ConnRecs]
    BY <1>1, <1>2, <2>2, SMT DEF TypeInv
  <2> QED BY <1>1, <1>2, <2>1, <2>3, SMT DEF TypeInv, ConnRecs, FlagSteps, FlagStep, CalmConn
<1> HIDE DEF c
<1> QED BY <1>1, <1>3, <1>4, <1>5, OneTurn, NoKillMoves, WatchTyped, QuietFrom, Zenon

\* Where the locals of a turn end up.
LEMMA EnsuredIsCalm ==
  ASSUME ShapeInv, NEW t \in Turns, NEW pc \in {"failed", "read", "emit"},
         turn[t].pc \in {"ensure", "spawn"}, Ensured(t, pc)
  PROVE  /\ turn' \in [Turns -> TurnRecs]
         /\ \A s \in Turns : TurnPlaced(turn'[s])
         /\ pc # "emit" => \A s \in Turns : CalmTurn(turn[s], turn'[s])
<1>1. turn[t] \in TurnRecs /\ TurnPlaced(turn[t]) /\ TypeInv /\ pc \in Steps
  BY DEF ShapeInv, TypeInv, Steps
<1>2. /\ turn' \in [Turns -> TurnRecs]
      /\ \A s \in Turns \ {t} : turn'[s] = turn[s]
      /\ turn'[t] = [turn[t] EXCEPT !.pc = pc, !.pre = None, !.cmd = None]
  BY <1>1, EnsuredTyped, Zenon
<1>3. TurnPlaced(turn'[t])
  BY <1>1, <1>2, SMT DEF TurnPlaced, TurnRecs
<1>4. pc # "emit" => CalmTurn(turn[t], turn'[t])
  BY <1>1, <1>2, SMT DEF TurnPlaced, CalmTurn, TurnRecs, IsLive, Prompting,
    FirstTry, FellBack, Early
<1> QED BY <1>2, <1>3, <1>4, OneTurn, Zenon

LEMMA EndsIsCalm ==
  ASSUME ShapeInv, NEW t \in Turns, turn[t].pc \notin {"idle", "over"}, Ends(t)
  PROVE  /\ turn' \in [Turns -> TurnRecs]
         /\ \A s \in Turns : TurnPlaced(turn'[s])
         /\ \A s \in Turns : CalmTurn(turn[s], turn'[s])
<1>1. turn[t] \in TurnRecs /\ TypeInv
  BY DEF ShapeInv, TypeInv
<1>2. /\ turn' \in [Turns -> TurnRecs]
      /\ \A s \in Turns \ {t} : turn'[s] = turn[s]
      /\ turn'[t] = [NoTurn EXCEPT !.pc = "done",
           !.cancelled = turn[t].cancelled, !.captured = turn[t].captured]
  BY <1>1, EndsTyped, Zenon
<1>3. /\ turn'[t].pc = "done" /\ turn'[t].on = None /\ turn'[t].pre = None
      /\ turn'[t].captured = turn[t].captured /\ turn'[t].stage = "first"
      /\ turn'[t].cancelled = turn[t].cancelled
      /\ turn'[t].span = Anywhere
  BY <1>2, Zenon DEF NoTurn, Anywhere
<1>4. TurnPlaced(turn'[t])
  BY <1>3, SMT DEF TurnPlaced
<1>5. CalmTurn(turn[t], turn'[t])
  BY <1>3, SMT DEF CalmTurn, IsLive, Prompting, FirstTry, FellBack, Early
<1> QED BY <1>2, <1>4, <1>5, OneTurn, Zenon

LEMMA RetryIsCalm ==
  ASSUME ShapeInv, NEW t \in Turns, NEW again,
         turn[t].pc \notin {"idle", "over"}, Retry(t, again)
  PROVE  /\ turn' \in [Turns -> TurnRecs]
         /\ \A s \in Turns : TurnPlaced(turn'[s])
         /\ \A s \in Turns : CalmTurn(turn[s], turn'[s])
<1>1. turn[t] \in TurnRecs /\ TypeInv
  BY DEF ShapeInv, TypeInv
<1>2. /\ turn' \in [Turns -> TurnRecs]
      /\ \A s \in Turns \ {t} : turn'[s] = turn[s]
      /\ \/ /\ ~turn[t].cancelled
            /\ turn'[t] = [NoTurn EXCEPT !.pc = "get", !.stage = "retry",
                 !.captured = turn[t].captured, !.span = turn[t].span]
         \/ turn'[t] = [NoTurn EXCEPT !.pc = "done",
              !.cancelled = turn[t].cancelled, !.captured = turn[t].captured]
  BY <1>1, RetryTyped, Zenon
<1>3. /\ turn'[t].on = None /\ turn'[t].pre = None
      /\ turn'[t].captured = turn[t].captured
      /\ turn'[t].cancelled = turn[t].cancelled \/ ~turn[t].cancelled
      /\ \/ turn'[t].pc = "done" /\ turn'[t].stage = "first"
            /\ turn'[t].span = Anywhere
         \/ turn'[t].pc = "get" /\ turn'[t].stage = "retry"
            /\ turn'[t].span = turn[t].span
  <2>1. CASE turn'[t] = [NoTurn EXCEPT !.pc = "get", !.stage = "retry",
                 !.captured = turn[t].captured, !.span = turn[t].span]
             /\ ~turn[t].cancelled
    BY <2>1, Zenon DEF NoTurn, Anywhere
  <2>2. CASE turn'[t] = [NoTurn EXCEPT !.pc = "done",
              !.cancelled = turn[t].cancelled, !.captured = turn[t].captured]
    BY <2>2, Zenon DEF NoTurn, Anywhere
  <2> QED BY <1>2, <2>1, <2>2
<1>4. TurnPlaced(turn'[t])
  BY <1>3, SMT DEF TurnPlaced
<1>5. CalmTurn(turn[t], turn'[t])
  BY <1>1, <1>3, SMT DEF CalmTurn, IsLive, Prompting, FirstTry, FellBack, Early, TurnRecs
<1> QED BY <1>2, <1>4, <1>5, OneTurn, Zenon

LEMMA LeavesIsCalm ==
  ASSUME ShapeInv, NEW t \in Turns, turn[t].pc = "wait",
         NEW again \in BOOLEAN, Leaves(t, again)
  PROVE  /\ turn' \in [Turns -> TurnRecs]
         /\ \A s \in Turns : TurnPlaced(turn'[s])
         /\ \A s \in Turns : CalmTurn(turn[s], turn'[s])
<1>1. turn[t] \in TurnRecs /\ TurnPlaced(turn[t]) /\ TypeInv
  BY DEF ShapeInv, TypeInv
<1>2. /\ turn' \in [Turns -> TurnRecs]
      /\ \A s \in Turns \ {t} : turn'[s] = turn[s]
      /\ turn'[t] = [turn[t] EXCEPT !.pc = "leave", !.again = again,
                          !.woken = FALSE, !.using = None, !.session = None]
  BY <1>1, LeavesTyped, Zenon
<1>3. /\ turn'[t].pc = "leave" /\ turn'[t].on = turn[t].on
      /\ turn'[t].pre = turn[t].pre /\ turn'[t].captured = turn[t].captured
      /\ turn'[t].cancelled = turn[t].cancelled
      /\ turn'[t].span = turn[t].span
  BY <1>1, <1>2, Zenon DEF TurnRecs
<1>4. TurnPlaced(turn'[t])
  BY <1>1, <1>3, SMT DEF TurnPlaced
<1>5. CalmTurn(turn[t], turn'[t])
  BY <1>3, SMT DEF CalmTurn, IsLive, Prompting, FirstTry, FellBack, Early
<1> QED BY <1>2, <1>4, <1>5, OneTurn, Zenon

\* A process without a session: the turn has failed.
LEMMA SpawnedIsCalm ==
  ASSUME ShapeInv, NEW t, NEW c \in Conns, NEW p \in Procs,
         SpawnSucceeds(t, c, p, None)
  PROVE  /\ conn' \in [Conns -> ConnRecs] /\ FlagSteps
         /\ \A d \in Conns : CalmConn(d)
         /\ watch' \in [Procs -> Conns \cup {None}]
<1> DEFINE n == None
<1>1. n \in Nat /\ SpawnSucceeds(t, c, p, n)
  BY NumbersAreNatural
<1>2. TypeInv /\ n = None
  BY DEF ShapeInv
<1> HIDE DEF n
<1>3. /\ conn' \in [Conns -> ConnRecs]
      /\ watch' \in [Procs -> Conns \cup {None}]
      /\ \A d \in Conns \ {c} : conn'[d] = conn[d]
      /\ conn'[c].acpSID = n
      /\ n = None => ~conn'[c].alive
  <2>1. TypeInv
    BY <1>2
  <2> QED BY <1>1, <2>1, SpawnTyped, Zenon
<1>4. \A d \in Conns : CalmConn(d)
  BY <1>2, <1>3, Zenon DEF CalmConn
<1>5. FlagSteps
  BY <1>2, <1>3, Zenon DEF FlagSteps, FlagStep
<1> QED BY <1>3, <1>4, <1>5

LEMMA SpawnFailsIsQuiet ==
  ASSUME ShapeInv, NEW t \in Turns, turn[t].pc \in {"ensure", "spawn"},
         UNCHANGED pool, SpawnFails(t, turn[t].on)
  PROVE  Quiet
<1> DEFINE c == turn[t].on
<1>1. /\ UNCHANGED <<sessionVars, killer, watch>>
      /\ conn' = Cleared(c, conn[c].acpSID) /\ Ensured(t, "failed")
  BY DEF SpawnFails, procVars
<1>2. c \in Conns
  BY DEF ShapeInv, TurnPlaced
<1> HIDE DEF c
<1>3. /\ conn' \in [Conns -> ConnRecs] /\ FlagSteps
      /\ \A d \in Conns : CalmConn(d)
  BY <1>1, <1>2, ClearedIsCalm, Zenon
<1>4. /\ turn' \in [Turns -> TurnRecs]
      /\ \A s \in Turns : TurnPlaced(turn'[s])
      /\ \A s \in Turns : CalmTurn(turn[s], turn'[s])
  BY <1>1, EnsuredIsCalm, Zenon
<1> QED BY <1>1, <1>3, <1>4, NoKillMoves, WatchTyped, QuietFrom, Zenon

LEMMA NoSessionIsQuiet ==
  ASSUME ShapeInv, NEW t \in Turns, turn[t].pc \in {"ensure", "spawn"},
         UNCHANGED <<pool, sessionVars>>, NEW p \in Procs,
         SpawnSucceeds(t, turn[t].on, p, None), Ensured(t, "failed"),
         \/ UNCHANGED killer
         \/ killer' = [killer EXCEPT ![Of(t)] =
                         [at |-> "reap", on |-> turn[t].on, cmd |-> p]]
  PROVE  Quiet
<1> DEFINE c == turn[t].on
<1> DEFINE r == [at |-> "reap", on |-> c, cmd |-> p]
<1>1. c \in Conns
  BY DEF ShapeInv, TurnPlaced
<1>2. r \in KillRecs /\ KillPlaced(r)
  BY <1>1, SMT DEF KillRecs, KillPlaced
<1>3. UNCHANGED killer \/ killer' = [killer EXCEPT ![Of(t)] = r]
  OBVIOUS
<1> HIDE DEF r
<1>4. /\ killer' \in [Killers -> KillRecs]
      /\ \A k \in Killers : KillPlaced(killer'[k])
      /\ Phase' = Phase
  <2>1. CASE UNCHANGED killer
    BY <2>1, NoKillMoves
  <2>2. CASE killer' = [killer EXCEPT ![Of(t)] = r]
    BY <1>2, <2>2, OneKill, KillersDiffer, Zenon
  <2> QED BY <1>3, <2>1, <2>2
<1>5. SpawnSucceeds(t, c, p, None)
  OBVIOUS
<1> HIDE DEF c
<1>6. /\ conn' \in [Conns -> ConnRecs] /\ FlagSteps
      /\ \A d \in Conns : CalmConn(d)
      /\ watch' \in [Procs -> Conns \cup {None}]
  BY <1>1, <1>5, SpawnedIsCalm, Zenon
<1>7. /\ turn' \in [Turns -> TurnRecs]
      /\ \A s \in Turns : TurnPlaced(turn'[s])
      /\ \A s \in Turns : CalmTurn(turn[s], turn'[s])
  BY EnsuredIsCalm, Zenon
<1> QED BY <1>4, <1>6, <1>7, QuietFrom, Zenon

LEMMA RespawnReapIsQuiet ==
  ASSUME ShapeInv, NEW t \in Turns, RespawnReap(t)
  PROVE  Quiet
<1>1. /\ UNCHANGED <<sessionVars, killer, watch, conn>> /\ pool' = pool
      /\ turn[t].pc = "respawn" /\ Move(t, "spawn")
  BY DEF RespawnReap, Reaped, connVars
<1>2. turn[t] \in TurnRecs /\ TurnPlaced(turn[t]) /\ TypeInv /\ "spawn" \in Steps
  BY DEF ShapeInv, TypeInv, Steps
<1>3. /\ turn' \in [Turns -> TurnRecs]
      /\ \A s \in Turns \ {t} : turn'[s] = turn[s]
      /\ turn'[t] = [turn[t] EXCEPT !.pc = "spawn"]
  BY <1>1, <1>2, MoveTyped, Zenon
<1>4. /\ turn'[t].pc = "spawn" /\ turn'[t].on = turn[t].on
      /\ turn'[t].pre = turn[t].pre /\ turn'[t].captured = turn[t].captured
      /\ turn'[t].cancelled = turn[t].cancelled
      /\ turn'[t].span = turn[t].span /\ turn'[t].stage = turn[t].stage
  BY <1>2, <1>3, Zenon DEF TurnRecs
<1>5. TurnPlaced(turn'[t])
  BY <1>1, <1>2, <1>4, SMT DEF TurnPlaced
<1>6. CalmTurn(turn[t], turn'[t])
  BY <1>1, <1>4, SMT DEF CalmTurn, IsLive, Prompting, FirstTry, FellBack, Early
<1> QED BY <1>1, <1>3, <1>5, <1>6, OneTurn, NoConnMoves, NoKillMoves, WatchTyped, QuietFrom, Zenon

\* The turn tries again, falls back to a new session, or fails.
LEMMA GiveUpIsQuiet ==
  ASSUME ShapeInv, NEW t \in Turns, GiveUp(t),
         FirstTry(turn[t]) /\ ~HasConversationHistory(t) => lastSession = 0
  PROVE  Quiet
<1>1. /\ UNCHANGED <<sessionVars, killer, watch, conn>>
      /\ turn[t].pc = "failed" /\ pool' \in {pool, None}
  BY DEF GiveUp, procVars
<1>2. turn[t] \in TurnRecs /\ TurnPlaced(turn[t]) /\ TypeInv
  BY DEF ShapeInv, TypeInv
<1>3. /\ turn' \in [Turns -> TurnRecs]
      /\ \A s \in Turns : TurnPlaced(turn'[s])
      /\ \A s \in Turns : CalmTurn(turn[s], turn'[s])
  <2>1. ASSUME NEW stage \in {"second", "fallback"},
               turn' = [turn EXCEPT ![t].pc = "get", ![t].stage = stage],
               turn[t].stage \in {"first", "second"},
               stage = "fallback" => lastSession = 0
        PROVE  <1>3!1 /\ <1>3!2 /\ <1>3!3
    <3> DEFINE r == [turn[t] EXCEPT !.pc = "get", !.stage = stage]
    <3>1. turn'[t] = r /\ \A s \in Turns \ {t} : turn'[s] = turn[s]
      BY <1>2, <2>1, SMT DEF TypeInv
    <3>2. "get" \in Steps /\ stage \in {"first", "second", "fallback", "retry"}
      BY DEF Steps
    <3>3. r \in TurnRecs
      BY <1>2, <3>2, Zenon DEF TurnRecs
    <3>4. turn' \in [Turns -> TurnRecs]
      <4> HIDE DEF r
      <4> QED BY <1>2, <2>1, <3>1, <3>3, SMT DEF TypeInv
    <3>5. TurnPlaced(r) /\ CalmTurn(turn[t], r)
      BY <1>1, <1>2, <2>1, SMT DEF TurnPlaced, CalmTurn, TurnRecs, IsLive, Prompting,
        FirstTry, FellBack, Early
    <3> QED BY <3>1, <3>4, <3>5, OneTurn, Zenon
  <2>2. CASE turn[t].stage = "first"
             /\ turn' = [turn EXCEPT ![t].pc = "get", ![t].stage = "second"]
    BY <2>1, <2>2
  <2>3. CASE turn[t].stage = "second" /\ ~HasConversationHistory(t)
             /\ turn' = [turn EXCEPT ![t].pc = "get", ![t].stage = "fallback"]
    <3>1. FirstTry(turn[t])
      BY <1>1, <2>3 DEF FirstTry, Early
    <3> QED BY <2>1, <2>3, <3>1
  <2>4. CASE Ends(t)
    BY <1>1, <2>4, EndsIsCalm
  <2> QED BY <2>2, <2>3, <2>4 DEF GiveUp
<1> QED BY <1>1, <1>3, NoConnMoves, NoKillMoves, WatchTyped, QuietFrom, Zenon

-----------------------------------------------------------------------------
(* The prompt.                                                             *)

LEMMA FinalizeIsQuiet ==
  ASSUME ShapeInv, NEW t \in Turns, Finalize(t)
  PROVE  Quiet
<1> DEFINE r == [NoTurn EXCEPT !.pc = "over"]
<1>1. /\ UNCHANGED <<sessionVars, killer, watch, conn>> /\ pool' = pool
      /\ turn[t].pc = "done" /\ turn[t].captured = None
      /\ turn' = [turn EXCEPT ![t] = r]
  BY DEF Finalize, connVars, procVars
<1>2. r \in TurnRecs
  BY NoTurnTyped, Zenon DEF TurnRecs, Steps
<1>3. /\ r.pc = "over" /\ r.on = None /\ r.pre = None /\ r.captured = None
      /\ r.stage = "first" /\ ~r.cancelled /\ r.span = Anywhere
  BY Zenon DEF NoTurn, Anywhere
<1> HIDE DEF r
<1>4. /\ turn' \in [Turns -> TurnRecs] /\ turn'[t] = r
      /\ \A s \in Turns \ {t} : turn'[s] = turn[s]
  BY <1>1, <1>2, SMT DEF ShapeInv, TypeInv
<1>5. TurnPlaced(r)
  BY <1>3, SMT DEF TurnPlaced
<1>6. CalmTurn(turn[t], r)
  BY <1>1, <1>3, SMT DEF CalmTurn, IsLive, Prompting, FirstTry, FellBack, Early
<1> QED BY <1>1, <1>4, <1>5, <1>6, OneTurn, NoConnMoves, NoKillMoves, WatchTyped,
      QuietFrom, Zenon

LEMMA ReadConnIsQuiet ==
  ASSUME ShapeInv, NEW t \in Turns, ReadConn(t)
  PROVE  Quiet
<1> DEFINE c == turn[t].on
<1>1. /\ UNCHANGED <<sessionVars, killer, watch>> /\ pool' = pool
      /\ turn[t].pc = "read"
      /\ conn' = [conn EXCEPT ![c].tool = FALSE]
  BY DEF ReadConn, procVars
<1>2. turn[t] \in TurnRecs /\ TurnPlaced(turn[t]) /\ TypeInv /\ c \in Conns
  BY <1>1 DEF ShapeInv, TypeInv, TurnPlaced
<1>3. conn[c] \in ConnRecs
  BY <1>2 DEF TypeInv
<1>4. /\ turn' \in [Turns -> TurnRecs]
      /\ \A s \in Turns : TurnPlaced(turn'[s])
      /\ \A s \in Turns : CalmTurn(turn[s], turn'[s])
  <2>1. CASE conn[c].conn # None /\ conn[c].acpSID # None
    <3> DEFINE r == [turn[t] EXCEPT !.pc = "config", !.using = conn[c].conn,
                                    !.session = conn[c].acpSID]
    <3>1. turn' = [turn EXCEPT ![t].pc = "config", ![t].using = conn[c].conn,
                               ![t].session = conn[c].acpSID]
      BY <2>1 DEF ReadConn
    <3>2. turn'[t] = r /\ \A s \in Turns \ {t} : turn'[s] = turn[s]
      BY <1>2, <3>1, SMT DEF TypeInv
    <3>3. conn[c].conn \in Procs \cup {None} /\ conn[c].acpSID \in Nat /\ "config" \in Steps
      BY <1>3 DEF ConnRecs, Steps
    <3>4. r \in TurnRecs
      BY <1>2, <3>3, Zenon DEF TurnRecs
    <3>5. turn' \in [Turns -> TurnRecs]
      <4> HIDE DEF r
      <4> QED BY <1>2, <3>1, <3>2, <3>4, SMT DEF TypeInv
    <3>6. /\ r.pc = "config" /\ r.on = turn[t].on /\ r.pre = turn[t].pre
          /\ r.captured = turn[t].captured /\ r.cancelled = turn[t].cancelled
          /\ r.span = turn[t].span /\ r.session = conn[c].acpSID
      BY <1>2, Zenon DEF TurnRecs
    <3> HIDE DEF r
    <3>7. TurnPlaced(r)
      BY <1>1, <1>2, <3>6, SMT DEF TurnPlaced
    <3>8. CalmTurn(turn[t], r)
      BY <1>1, <2>1, <3>6, SMT DEF CalmTurn, IsLive, Prompting, FirstTry, FellBack,
        Early, SID
    <3> QED BY <3>2, <3>5, <3>7, <3>8, OneTurn, Zenon
  <2>2. CASE ~(conn[c].conn # None /\ conn[c].acpSID # None)
    <3>1. Ends(t)
      BY <2>2 DEF ReadConn
    <3> QED BY <1>1, <3>1, EndsIsCalm
  <2> QED BY <2>1, <2>2
<1> HIDE DEF c
<1>5. /\ conn' \in [Conns -> ConnRecs] /\ FlagSteps
      /\ \A d \in Conns : CalmConn(d)
  BY <1>1, <1>2, OtherFields, Zenon
<1> QED BY <1>1, <1>4, <1>5, NoKillMoves, WatchTyped, QuietFrom, Zenon

LEMMA SendIsQuiet ==
  ASSUME ShapeInv, NEW t \in Turns, Send(t)
  PROVE  Quiet
<1> DEFINE c == turn[t].on
<1>1. /\ UNCHANGED <<sessionVars, killer, watch>> /\ pool' = pool
      /\ turn[t].pc = "config"
  BY DEF Send, procVars
<1>2. turn[t] \in TurnRecs /\ TurnPlaced(turn[t]) /\ TypeInv /\ c \in Conns
  BY <1>1 DEF ShapeInv, TypeInv, TurnPlaced
<1>3. CASE Retry(t, TRUE) /\ UNCHANGED conn
  <2>1. /\ turn' \in [Turns -> TurnRecs]
        /\ \A s \in Turns : TurnPlaced(turn'[s])
        /\ \A s \in Turns : CalmTurn(turn[s], turn'[s])
    BY <1>1, <1>3, RetryIsCalm
  <2> QED BY <1>1, <1>3, <2>1, NoConnMoves, NoKillMoves, WatchTyped, QuietFrom, Zenon
<1>4. CASE /\ conn' = [conn EXCEPT ![c].promptCancel = t]
           /\ turn' = [turn EXCEPT ![t].pc = "wait", ![t].woken = FALSE]
  <2> DEFINE r == [turn[t] EXCEPT !.pc = "wait", !.woken = FALSE]
  <2>1. turn'[t] = r /\ \A s \in Turns \ {t} : turn'[s] = turn[s]
    BY <1>2, <1>4, SMT DEF TypeInv
  <2>2. r \in TurnRecs
    BY <1>2, Zenon DEF TurnRecs, Steps
  <2>3. turn' \in [Turns -> TurnRecs]
    <3> HIDE DEF r
    <3> QED BY <1>2, <1>4, <2>1, <2>2, SMT DEF TypeInv
  <2>4. /\ r.pc = "wait" /\ r.on = turn[t].on /\ r.pre = turn[t].pre
        /\ r.captured = turn[t].captured /\ r.cancelled = turn[t].cancelled
        /\ r.span = turn[t].span /\ r.session = turn[t].session
    BY <1>2, Zenon DEF TurnRecs
  <2> HIDE DEF r
  <2>5. TurnPlaced(r)
    BY <1>1, <1>2, <2>4, SMT DEF TurnPlaced
  <2>6. CalmTurn(turn[t], r)
    BY <1>1, <2>4, SMT DEF CalmTurn, IsLive, Prompting, FirstTry, FellBack, Early
  <2>7. conn' = [conn EXCEPT ![c].promptCancel = t]
    BY <1>4
  <2> HIDE DEF c
  <2>8. /\ conn' \in [Conns -> ConnRecs] /\ FlagSteps
        /\ \A d \in Conns : CalmConn(d)
    BY <1>2, <2>7, OtherFields, Zenon
  <2> QED BY <1>1, <2>1, <2>3, <2>5, <2>6, <2>8, OneTurn, NoKillMoves, WatchTyped,
        QuietFrom, Zenon
<1> QED BY <1>3, <1>4 DEF Send

\* A kill on behalf of a turn begins.
LEMMA TurnsKill ==
  ASSUME ShapeInv, NEW t \in Turns, turn[t].pc = "wait",
         killer' = [killer EXCEPT ![Of(t)] =
                      [at |-> "begin", on |-> turn[t].on, cmd |-> None]]
  PROVE  /\ killer' \in [Killers -> KillRecs]
         /\ \A k \in Killers : KillPlaced(killer'[k])
         /\ Phase' = Phase
<1> DEFINE r == [at |-> "begin", on |-> turn[t].on, cmd |-> None]
<1>1. turn[t].on \in Conns
  BY DEF ShapeInv, TurnPlaced
<1>2. r \in KillRecs /\ KillPlaced(r)
  BY <1>1, SMT DEF KillRecs, KillPlaced
<1>3. killer' = [killer EXCEPT ![Of(t)] = r]
  OBVIOUS
<1> HIDE DEF r
<1> QED BY <1>2, <1>3, OneKill, KillersDiffer, Zenon

LEMMA AnsweredIsQuiet ==
  ASSUME ShapeInv, NEW t \in Turns, Answered(t)
  PROVE  Quiet
<1>1. /\ UNCHANGED <<sessionVars, watch, conn>> /\ pool' = pool
      /\ turn[t].pc = "wait"
      /\ Leaves(t, FALSE) \/ Leaves(t, TRUE)
  BY DEF Answered, procVars, connVars
<1>2. /\ turn' \in [Turns -> TurnRecs]
      /\ \A s \in Turns : TurnPlaced(turn'[s])
      /\ \A s \in Turns : CalmTurn(turn[s], turn'[s])
  BY <1>1, LeavesIsCalm
<1>3. /\ killer' \in [Killers -> KillRecs]
      /\ \A k \in Killers : KillPlaced(killer'[k])
      /\ Phase' = Phase
  BY <1>1, NoKillMoves, TurnsKill DEF Answered
<1> QED BY <1>1, <1>2, <1>3, NoConnMoves, WatchTyped, QuietFrom, Zenon

\* A prompt is woken.
LEMMA WokenIsCalm ==
  ASSUME ShapeInv, NEW t \in Turns, turn[t].pc = "wait",
         turn' = [turn EXCEPT ![t].woken = TRUE]
  PROVE  /\ turn' \in [Turns -> TurnRecs]
         /\ \A s \in Turns : TurnPlaced(turn'[s])
         /\ \A s \in Turns : CalmTurn(turn[s], turn'[s])
<1> DEFINE r == [turn[t] EXCEPT !.woken = TRUE]
<1>1. turn[t] \in TurnRecs /\ TurnPlaced(turn[t]) /\ TypeInv
  BY DEF ShapeInv, TypeInv
<1>2. turn' = [turn EXCEPT ![t] = r]
  OBVIOUS
<1>3. r \in TurnRecs
  BY <1>1, Zenon DEF TurnRecs
<1>4. /\ turn' \in [Turns -> TurnRecs] /\ turn'[t] = r
      /\ \A s \in Turns \ {t} : turn'[s] = turn[s]
  <2> HIDE DEF r
  <2> QED BY <1>1, <1>2, <1>3, TurnSet, Zenon
<1>5. /\ r.pc = "wait" /\ r.on = turn[t].on /\ r.pre = turn[t].pre
      /\ r.captured = turn[t].captured /\ r.cancelled = turn[t].cancelled
      /\ r.span = turn[t].span /\ r.session = turn[t].session
  BY <1>1, Zenon DEF TurnRecs
<1> HIDE DEF r
<1>6. TurnPlaced(r)
  BY <1>1, <1>5, SMT DEF TurnPlaced
<1>7. CalmTurn(turn[t], r)
  BY <1>5, SMT DEF CalmTurn, IsLive, Prompting, FirstTry, FellBack, Early
<1> QED BY <1>4, <1>6, <1>7, OneTurn, Zenon

LEMMA StallIsQuiet ==
  ASSUME ShapeInv, NEW t \in Turns, Stall(t)
  PROVE  Quiet
<1>1. /\ UNCHANGED <<sessionVars, watch, conn>> /\ pool' = pool
      /\ turn[t].pc = "wait"
      /\ turn' = [turn EXCEPT ![t].woken = TRUE]
      /\ killer' = [killer EXCEPT ![Of(t)] =
                      [at |-> "begin", on |-> turn[t].on, cmd |-> None]]
  BY DEF Stall, procVars, connVars
<1> QED BY <1>1, WokenIsCalm, TurnsKill, NoConnMoves, WatchTyped, QuietFrom, Zenon

\* A connection is marked dead.
LEMMA DeadIsCalm ==
  ASSUME ShapeInv, NEW c \in Conns,
         \/ conn' = [conn EXCEPT ![c].alive = FALSE]
         \/ conn' = [conn EXCEPT ![c].alive = FALSE, ![c].promptCancel = None]
  PROVE  /\ conn' \in [Conns -> ConnRecs] /\ FlagSteps
         /\ \A d \in Conns : CalmConn(d)
<1>1. TypeInv /\ conn[c] \in ConnRecs
  BY DEF ShapeInv, TypeInv
<1>2. /\ \A d \in Conns \ {c} : conn'[d] = conn[d]
      /\ conn'[c].acpSID = conn[c].acpSID /\ ~conn'[c].alive
  BY <1>1, SMT DEF TypeInv, ConnRecs
<1>3. conn' \in [Conns -> ConnRecs]
  <2>1. CASE conn' = [conn EXCEPT ![c].alive = FALSE]
    <3> DEFINE r == [conn[c] EXCEPT !.alive = FALSE]
    <3>1. r \in ConnRecs
      BY <1>1, Zenon DEF ConnRecs
    <3>2. conn' = [conn EXCEPT ![c] = r]
      BY <2>1
    <3> HIDE DEF r
    <3> QED BY <1>1, <3>1, <3>2, SMT DEF TypeInv
  <2>2. CASE conn' = [conn EXCEPT ![c].alive = FALSE, ![c].promptCancel = None]
    <3> DEFINE r == [conn[c] EXCEPT !.alive = FALSE, !.promptCancel = None]
    <3>1. r \in ConnRecs
      BY <1>1, Zenon DEF ConnRecs
    <3>2. conn'[c] = r
      BY <1>1, <2>2, SMT DEF TypeInv
    <3> HIDE DEF r
    <3> QED BY <1>1, <1>2, <2>2, <3>1, <3>2, SMT DEF TypeInv
  <2> QED BY <2>1, <2>2
<1>4. FlagSteps
  BY <1>2, Zenon DEF FlagSteps, FlagStep
<1>5. \A d \in Conns : CalmConn(d)
  BY <1>2, Zenon DEF CalmConn
<1> QED BY <1>3, <1>4, <1>5

LEMMA PromptErrorIsQuiet ==
  ASSUME ShapeInv, NEW t \in Turns, turn[t].pc = "wait", PromptError(t)
  PROVE  Quiet
<1> DEFINE c == turn[t].on
<1>1. /\ UNCHANGED <<sessionVars, killer, watch>> /\ pool' = pool
      /\ UNCHANGED conn \/ conn' = [conn EXCEPT ![c].alive = FALSE]
  <2>1. UNCHANGED <<sessionVars, killer, watch>> /\ pool' = pool
    BY DEF PromptError, procVars
  <2>2. PICK alive : conn' = IF alive THEN conn
                             ELSE MarkDeadIfCurrent(c, turn[t].using)
    BY Zenon DEF PromptError
  <2> QED BY <2>1, <2>2 DEF MarkDeadIfCurrent
<1>2. c \in Conns /\ turn[t] \in TurnRecs
  BY DEF ShapeInv, TypeInv, TurnPlaced
<1>3. /\ turn' \in [Turns -> TurnRecs]
      /\ \A s \in Turns : TurnPlaced(turn'[s])
      /\ \A s \in Turns : CalmTurn(turn[s], turn'[s])
  <2> DEFINE lost == proc[turn[t].using] \in {"lost", "gone"}
  <2>1. lost \in BOOLEAN /\ (lost /\ ~turn[t].woken) \in BOOLEAN
    OBVIOUS
  <2>2. PICK again \in {lost, lost /\ ~turn[t].woken} : Leaves(t, again)
    BY Zenon DEF PromptError
  <2>3. again \in BOOLEAN
    <3> HIDE DEF lost
    <3> QED BY <2>1, <2>2, Zenon
  <2> QED BY <2>2, <2>3, LeavesIsCalm
<1> HIDE DEF c
<1>4. /\ conn' \in [Conns -> ConnRecs] /\ FlagSteps
      /\ \A d \in Conns : CalmConn(d)
  <2>1. CASE UNCHANGED conn
    BY <2>1, NoConnMoves
  <2>2. CASE conn' = [conn EXCEPT ![c].alive = FALSE]
    BY <1>2, <2>2, DeadIsCalm
  <2> QED BY <1>1, <2>1, <2>2
<1> QED BY <1>1, <1>3, <1>4, NoKillMoves, WatchTyped, QuietFrom, Zenon

LEMMA LeaveIsQuiet ==
  ASSUME ShapeInv, NEW t \in Turns, Leave(t)
  PROVE  Quiet
<1> DEFINE c == turn[t].on
<1>1. /\ UNCHANGED <<sessionVars, killer, watch>> /\ pool' = pool
      /\ turn[t].pc = "leave" /\ Retry(t, turn[t].again)
      /\ conn' = [conn EXCEPT ![c].promptCancel = None]
  BY DEF Leave, procVars
<1>2. c \in Conns
  BY <1>1 DEF ShapeInv, TurnPlaced
<1>3. /\ turn' \in [Turns -> TurnRecs]
      /\ \A s \in Turns : TurnPlaced(turn'[s])
      /\ \A s \in Turns : CalmTurn(turn[s], turn'[s])
  BY <1>1, RetryIsCalm
<1> HIDE DEF c
<1>4. /\ conn' \in [Conns -> ConnRecs] /\ FlagSteps
      /\ \A d \in Conns : CalmConn(d)
  BY <1>1, <1>2, OtherFields, Zenon
<1> QED BY <1>1, <1>3, <1>4, NoKillMoves, WatchTyped, QuietFrom, Zenon

-----------------------------------------------------------------------------
(* The goroutine of a process, the sweep, the handlers, the agents.        *)

LEMMA WatchDoneIsQuiet ==
  ASSUME ShapeInv, NEW p \in Procs, WatchDone(p)
  PROVE  Quiet
<1> DEFINE c == watch[p]
<1> DEFINE t == conn[c].promptCancel
<1>1. /\ UNCHANGED <<sessionVars, killer>> /\ pool' = pool /\ c # None
      /\ conn' = [conn EXCEPT ![c].alive = FALSE, ![c].promptCancel = None]
      /\ watch' = [watch EXCEPT ![p] = None]
      /\ \/ UNCHANGED turn
         \/ t # None /\ turn[t].pc = "wait"
            /\ turn' = [turn EXCEPT ![t].woken = TRUE]
  BY DEF WatchDone
<1>2. c \in Conns /\ watch' \in [Procs -> Conns \cup {None}]
  BY <1>1, SMT DEF ShapeInv, TypeInv
<1>3. t \in Turns \cup {None}
  BY <1>2 DEF ShapeInv, TypeInv, ConnRecs
<1>4. /\ turn' \in [Turns -> TurnRecs]
      /\ \A s \in Turns : TurnPlaced(turn'[s])
      /\ \A s \in Turns : CalmTurn(turn[s], turn'[s])
  <2>1. CASE UNCHANGED turn
    BY <2>1, NoTurnMoves
  <2>2. CASE t # None /\ turn[t].pc = "wait"
             /\ turn' = [turn EXCEPT ![t].woken = TRUE]
    <3> HIDE DEF t
    <3> QED BY <1>3, <2>2, WokenIsCalm, Zenon
  <2> QED BY <1>1, <2>1, <2>2
<1> HIDE DEF c, t
<1>5. /\ conn' \in [Conns -> ConnRecs] /\ FlagSteps
      /\ \A d \in Conns : CalmConn(d)
  BY <1>1, <1>2, DeadIsCalm, Zenon
<1> QED BY <1>1, <1>2, <1>4, <1>5, NoKillMoves, QuietFrom, Zenon

\* Whom a cancel reaches.
LEMMA CancelledIsCalm ==
  ASSUME ShapeInv
  PROVE  /\ Cancelled \in [Turns -> TurnRecs]
         /\ \A s \in Turns : TurnPlaced(Cancelled[s])
         /\ \A s \in Turns : CalmTurn(turn[s], Cancelled[s])
         /\ \A s \in Turns : IsLive(turn[s]) => Cancelled[s].cancelled
<1>1. /\ Cancelled \in [Turns -> TurnRecs]
      /\ \A s \in Turns :
           Cancelled[s] = IF Running(s) THEN [turn[s] EXCEPT !.cancelled = TRUE]
                                        ELSE turn[s]
  BY CancelledTyped DEF ShapeInv
<1>2. ASSUME NEW s \in Turns
      PROVE  /\ TurnPlaced(Cancelled[s]) /\ CalmTurn(turn[s], Cancelled[s])
             /\ IsLive(turn[s]) => Cancelled[s].cancelled
  <2>1. turn[s] \in TurnRecs /\ TurnPlaced(turn[s])
    BY DEF ShapeInv, TypeInv
  <2>2. CASE Running(s)
    <3> DEFINE r == [turn[s] EXCEPT !.cancelled = TRUE]
    <3>1. Cancelled[s] = r /\ IsLive(turn[s])
      BY <1>1, <2>2 DEF Running, IsLive
    <3>2. /\ r.pc = turn[s].pc /\ r.on = turn[s].on /\ r.pre = turn[s].pre
          /\ r.captured = turn[s].captured /\ r.cancelled /\ r.stage = turn[s].stage
          /\ r.span = turn[s].span /\ r.session = turn[s].session
      BY <2>1, Zenon DEF TurnRecs
    <3> HIDE DEF r
    <3>3. TurnPlaced(r)
      BY <2>1, <3>1, <3>2, SMT DEF TurnPlaced, IsLive
    <3>4. CalmTurn(turn[s], r)
      BY <3>2, SMT DEF CalmTurn, IsLive, Prompting, FirstTry, FellBack
    <3> QED BY <3>1, <3>2, <3>3, <3>4
  <2>3. CASE ~Running(s)
    BY <1>1, <2>1, <2>3, SameTurnIsCalm, Zenon DEF Running, IsLive
  <2> QED BY <2>2, <2>3
<1> QED BY <1>1, <1>2

\* A rewind's turns are held to nothing any more.
LEMMA FreedIsCalm ==
  ASSUME ShapeInv,
         turn' = [t \in Turns |-> [Cancelled[t] EXCEPT !.span = NoTurn.span]]
  PROVE  /\ turn' \in [Turns -> TurnRecs]
         /\ \A s \in Turns : TurnPlaced(turn'[s])
         /\ \A s \in Turns : CalmTurn(turn[s], turn'[s])
         /\ \A s \in Turns : IsLive(turn[s]) => turn'[s].cancelled
         /\ \A s \in Turns : turn'[s].span = Anywhere
<1>1. NoTurn.span = Anywhere /\ Anywhere \in Nat \X Nat
  BY NumbersAreNatural DEF NoTurn, Anywhere
<1>2. ASSUME NEW s \in Turns
      PROVE  /\ turn'[s] \in TurnRecs /\ TurnPlaced(turn'[s])
             /\ CalmTurn(turn[s], turn'[s]) /\ turn'[s].span = Anywhere
             /\ IsLive(turn[s]) => turn'[s].cancelled
  <2> DEFINE q == Cancelled[s]
             r == [q EXCEPT !.span = Anywhere]
  <2>1. q \in TurnRecs /\ TurnPlaced(q) /\ CalmTurn(turn[s], q)
        /\ (IsLive(turn[s]) => q.cancelled)
    BY CancelledIsCalm
  <2>2. turn'[s] = r
    BY <1>1
  <2> HIDE DEF q
  <2>3. r \in TurnRecs
    BY <1>1, <2>1, Zenon DEF TurnRecs
  <2>4. /\ r.pc = q.pc /\ r.on = q.on /\ r.pre = q.pre
        /\ r.captured = q.captured /\ r.cancelled = q.cancelled
        /\ r.stage = q.stage /\ r.session = q.session
        /\ r.span = Anywhere
    BY <2>1, Zenon DEF TurnRecs
  <2> HIDE DEF r
  <2>5. TurnPlaced(r)
    BY <2>1, <2>4, SMT DEF TurnPlaced
  <2>6. CalmTurn(turn[s], r)
    BY <2>1, <2>4, SMT DEF CalmTurn, IsLive, Prompting, FirstTry, FellBack
  <2> QED BY <2>1, <2>2, <2>3, <2>4, <2>5, <2>6
<1>3. turn' \in [Turns -> TurnRecs]
  <2>1. turn' = [t \in Turns |-> turn'[t]]
    OBVIOUS
  <2> QED BY <1>2, <2>1, Zenon
<1> QED BY <1>2, <1>3

LEMMA CancelIsQuiet ==
  ASSUME ShapeInv, Cancel
  PROVE  Quiet
<1>1. /\ UNCHANGED <<sessionVars, watch, conn, killer>> /\ pool' = pool
      /\ turn' = Cancelled
  BY DEF Cancel, procVars, connVars
<1> QED BY <1>1, CancelledIsCalm, NoConnMoves, NoKillMoves, WatchTyped, QuietFrom, Zenon

\* The connection in the pool is to be killed, or there is none.
LEMMA PoolsKill ==
  ASSUME ShapeInv
  PROVE  LET r == IF pool = None THEN Idle
                  ELSE [at |-> "begin", on |-> pool, cmd |-> None]
         IN  r \in KillRecs /\ KillPlaced(r) /\ PhaseOf(r) = "off"
<1>1. pool \in Conns \cup {None}
  BY DEF ShapeInv, TypeInv
<1>2. CASE pool = None
  BY <1>2, IdleTyped DEF KillPlaced, Idle, PhaseOf
<1>3. CASE pool # None
  BY <1>1, <1>3, SMT DEF KillRecs, KillPlaced, PhaseOf
<1> QED BY <1>2, <1>3

LEMMA SweepIsQuiet ==
  ASSUME ShapeInv, Sweep \/ SweepLook
  PROVE  Quiet
<1>1. UNCHANGED <<sessionVars, watch, conn, turn>> /\ pool' = pool
  BY DEF Sweep, SweepLook, procVars, connVars
<1>2. /\ killer' \in [Killers -> KillRecs]
      /\ \A k \in Killers : KillPlaced(killer'[k])
      /\ Phase' = Phase
  <2>1. CASE Sweep
    <3> DEFINE r == [killer[Sweeper] EXCEPT !.at = "look"]
    <3>1. killer' = [killer EXCEPT ![Sweeper] = r]
      BY <2>1 DEF Sweep
    <3>2. killer[Sweeper] \in KillRecs
      BY KillersDiffer DEF ShapeInv, TypeInv
    <3>3. r \in KillRecs /\ r.at = "look"
      BY <3>2, Zenon DEF KillRecs
    <3>4. KillPlaced(r)
      BY <3>3, SMT DEF KillPlaced
    <3> HIDE DEF r
    <3> QED BY <3>1, <3>3, <3>4, OneKill, KillersDiffer, Zenon
  <2>2. CASE SweepLook
    <3> DEFINE r == IF pool = None THEN Idle
                    ELSE [at |-> "begin", on |-> pool, cmd |-> None]
    <3>1. killer' = [killer EXCEPT ![Sweeper] = r]
      BY <2>2 DEF SweepLook
    <3>2. r \in KillRecs /\ KillPlaced(r)
      BY PoolsKill
    <3> HIDE DEF r
    <3> QED BY <3>1, <3>2, OneKill, KillersDiffer, Zenon
  <2> QED BY <2>1, <2>2
<1> QED BY <1>1, <1>2, NoConnMoves, NoTurnMoves, WatchTyped, QuietFrom, Zenon

\* The closer takes the connection out of the pool; a rewind is over with it.
LEMMA RemoveTyped ==
  ASSUME ShapeInv, Remove
  PROVE  /\ killer' \in [Killers -> KillRecs]
         /\ \A k \in Killers : KillPlaced(killer'[k])
         /\ Phase' = "off"
         /\ pool' = None
<1> DEFINE r == IF pool = None THEN Idle
                ELSE [at |-> "begin", on |-> pool, cmd |-> None]
<1>1. killer' = [killer EXCEPT ![Closer] = r] /\ pool' = None
  BY DEF Remove
<1>2. r \in KillRecs /\ KillPlaced(r) /\ PhaseOf(r) = "off"
  BY PoolsKill
<1> HIDE DEF r
<1>3. killer'[Closer] = r
  BY <1>1, <1>2, KillersDiffer, SMT DEF ShapeInv, TypeInv
<1>4. Phase' = "off"
  BY <1>2, <1>3 DEF Phase
<1> QED BY <1>1, <1>2, <1>4, OneKill, KillersDiffer, Zenon

LEMMA CloseIsQuiet ==
  ASSUME ShapeInv, Close
  PROVE  Quiet
<1>1. /\ UNCHANGED <<sessionVars, watch, conn, turn>> /\ Remove
      /\ killer[Closer].at = "off"
  BY DEF Close, procVars
<1>2. Phase = "off"
  BY <1>1 DEF Phase, PhaseOf
<1>3. pool' \in {pool, None} /\ Phase' = Phase
  BY <1>1, <1>2, RemoveTyped
<1> QED BY <1>1, <1>3, RemoveTyped, NoConnMoves, NoTurnMoves, WatchTyped, QuietFrom, Zenon

LEMMA FaultIsQuiet ==
  ASSUME ShapeInv, NEW p \in Procs, Fault(p)
  PROVE  Quiet
<1> DEFINE c == watch[p]
<1>1. /\ UNCHANGED <<sessionVars, watch, turn, killer>> /\ pool' = pool
      /\ UNCHANGED conn \/ conn' = [conn EXCEPT ![c].tool = TRUE]
  BY DEF Fault
<1>2. c \in Conns \cup {None}
  BY DEF ShapeInv, TypeInv
<1> HIDE DEF c
<1>3. /\ conn' \in [Conns -> ConnRecs] /\ FlagSteps
      /\ \A d \in Conns : CalmConn(d)
  <2>1. CASE UNCHANGED conn
    BY <2>1, NoConnMoves
  <2>2. CASE c \in Conns /\ conn' = [conn EXCEPT ![c].tool = TRUE]
    BY <2>2, OtherFields
  <2>3. CASE c = None /\ conn' = [conn EXCEPT ![c].tool = TRUE]
    <3>1. conn' = conn
      BY <2>3, NumbersAreNatural, SMT DEF ShapeInv, TypeInv
    <3> QED BY <3>1, NoConnMoves
  <2> QED BY <1>1, <1>2, <2>1, <2>2, <2>3
<1> QED BY <1>1, <1>3, NoTurnMoves, NoKillMoves, WatchTyped, QuietFrom, Zenon

-----------------------------------------------------------------------------
(***************************************************************************)
(* Which sessions a turn may meet.  A session that was retired by the last *)
(* rewind is not fresh; a turn may meet those above its lower bound.       *)
(***************************************************************************)
Fresh(x) == x = None \/ x > retired
Lower(r) == r.span[1]
Upper(r) == r.span[2]
Meets(r, x) == x = None \/ x > Lower(r)
IsRunning(r) == IsLive(r) /\ ~r.cancelled

\* The registry has one run; no two turns run.
OneRuns == \A t, u \in Turns :
  IsRunning(turn[t]) /\ IsRunning(turn[u]) => t = u

\* The first turn has not opened a session in its first tries.
FirstTurn == \A t \in Turns :
  FirstTry(turn[t]) /\ ~HasConversationHistory(t) => lastSession = 0

\* Only a conversation without history falls back: nothing of it was retired.
FallbackInv == \A t \in Turns :
  FellBack(turn[t]) => retired = 0 \/ turn[t].cancelled

\* Only sessions that were opened are known.
KnownInv ==
  /\ retired <= lastSession /\ lastSession <= MaxSessions
  /\ saved <= lastSession
  /\ \A c \in Conns : SID(c) <= lastSession
  /\ \A t \in Turns :
       /\ turn[t].captured <= lastSession /\ turn[t].pre <= lastSession
       /\ Lower(turn[t]) <= retired

\* A turn is held to the persisted session as long as there is one; a turn
\* there is during a rewind is held to nothing.
SpanOf(t) ==
  /\ Upper(turn[t]) # MaxSessions =>
       saved # None /\ lastSession = Upper(turn[t])
  /\ Phase # "off" => turn[t].span = Anywhere

SpanInv == \A t \in Turns : IsLive(turn[t]) => SpanOf(t)

\* Between rewinds, what the next turn will find is fresh.
SavedFresh == Phase # "drain" => Fresh(saved)

PoolFresh == Phase = "off" /\ pool # None =>
  /\ Fresh(SID(pool))
  /\ \A u \in Turns :
       IsRunning(turn[u]) /\ turn[u].on = pool => Fresh(turn[u].pre)

\* So is what is on its way to be saved, unless its turn was cancelled.
HeldBy(t) ==
  /\ Fresh(turn[t].captured)
  /\ turn[t].pc = "emit" =>
       /\ Fresh(SID(turn[t].on))
       /\ \A u \in Turns : IsRunning(turn[u]) /\ turn[u].on = turn[t].on =>
            Fresh(turn[u].pre)

HeldFresh == \A t \in Turns : ~turn[t].cancelled => HeldBy(t)

\* What a turn may find by the end of its life, wherever it looks.
Around(t) ==
  /\ Meets(turn[t], saved)
  /\ pool # None => Meets(turn[t], SID(pool))
  /\ turn[t].on # None => Meets(turn[t], SID(turn[t].on))
  /\ \A u \in Turns : IsRunning(turn[u]) =>
       /\ Meets(turn[t], turn[u].pre)
       /\ turn[u].on # None => Meets(turn[t], SID(turn[u].on))

AroundInv == \A t \in Turns : IsLive(turn[t]) => Around(t)

\* What it has read when it prompts.
ReadInv == \A t \in Turns : Prompting(turn[t]) =>
  turn[t].session \in Lower(turn[t]) + 1 .. Upper(turn[t])

SessionInv ==
  /\ OneRuns /\ FirstTurn /\ FallbackInv /\ KnownInv /\ SpanInv
  /\ SavedFresh /\ PoolFresh /\ HeldFresh /\ AroundInv /\ ReadInv

-----------------------------------------------------------------------------
(* Calm steps keep all of it.                                              *)

LEMMA SpansTyped ==
  /\ \A r \in TurnRecs : Lower(r) \in Nat /\ Upper(r) \in Nat
  /\ \A r : r.span = Anywhere => Lower(r) = 0 /\ Upper(r) = MaxSessions
  /\ \A r, q : r.span = q.span => Lower(r) = Lower(q) /\ Upper(r) = Upper(q)
<1>1. \A r \in TurnRecs : Lower(r) \in Nat /\ Upper(r) \in Nat
  BY DEF TurnRecs, Lower, Upper
<1> QED BY <1>1 DEF Lower, Upper, Anywhere

LEMMA CalmRuns ==
  ASSUME NEW r, NEW q, CalmTurn(r, q)
  PROVE  /\ IsRunning(q) => IsRunning(r)
         /\ q.on \in {r.on, None} /\ q.pre \in {r.pre, None}
BY SMT DEF CalmTurn, IsRunning, IsLive

LEMMA CalmKeepsOneRuns ==
  ASSUME OneRuns, CalmData
  PROVE  OneRuns'
<1>1. \A t \in Turns : IsRunning(turn'[t]) => IsRunning(turn[t])
  BY CalmRuns DEF CalmData
<1> QED BY <1>1, Zenon DEF OneRuns

LEMMA CalmKeepsFirstTurn ==
  ASSUME FirstTurn, CalmData
  PROVE  FirstTurn'
<1> SUFFICES ASSUME NEW t \in Turns, FirstTry(turn'[t]),
                    \A s \in Turns \ {t} : turn'[s].pc = "idle"
             PROVE  lastSession = 0
  BY Zenon DEF FirstTurn, HasConversationHistory, CalmData
<1>1. \A s \in Turns : CalmTurn(turn[s], turn'[s])
  BY DEF CalmData
<1>2. \A s \in Turns \ {t} : turn[s].pc = "idle"
  BY <1>1 DEF CalmTurn
<1>3. FirstTry(turn[t])
  BY <1>1 DEF CalmTurn
<1> QED BY <1>2, <1>3, Zenon DEF FirstTurn, HasConversationHistory

LEMMA CalmKeepsFallback ==
  ASSUME ShapeInv, FallbackInv, KnownInv, Calm
  PROVE  FallbackInv'
<1> SUFFICES ASSUME NEW t \in Turns, FellBack(turn'[t])
             PROVE  retired = 0 \/ turn'[t].cancelled
  BY Zenon DEF FallbackInv, Calm, CalmData
<1>1. CalmTurn(turn[t], turn'[t])
  BY DEF Calm, CalmData
<1>2. CASE FellBack(turn[t])
  <2>1. turn[t].cancelled => turn'[t].cancelled
    BY <1>1 DEF CalmTurn, FellBack, Early
  <2> QED BY <1>2, <2>1, Zenon DEF FallbackInv
<1>3. CASE lastSession = 0
  BY <1>3, SMT DEF KnownInv, ShapeInv, TypeInv
<1> QED BY <1>1, <1>2, <1>3 DEF CalmTurn

LEMMA CalmKeepsKnown ==
  ASSUME ShapeInv, KnownInv, Calm
  PROVE  KnownInv'
<1>1. lastSession \in Nat /\ retired \in Nat
  BY DEF ShapeInv, TypeInv
<1>2. \A c \in Conns : SID(c)' <= lastSession
  BY <1>1, SMT DEF Calm, CalmData, CalmConn, KnownInv, SID, None
<1>3. ASSUME NEW t \in Turns
      PROVE  /\ turn'[t].captured <= lastSession /\ turn'[t].pre <= lastSession
             /\ Lower(turn'[t]) <= retired
  <2>1. CalmTurn(turn[t], turn'[t])
    BY DEF Calm, CalmData
  <2>2. turn'[t].captured = turn[t].captured /\ turn'[t].pre \in {turn[t].pre, 0}
    BY <2>1 DEF CalmTurn, None
  <2>3. Lower(turn'[t]) \in {Lower(turn[t]), 0}
    BY <2>1, SpansTyped, Zenon DEF CalmTurn
  <2> QED BY <1>1, <2>2, <2>3, SMT DEF KnownInv
<1> QED BY <1>2, <1>3, Zenon DEF KnownInv, Calm, CalmData

LEMMA CalmKeepsSpan ==
  ASSUME SpanInv, Calm
  PROVE  SpanInv'
<1> SUFFICES ASSUME NEW t \in Turns, IsLive(turn'[t])
             PROVE  SpanOf(t)'
  BY Zenon DEF SpanInv
<1>1. CalmTurn(turn[t], turn'[t]) /\ Phase' = Phase
      /\ saved' = saved /\ lastSession' = lastSession
  BY DEF Calm, CalmData
<1>2. IsLive(turn[t]) /\ (~turn'[t].cancelled => ~turn[t].cancelled)
  BY <1>1, SMT DEF CalmTurn, IsLive
<1>3. CASE turn'[t].span = turn[t].span
  BY <1>1, <1>2, <1>3, SpansTyped, Zenon DEF SpanInv, SpanOf
<1>4. CASE turn'[t].span = Anywhere
  BY <1>1, <1>4, SpansTyped, Zenon DEF SpanOf
<1> QED BY <1>1, <1>3, <1>4 DEF CalmTurn

LEMMA CalmKeepsSavedFresh ==
  ASSUME SavedFresh, Calm
  PROVE  SavedFresh'
BY Zenon DEF SavedFresh, Calm, CalmData, Fresh

\* Fresh or not, dropping a session is always right.
LEMMA DroppedIsFresh ==
  /\ Fresh(None)
  /\ \A r : Meets(r, None)
  /\ \A x, y : Fresh(x) /\ y \in {x, None} => Fresh(y)
  /\ \A r, x, y : Meets(r, x) /\ y \in {x, None} => Meets(r, y)
  /\ \A r, q, x : Meets(r, x) /\ x \in Nat /\ q.span \in {r.span, Anywhere} => Meets(q, x)
<1>1. \A r, q, x : Meets(r, x) /\ x \in Nat /\ q.span \in {r.span, Anywhere} => Meets(q, x)
  <2> TAKE r, q, x
  <2> HAVE Meets(r, x) /\ x \in Nat /\ q.span \in {r.span, Anywhere}
  <2>1. CASE q.span = r.span
    BY <2>1, SpansTyped, Zenon DEF Meets
  <2>2. CASE q.span = Anywhere
    <3>1. Lower(q) = 0
      BY <2>2, SpansTyped, Zenon
    <3> QED BY <3>1, SMT DEF Meets, None
  <2> QED BY <2>1, <2>2
<1> QED BY <1>1, Zenon DEF Fresh, Meets

LEMMA SessionsTyped ==
  ASSUME ShapeInv
  PROVE  /\ \A c \in Conns : SID(c) \in Nat
         /\ \A t \in Turns : turn[t].pre \in Nat /\ turn[t].captured \in Nat
         /\ saved \in Nat /\ retired \in Nat
         /\ pool \in Conns \cup {None}
         /\ \A t \in Turns : turn[t].on \in Conns \cup {None}
<1>1. \A c \in Conns : conn[c] \in ConnRecs
  BY DEF ShapeInv, TypeInv
<1>2. \A t \in Turns : turn[t] \in TurnRecs
  BY DEF ShapeInv, TypeInv
<1>3. \A c \in Conns : SID(c) \in Nat
  BY <1>1, Zenon DEF SID, ConnRecs
<1>4. \A t \in Turns : turn[t].pre \in Nat /\ turn[t].captured \in Nat
          /\ turn[t].on \in Conns \cup {None}
  BY <1>2, Zenon DEF TurnRecs
<1> QED BY <1>3, <1>4 DEF ShapeInv, TypeInv

LEMMA CalmKeepsPoolFresh ==
  ASSUME ShapeInv, PoolFresh, Calm
  PROVE  PoolFresh'
<1> SUFFICES ASSUME Phase = "off", pool' # None
             PROVE  /\ Fresh(NewSID(pool'))
                    /\ \A u \in Turns : IsRunning(turn'[u]) /\ turn'[u].on = pool' =>
                         Fresh(turn'[u].pre)
  BY Zenon DEF PoolFresh, Calm, CalmData, Fresh, SID, NewSID
<1>1. pool' = pool /\ pool \in Conns
  BY SessionsTyped DEF Calm, CalmData
<1>2. NewSID(pool) \in {SID(pool), None}
  BY <1>1 DEF Calm, CalmData, CalmConn, SID, NewSID
<1>3. Fresh(SID(pool))
  BY <1>1, Zenon DEF PoolFresh
<1>4. Fresh(NewSID(pool))
  BY <1>2, <1>3, DroppedIsFresh, Zenon
<1>5. ASSUME NEW u \in Turns, IsRunning(turn'[u]), turn'[u].on = pool'
      PROVE  Fresh(turn'[u].pre)
  <2>1. CalmTurn(turn[u], turn'[u])
    BY DEF Calm, CalmData
  <2>2. IsRunning(turn[u]) /\ turn[u].on = pool /\ turn'[u].pre \in {turn[u].pre, None}
    BY <1>1, <1>5, <2>1, CalmRuns, Zenon
  <2>3. Fresh(turn[u].pre)
    BY <1>1, <2>2, Zenon DEF PoolFresh
  <2> QED BY <2>2, <2>3, DroppedIsFresh, Zenon
<1>6. Fresh(NewSID(pool'))
  BY <1>1, <1>4, Zenon DEF Fresh, Calm, CalmData, NewSID
<1> QED BY <1>5, <1>6

LEMMA CalmKeepsHeld ==
  ASSUME ShapeInv, HeldFresh, Calm
  PROVE  HeldFresh'
<1> SUFFICES ASSUME NEW t \in Turns, ~turn'[t].cancelled
             PROVE  HeldBy(t)'
  BY Zenon DEF HeldFresh, Calm, CalmData
<1>1. CalmTurn(turn[t], turn'[t]) /\ retired' = retired
  BY DEF Calm, CalmData
<1>2. CASE ~turn[t].cancelled
  <2>1. HeldBy(t)
    BY <1>2 DEF HeldFresh
  <2>2. Fresh(turn'[t].captured)
    BY <1>1, <2>1 DEF CalmTurn, HeldBy
  <2>3. ASSUME turn'[t].pc = "emit"
        PROVE  /\ Fresh(NewSID(turn'[t].on))
               /\ \A u \in Turns : IsRunning(turn'[u]) /\ turn'[u].on = turn'[t].on =>
                    Fresh(turn'[u].pre)
    <3>1. turn[t].pc = "emit" /\ turn'[t].on = turn[t].on
      BY <1>1, <2>3 DEF CalmTurn
    <3>2. turn[t].on \in Conns
      BY <3>1 DEF ShapeInv, TurnPlaced
    <3>3. NewSID(turn[t].on) \in {SID(turn[t].on), None}
      <4> DEFINE c == turn[t].on
      <4>1. conn'[c].acpSID \in {conn[c].acpSID, None}
        BY <3>2 DEF Calm, CalmData, CalmConn
      <4> QED BY <3>1, <4>1 DEF SID, NewSID
    <3>4. Fresh(NewSID(turn'[t].on))
      BY <2>1, <3>1, <3>3, DroppedIsFresh, Zenon DEF HeldBy
    <3>5. ASSUME NEW u \in Turns, IsRunning(turn'[u]), turn'[u].on = turn'[t].on
          PROVE  Fresh(turn'[u].pre)
      <4>1. CalmTurn(turn[u], turn'[u])
        BY DEF Calm, CalmData
      <4>2. /\ IsRunning(turn[u]) /\ turn'[u].on \in {turn[u].on, None}
            /\ turn'[u].pre \in {turn[u].pre, None}
        BY <3>5, <4>1, CalmRuns, Zenon
      <4>3. turn'[u].on # None
        BY <3>1, <3>2, <3>5, NumbersAreNatural
      <4>4. turn[u].on = turn[t].on
        BY <3>1, <3>5, <4>2, <4>3
      <4>5. Fresh(turn[u].pre)
        BY <2>1, <3>1, <4>2, <4>4, Zenon DEF HeldBy
      <4> QED BY <4>2, <4>5, DroppedIsFresh, Zenon
    <3> QED BY <3>4, <3>5
  <2> QED BY <1>1, <2>2, <2>3, Zenon DEF HeldBy, Fresh, SID, NewSID
<1>3. CASE turn[t].cancelled
  <2>1. turn'[t].captured = None /\ turn'[t].pc = "over"
    BY <1>1, <1>3 DEF CalmTurn
  <2> QED BY <2>1, DroppedIsFresh DEF HeldBy, Fresh
<1> QED BY <1>2, <1>3

LEMMA CalmKeepsAround ==
  ASSUME ShapeInv, ShapeInv', AroundInv, CalmData
  PROVE  AroundInv'
<1> SUFFICES ASSUME NEW t \in Turns, IsLive(turn'[t])
             PROVE  Around(t)'
  BY Zenon DEF AroundInv
<1>1. \A s \in Turns : CalmTurn(turn[s], turn'[s])
  BY DEF CalmData
<1>2. Around(t) /\ turn'[t].span \in {turn[t].span, Anywhere}
  <2>1. IsLive(turn[t]) /\ turn'[t].span \in {turn[t].span, Anywhere}
    BY <1>1, Zenon DEF CalmTurn
  <2> QED BY <2>1 DEF AroundInv
<1>3. \A x \in Nat : Meets(turn[t], x) => Meets(turn'[t], x)
  BY <1>2, DroppedIsFresh, Zenon
<1>4. \A c \in Conns : Meets(turn[t], SID(c)) => Meets(turn'[t], NewSID(c))
  <2> SUFFICES ASSUME NEW c \in Conns, Meets(turn[t], SID(c))
               PROVE  Meets(turn'[t], NewSID(c))
    OBVIOUS
  <2>1. NewSID(c) \in {SID(c), None} /\ SID(c) \in Nat
    BY SessionsTyped DEF CalmData, CalmConn, SID, NewSID
  <2>2. Meets(turn'[t], SID(c))
    BY <1>3, <2>1
  <2> QED BY <2>1, <2>2, DroppedIsFresh, Zenon
<1>5. \A c \in Conns \cup {None} : \A d : d \in {c, None} /\ d # None /\
        (c # None => Meets(turn[t], SID(c))) => Meets(turn'[t], NewSID(d))
  BY <1>4, NumbersAreNatural
<1>6. Meets(turn'[t], saved')
  <2>1. Meets(turn'[t], saved)
    BY <1>2, <1>3, SessionsTyped DEF Around
  <2> QED BY <2>1, DroppedIsFresh, Zenon DEF CalmData
<1>7. pool' # None => Meets(turn'[t], NewSID(pool'))
  BY <1>2, <1>5, SessionsTyped DEF Around, CalmData
<1>8. ASSUME NEW u \in Turns
      PROVE  turn'[u].on \in {turn[u].on, None} /\ turn[u].on \in Conns \cup {None}
             /\ turn[u].pre \in Nat
  BY <1>1, SessionsTyped DEF CalmTurn
<1>9. turn'[t].on # None => Meets(turn'[t], NewSID(turn'[t].on))
  BY <1>2, <1>5, <1>8, Zenon DEF Around
<1>10. ASSUME NEW u \in Turns, IsRunning(turn'[u])
       PROVE  /\ Meets(turn'[t], turn'[u].pre)
              /\ turn'[u].on # None => Meets(turn'[t], NewSID(turn'[u].on))
  <2>1. IsRunning(turn[u]) /\ turn'[u].pre \in {turn[u].pre, None}
    BY <1>1, <1>10, CalmRuns, Zenon
  <2>2. Meets(turn[t], turn[u].pre) /\ (turn[u].on # None => Meets(turn[t], SID(turn[u].on)))
    BY <1>2, <2>1, Zenon DEF Around
  <2>3. Meets(turn'[t], turn[u].pre)
    BY <1>3, <1>8, <2>2
  <2>4. Meets(turn'[t], turn'[u].pre)
    BY <2>1, <2>3, DroppedIsFresh, Zenon
  <2>5. turn'[u].on # None => Meets(turn'[t], NewSID(turn'[u].on))
    BY <1>5, <1>8, <2>2, Zenon
  <2> QED BY <2>4, <2>5
<1> QED BY <1>6, <1>7, <1>9, <1>10, Zenon DEF Around, SID, NewSID

LEMMA CalmKeepsRead ==
  ASSUME ShapeInv, KnownInv, SpanInv, AroundInv, ReadInv, CalmData
  PROVE  ReadInv'
<1> SUFFICES ASSUME NEW t \in Turns, Prompting(turn'[t])
             PROVE  turn'[t].session \in Lower(turn'[t]) + 1 .. Upper(turn'[t])
  BY Zenon DEF ReadInv
<1> DEFINE x == turn'[t].session
<1>1. CalmTurn(turn[t], turn'[t]) /\ turn[t] \in TurnRecs
  BY DEF CalmData, ShapeInv, TypeInv
<1>2. /\ Lower(turn[t]) \in Nat /\ Upper(turn[t]) \in Nat
      /\ lastSession \in Nat /\ MaxSessions \in Nat
  BY <1>1, SpansTyped, NumbersAreNatural DEF ShapeInv, TypeInv
<1>3. lastSession <= Upper(turn[t]) /\ Upper(turn[t]) <= MaxSessions
  <2>1. IsLive(turn[t])
    BY <1>1 DEF CalmTurn, Prompting, IsLive
  <2>2. SpanOf(t) /\ lastSession <= MaxSessions
    BY <2>1 DEF SpanInv, KnownInv
  <2> HIDE DEF Upper
  <2> QED BY <1>2, <2>2, SMT DEF SpanOf
<1>4. x \in Lower(turn[t]) + 1 .. Upper(turn[t])
  <2>1. CASE Prompting(turn[t]) /\ x = turn[t].session
    BY <2>1 DEF ReadInv
  <2>2. CASE turn[t].pc = "read" /\ x = SID(turn[t].on) /\ x # None
    <3>1. turn[t].on \in Conns /\ IsLive(turn[t])
      BY <2>2 DEF ShapeInv, TurnPlaced, IsLive
    <3>2. SID(turn[t].on) \in Nat /\ SID(turn[t].on) <= lastSession
      BY <3>1, SessionsTyped DEF KnownInv
    <3>3. turn[t].on # None /\ Around(t)
      BY <3>1, NumbersAreNatural DEF AroundInv
    <3>4. Meets(turn[t], SID(turn[t].on))
      BY <3>3 DEF Around
    <3>5. SID(turn[t].on) > Lower(turn[t])
      BY <2>2, <3>4 DEF Meets
    <3> HIDE DEF Lower, Upper, SID, x
    <3> QED BY <1>2, <1>3, <2>2, <3>2, <3>5
  <2> QED BY <1>1, <2>1, <2>2, Zenon DEF CalmTurn
<1>5. CASE turn'[t].span = turn[t].span
  <2>1. Lower(turn'[t]) = Lower(turn[t]) /\ Upper(turn'[t]) = Upper(turn[t])
    BY <1>5, SpansTyped, Zenon
  <2> QED BY <1>4, <2>1
<1>6. CASE turn'[t].span = Anywhere
  <2>1. Lower(turn'[t]) = 0 /\ Upper(turn'[t]) = MaxSessions
    BY <1>6, SpansTyped, Zenon
  <2> HIDE DEF Lower, Upper, x
  <2> QED BY <1>2, <1>3, <1>4, <2>1 DEF x
<1> QED BY <1>1, <1>5, <1>6 DEF CalmTurn

LEMMA CalmKeeps ==
  ASSUME ShapeInv, SessionInv, Quiet
  PROVE  SessionInv'
BY CalmKeepsOneRuns, CalmKeepsFirstTurn, CalmKeepsFallback, CalmKeepsKnown, CalmKeepsSpan,
  CalmKeepsSavedFresh, CalmKeepsPoolFresh, CalmKeepsHeld, CalmKeepsAround, CalmKeepsRead,
  Zenon DEF SessionInv, Quiet, Calm

-----------------------------------------------------------------------------
(***************************************************************************)
(* The other steps, each with what it moves.                               *)
(***************************************************************************)
Good == ShapeInv' /\ FlagSteps /\ SessionInv'

LEMMA QuietIsGood ==
  ASSUME ShapeInv, SessionInv, Quiet
  PROVE  Good
BY CalmKeeps DEF Good, Quiet

LEMMA RewindingPhase ==
  /\ Rewinding <=> Phase # "off"
  /\ Phase \in {"off", "drain", "remove"}
BY SMT DEF Rewinding, Phase, PhaseOf

LEMMA RunningTurns ==
  \A t : Running(t) <=> IsRunning(turn[t])
BY DEF Running, IsRunning, IsLive

\* What does not change keeps its shape.
LEMMA ShapeFrom ==
  ASSUME ShapeInv, pool' \in Conns \cup {None},
         watch' \in [Procs -> Conns \cup {None}],
         conn' \in [Conns -> ConnRecs],
         killer' \in [Killers -> KillRecs],
         \A k \in Killers : KillPlaced(killer'[k]),
         turn' \in [Turns -> TurnRecs],
         \A s \in Turns : TurnPlaced(turn'[s]),
         lastSession' \in Nat, saved' \in Nat, retired' \in Nat
  PROVE  ShapeInv'
BY Zenon DEF ShapeInv, TypeInv

LEMMA BeginTurnIsGood ==
  ASSUME ShapeInv, SessionInv, NEW t \in Turns, BeginTurn(t)
  PROVE  Good
<1> DEFINE low == IF Rewinding THEN 0 ELSE retired
<1> DEFINE high == IF saved # None /\ ~Rewinding THEN lastSession ELSE MaxSessions
<1> DEFINE r == [turn[t] EXCEPT !.pc = "get", !.span = <<low, high>>]
<1>1. /\ UNCHANGED <<pool, conn, proc, watch, lastSession, saved, retired, killer>>
      /\ turn[t].pc = "idle" /\ ~SessionRuns
      /\ turn' = [turn EXCEPT ![t].pc = "get", ![t].span = <<low, high>>]
  BY DEF BeginTurn, connVars, procVars, sessionVars
<1>2. turn[t] \in TurnRecs /\ TurnPlaced(turn[t]) /\ TypeInv
  BY DEF ShapeInv, TypeInv
<1>3. turn'[t] = r /\ \A s \in Turns \ {t} : turn'[s] = turn[s]
  BY <1>1, <1>2, SMT DEF TypeInv
<1>4. low \in Nat /\ high \in Nat
  BY <1>2, NumbersAreNatural DEF TypeInv
<1>5. r \in TurnRecs
  <2>1. <<low, high>> \in Nat \X Nat /\ "get" \in Steps
    BY <1>4 DEF Steps
  <2> HIDE DEF low, high
  <2> QED BY <1>2, <2>1, Zenon DEF TurnRecs
<1>6. turn' \in [Turns -> TurnRecs]
  <2> HIDE DEF r, low, high
  <2> QED BY <1>1, <1>2, <1>3, <1>5, SMT DEF TypeInv
<1>7. /\ r.pc = "get" /\ r.on = turn[t].on /\ r.pre = turn[t].pre
      /\ r.captured = turn[t].captured /\ r.cancelled = turn[t].cancelled
      /\ r.stage = turn[t].stage /\ r.span = <<low, high>>
  <2> HIDE DEF low, high
  <2> QED BY <1>2, Zenon DEF TurnRecs
<1>8. /\ r.on = None /\ r.pre = None /\ r.captured = None /\ ~r.cancelled
      /\ r.stage = "first" /\ Lower(r) = low /\ Upper(r) = high
      /\ r.span = <<low, high>>
  <2> HIDE DEF low, high
  <2>1. Lower(r) = low /\ Upper(r) = high
    BY <1>7 DEF Lower, Upper
  <2> HIDE DEF r
  <2> QED BY <1>1, <1>2, <1>7, <2>1 DEF TurnPlaced
<1> HIDE DEF r
<1>9. TurnPlaced(r)
  BY <1>7, <1>8, SMT DEF TurnPlaced
<1>10. ShapeInv' /\ FlagSteps
  BY <1>1, <1>3, <1>6, <1>9, OneTurn, NoConnMoves, NoKillMoves, WatchTyped, ShapeFrom,
    Zenon DEF ShapeInv, TypeInv
<1>11. \A s \in Turns : ~IsRunning(turn[s])
  BY <1>1, RunningTurns, Zenon DEF SessionRuns
<1>12. Phase' = Phase
  BY <1>1 DEF Phase
<1>13. OneRuns'
  BY <1>3, <1>11, Zenon DEF OneRuns
<1>14. FirstTurn'
  <2> SUFFICES ASSUME NEW s \in Turns, FirstTry(turn'[s]),
                      \A u \in Turns \ {s} : turn'[u].pc = "idle"
               PROVE  lastSession = 0
    BY <1>1, Zenon DEF FirstTurn, HasConversationHistory
  <2>1. s = t
    BY <1>3, <1>7
  <2>2. FirstTry(turn[t])
    BY <1>1, <1>7, <1>8 DEF FirstTry, Early
  <2>3. \A u \in Turns \ {t} : turn[u].pc = "idle"
    BY <1>3, <2>1
  <2> QED BY <2>2, <2>3, Zenon DEF SessionInv, FirstTurn, HasConversationHistory
<1>15. FallbackInv'
  <2> SUFFICES ASSUME NEW s \in Turns, FellBack(turn'[s])
               PROVE  retired = 0 \/ turn'[s].cancelled
    BY <1>1, Zenon DEF FallbackInv
  <2>1. s # t /\ turn'[s] = turn[s]
    BY <1>3, <1>8 DEF FellBack
  <2> QED BY <2>1, Zenon DEF SessionInv, FallbackInv
<1>16. KnownInv'
  <2>1. /\ retired <= lastSession /\ lastSession <= MaxSessions
        /\ saved <= lastSession
        /\ \A c \in Conns : SID(c) <= lastSession
        /\ \A s \in Turns :
             /\ turn[s].captured <= lastSession /\ turn[s].pre <= lastSession
             /\ Lower(turn[s]) <= retired
    BY DEF SessionInv, KnownInv
  <2>2. Lower(r) <= retired /\ r.captured <= lastSession /\ r.pre <= lastSession
    BY <1>2, <1>8 DEF TypeInv, None
  <2>3. \A c \in Conns : SID(c)' = SID(c)
    BY <1>1 DEF SID
  <2> QED BY <1>1, <1>3, <2>1, <2>2, <2>3, Zenon DEF KnownInv
<1>17. SpanInv'
  <2>1. ASSUME NEW s \in Turns, s # t, IsLive(turn'[s])
        PROVE  SpanOf(s)'
    BY <1>1, <1>3, <1>12, <2>1, Zenon DEF SessionInv, SpanInv, SpanOf
  <2>2. SpanOf(t)'
    <3>1. Upper(r) # MaxSessions => saved # None /\ lastSession = Upper(r)
      BY <1>8
    <3>2. Phase # "off" => r.span = Anywhere
      BY <1>8, RewindingPhase DEF Anywhere
    <3> HIDE DEF low, high
    <3> QED BY <1>1, <1>3, <1>12, <3>1, <3>2, Zenon DEF SpanOf
  <2> QED BY <2>1, <2>2, Zenon DEF SpanInv
<1>18. SavedFresh'
  BY <1>1, <1>12, Zenon DEF SessionInv, SavedFresh, Fresh
<1>19. PoolFresh'
  <2> SUFFICES ASSUME Phase = "off", pool # None
               PROVE  /\ Fresh(SID(pool))
                      /\ \A u \in Turns : ~(IsRunning(turn'[u]) /\ turn'[u].on = pool)
    BY <1>1, <1>12, Zenon DEF PoolFresh, Fresh, SID
  <2>1. Fresh(SID(pool))
    BY Zenon DEF SessionInv, PoolFresh
  <2> QED BY <1>3, <1>8, <1>11, <2>1, Zenon
<1>20. HeldFresh'
  <2>1. ASSUME NEW s \in Turns, s # t, ~turn'[s].cancelled
        PROVE  HeldBy(s)'
    <3>1. HeldBy(s) /\ turn'[s] = turn[s]
      BY <1>3, <2>1, Zenon DEF SessionInv, HeldFresh
    <3>2. turn[s].pc = "emit" => turn[s].on # None
      BY NumbersAreNatural DEF ShapeInv, TurnPlaced
    <3>3. turn[s].pc = "emit" =>
            \A u \in Turns : ~(IsRunning(turn'[u]) /\ turn'[u].on = turn[s].on)
      BY <1>3, <1>8, <1>11, <3>2, Zenon
    <3> QED BY <1>1, <3>1, <3>3, Zenon DEF HeldBy, Fresh, SID
  <2>2. HeldBy(t)'
    BY <1>3, <1>7, <1>8 DEF HeldBy, Fresh
  <2> QED BY <2>1, <2>2, Zenon DEF HeldFresh
<1>21. AroundInv'
  <2>1. ASSUME NEW s \in Turns, s # t, IsLive(turn'[s])
        PROVE  Around(s)'
    <3>1. Around(s) /\ turn'[s] = turn[s]
      BY <1>3, <2>1, Zenon DEF SessionInv, AroundInv
    <3>2. Meets(turn[s], None)
      BY DroppedIsFresh
    <3>3. ASSUME NEW u \in Turns, IsRunning(turn'[u])
          PROVE  /\ Meets(turn[s], turn'[u].pre)
                 /\ turn'[u].on # None => Meets(turn[s], SID(turn'[u].on))
      BY <1>3, <1>8, <1>11, <3>2, <3>3, Zenon
    <3> QED BY <1>1, <3>1, <3>3, Zenon DEF Around, SID
  <2>2. Around(t)'
    <3> DEFINE Right(x) == x \in Nat /\ (Fresh(x) \/ Rewinding)
    <3>1. ASSUME NEW x, Right(x)
          PROVE  Meets(r, x)
      <4>1. CASE Rewinding
        <5>1. Lower(r) = 0
          BY <1>8, <4>1
        <5> QED BY <3>1, <5>1, SMT DEF Meets, None
      <4>2. CASE Fresh(x) /\ ~Rewinding
        BY <1>8, <4>2 DEF Meets, Fresh
      <4> QED BY <3>1, <4>1, <4>2
    <3>2. Phase = "off" \/ Rewinding
      BY RewindingPhase
    <3>3. Right(saved)
      BY <3>2, SessionsTyped DEF SessionInv, SavedFresh
    <3>4. pool # None => Right(SID(pool))
      BY <3>2, SessionsTyped DEF SessionInv, PoolFresh
    <3>5. Right(None)
      BY NumbersAreNatural DEF Fresh
    <3> HIDE DEF Right
    <3>6. \A u \in Turns : IsRunning(turn'[u]) => turn'[u].pre = None /\ turn'[u].on = None
      BY <1>3, <1>8, <1>11, Zenon
    <3> QED BY <1>1, <1>3, <1>8, <3>1, <3>3, <3>4, <3>5, <3>6, Zenon
          DEF Around, SID
  <2> QED BY <2>1, <2>2, Zenon DEF AroundInv
<1>22. ReadInv'
  BY <1>3, <1>7, Zenon DEF SessionInv, ReadInv, Prompting
<1> QED BY <1>10, <1>13, <1>14, <1>15, <1>16, <1>17, <1>18, <1>19, <1>20, <1>21, <1>22
    DEF Good, SessionInv

\* A turn goes on with the connection c, which has the session x by then.
TurnGoesOn(t, c, x) ==
  LET r == turn'[t] IN
  /\ saved' = saved /\ retired' = retired /\ Phase' = Phase
  /\ \/ lastSession' = lastSession
     \/ saved = None /\ ~FirstTry(r) /\ lastSession' = lastSession + 1
        /\ lastSession < MaxSessions
  /\ \A s \in Turns \ {t} : turn'[s] = turn[s]
  /\ r.span = turn[t].span /\ r.cancelled = turn[t].cancelled
  /\ IsLive(r) /\ IsLive(turn[t]) /\ ~Prompting(r)
  /\ FirstTry(r) => FirstTry(turn[t])
  /\ FellBack(r) => FellBack(turn[t])
  /\ r.on = c /\ NewSID(c) = x
  /\ \A d \in Conns \ {c} : NewSID(d) = SID(d)
  /\ \/ pool' = pool
     \/ pool' = c /\ \A u \in Turns \ {t} : turn[u].on # c

\* What it takes and what it leaves behind is right for the turns around it.
RightForOthers(t, c, x) ==
  LET r == turn'[t] IN
  /\ \/ x = SID(c) /\ turn[t].on = c /\ pool' = pool
     \/ \A s \in Turns : IsLive(turn[s]) => Meets(turn[s], x)
  /\ IsRunning(turn[t]) =>
       \A s \in Turns : IsLive(turn[s]) => Meets(turn[s], r.pre)

RightBetweenRewinds(t, c, x) ==
  LET r == turn'[t] IN
  /\ Phase = "off" /\ pool' = c =>
       Fresh(x) /\ (IsRunning(turn[t]) => Fresh(r.pre))
  /\ ~turn[t].cancelled =>
       /\ Fresh(r.captured)
       /\ r.pc = "emit" =>
            /\ Fresh(x) /\ (IsRunning(turn[t]) => Fresh(r.pre))
            /\ \A u \in Turns \ {t} :
                 IsRunning(turn[u]) /\ turn[u].on = c => Fresh(turn[u].pre)
  /\ \A u \in Turns \ {t} :
       turn[u].pc = "emit" /\ turn[u].on = c /\ ~turn[u].cancelled =>
         Fresh(x) /\ (IsRunning(turn[t]) => Fresh(r.pre))

LEMMA GoesOnKeepsRuns ==
  ASSUME SessionInv, NEW t \in Turns, NEW c \in Conns, NEW x \in Nat,
         TurnGoesOn(t, c, x)
  PROVE  OneRuns' /\ SavedFresh' /\ ReadInv'
<1>1. \A s \in Turns : IsRunning(turn'[s]) <=> IsRunning(turn[s])
  BY Zenon DEF TurnGoesOn, IsRunning
<1>2. OneRuns'
  BY <1>1, Zenon DEF SessionInv, OneRuns
<1>3. SavedFresh'
  BY Zenon DEF SessionInv, SavedFresh, Fresh, TurnGoesOn
<1>4. ReadInv'
  BY Zenon DEF SessionInv, ReadInv, TurnGoesOn
<1> QED BY <1>2, <1>3, <1>4

LEMMA GoesOnKeepsFirstTurn ==
  ASSUME SessionInv, NEW t \in Turns, NEW c \in Conns, NEW x \in Nat,
         TurnGoesOn(t, c, x)
  PROVE  FirstTurn'
<1> SUFFICES ASSUME NEW s \in Turns, FirstTry(turn'[s]),
                    \A u \in Turns \ {s} : turn'[u].pc = "idle"
             PROVE  lastSession' = 0
  BY Zenon DEF FirstTurn, HasConversationHistory
<1>1. turn'[t].pc # "idle"
  BY DEF TurnGoesOn, IsLive
<1>2. s = t
  BY <1>1
<1>3. FirstTry(turn[t]) /\ lastSession' = lastSession
  BY <1>2, Zenon DEF TurnGoesOn
<1>4. \A u \in Turns \ {t} : turn[u].pc = "idle"
  <2>1. \A u \in Turns \ {t} : turn'[u] = turn[u]
    BY Zenon DEF TurnGoesOn
  <2>2. \A u \in Turns \ {t} : turn'[u].pc = "idle"
    BY <1>2
  <2> QED BY <2>1, <2>2
<1> QED BY <1>3, <1>4, Zenon DEF SessionInv, FirstTurn, HasConversationHistory

LEMMA GoesOnKeepsSpans ==
  ASSUME ShapeInv, SessionInv, NEW t \in Turns, NEW c \in Conns, NEW x \in Nat,
         TurnGoesOn(t, c, x)
  PROVE  FallbackInv' /\ SpanInv'
<1>1. \A s \in Turns : /\ turn'[s].span = turn[s].span
                       /\ turn'[s].cancelled = turn[s].cancelled
                       /\ IsLive(turn'[s]) => IsLive(turn[s])
                       /\ FellBack(turn'[s]) => FellBack(turn[s])
  BY Zenon DEF TurnGoesOn
<1>2. \A s \in Turns : Lower(turn'[s]) = Lower(turn[s]) /\ Upper(turn'[s]) = Upper(turn[s])
  BY <1>1, SpansTyped, Zenon
<1>3. Phase' = Phase /\ saved' = saved /\ retired' = retired
  BY DEF TurnGoesOn
<1>4. FallbackInv'
  BY <1>1, <1>2, <1>3, Zenon DEF SessionInv, FallbackInv
<1>5. ASSUME NEW s \in Turns, IsLive(turn'[s])
      PROVE  SpanOf(s)'
  <2>1. SpanOf(s)
    BY <1>1, <1>5 DEF SessionInv, SpanInv
  <2>2. CASE lastSession' = lastSession
    BY <1>1, <1>2, <1>3, <2>1, <2>2, Zenon DEF SpanOf
  <2>3. CASE saved = None
    BY <1>1, <1>2, <1>3, <2>1, <2>3, Zenon DEF SpanOf
  <2> QED BY <2>2, <2>3 DEF TurnGoesOn
<1> QED BY <1>4, <1>5, Zenon DEF SpanInv

LEMMA GoesOnKeepsKnown ==
  ASSUME ShapeInv, SessionInv, NEW t \in Turns, NEW c \in Conns, NEW x \in Nat,
         TurnGoesOn(t, c, x), x <= lastSession',
         turn'[t].pre <= lastSession', turn'[t].captured <= lastSession'
  PROVE  KnownInv'
<1>1. KnownInv /\ lastSession \in Nat /\ MaxSessions \in Nat
  BY NumbersAreNatural DEF SessionInv, ShapeInv, TypeInv
<1>2. /\ lastSession' \in Nat /\ lastSession <= lastSession'
      /\ lastSession' <= MaxSessions
  BY <1>1 DEF TurnGoesOn, KnownInv
<1>3. \A n \in Nat : n <= lastSession => n <= lastSession'
  BY <1>1, <1>2
<1>4. saved' <= lastSession' /\ retired' <= lastSession'
  BY <1>1, <1>3, SessionsTyped DEF KnownInv, TurnGoesOn
<1>5. ASSUME NEW d \in Conns
      PROVE  NewSID(d) <= lastSession'
  <2>1. SID(d) \in Nat /\ SID(d) <= lastSession
    BY <1>1, SessionsTyped DEF KnownInv
  <2> QED BY <1>3, <2>1 DEF TurnGoesOn
<1>6. ASSUME NEW s \in Turns
      PROVE  /\ turn'[s].captured <= lastSession' /\ turn'[s].pre <= lastSession'
             /\ Lower(turn'[s]) <= retired
  <2>1. /\ turn[s].captured \in Nat /\ turn[s].captured <= lastSession
        /\ turn[s].pre \in Nat /\ turn[s].pre <= lastSession
        /\ Lower(turn[s]) <= retired
    BY <1>1, SessionsTyped DEF KnownInv
  <2>2. turn'[s].span = turn[s].span
    BY Zenon DEF TurnGoesOn
  <2>3. Lower(turn'[s]) = Lower(turn[s])
    BY <2>2, SpansTyped, Zenon
  <2>4. CASE s = t
    BY <2>1, <2>3, <2>4
  <2>5. CASE s # t
    BY <1>3, <2>1, <2>3, <2>5 DEF TurnGoesOn
  <2> QED BY <2>4, <2>5
<1>7. \A d \in Conns : SID(d)' <= lastSession'
  BY <1>5, Zenon DEF SID, NewSID
<1>8. retired' = retired
  BY DEF TurnGoesOn
<1> QED BY <1>2, <1>4, <1>6, <1>7, <1>8, Zenon DEF KnownInv

LEMMA GoesOnKeepsPool ==
  ASSUME ShapeInv, SessionInv, NEW t \in Turns, NEW c \in Conns, NEW x \in Nat,
         TurnGoesOn(t, c, x), RightBetweenRewinds(t, c, x)
  PROVE  PoolFresh'
<1> SUFFICES ASSUME Phase = "off", pool' # None
             PROVE  /\ Fresh(NewSID(pool'))
                    /\ \A u \in Turns : IsRunning(turn'[u]) /\ turn'[u].on = pool' =>
                         Fresh(turn'[u].pre)
  BY Zenon DEF PoolFresh, TurnGoesOn, Fresh, SID, NewSID
<1>1. \A s \in Turns \ {t} : turn'[s] = turn[s]
  BY Zenon DEF TurnGoesOn
<1>2. IsRunning(turn'[t]) <=> IsRunning(turn[t])
  BY Zenon DEF TurnGoesOn, IsRunning
<1>3. CASE pool' = c
  <2>1. Fresh(x) /\ (IsRunning(turn[t]) => Fresh(turn'[t].pre)) /\ NewSID(c) = x
    BY <1>3, Zenon DEF RightBetweenRewinds, TurnGoesOn
  <2>2. ASSUME NEW u \in Turns \ {t}, IsRunning(turn[u]), turn[u].on = c
        PROVE  Fresh(turn[u].pre)
    <3>1. pool = c
      BY <1>3, <2>2, Zenon DEF TurnGoesOn
    <3> QED BY <1>3, <2>2, <3>1, Zenon DEF SessionInv, PoolFresh
  <2> QED BY <1>1, <1>2, <1>3, <2>1, <2>2, Zenon
<1>4. CASE pool' # c
  <2>1. pool' = pool /\ pool \in Conns
    BY <1>4, SessionsTyped DEF TurnGoesOn
  <2>2. NewSID(pool) = SID(pool)
    BY <1>4, <2>1, Zenon DEF TurnGoesOn
  <2>3. turn'[t].on # pool
    BY <1>4, <2>1 DEF TurnGoesOn
  <2> QED BY <1>1, <2>1, <2>2, <2>3, Zenon DEF SessionInv, PoolFresh
<1> QED BY <1>3, <1>4

LEMMA GoesOnKeepsHeld ==
  ASSUME ShapeInv, SessionInv, NEW t \in Turns, NEW c \in Conns, NEW x \in Nat,
         TurnGoesOn(t, c, x), RightBetweenRewinds(t, c, x)
  PROVE  HeldFresh'
<1> SUFFICES ASSUME NEW s \in Turns, ~turn[s].cancelled
             PROVE  /\ Fresh(turn'[s].captured)
                    /\ turn'[s].pc = "emit" =>
                         /\ Fresh(NewSID(turn'[s].on))
                         /\ \A u \in Turns : IsRunning(turn'[u]) /\ turn'[u].on = turn'[s].on =>
                              Fresh(turn'[u].pre)
  <2>1. \A s \in Turns : turn'[s].cancelled = turn[s].cancelled
    BY Zenon DEF TurnGoesOn
  <2> QED BY <2>1, Zenon DEF HeldFresh, HeldBy, TurnGoesOn, Fresh, SID, NewSID
<1>1. /\ \A u \in Turns \ {t} : turn'[u] = turn[u]
      /\ turn'[t].on = c /\ NewSID(c) = x
      /\ \A d \in Conns \ {c} : NewSID(d) = SID(d)
  BY Zenon DEF TurnGoesOn
<1>2. IsRunning(turn'[t]) <=> IsRunning(turn[t])
  BY Zenon DEF TurnGoesOn, IsRunning
<1>3. CASE s = t
  BY <1>1, <1>2, <1>3, Zenon DEF RightBetweenRewinds
<1>4. CASE s # t
  <2>1. HeldBy(s) /\ turn'[s] = turn[s]
    BY <1>1, <1>4, Zenon DEF SessionInv, HeldFresh
  <2>2. Fresh(turn'[s].captured)
    BY <2>1 DEF HeldBy
  <2>3. ASSUME turn[s].pc = "emit"
        PROVE  /\ Fresh(NewSID(turn[s].on))
               /\ \A u \in Turns : IsRunning(turn'[u]) /\ turn'[u].on = turn[s].on =>
                    Fresh(turn'[u].pre)
    <3>1. turn[s].on \in Conns
      BY <2>3 DEF ShapeInv, TurnPlaced
    <3>2. turn[s].on = c => Fresh(x) /\ (IsRunning(turn[t]) => Fresh(turn'[t].pre))
      BY <1>4, <2>3, Zenon DEF RightBetweenRewinds
    <3>3. Fresh(NewSID(turn[s].on))
      <4>1. CASE turn[s].on = c
        BY <1>1, <3>2, <4>1, Zenon
      <4>2. CASE turn[s].on # c
        <5>1. NewSID(turn[s].on) = SID(turn[s].on)
          BY <1>1, <3>1, <4>2, Zenon
        <5> QED BY <2>1, <2>3, <5>1, Zenon DEF HeldBy
      <4> QED BY <4>1, <4>2
    <3>4. ASSUME NEW u \in Turns, IsRunning(turn'[u]), turn'[u].on = turn[s].on
          PROVE  Fresh(turn'[u].pre)
      <4>1. CASE u = t
        BY <1>1, <1>2, <3>2, <3>4, <4>1, Zenon
      <4>2. CASE u # t
        BY <1>1, <2>1, <2>3, <3>4, <4>2, Zenon DEF HeldBy
      <4> QED BY <4>1, <4>2
    <3> QED BY <3>3, <3>4
  <2> QED BY <2>1, <2>2, <2>3, Zenon
<1> QED BY <1>3, <1>4

LEMMA GoesOnKeepsAround ==
  ASSUME ShapeInv, SessionInv, NEW t \in Turns, NEW c \in Conns, NEW x \in Nat,
         TurnGoesOn(t, c, x), RightForOthers(t, c, x)
  PROVE  AroundInv'
<1> SUFFICES ASSUME NEW s \in Turns, IsLive(turn'[s])
             PROVE  Around(s)'
  BY Zenon DEF AroundInv
<1>1. /\ \A u \in Turns \ {t} : turn'[u] = turn[u]
      /\ turn'[t].on = c /\ NewSID(c) = x
      /\ \A d \in Conns \ {c} : NewSID(d) = SID(d)
      /\ saved' = saved
      /\ IsRunning(turn'[t]) <=> IsRunning(turn[t])
  BY Zenon DEF TurnGoesOn, IsRunning
<1>2. IsLive(turn[s]) /\ turn'[s].span = turn[s].span
  BY Zenon DEF TurnGoesOn
<1>3. Around(s) /\ Lower(turn'[s]) = Lower(turn[s])
  BY <1>2, SpansTyped, Zenon DEF SessionInv, AroundInv
<1>4. \A y : Meets(turn[s], y) <=> Meets(turn'[s], y)
  BY <1>3, Zenon DEF Meets
<1>5. IsRunning(turn[t]) => Meets(turn[s], turn'[t].pre)
  BY <1>2, Zenon DEF RightForOthers
<1>6. ASSUME NEW d \in Conns, d # c, Meets(turn[s], SID(d))
      PROVE  Meets(turn[s], NewSID(d))
  BY <1>1, <1>6, Zenon
<1>7. \A u \in Turns : turn[u].on # None => turn[u].on \in Conns
  BY SessionsTyped
<1>8. /\ pool' # None => Meets(turn[s], NewSID(pool'))
      /\ turn'[s].on # None => Meets(turn[s], NewSID(turn'[s].on))
      /\ \A u \in Turns :
           IsRunning(turn'[u]) /\ turn'[u].on # None => Meets(turn[s], NewSID(turn'[u].on))
  <2>1. CASE Meets(turn[s], x)
    <3>1. pool' # None => Meets(turn[s], NewSID(pool'))
      <4>1. pool' # c => pool' = pool
        BY Zenon DEF TurnGoesOn
      <4>2. pool # None => pool \in Conns /\ Meets(turn[s], SID(pool))
        BY <1>3, SessionsTyped DEF Around
      <4> QED BY <1>1, <1>6, <2>1, <4>1, <4>2, Zenon
    <3>2. turn'[s].on # None => Meets(turn[s], NewSID(turn'[s].on))
      <4>1. turn[s].on # None => turn[s].on \in Conns /\ Meets(turn[s], SID(turn[s].on))
        BY <1>3, <1>7 DEF Around
      <4> QED BY <1>1, <1>6, <2>1, <4>1, Zenon
    <3>3. ASSUME NEW u \in Turns, IsRunning(turn'[u]), turn'[u].on # None
          PROVE  Meets(turn[s], NewSID(turn'[u].on))
      <4>1. CASE u = t
        BY <1>1, <2>1, <4>1, Zenon
      <4>2. CASE u # t
        <5>1. turn'[u] = turn[u] /\ turn[u].on \in Conns /\ Meets(turn[s], SID(turn[u].on))
          BY <1>1, <1>3, <1>7, <3>3, <4>2, Zenon DEF Around
        <5> QED BY <1>1, <1>6, <2>1, <5>1, Zenon
      <4> QED BY <4>1, <4>2
    <3> QED BY <3>1, <3>2, <3>3
  <2>2. CASE x = SID(c) /\ turn[t].on = c /\ pool' = pool
    <3>1. \A d \in Conns : NewSID(d) = SID(d)
      BY <1>1, <2>2, Zenon
    <3>2. \A u \in Turns : turn'[u].on = turn[u].on
      BY <1>1, <2>2, Zenon
    <3>3. \A u \in Turns : IsRunning(turn'[u]) => IsRunning(turn[u])
      BY <1>1, Zenon
    <3>4. pool # None => pool \in Conns
      BY SessionsTyped
    <3> QED BY <1>3, <1>7, <2>2, <3>1, <3>2, <3>3, <3>4, Zenon DEF Around
  <2> QED BY <1>2, <2>1, <2>2, Zenon DEF RightForOthers
<1>9. ASSUME NEW u \in Turns, IsRunning(turn'[u])
      PROVE  Meets(turn[s], turn'[u].pre)
  <2>1. CASE u = t
    BY <1>1, <1>5, <1>9, <2>1, Zenon
  <2>2. CASE u # t
    BY <1>1, <1>3, <1>9, <2>2, Zenon DEF Around
  <2> QED BY <2>1, <2>2
<1>10. Meets(turn[s], saved)
  BY <1>3 DEF Around
<1> QED BY <1>1, <1>4, <1>8, <1>9, <1>10, Zenon DEF Around, SID, NewSID

LEMMA GoesOnIsGood ==
  ASSUME ShapeInv, SessionInv, ShapeInv', FlagSteps,
         NEW t \in Turns, NEW c \in Conns, NEW x \in Nat,
         TurnGoesOn(t, c, x), x <= lastSession',
         turn'[t].pre <= lastSession', turn'[t].captured <= lastSession',
         RightForOthers(t, c, x), RightBetweenRewinds(t, c, x)
  PROVE  Good
BY GoesOnKeepsRuns, GoesOnKeepsFirstTurn, GoesOnKeepsSpans, GoesOnKeepsKnown,
  GoesOnKeepsPool, GoesOnKeepsHeld, GoesOnKeepsAround, Zenon DEF Good, SessionInv

LEMMA GetIsGood ==
  ASSUME ShapeInv, SessionInv, NEW t \in Turns, Get(t)
  PROVE  Good
<1> DEFINE fallback == turn[t].stage = "fallback"
<1> DEFINE pc == IF fallback THEN "forget" ELSE "ensure"
<1>1. /\ UNCHANGED <<proc, watch, lastSession, saved, retired, killer>>
      /\ turn[t].pc = "get"
  BY DEF Get, procVars, sessionVars
<1>2. PICK c \in IF pool # None THEN {pool} ELSE NewOne(FreeConns) :
        /\ pool' = c
        /\ conn' = IF pool # None THEN conn
                   ELSE [conn EXCEPT ![c] = NewConn(IF fallback THEN None ELSE saved)]
        /\ turn' = [turn EXCEPT ![t].on = c, ![t].pc = pc]
  BY DEF Get
<1>3. turn[t] \in TurnRecs /\ TurnPlaced(turn[t]) /\ TypeInv
  BY DEF ShapeInv, TypeInv
<1>4. c \in Conns
  <2>1. pool # None => pool \in Conns
    BY SessionsTyped
  <2> QED BY <1>2, <2>1, Zenon DEF NewOne, FreeConns
<1> DEFINE r == [turn[t] EXCEPT !.on = c, !.pc = pc]
<1> DEFINE n == IF fallback THEN None ELSE saved
<1>5. turn'[t] = r /\ \A s \in Turns \ {t} : turn'[s] = turn[s]
  BY <1>2, <1>3, SMT DEF TypeInv
<1>6. pc \in Steps /\ pc \in {"forget", "ensure"}
  BY DEF Steps
<1>7. r \in TurnRecs
  <2> HIDE DEF pc
  <2> QED BY <1>3, <1>4, <1>6, Zenon DEF TurnRecs
<1>8. turn' \in [Turns -> TurnRecs]
  <2> HIDE DEF r, pc
  <2> QED BY <1>2, <1>3, <1>5, <1>7, SMT DEF TypeInv
<1>9. /\ r.pc = pc /\ r.on = c /\ r.pre = turn[t].pre
      /\ r.captured = turn[t].captured /\ r.cancelled = turn[t].cancelled
      /\ r.stage = turn[t].stage /\ r.span = turn[t].span
  <2> HIDE DEF pc
  <2> QED BY <1>3, Zenon DEF TurnRecs
<1> HIDE DEF r
<1>10. turn[t].pre = None
  BY <1>1, <1>3 DEF TurnPlaced
<1>11. TurnPlaced(r)
  BY <1>4, <1>6, <1>9, <1>10, SMT DEF TurnPlaced
<1>12. n \in Nat /\ n \in {None, saved} /\ n <= lastSession
  BY NumbersAreNatural, SessionsTyped, SMT DEF SessionInv, KnownInv, ShapeInv, TypeInv, None
<1> HIDE DEF n
<1>13. pool = None =>
         /\ conn' = [conn EXCEPT ![c] = NewConn(n)]
         /\ \A u \in Turns : turn[u].on # c
  BY <1>2, Zenon DEF NewOne, FreeConns, n
<1>14. pool # None => conn' = conn /\ c = pool
  BY <1>2, Zenon
<1>15. conn' \in [Conns -> ConnRecs] /\ FlagSteps
  <2>1. CASE pool # None
    BY <1>14, <2>1, NoConnMoves
  <2>2. CASE pool = None
    <3>1. NewConn(n) \in ConnRecs /\ ~NewConn(n).alive
      BY <1>12, NewConnTyped
    <3>2. conn' \in [Conns -> ConnRecs] /\ conn'[c] = NewConn(n)
          /\ \A d \in Conns \ {c} : conn'[d] = conn[d]
      BY <1>3, <1>4, <1>13, <2>2, <3>1, SMT DEF TypeInv
    <3> QED BY <3>1, <3>2, Zenon DEF FlagSteps, FlagStep
  <2> QED BY <2>1, <2>2
<1>16. ShapeInv'
  BY <1>1, <1>2, <1>4, <1>5, <1>8, <1>11, <1>15, OneTurn, NoKillMoves, WatchTyped, ShapeFrom,
    Zenon DEF ShapeInv, TypeInv
<1> DEFINE x == NewSID(c)
<1>17. /\ \A d \in Conns \ {c} : NewSID(d) = SID(d)
       /\ pool = None => x = n
       /\ pool # None => x = SID(c)
  <2>1. CASE pool # None
    BY <1>4, <1>14, <2>1, Zenon DEF NewSID, SID
  <2>2. CASE pool = None
    <3>1. NewConn(n).acpSID = n
      BY <1>12, NewConnTyped
    <3> QED BY <1>3, <1>4, <1>13, <2>2, <3>1, SMT DEF TypeInv, NewSID, SID
  <2> QED BY <2>1, <2>2
<1> HIDE DEF x
<1>18. x \in Nat /\ x <= lastSession'
  BY <1>1, <1>4, <1>12, <1>17, SessionsTyped DEF SessionInv, KnownInv
<1>19. Phase' = Phase
  BY <1>1 DEF Phase
<1>20. TurnGoesOn(t, c, x)
  <2>1. IsLive(r) /\ IsLive(turn[t]) /\ ~Prompting(r)
    BY <1>1, <1>6, <1>9 DEF IsLive, Prompting
  <2>2. (FirstTry(r) => FirstTry(turn[t])) /\ (FellBack(r) => FellBack(turn[t]))
    BY <1>1, <1>9 DEF FirstTry, FellBack, Early
  <2>3. x = NewSID(c)
    BY DEF x
  <2>4. pool' = pool \/ (pool' = c /\ \A u \in Turns \ {t} : turn[u].on # c)
    BY <1>2, <1>13, <1>14, Zenon
  <2> QED BY <1>1, <1>5, <1>9, <1>17, <1>19, <2>1, <2>2, <2>3, <2>4, Zenon DEF TurnGoesOn
<1>21. \A s \in Turns : IsLive(turn[s]) => Meets(turn[s], x)
  <2> SUFFICES ASSUME NEW s \in Turns, IsLive(turn[s])
               PROVE  Meets(turn[s], x)
    OBVIOUS
  <2>1. Around(s)
    BY DEF SessionInv, AroundInv
  <2>2. CASE pool # None
    BY <1>14, <1>17, <2>1, <2>2, Zenon DEF Around
  <2>3. CASE pool = None
    BY <1>12, <1>17, <2>1, <2>3, DroppedIsFresh, Zenon DEF Around
  <2> QED BY <2>2, <2>3
<1>22. RightForOthers(t, c, x)
  BY <1>5, <1>9, <1>10, <1>21, DroppedIsFresh, Zenon DEF RightForOthers
<1>23. RightBetweenRewinds(t, c, x)
  <2>1. Phase = "off" => Fresh(x)
    <3> SUFFICES ASSUME Phase = "off" PROVE Fresh(x)
      OBVIOUS
    <3>1. Fresh(saved)
      BY DEF SessionInv, SavedFresh
    <3>2. pool # None => Fresh(SID(pool))
      BY DEF SessionInv, PoolFresh
    <3> QED BY <1>12, <1>14, <1>17, <3>1, <3>2, DroppedIsFresh, Zenon
  <2>2. ~turn[t].cancelled => Fresh(turn[t].captured)
    BY Zenon DEF SessionInv, HeldFresh, HeldBy
  <2>3. r.pc # "emit"
    BY <1>6, <1>9
  <2>4. ASSUME NEW u \in Turns \ {t}, turn[u].pc = "emit", turn[u].on = c, ~turn[u].cancelled
        PROVE  Fresh(x)
    <3>1. pool # None
      BY <1>13, <2>4, Zenon
    <3>2. Fresh(SID(turn[u].on))
      BY <2>4, Zenon DEF SessionInv, HeldFresh, HeldBy
    <3> QED BY <1>17, <2>4, <3>1, <3>2, Zenon
  <2> QED BY <1>5, <1>9, <1>10, <2>1, <2>2, <2>3, <2>4, DroppedIsFresh, Zenon
        DEF RightBetweenRewinds
<1>24. turn'[t].pre <= lastSession' /\ turn'[t].captured <= lastSession'
  BY <1>1, <1>5, <1>9 DEF SessionInv, KnownInv
<1> QED BY <1>4, <1>15, <1>16, <1>18, <1>20, <1>22, <1>23, <1>24, GoesOnIsGood, Zenon

LEMMA RememberTyped ==
  ASSUME TypeInv, NEW t \in Turns, NEW n \in Nat, NEW k \in Procs \cup {None},
         turn' = [turn EXCEPT ![t].pc = "respawn", ![t].pre = n, ![t].cmd = k]
  PROVE  /\ turn' \in [Turns -> TurnRecs]
         /\ \A s \in Turns \ {t} : turn'[s] = turn[s]
         /\ turn'[t] = [turn[t] EXCEPT !.pc = "respawn", !.pre = n, !.cmd = k]
<1> DEFINE r == [turn[t] EXCEPT !.pc = "respawn", !.pre = n, !.cmd = k]
<1>1. turn'[t] = r /\ \A s \in Turns \ {t} : turn'[s] = turn[s]
  BY SMT DEF TypeInv
<1>2. turn[t] \in TurnRecs /\ "respawn" \in Steps
  BY DEF TypeInv, Steps
<1>3. r \in TurnRecs
  BY <1>2, Zenon DEF TurnRecs
<1> HIDE DEF r
<1>4. turn' \in [Turns -> TurnRecs]
  BY <1>1, <1>3, SMT DEF TypeInv
<1> QED BY <1>1, <1>4 DEF r

\* A replaced process: the turn remembers the session.
LEMMA RespawningIsGood ==
  ASSUME ShapeInv, SessionInv, NEW t \in Turns, turn[t].pc = "ensure",
         UNCHANGED <<pool, conn, watch, lastSession, saved, retired, killer>>,
         turn' = [turn EXCEPT ![t].pc = "respawn",
                    ![t].pre = SID(turn[t].on), ![t].cmd = conn[turn[t].on].cmd]
  PROVE  Good
<1> DEFINE c == turn[t].on
<1> DEFINE x == SID(c)
<1> DEFINE r == [turn[t] EXCEPT !.pc = "respawn", !.pre = x, !.cmd = conn[c].cmd]
<1>1. turn[t] \in TurnRecs /\ TurnPlaced(turn[t]) /\ TypeInv /\ c \in Conns
  BY DEF ShapeInv, TypeInv, TurnPlaced
<1>2. x \in Nat /\ conn[c].cmd \in Procs \cup {None} /\ "respawn" \in Steps
  BY <1>1, SessionsTyped DEF TypeInv, ConnRecs, Steps
<1>3. /\ turn' \in [Turns -> TurnRecs] /\ turn'[t] = r
      /\ \A s \in Turns \ {t} : turn'[s] = turn[s]
  BY <1>1, <1>2, RememberTyped, Zenon
<1>6. /\ r.pc = "respawn" /\ r.on = c /\ r.pre = x
      /\ r.captured = turn[t].captured /\ r.cancelled = turn[t].cancelled
      /\ r.stage = turn[t].stage /\ r.span = turn[t].span
  <2> HIDE DEF x
  <2> QED BY <1>1, Zenon DEF TurnRecs
<1> HIDE DEF r
<1>7. TurnPlaced(r)
  BY <1>1, <1>6, SMT DEF TurnPlaced
<1>8. ShapeInv' /\ FlagSteps
  BY <1>3, <1>7, OneTurn, NoConnMoves, NoKillMoves, WatchTyped, ShapeFrom,
    Zenon DEF ShapeInv, TypeInv
<1>9. Phase' = Phase /\ \A d \in Conns : NewSID(d) = SID(d)
  BY DEF Phase, NewSID, SID
<1>10. x <= lastSession' /\ turn'[t].pre <= lastSession' /\ turn'[t].captured <= lastSession'
  BY <1>1, <1>3, <1>6 DEF SessionInv, KnownInv
<1>11. TurnGoesOn(t, c, x)
  <2>1. IsLive(r) /\ IsLive(turn[t]) /\ ~Prompting(r)
    BY <1>6 DEF IsLive, Prompting
  <2>2. (FirstTry(r) => FirstTry(turn[t])) /\ (FellBack(r) => FellBack(turn[t]))
    BY <1>6 DEF FirstTry, FellBack, Early
  <2> QED BY <1>1, <1>3, <1>6, <1>9, <2>1, <2>2, Zenon DEF TurnGoesOn
<1>12. RightForOthers(t, c, x)
  <2> SUFFICES ASSUME NEW s \in Turns, IsLive(turn[s])
               PROVE  IsRunning(turn[t]) => Meets(turn[s], x)
    BY <1>3, <1>6, Zenon DEF RightForOthers
  <2>1. Around(s) /\ turn[t].on # None
    BY <1>1, NumbersAreNatural DEF SessionInv, AroundInv
  <2> QED BY <2>1, Zenon DEF Around
<1>13. RightBetweenRewinds(t, c, x)
  <2>1. Phase = "off" /\ pool = c => Fresh(x)
    BY <1>1, NumbersAreNatural DEF SessionInv, PoolFresh
  <2>2. ~turn[t].cancelled => Fresh(turn[t].captured)
    BY Zenon DEF SessionInv, HeldFresh, HeldBy
  <2>3. \A u \in Turns : turn[u].pc = "emit" /\ turn[u].on = c /\ ~turn[u].cancelled => Fresh(x)
    BY Zenon DEF SessionInv, HeldFresh, HeldBy
  <2>4. r.pc # "emit"
    BY <1>6
  <2> HIDE DEF x
  <2> QED BY <1>3, <1>6, <2>1, <2>2, <2>3, <2>4, Zenon DEF RightBetweenRewinds
<1> HIDE DEF c, x
<1> QED BY <1>1, <1>2, <1>8, <1>10, <1>11, <1>12, <1>13, GoesOnIsGood, Zenon

\* What is left of a turn when its connection is ensured.
LEMMA EnsuredFields ==
  ASSUME ShapeInv, NEW t \in Turns, NEW pc \in {"failed", "read", "emit"},
         turn[t].pc \in {"ensure", "spawn"}, Ensured(t, pc)
  PROVE  LET r == turn'[t] IN
         /\ r.pc = pc /\ r.on = turn[t].on /\ r.pre = None
         /\ r.captured = turn[t].captured /\ r.cancelled = turn[t].cancelled
         /\ r.stage = turn[t].stage /\ r.span = turn[t].span
         /\ \A s \in Turns \ {t} : turn'[s] = turn[s]
         /\ turn[t].on \in Conns
         /\ IsLive(r) /\ IsLive(turn[t]) /\ ~Prompting(r)
         /\ FirstTry(r) => FirstTry(turn[t])
         /\ FellBack(r) => FellBack(turn[t])
         /\ pc # "failed" => ~FirstTry(r)
<1> DEFINE r == turn'[t]
<1>1. turn[t] \in TurnRecs /\ TypeInv /\ pc \in Steps
  BY DEF ShapeInv, TypeInv, Steps
<1>2. /\ \A s \in Turns \ {t} : turn'[s] = turn[s]
      /\ r = [turn[t] EXCEPT !.pc = pc, !.pre = None, !.cmd = None]
  BY <1>1, EnsuredTyped, Zenon
<1>3. /\ r.pc = pc /\ r.on = turn[t].on /\ r.pre = None
      /\ r.captured = turn[t].captured /\ r.cancelled = turn[t].cancelled
      /\ r.stage = turn[t].stage /\ r.span = turn[t].span
  BY <1>1, <1>2, Zenon DEF TurnRecs
<1> HIDE DEF r
<1>4. turn[t].on \in Conns
  BY DEF ShapeInv, TurnPlaced
<1>5. IsLive(r) /\ IsLive(turn[t]) /\ ~Prompting(r)
  BY <1>3 DEF IsLive, Prompting
<1>6. /\ FirstTry(r) => FirstTry(turn[t])
      /\ FellBack(r) => FellBack(turn[t])
      /\ pc # "failed" => ~FirstTry(r)
  BY <1>3 DEF FirstTry, FellBack, Early
<1> QED BY <1>2, <1>3, <1>4, <1>5, <1>6 DEF r

\* A connection that is used again after the fallback reports its session.
LEMMA ReusedIsGood ==
  ASSUME ShapeInv, SessionInv, NEW t \in Turns, turn[t].pc = "ensure",
         UNCHANGED <<pool, conn, watch, lastSession, saved, retired, killer>>,
         turn[t].stage = "fallback", Ensured(t, "emit")
  PROVE  Good
<1> DEFINE c == turn[t].on
<1> DEFINE x == SID(c)
<1> DEFINE r == turn'[t]
<1>1. /\ r.pc = "emit" /\ r.on = c /\ r.pre = None
      /\ r.captured = turn[t].captured /\ r.cancelled = turn[t].cancelled
      /\ r.stage = turn[t].stage /\ r.span = turn[t].span
      /\ \A s \in Turns \ {t} : turn'[s] = turn[s]
      /\ c \in Conns
      /\ IsLive(r) /\ IsLive(turn[t]) /\ ~Prompting(r)
      /\ FirstTry(r) => FirstTry(turn[t])
      /\ FellBack(r) => FellBack(turn[t])
  BY EnsuredFields, SMT
<1>2. x \in Nat /\ saved \in Nat
  BY <1>1, SessionsTyped
<1>3. /\ turn' \in [Turns -> TurnRecs]
      /\ \A s \in Turns : TurnPlaced(turn'[s])
  BY EnsuredIsCalm
<1>4. ShapeInv' /\ FlagSteps
  BY <1>3, NoConnMoves, NoKillMoves, WatchTyped, ShapeFrom, Zenon DEF ShapeInv, TypeInv
<1>5. Phase' = Phase /\ \A d \in Conns : NewSID(d) = SID(d)
  BY DEF Phase, NewSID, SID
<1>6. x <= lastSession' /\ r.pre <= lastSession' /\ r.captured <= lastSession'
  BY <1>1 DEF SessionInv, KnownInv, None, ShapeInv, TypeInv
<1>7. TurnGoesOn(t, c, x)
  BY <1>1, <1>5, Zenon DEF TurnGoesOn
<1>8. retired = 0 \/ turn[t].cancelled
  <2>1. FellBack(turn[t])
    BY DEF FellBack, Early
  <2> QED BY <2>1, Zenon DEF SessionInv, FallbackInv
<1>9. RightForOthers(t, c, x)
  BY <1>1, DroppedIsFresh, Zenon DEF RightForOthers
<1>10. RightBetweenRewinds(t, c, x)
  <2>1. Phase = "off" /\ pool = c => Fresh(x)
    BY <1>1, NumbersAreNatural DEF SessionInv, PoolFresh
  <2>2. ~turn[t].cancelled => Fresh(turn[t].captured)
    BY Zenon DEF SessionInv, HeldFresh, HeldBy
  <2>3. \A u \in Turns : turn[u].pc = "emit" /\ turn[u].on = c /\ ~turn[u].cancelled => Fresh(x)
    BY Zenon DEF SessionInv, HeldFresh, HeldBy
  <2>4. ~turn[t].cancelled => \A y \in Nat : Fresh(y)
    BY <1>8 DEF Fresh, None
  <2>5. \A u \in Turns : turn[u].pre \in Nat
    BY SessionsTyped
  <2> HIDE DEF x, c, r
  <2> QED BY <1>1, <1>2, <2>1, <2>2, <2>3, <2>4, <2>5, DroppedIsFresh, Zenon
        DEF RightBetweenRewinds, r
<1> HIDE DEF c, x
<1> QED BY <1>1, <1>2, <1>4, <1>6, <1>7, <1>9, <1>10, GoesOnIsGood, Zenon

\* A session is opened.
LEMMA CreatedIsGood ==
  ASSUME ShapeInv, SessionInv, NEW t \in Turns, turn[t].pc \in {"ensure", "spawn"},
         UNCHANGED <<pool, saved, retired, killer>>, saved = None,
         lastSession < MaxSessions, lastSession' = lastSession + 1,
         NEW p \in Procs,
         SpawnSucceeds(t, turn[t].on, p, lastSession + 1), Ensured(t, "emit")
  PROVE  Good
<1> DEFINE c == turn[t].on
<1> DEFINE x == lastSession + 1
<1> DEFINE r == turn'[t]
<1>1. /\ r.pc = "emit" /\ r.on = c /\ r.pre = None
      /\ r.captured = turn[t].captured /\ r.cancelled = turn[t].cancelled
      /\ r.stage = turn[t].stage /\ r.span = turn[t].span
      /\ \A s \in Turns \ {t} : turn'[s] = turn[s]
      /\ c \in Conns
      /\ IsLive(r) /\ IsLive(turn[t]) /\ ~Prompting(r)
      /\ FirstTry(r) => FirstTry(turn[t])
      /\ FellBack(r) => FellBack(turn[t])
      /\ ~FirstTry(r)
  BY EnsuredFields, SMT
<1>2. x \in Nat /\ lastSession \in Nat /\ TypeInv /\ retired \in Nat
  BY DEF ShapeInv, TypeInv
<1>3. /\ turn' \in [Turns -> TurnRecs]
      /\ \A s \in Turns : TurnPlaced(turn'[s])
  BY EnsuredIsCalm
<1>4. SpawnSucceeds(t, c, p, x)
  OBVIOUS
<1> HIDE DEF c, x
<1>5. /\ conn' \in [Conns -> ConnRecs]
      /\ watch' \in [Procs -> Conns \cup {None}]
      /\ \A d \in Conns \ {c} : conn'[d] = conn[d]
      /\ conn'[c].cmd = p /\ conn'[c].conn = p /\ conn'[c].acpSID = x
  <2>1. TypeInv /\ c \in Conns /\ x \in Nat
    BY <1>1, <1>2
  <2> QED BY <1>4, <2>1, SpawnTyped, ZenonT(40)
<1>6. FlagSteps
  BY <1>5, Zenon DEF FlagSteps, FlagStep
<1>7. ShapeInv'
  BY <1>2, <1>3, <1>5, NoKillMoves, ShapeFrom, Zenon DEF ShapeInv, TypeInv, x
<1>8. Phase' = Phase /\ NewSID(c) = x /\ \A d \in Conns \ {c} : NewSID(d) = SID(d)
  BY <1>5 DEF Phase, NewSID, SID
<1>9. x <= lastSession' /\ r.pre <= lastSession' /\ r.captured <= lastSession'
  <2>1. turn[t].captured <= lastSession /\ turn[t].captured \in Nat
    BY SessionsTyped DEF SessionInv, KnownInv
  <2> QED BY <1>1, <1>2, <2>1, NumbersAreNatural DEF x, None
<1>10. TurnGoesOn(t, c, x)
  BY <1>1, <1>8, Zenon DEF TurnGoesOn
<1>11. Fresh(x) /\ \A s \in Turns : Meets(turn[s], x)
  <2>1. retired <= lastSession /\ \A s \in Turns : Lower(turn[s]) <= retired
    BY DEF SessionInv, KnownInv
  <2>2. \A s \in Turns : Lower(turn[s]) \in Nat
    BY <1>2, SpansTyped DEF TypeInv
  <2> QED BY <1>2, <2>1, <2>2 DEF x, Fresh, Meets
<1>12. RightForOthers(t, c, x)
  BY <1>1, <1>11, DroppedIsFresh, Zenon DEF RightForOthers
<1>13. RightBetweenRewinds(t, c, x)
  <2>1. ~turn[t].cancelled => Fresh(turn[t].captured)
    BY Zenon DEF SessionInv, HeldFresh, HeldBy
  <2>2. IsRunning(turn[t])
    BY <1>1 DEF SpawnSucceeds, IsRunning
  <2>3. \A u \in Turns \ {t} : ~IsRunning(turn[u])
    BY <2>2, Zenon DEF SessionInv, OneRuns
  <2> QED BY <1>1, <1>11, <2>1, <2>3, DroppedIsFresh, Zenon DEF RightBetweenRewinds
<1> QED BY <1>1, <1>2, <1>6, <1>7, <1>9, <1>10, <1>12, <1>13, GoesOnIsGood, Zenon

\* A session is recovered: the one the connection knew, or the persisted one.
LEMMA RecoveredIsGood ==
  ASSUME ShapeInv, SessionInv, NEW t \in Turns, turn[t].pc \in {"ensure", "spawn"},
         NEW pre,
         \/ turn[t].pc = "ensure" /\ pre = SID(turn[t].on)
         \/ turn[t].pc = "spawn" /\ pre = turn[t].pre,
         UNCHANGED <<pool, lastSession, saved, retired, killer>>,
         NEW p \in Procs, RecoverableSessionID(pre) # None,
         SpawnSucceeds(t, turn[t].on, p, RecoverableSessionID(pre)),
         Established(t, FALSE)
  PROVE  Good
<1> DEFINE c == turn[t].on
<1> DEFINE x == RecoverableSessionID(pre)
<1> DEFINE r == turn'[t]
<1> DEFINE pc == IF turn[t].stage = "fallback" THEN "emit" ELSE "read"
<1>1. pc \in {"failed", "read", "emit"} /\ pc # "failed" /\ Ensured(t, pc)
  BY DEF Established
<1>2. /\ r.pc = pc /\ r.on = c /\ r.pre = None
      /\ r.captured = turn[t].captured /\ r.cancelled = turn[t].cancelled
      /\ r.stage = turn[t].stage /\ r.span = turn[t].span
      /\ \A s \in Turns \ {t} : turn'[s] = turn[s]
      /\ c \in Conns
      /\ IsLive(r) /\ IsLive(turn[t]) /\ ~Prompting(r)
      /\ FirstTry(r) => FirstTry(turn[t])
      /\ FellBack(r) => FellBack(turn[t])
  <2> HIDE DEF pc
  <2> QED BY <1>1, EnsuredFields, SMT
<1>3. x \in {pre, saved} /\ pre \in Nat /\ saved \in Nat
  BY <1>2, SessionsTyped DEF RecoverableSessionID
<1>4. /\ turn' \in [Turns -> TurnRecs]
      /\ \A s \in Turns : TurnPlaced(turn'[s])
  BY <1>1, EnsuredIsCalm
<1>5. SpawnSucceeds(t, c, p, x)
  OBVIOUS
<1> HIDE DEF x
<1>6. /\ conn' \in [Conns -> ConnRecs]
      /\ watch' \in [Procs -> Conns \cup {None}]
      /\ \A d \in Conns \ {c} : conn'[d] = conn[d]
      /\ conn'[c].cmd = p /\ conn'[c].conn = p /\ conn'[c].acpSID = x
  <2>1. TypeInv /\ c \in Conns /\ x \in Nat
    BY <1>2, <1>3 DEF ShapeInv
  <2> HIDE DEF c
  <2> QED BY <1>5, <2>1, SpawnTyped
<1>7. FlagSteps
  BY <1>6, Zenon DEF FlagSteps, FlagStep
<1>8. ShapeInv'
  BY <1>4, <1>6, NoKillMoves, ShapeFrom, Zenon DEF ShapeInv, TypeInv
<1>9. Phase' = Phase /\ NewSID(c) = x /\ \A d \in Conns \ {c} : NewSID(d) = SID(d)
  BY <1>6 DEF Phase, NewSID, SID
<1>10. x <= lastSession' /\ r.pre <= lastSession' /\ r.captured <= lastSession'
  <2>1. /\ turn[t].captured <= lastSession /\ turn[t].pre <= lastSession
        /\ SID(c) <= lastSession /\ saved <= lastSession
    BY <1>2 DEF SessionInv, KnownInv
  <2>2. None <= lastSession
    BY DEF None, ShapeInv, TypeInv
  <2> QED BY <1>2, <1>3, <2>1, <2>2
<1>11. TurnGoesOn(t, c, x)
  BY <1>2, <1>9, Zenon DEF TurnGoesOn
<1>12. IsRunning(turn[t]) /\ \A u \in Turns \ {t} : ~IsRunning(turn[u])
  <2>1. IsRunning(turn[t])
    BY <1>2 DEF SpawnSucceeds, IsRunning
  <2> QED BY <2>1, Zenon DEF SessionInv, OneRuns
<1>13. c # None
  BY <1>2, NumbersAreNatural
<1>14. RightForOthers(t, c, x)
  <2> SUFFICES ASSUME NEW s \in Turns, IsLive(turn[s])
               PROVE  Meets(turn[s], x)
    BY <1>2, DroppedIsFresh, Zenon DEF RightForOthers
  <2>1. Around(s)
    BY DEF SessionInv, AroundInv
  <2>2. /\ Meets(turn[s], saved) /\ Meets(turn[s], SID(c))
        /\ Meets(turn[s], turn[t].pre)
    BY <1>12, <1>13, <2>1, Zenon DEF Around
  <2> HIDE DEF c
  <2> QED BY <1>3, <2>2 DEF c
<1>15. RightBetweenRewinds(t, c, x)
  <2>1. Phase = "off" /\ pool = c => Fresh(x)
    <3> SUFFICES ASSUME Phase = "off", pool = c
                 PROVE  Fresh(x)
      OBVIOUS
    <3>1. Fresh(saved)
      BY DEF SessionInv, SavedFresh
    <3>2. Fresh(SID(c)) /\ Fresh(turn[t].pre)
      BY <1>12, <1>13, Zenon DEF SessionInv, PoolFresh
    <3> QED BY <1>3, <3>1, <3>2
  <2>2. ~turn[t].cancelled => Fresh(turn[t].captured)
    BY Zenon DEF SessionInv, HeldFresh, HeldBy
  <2>3. ~turn[t].cancelled /\ r.pc = "emit" => Fresh(x)
    <3> SUFFICES ASSUME ~turn[t].cancelled, r.pc = "emit"
                 PROVE  Fresh(x)
      OBVIOUS
    <3>1. FellBack(turn[t])
      BY <1>2 DEF FellBack, Early
    <3>2. retired = 0
      BY <3>1, Zenon DEF SessionInv, FallbackInv
    <3> QED BY <1>3, <3>2 DEF Fresh, None
  <2>4. \A u \in Turns \ {t} : turn[u].pc = "emit" => turn[u].cancelled
    BY <1>12, Zenon DEF IsRunning, IsLive
  <2> HIDE DEF c, r
  <2> QED BY <1>2, <1>12, <2>1, <2>2, <2>3, <2>4, DroppedIsFresh, Zenon
        DEF RightBetweenRewinds, r
<1>16. x \in Nat
  BY <1>3
<1> HIDE DEF c
<1> QED BY <1>2, <1>7, <1>8, <1>10, <1>11, <1>14, <1>15, <1>16, GoesOnIsGood, Zenon

LEMMA SpawnIsGood ==
  ASSUME ShapeInv, SessionInv, NEW t \in Turns, turn[t].pc \in {"ensure", "spawn"},
         NEW pre,
         \/ turn[t].pc = "ensure" /\ pre = SID(turn[t].on)
         \/ turn[t].pc = "spawn" /\ pre = turn[t].pre,
         UNCHANGED pool, Spawn(t, turn[t].on, pre)
  PROVE  Good
<1> DEFINE c == turn[t].on
<1>1. CASE SpawnFails(t, c)
  BY <1>1, SpawnFailsIsQuiet, QuietIsGood
<1>2. ASSUME NEW p \in Procs, Create(t, c, p), RecoverableSessionID(pre) = None
      PROVE  Good
  <2>1. UNCHANGED <<saved, retired, killer>>
    BY <1>2 DEF Create
  <2>2. saved = None
    BY <1>2 DEF RecoverableSessionID
  <2>3. CASE /\ lastSession < MaxSessions /\ lastSession' = lastSession + 1
             /\ SpawnSucceeds(t, c, p, lastSession + 1)
             /\ Ensured(t, "emit")
    BY <2>1, <2>2, <2>3, CreatedIsGood
  <2>4. CASE /\ SpawnSucceeds(t, c, p, None)
             /\ Ensured(t, "failed")
             /\ UNCHANGED lastSession
    BY <2>1, <2>4, NoSessionIsQuiet, QuietIsGood DEF sessionVars
  <2> QED BY <1>2, <2>3, <2>4 DEF Create
<1>3. ASSUME NEW p \in Procs, RecoverableSessionID(pre) # None,
             Recover(t, c, p, RecoverableSessionID(pre))
      PROVE  Good
  <2>1. UNCHANGED sessionVars
    BY <1>3 DEF Recover
  <2>2. CASE /\ SpawnSucceeds(t, c, p, RecoverableSessionID(pre))
             /\ Established(t, FALSE)
             /\ UNCHANGED killer
    BY <1>3, <2>1, <2>2, RecoveredIsGood DEF sessionVars
  <2>3. CASE /\ SpawnSucceeds(t, c, p, None)
             /\ killer' = [killer EXCEPT ![Of(t)] =
                             [at |-> "reap", on |-> c, cmd |-> p]]
             /\ Ensured(t, "failed")
    BY <2>1, <2>3, NoSessionIsQuiet, QuietIsGood
  <2> QED BY <1>3, <2>2, <2>3 DEF Recover
<1>4. \A p \in NewOne(FreeProcs) : p \in Procs
  BY DEF NewOne, FreeProcs
<1> QED BY <1>1, <1>2, <1>3, <1>4 DEF Spawn

LEMMA EnsureIsGood ==
  ASSUME ShapeInv, SessionInv, NEW t \in Turns, Ensure(t)
  PROVE  Good
<1> DEFINE c == turn[t].on
<1>1. turn[t].pc = "ensure" /\ UNCHANGED pool
  BY DEF Ensure
<1>2. CASE Established(t, FALSE) /\ UNCHANGED <<conn, procVars, sessionVars, killer, upsets>>
  <2>1. CASE turn[t].stage = "fallback"
    BY <1>1, <1>2, <2>1, ReusedIsGood DEF Established, procVars, sessionVars
  <2>2. CASE turn[t].stage # "fallback"
    <3>1. Ensured(t, "read")
      BY <1>2, <2>2 DEF Established
    <3>2. /\ turn' \in [Turns -> TurnRecs]
          /\ \A s \in Turns : TurnPlaced(turn'[s])
          /\ \A s \in Turns : CalmTurn(turn[s], turn'[s])
      BY <1>1, <3>1, EnsuredIsCalm
    <3>3. UNCHANGED <<sessionVars, killer, watch, conn>> /\ pool' = pool
      BY <1>1, <1>2 DEF procVars
    <3>4. Quiet
      BY <3>2, <3>3, NoConnMoves, NoKillMoves, WatchTyped, QuietFrom, Zenon
    <3> QED BY <3>4, QuietIsGood
  <2> QED BY <2>1, <2>2
<1>3. CASE /\ turn' = [turn EXCEPT ![t].pc = "respawn",
                         ![t].pre = conn[c].acpSID, ![t].cmd = conn[c].cmd]
           /\ UNCHANGED <<conn, procVars, sessionVars, killer>>
  BY <1>1, <1>3, RespawningIsGood DEF procVars, sessionVars, SID
<1>4. CASE Spawn(t, c, conn[c].acpSID)
  BY <1>1, <1>4, SpawnIsGood DEF SID
<1> QED BY <1>2, <1>3, <1>4, Zenon DEF Ensure

LEMMA RespawnIsGood ==
  ASSUME ShapeInv, SessionInv, NEW t \in Turns, Respawn(t)
  PROVE  Good
BY SpawnIsGood DEF Respawn

\* The session's id is on its way to the executor.
LEMMA EmitIsGood ==
  ASSUME ShapeInv, SessionInv, NEW t \in Turns, Emit(t)
  PROVE  Good
<1> DEFINE c == turn[t].on
<1> DEFINE x == SID(c)
<1> DEFINE got == IF turn[t].captured = None THEN x ELSE turn[t].captured
<1> DEFINE r == [turn[t] EXCEPT !.pc = "read", !.captured = got]
<1>1. /\ UNCHANGED <<pool, conn, watch, lastSession, saved, retired, killer>>
      /\ turn[t].pc = "emit"
      /\ turn' = [turn EXCEPT ![t].pc = "read",
           ![t].captured = IF @ = None THEN conn[turn[t].on].acpSID ELSE @]
  BY DEF Emit, connVars, procVars, sessionVars
<1>2. turn[t] \in TurnRecs /\ TurnPlaced(turn[t]) /\ TypeInv /\ c \in Conns
  BY <1>1 DEF ShapeInv, TypeInv, TurnPlaced
<1>3. x \in Nat /\ turn[t].captured \in Nat /\ turn[t].pre = None
  BY <1>1, <1>2, SessionsTyped DEF TurnPlaced
<1>4. got \in Nat /\ got \in {x, turn[t].captured}
  BY <1>3
<1>5. turn'[t] = r /\ \A s \in Turns \ {t} : turn'[s] = turn[s]
  BY <1>1, <1>2, SMT DEF TypeInv, SID
<1>6. r \in TurnRecs
  <2>1. "read" \in Steps
    BY DEF Steps
  <2> HIDE DEF got
  <2> QED BY <1>2, <1>4, <2>1, Zenon DEF TurnRecs
<1>7. /\ r.pc = "read" /\ r.on = c /\ r.pre = turn[t].pre
      /\ r.captured = got /\ r.cancelled = turn[t].cancelled
      /\ r.stage = turn[t].stage /\ r.span = turn[t].span
  <2> HIDE DEF got
  <2> QED BY <1>2, Zenon DEF TurnRecs
<1> HIDE DEF r, got
<1>8. turn' \in [Turns -> TurnRecs]
  BY <1>1, <1>2, <1>5, <1>6, SMT DEF TypeInv
<1>9. TurnPlaced(r)
  BY <1>2, <1>3, <1>7, SMT DEF TurnPlaced
<1>10. ShapeInv' /\ FlagSteps
  BY <1>1, <1>5, <1>8, <1>9, OneTurn, NoConnMoves, NoKillMoves, WatchTyped, ShapeFrom,
    Zenon DEF ShapeInv, TypeInv
<1>11. Phase' = Phase /\ \A d \in Conns : NewSID(d) = SID(d)
  BY <1>1 DEF Phase, NewSID, SID
<1>12. x <= lastSession' /\ turn'[t].pre <= lastSession' /\ turn'[t].captured <= lastSession'
  BY <1>1, <1>2, <1>4, <1>5, <1>7 DEF SessionInv, KnownInv
<1>13. TurnGoesOn(t, c, x)
  <2>1. IsLive(r) /\ IsLive(turn[t]) /\ ~Prompting(r)
    BY <1>1, <1>7 DEF IsLive, Prompting
  <2>2. (FirstTry(r) => FirstTry(turn[t])) /\ (FellBack(r) => FellBack(turn[t]))
    BY <1>7 DEF FirstTry, FellBack, Early
  <2> QED BY <1>1, <1>2, <1>5, <1>7, <1>11, <2>1, <2>2, Zenon DEF TurnGoesOn
<1>14. RightForOthers(t, c, x)
  BY <1>1, <1>3, <1>5, <1>7, DroppedIsFresh, Zenon DEF RightForOthers
<1>15. RightBetweenRewinds(t, c, x)
  <2>1. Phase = "off" /\ pool = c => Fresh(x)
    BY <1>2, NumbersAreNatural DEF SessionInv, PoolFresh
  <2>2. ~turn[t].cancelled => Fresh(got)
    <3>1. ~turn[t].cancelled => Fresh(turn[t].captured) /\ Fresh(x)
      BY <1>1, Zenon DEF SessionInv, HeldFresh, HeldBy
    <3> QED BY <1>4, <3>1
  <2>3. \A u \in Turns : turn[u].pc = "emit" /\ turn[u].on = c /\ ~turn[u].cancelled => Fresh(x)
    BY Zenon DEF SessionInv, HeldFresh, HeldBy
  <2>4. r.pc # "emit"
    BY <1>7
  <2> HIDE DEF x
  <2> QED BY <1>1, <1>3, <1>5, <1>7, <2>1, <2>2, <2>3, <2>4, DroppedIsFresh, Zenon
        DEF RightBetweenRewinds
<1> HIDE DEF c, x
<1> QED BY <1>2, <1>3, <1>10, <1>12, <1>13, <1>14, <1>15, GoesOnIsGood, Zenon

\* What a captured session leaves of a turn: all but what is on its way, and how
\* far back its sessions may lie.
CaptureLeaves(r, q) ==
  /\ q.pc = r.pc /\ q.on = r.on /\ q.pre = r.pre
  /\ q.cancelled = r.cancelled /\ q.stage = r.stage /\ q.session = r.session
  /\ q.captured \in {r.captured, None}
  /\ Lower(q) \in Nat /\ Lower(q) <= Lower(r) /\ Upper(q) = Upper(r)
  /\ r.span = Anywhere => q.span = Anywhere

LEMMA DownTyped ==
  ASSUME NEW span \in Nat \X Nat, NEW x \in Nat, x # None
  PROVE  /\ Down(span, x) \in Nat \X Nat
         /\ Down(span, x)[1] <= span[1] /\ Down(span, x)[1] <= x - 1
         /\ Down(span, x)[2] = span[2]
         /\ span = Anywhere => Down(span, x) = Anywhere
<1>1. CASE span[1] < x
  BY <1>1 DEF Down
<1>2. CASE ~(span[1] < x)
  <2>1. x - 1 \in Nat /\ x - 1 <= span[1]
    BY <1>2 DEF None
  <2>2. span # Anywhere
    BY <1>2 DEF Anywhere, None
  <2>3. Down(span, x) = <<x - 1, span[2]>>
    BY <1>2 DEF Down
  <2> QED BY <2>1, <2>2, <2>3
<1> QED BY <1>1, <1>2

\* The turns once the session is drained.
LEMMA DrainedTyped ==
  ASSUME ShapeInv, NEW t \in Turns
  PROVE  LET drained == [turn EXCEPT ![t].captured = None] IN
         /\ drained \in [Turns -> TurnRecs]
         /\ \A s \in Turns : /\ CaptureLeaves(turn[s], drained[s])
                             /\ drained[s].span = turn[s].span
<1> DEFINE drained == [turn EXCEPT ![t].captured = None]
           r == [turn[t] EXCEPT !.captured = None]
<1>1. TypeInv /\ \A s \in Turns : turn[s] \in TurnRecs
  BY DEF ShapeInv, TypeInv
<1>2. r \in TurnRecs
  BY <1>1, NumbersAreNatural, Zenon DEF TurnRecs
<1>3. /\ r.pc = turn[t].pc /\ r.on = turn[t].on /\ r.pre = turn[t].pre
      /\ r.captured = None /\ r.cancelled = turn[t].cancelled
      /\ r.stage = turn[t].stage /\ r.span = turn[t].span
      /\ r.session = turn[t].session
  BY <1>1, Zenon DEF TurnRecs
<1>4. drained = [turn EXCEPT ![t] = r]
  OBVIOUS
<1> HIDE DEF r, drained
<1>5. /\ drained \in [Turns -> TurnRecs] /\ drained[t] = r
      /\ \A s \in Turns \ {t} : drained[s] = turn[s]
  BY <1>1, <1>2, <1>4, SMT DEF TypeInv
<1>6. \A s \in Turns : Lower(turn[s]) \in Nat /\ Lower(turn[s]) <= Lower(turn[s])
  BY <1>1, SpansTyped
<1>7. ASSUME NEW s \in Turns
      PROVE  CaptureLeaves(turn[s], drained[s]) /\ drained[s].span = turn[s].span
  <2>1. CASE s = t
    <3>1. Lower(r) = Lower(turn[t]) /\ Upper(r) = Upper(turn[t])
      BY <1>3, SpansTyped, Zenon
    <3> QED BY <1>3, <1>5, <1>6, <2>1, <3>1, Zenon DEF CaptureLeaves
  <2>2. CASE s # t
    BY <1>5, <1>6, <2>2, Zenon DEF CaptureLeaves
  <2> QED BY <2>1, <2>2
<1> QED BY <1>5, <1>7 DEF drained

\* What is persisted is fresh, or becomes it; or the rewind is yet to forget it.
LEMMA CaptureMoves ==
  ASSUME ShapeInv, SessionInv, NEW t \in Turns, Capture(t)
  PROVE  /\ UNCHANGED <<pool, conn, watch, lastSession, killer>>
         /\ turn' \in [Turns -> TurnRecs]
         /\ \A s \in Turns : CaptureLeaves(turn[s], turn'[s])
         /\ retired' \in Nat /\ retired' <= retired
         /\ \A s \in Turns : Lower(turn'[s]) <= retired'
         /\ \/ saved' = saved
            \/ /\ saved' = turn[t].captured /\ saved' # None
               /\ Phase = "drain" \/ saved' > retired'
         /\ saved # None => saved' = saved
<1> DEFINE x == turn[t].captured
           drained == [turn EXCEPT ![t].captured = None]
<1>1. /\ UNCHANGED <<pool, conn, watch, lastSession, killer>> /\ x # None
      /\ saved' = saved \/ (saved = None /\ saved' = x)
  BY Zenon DEF Capture, connVars, procVars
<1>2. x \in Nat /\ retired \in Nat /\ x <= lastSession
  BY SessionsTyped DEF SessionInv, KnownInv
<1>3. /\ drained \in [Turns -> TurnRecs]
      /\ \A s \in Turns : CaptureLeaves(turn[s], drained[s])
      /\ \A s \in Turns : drained[s].span = turn[s].span
  BY DrainedTyped
<1>4. \A s \in Turns : Lower(turn[s]) \in Nat /\ Lower(turn[s]) <= retired
  BY SpansTyped DEF SessionInv, KnownInv, ShapeInv, TypeInv
<1>5. CASE turn' = drained /\ retired' = retired
  <2>1. \A s \in Turns : Lower(turn'[s]) <= retired'
    <3>1. \A s \in Turns : Lower(turn'[s]) = Lower(turn[s])
      BY <1>3, <1>5, SpansTyped, Zenon
    <3> QED BY <1>4, <1>5, <3>1
  <2>2. saved' # saved => Phase = "drain" \/ x > retired'
    <3> SUFFICES ASSUME saved' # saved, Phase # "drain"
                 PROVE  x > retired
      BY <1>5
    <3>1. saved = None /\ killer[Closer].at # "drain"
      BY <1>1 DEF Phase, PhaseOf
    <3>2. CASE ~turn[t].cancelled
      <4>1. Fresh(x)
        BY <3>2, Zenon DEF SessionInv, HeldFresh, HeldBy
      <4> QED BY <1>1, <4>1 DEF Fresh
    <3>3. CASE turn[t].cancelled
      <4>1. ~Revives(t)
        <5>1. SUFFICES ASSUME Revives(t) PROVE FALSE
          OBVIOUS
        <5>2. retired' = x - 1 /\ x <= retired
          BY <3>1, <5>1 DEF Capture, Revives
        <5> QED BY <1>2, <1>5, <5>2
      <4> QED BY <1>2, <3>1, <3>3, <4>1 DEF Revives
    <3> QED BY <3>2, <3>3
  <2>3. \A s \in Turns : CaptureLeaves(turn[s], turn'[s])
    BY <1>3, <1>5, Zenon
  <2>4. turn' \in [Turns -> TurnRecs]
    BY <1>3, <1>5, Zenon
  <2> HIDE DEF drained
  <2> QED BY <1>1, <1>2, <1>5, <2>1, <2>2, <2>3, <2>4
<1>6. CASE /\ Revives(t) /\ saved' = x /\ retired' = x - 1
           /\ turn' = [s \in Turns |-> [drained[s] EXCEPT !.span = Down(@, x)]]
  <2>1. retired' \in Nat /\ retired' <= retired /\ x > retired'
    BY <1>1, <1>2, <1>6 DEF Revives, None
  <2>2. ASSUME NEW s \in Turns
        PROVE  /\ turn'[s] \in TurnRecs
               /\ CaptureLeaves(turn[s], turn'[s]) /\ Lower(turn'[s]) <= x - 1
    <3> DEFINE d == drained[s]
               span == Down(d.span, x)
               q == [d EXCEPT !.span = span]
    <3>1. d \in TurnRecs /\ CaptureLeaves(turn[s], d) /\ d.span = turn[s].span
      BY <1>3
    <3>2. turn'[s] = q
      BY <1>6
    <3> HIDE DEF d, drained, x
    <3>3. d.span \in Nat \X Nat
      BY <3>1, Zenon DEF TurnRecs
    <3>4. /\ span \in Nat \X Nat /\ span[1] <= d.span[1] /\ span[1] <= x - 1
          /\ span[2] = d.span[2]
          /\ d.span = Anywhere => span = Anywhere
      BY <1>1, <1>2, <3>3, DownTyped DEF x
    <3> HIDE DEF span
    <3>5. q \in TurnRecs
      BY <3>1, <3>4, Zenon DEF TurnRecs
    <3>6. /\ q.pc = d.pc /\ q.on = d.on /\ q.pre = d.pre
          /\ q.cancelled = d.cancelled /\ q.stage = d.stage
          /\ q.session = d.session /\ q.captured = d.captured
          /\ q.span = span
      BY <3>1, Zenon DEF TurnRecs
    <3> HIDE DEF q
    <3>7. /\ Lower(q) \in Nat /\ Lower(q) <= Lower(d) /\ Lower(q) <= x - 1
          /\ Upper(q) = Upper(d)
      BY <3>4, <3>6 DEF Lower, Upper
    <3>8. Lower(q) <= Lower(turn[s])
      <4>1. Lower(d) = Lower(turn[s])
        BY <3>1, SpansTyped, Zenon
      <4> QED BY <3>7, <4>1
    <3> QED BY <3>1, <3>2, <3>4, <3>5, <3>6, <3>7, <3>8, Zenon DEF CaptureLeaves
  <2>3. turn' \in [Turns -> TurnRecs]
    <3>1. turn' = [s \in Turns |-> turn'[s]]
      BY <1>6
    <3> QED BY <2>2, <3>1, Zenon
  <2>4. saved = None
    BY <1>6 DEF Revives
  <2>5. \A s \in Turns : CaptureLeaves(turn[s], turn'[s]) /\ Lower(turn'[s]) <= retired'
    BY <1>6, <2>2
  <2>6. saved' = x /\ saved' # None /\ saved' > retired'
    BY <1>1, <1>6, <2>1
  <2> HIDE DEF drained, x
  <2> QED BY <1>1, <2>1, <2>3, <2>4, <2>5, <2>6 DEF x
<1>7. Revives(t) => saved = None
  BY DEF Revives
<1> QED BY <1>5, <1>6, <1>7, Zenon DEF Capture

\* The executor persists the session, unless there is one already.
LEMMA CaptureIsGood ==
  ASSUME ShapeInv, SessionInv, NEW t \in Turns, Capture(t)
  PROVE  Good
<1>1. /\ UNCHANGED <<pool, conn, watch, lastSession, killer>>
      /\ turn' \in [Turns -> TurnRecs]
      /\ \A s \in Turns : CaptureLeaves(turn[s], turn'[s])
      /\ retired' \in Nat /\ retired' <= retired /\ retired \in Nat
      /\ \A s \in Turns : Lower(turn'[s]) <= retired'
      /\ \/ saved' = saved
         \/ /\ saved' = turn[t].captured /\ saved' # None
            /\ Phase = "drain" \/ saved' > retired'
      /\ saved # None => saved' = saved
  BY CaptureMoves, SessionsTyped
<1>2. /\ saved' \in Nat /\ saved' <= lastSession
      /\ Phase' = Phase /\ \A d : SID(d)' = SID(d)
  BY <1>1, SessionsTyped DEF SessionInv, KnownInv, Phase, SID
<1>3. \A s \in Turns :
        /\ turn'[s].pc = turn[s].pc /\ turn'[s].on = turn[s].on
        /\ turn'[s].pre = turn[s].pre /\ turn'[s].cancelled = turn[s].cancelled
        /\ turn'[s].stage = turn[s].stage /\ turn'[s].session = turn[s].session
        /\ turn'[s].captured \in {turn[s].captured, None}
  BY <1>1 DEF CaptureLeaves
<1>4. \A s \in Turns :
        /\ IsRunning(turn'[s]) <=> IsRunning(turn[s])
        /\ IsLive(turn'[s]) <=> IsLive(turn[s])
        /\ FirstTry(turn'[s]) <=> FirstTry(turn[s])
        /\ FellBack(turn'[s]) <=> FellBack(turn[s])
        /\ Prompting(turn'[s]) <=> Prompting(turn[s])
  BY <1>3, Zenon DEF IsRunning, IsLive, FirstTry, FellBack, Prompting
<1>5. ShapeInv' /\ FlagSteps
  <2>1. \A s \in Turns : TurnPlaced(turn'[s])
    <3>1. \A s \in Turns : TurnPlaced(turn[s])
      BY DEF ShapeInv
    <3> QED BY <1>3, <3>1, SMT DEF TurnPlaced
  <2> QED BY <1>1, <1>2, <2>1, NoConnMoves, NoKillMoves, WatchTyped, ShapeFrom,
        Zenon DEF ShapeInv, TypeInv
<1>6. \A y \in Nat : Fresh(y) => Fresh(y)'
  BY <1>1 DEF Fresh
<1>7. ASSUME NEW s \in Turns, NEW y \in Nat, Meets(turn[s], y)
      PROVE  Meets(turn'[s], y)
  <2>1. /\ Lower(turn'[s]) \in Nat /\ Lower(turn[s]) \in Nat
        /\ Lower(turn'[s]) <= Lower(turn[s])
    BY <1>1, SpansTyped DEF CaptureLeaves, ShapeInv, TypeInv
  <2> HIDE DEF Lower
  <2> QED BY <1>7, <2>1 DEF Meets
<1>8. OneRuns'
  BY <1>4, Zenon DEF SessionInv, OneRuns
<1>9. FirstTurn'
  <2> SUFFICES ASSUME NEW s \in Turns, FirstTry(turn'[s]),
                      \A u \in Turns \ {s} : turn'[u].pc = "idle"
               PROVE  lastSession' = 0
    BY Zenon DEF FirstTurn, HasConversationHistory
  <2>1. \A u \in Turns \ {s} : turn[u].pc = "idle"
    BY <1>3
  <2> QED BY <1>1, <1>4, <2>1, Zenon DEF SessionInv, FirstTurn, HasConversationHistory
<1>10. FallbackInv'
  <2>1. retired = 0 => retired' = 0
    BY <1>1
  <2> QED BY <1>3, <1>4, <2>1, Zenon DEF SessionInv, FallbackInv
<1>11. KnownInv'
  <2>1. KnownInv /\ None <= lastSession /\ retired' <= lastSession
    BY <1>1 DEF SessionInv, KnownInv, None, ShapeInv, TypeInv
  <2>2. \A s \in Turns : turn'[s].captured <= lastSession /\ turn'[s].pre <= lastSession
    BY <1>3, <2>1, Zenon DEF KnownInv
  <2> QED BY <1>1, <1>2, <2>1, <2>2, Zenon DEF KnownInv
<1>12. SpanInv'
  <2> SUFFICES ASSUME NEW s \in Turns, IsLive(turn'[s])
               PROVE  SpanOf(s)'
    BY Zenon DEF SpanInv
  <2>1. SpanOf(s)
    BY <1>4 DEF SessionInv, SpanInv
  <2>2. /\ Upper(turn'[s]) = Upper(turn[s])
        /\ turn[s].span = Anywhere => turn'[s].span = Anywhere
    BY <1>1 DEF CaptureLeaves
  <2> QED BY <1>1, <1>2, <2>1, <2>2, Zenon DEF SpanOf
<1>13. SavedFresh'
  <2>1. saved' = saved => SavedFresh'
    BY <1>2, <1>6, Zenon DEF SessionInv, SavedFresh, Fresh
  <2>2. saved' > retired' => SavedFresh'
    BY DEF SavedFresh, Fresh
  <2>3. Phase = "drain" => SavedFresh'
    BY <1>2 DEF SavedFresh
  <2> QED BY <1>1, <2>1, <2>2, <2>3
<1>14. PoolFresh'
  <2> DEFINE Now(y) == y = None \/ y > retired'
  <2> SUFFICES ASSUME Phase = "off", pool # None
               PROVE  /\ Now(SID(pool))
                      /\ \A u \in Turns : IsRunning(turn[u]) /\ turn[u].on = pool =>
                           Now(turn[u].pre)
    BY <1>1, <1>2, <1>3, <1>4, Zenon DEF PoolFresh, Fresh
  <2>1. SID(pool) \in Nat /\ \A u \in Turns : turn[u].pre \in Nat
    BY SessionsTyped
  <2>2. /\ Fresh(SID(pool))
        /\ \A u \in Turns : IsRunning(turn[u]) /\ turn[u].on = pool => Fresh(turn[u].pre)
    BY Zenon DEF SessionInv, PoolFresh
  <2>3. \A y \in Nat : Fresh(y) => Now(y)
    BY <1>1 DEF Fresh
  <2> QED BY <2>1, <2>2, <2>3, Zenon
<1>15. HeldFresh'
  <2> SUFFICES ASSUME NEW s \in Turns, ~turn'[s].cancelled
               PROVE  HeldBy(s)'
    BY Zenon DEF HeldFresh
  <2>1. HeldBy(s)
    BY <1>3, Zenon DEF SessionInv, HeldFresh
  <2>2. turn'[s].captured > retired' \/ turn'[s].captured = None
    BY <1>1, <1>3, <2>1, SessionsTyped DEF HeldBy, Fresh
  <2>3. ASSUME turn'[s].pc = "emit"
        PROVE  /\ SID(turn[s].on) > retired' \/ SID(turn[s].on) = None
               /\ \A u \in Turns : IsRunning(turn[u]) /\ turn[u].on = turn[s].on =>
                    turn[u].pre > retired' \/ turn[u].pre = None
    <3>1. turn[s].pc = "emit" /\ turn[s].on \in Conns
      BY <1>3, <2>3 DEF ShapeInv, TurnPlaced
    <3>2. SID(turn[s].on) \in Nat /\ \A u \in Turns : turn[u].pre \in Nat
      BY <3>1, SessionsTyped
    <3> HIDE DEF SID
    <3> QED BY <1>1, <2>1, <3>1, <3>2 DEF HeldBy, Fresh
  <2> QED BY <1>2, <1>3, <1>4, <2>2, <2>3, Zenon DEF HeldBy, Fresh
<1>16. AroundInv'
  <2> SUFFICES ASSUME NEW s \in Turns, IsLive(turn'[s])
               PROVE  Around(s)'
    BY Zenon DEF AroundInv
  <2>1. Around(s) /\ SpanOf(s)
    BY <1>4 DEF SessionInv, AroundInv, SpanInv
  <2>2. Meets(turn'[s], saved')
    <3>1. CASE saved' = saved
      BY <1>7, <2>1, <3>1, SessionsTyped DEF Around
    <3>2. CASE saved' > retired'
      <4>1. Lower(turn'[s]) \in Nat /\ Lower(turn'[s]) <= retired'
        BY <1>1 DEF CaptureLeaves
      <4> HIDE DEF Lower
      <4> QED BY <1>1, <1>2, <3>2, <4>1 DEF Meets
    <3>3. CASE Phase = "drain"
      <4>1. turn'[s].span = Anywhere
        BY <1>1, <2>1, <3>3, SMT DEF SpanOf, CaptureLeaves
      <4>2. Lower(turn'[s]) = 0
        BY <4>1, SpansTyped, Zenon
      <4> QED BY <1>2, <4>2, SMT DEF Meets, None
    <3> QED BY <1>1, <3>1, <3>2, <3>3
  <2>3. \A c \in Conns : Meets(turn[s], SID(c)) => Meets(turn'[s], SID(c))
    BY <1>7, SessionsTyped
  <2>4. pool' # None => Meets(turn'[s], SID(pool))
    BY <1>1, <2>1, <2>3, SessionsTyped DEF Around
  <2>5. turn'[s].on # None => Meets(turn'[s], SID(turn[s].on))
    BY <1>3, <2>1, <2>3, SessionsTyped DEF Around
  <2>6. ASSUME NEW u \in Turns, IsRunning(turn'[u])
        PROVE  /\ Meets(turn'[s], turn[u].pre)
               /\ turn[u].on # None => Meets(turn'[s], SID(turn[u].on))
    <3>1. /\ Meets(turn[s], turn[u].pre)
          /\ turn[u].on # None => Meets(turn[s], SID(turn[u].on))
      BY <1>4, <2>1, <2>6, Zenon DEF Around
    <3> QED BY <1>7, <2>3, <3>1, SessionsTyped
  <2> QED BY <1>1, <1>2, <1>3, <2>2, <2>4, <2>5, <2>6, Zenon DEF Around
<1>17. ReadInv'
  <2> SUFFICES ASSUME NEW s \in Turns, Prompting(turn'[s])
               PROVE  turn'[s].session \in Lower(turn'[s]) + 1 .. Upper(turn'[s])
    BY Zenon DEF ReadInv
  <2>1. turn[s].session \in Lower(turn[s]) + 1 .. Upper(turn[s])
    BY <1>4 DEF SessionInv, ReadInv
  <2>2. /\ Lower(turn'[s]) \in Nat /\ Lower(turn[s]) \in Nat
        /\ Upper(turn[s]) \in Nat /\ Upper(turn'[s]) = Upper(turn[s])
        /\ Lower(turn'[s]) <= Lower(turn[s])
    BY <1>1, SpansTyped DEF CaptureLeaves, ShapeInv, TypeInv
  <2> HIDE DEF Lower, Upper
  <2> QED BY <1>3, <2>1, <2>2
<1> QED BY <1>5, <1>8, <1>9, <1>10, <1>11, <1>12, <1>13, <1>14, <1>15, <1>16, <1>17
    DEF Good, SessionInv

-----------------------------------------------------------------------------
(* The rewind.                                                             *)

\* It cancels every turn there is, and retires every session.
LEMMA RewindIsGood ==
  ASSUME ShapeInv, SessionInv, Rewind
  PROVE  Good
<1>1. /\ UNCHANGED <<pool, conn, watch, lastSession, saved>>
      /\ turn' = [t \in Turns |-> [Cancelled[t] EXCEPT !.span = NoTurn.span]]
      /\ retired' = lastSession
      /\ killer' = [killer EXCEPT ![Closer].at = "drain"]
  BY DEF Rewind, connVars, procVars
<1>2. lastSession \in Nat /\ retired \in Nat /\ saved \in Nat
      /\ pool \in Conns \cup {None}
  BY DEF ShapeInv, TypeInv
<1>3. /\ killer' \in [Killers -> KillRecs]
      /\ \A k \in Killers : KillPlaced(killer'[k])
      /\ Phase' = "drain"
  <2> DEFINE r == [killer[Closer] EXCEPT !.at = "drain"]
  <2>1. killer[Closer] \in KillRecs
    BY KillersDiffer DEF ShapeInv, TypeInv
  <2>2. r \in KillRecs /\ r.at = "drain"
    BY <2>1, Zenon DEF KillRecs
  <2>3. KillPlaced(r) /\ PhaseOf(r) = "drain"
    BY <2>2, SMT DEF KillPlaced, PhaseOf
  <2>4. killer' = [killer EXCEPT ![Closer] = r]
    BY <1>1
  <2> HIDE DEF r
  <2>5. killer'[Closer] = r
    BY <2>2, <2>4, KillersDiffer, SMT DEF ShapeInv, TypeInv
  <2> QED BY <2>2, <2>3, <2>4, <2>5, OneKill, KillersDiffer, Zenon DEF Phase
<1>4. /\ turn' \in [Turns -> TurnRecs]
      /\ \A s \in Turns : TurnPlaced(turn'[s])
      /\ \A s \in Turns : CalmTurn(turn[s], turn'[s])
      /\ \A s \in Turns : IsLive(turn[s]) => turn'[s].cancelled
      /\ \A s \in Turns : turn'[s].span = Anywhere
  BY <1>1, FreedIsCalm
<1>5. ShapeInv' /\ FlagSteps
  BY <1>1, <1>2, <1>3, <1>4, NoConnMoves, WatchTyped, ShapeFrom, Zenon
<1>6. CalmData
  BY <1>1, <1>4, NoConnMoves, Zenon DEF CalmData
<1>7. \A s \in Turns : IsLive(turn'[s]) => IsLive(turn[s]) /\ turn'[s].cancelled
  BY <1>4, Zenon DEF CalmTurn
<1>8. \A s \in Turns : turn'[s].captured = turn[s].captured
                       /\ turn'[s].pre \in {turn[s].pre, None}
  BY <1>4, Zenon DEF CalmTurn
<1>9. \A s \in Turns : Lower(turn'[s]) = 0 /\ Upper(turn'[s]) = MaxSessions
  BY <1>4, SpansTyped, Zenon
<1>10. FallbackInv'
  <2> SUFFICES ASSUME NEW t \in Turns, FellBack(turn'[t])
               PROVE  turn'[t].cancelled
    BY Zenon DEF FallbackInv
  <2> QED BY <1>4, <1>7, SMT DEF FellBack, Early, TurnPlaced, IsLive
<1>11. KnownInv'
  <2>1. \A s \in Turns : turn'[s].captured <= lastSession /\ turn'[s].pre <= lastSession
    BY <1>2, <1>8, SMT DEF SessionInv, KnownInv, None
  <2>2. \A c \in Conns : SID(c)' <= lastSession
    BY <1>1 DEF SessionInv, KnownInv, SID
  <2>3. /\ 0 <= lastSession /\ lastSession <= lastSession
        /\ lastSession <= MaxSessions /\ saved <= lastSession
    BY <1>2 DEF SessionInv, KnownInv
  <2> QED BY <1>1, <1>9, <2>1, <2>2, <2>3, Zenon DEF KnownInv
<1>12. SpanInv'
  BY <1>4, <1>9, Zenon DEF SpanInv, SpanOf
<1>13. SavedFresh' /\ PoolFresh'
  BY <1>3 DEF SavedFresh, PoolFresh
<1>14. HeldFresh'
  <2> SUFFICES ASSUME NEW s \in Turns, ~turn'[s].cancelled
               PROVE  HeldBy(s)'
    BY Zenon DEF HeldFresh
  <2>1. ~IsLive(turn'[s])
    BY <1>7
  <2>2. turn'[s].captured = None /\ turn'[s].pc # "emit"
    BY <1>4, <2>1, SMT DEF TurnPlaced, IsLive
  <2> QED BY <2>2, Zenon DEF HeldBy, Fresh
<1> QED BY <1>5, <1>6, <1>10, <1>11, <1>12, <1>13, <1>14, CalmKeepsOneRuns,
    CalmKeepsFirstTurn, CalmKeepsAround, CalmKeepsRead, Zenon DEF Good, SessionInv

\* It forgets the saved session.
LEMMA RewindForgetIsGood ==
  ASSUME ShapeInv, SessionInv, RewindForget
  PROVE  Good
<1>1. /\ UNCHANGED <<pool, conn, watch, lastSession, retired, turn>>
      /\ killer[Closer].at = "drain" /\ saved' = None
      /\ killer' = [killer EXCEPT ![Closer].at = "remove"]
  BY DEF RewindForget, connVars, procVars
<1>2. Phase = "drain"
  BY <1>1 DEF Phase, PhaseOf
<1>3. /\ killer' \in [Killers -> KillRecs]
      /\ \A k \in Killers : KillPlaced(killer'[k])
      /\ Phase' = "remove"
  <2> DEFINE r == [killer[Closer] EXCEPT !.at = "remove"]
  <2>1. killer[Closer] \in KillRecs
    BY KillersDiffer DEF ShapeInv, TypeInv
  <2>2. r \in KillRecs /\ r.at = "remove"
    BY <2>1, Zenon DEF KillRecs
  <2>3. KillPlaced(r) /\ PhaseOf(r) = "remove"
    BY <2>2, SMT DEF KillPlaced, PhaseOf
  <2>4. killer' = [killer EXCEPT ![Closer] = r]
    BY <1>1
  <2> HIDE DEF r
  <2>5. killer'[Closer] = r
    BY <2>2, <2>4, KillersDiffer, SMT DEF ShapeInv, TypeInv
  <2> QED BY <2>2, <2>3, <2>4, <2>5, OneKill, KillersDiffer, Zenon DEF Phase
<1>4. ShapeInv' /\ FlagSteps
  BY <1>1, <1>3, NoConnMoves, NoTurnMoves, WatchTyped, ShapeFrom, SessionsTyped,
    NumbersAreNatural, Zenon DEF ShapeInv, TypeInv
<1>5. CalmData
  BY <1>1, NoConnMoves, NoTurnMoves, Zenon DEF CalmData
<1>6. FallbackInv'
  BY <1>1, Zenon DEF SessionInv, FallbackInv
<1>7. KnownInv'
  <2>1. None <= lastSession
    BY DEF None, ShapeInv, TypeInv
  <2>2. \A c \in Conns : SID(c)' = SID(c)
    BY <1>1 DEF SID
  <2> QED BY <1>1, <2>1, <2>2, Zenon DEF SessionInv, KnownInv
<1>8. SpanInv'
  <2> SUFFICES ASSUME NEW s \in Turns, IsLive(turn[s])
               PROVE  SpanOf(s)'
    BY <1>1, Zenon DEF SpanInv
  <2>1. turn[s].span = Anywhere
    BY <1>2, SMT DEF SessionInv, SpanInv, SpanOf
  <2> QED BY <1>1, <2>1, SpansTyped, Zenon DEF SpanOf
<1>9. SavedFresh' /\ PoolFresh'
  BY <1>1, <1>3, DroppedIsFresh, SMT DEF SavedFresh, PoolFresh, Fresh
<1>10. HeldFresh'
  <2> SUFFICES ASSUME NEW s \in Turns, ~turn[s].cancelled
               PROVE  HeldBy(s)'
    BY <1>1, Zenon DEF HeldFresh
  <2>1. HeldBy(s)
    BY Zenon DEF SessionInv, HeldFresh
  <2> QED BY <1>1, <2>1, Zenon DEF HeldBy, Fresh, SID
<1> QED BY <1>4, <1>5, <1>6, <1>7, <1>8, <1>9, <1>10, CalmKeepsOneRuns,
    CalmKeepsFirstTurn, CalmKeepsAround, CalmKeepsRead, Zenon DEF Good, SessionInv

\* It is over when the connection is out of the pool.
LEMMA RewindRemoveIsGood ==
  ASSUME ShapeInv, SessionInv, RewindRemove
  PROVE  Good
<1>1. /\ UNCHANGED <<conn, watch, lastSession, saved, retired, turn>>
      /\ killer[Closer].at = "remove" /\ Remove
  BY DEF RewindRemove, sessionVars, procVars
<1>2. Phase = "remove"
  BY <1>1 DEF Phase, PhaseOf
<1>3. /\ killer' \in [Killers -> KillRecs]
      /\ \A k \in Killers : KillPlaced(killer'[k])
      /\ Phase' = "off" /\ pool' = None
  BY <1>1, RemoveTyped
<1>4. ShapeInv' /\ FlagSteps
  BY <1>1, <1>3, NoConnMoves, NoTurnMoves, WatchTyped, ShapeFrom, SessionsTyped,
    Zenon DEF ShapeInv, TypeInv
<1>5. CalmData
  BY <1>1, <1>3, NoConnMoves, NoTurnMoves, Zenon DEF CalmData
<1>6. FallbackInv'
  BY <1>1, Zenon DEF SessionInv, FallbackInv
<1>7. KnownInv'
  <2>1. \A c \in Conns : SID(c)' = SID(c)
    BY <1>1 DEF SID
  <2> QED BY <1>1, <2>1, Zenon DEF SessionInv, KnownInv
<1>8. SpanInv'
  <2> SUFFICES ASSUME NEW s \in Turns, IsLive(turn[s])
               PROVE  SpanOf(s)'
    BY <1>1, Zenon DEF SpanInv
  <2>1. turn[s].span = Anywhere
    BY <1>2, SMT DEF SessionInv, SpanInv, SpanOf
  <2> QED BY <1>1, <2>1, SpansTyped, Zenon DEF SpanOf
<1>9. SavedFresh' /\ PoolFresh'
  <2>1. Fresh(saved)
    BY <1>2, SMT DEF SessionInv, SavedFresh
  <2> QED BY <1>1, <1>3, <2>1, SMT DEF SavedFresh, PoolFresh, Fresh
<1>10. HeldFresh'
  <2> SUFFICES ASSUME NEW s \in Turns, ~turn[s].cancelled
               PROVE  HeldBy(s)'
    BY <1>1, Zenon DEF HeldFresh
  <2>1. HeldBy(s)
    BY Zenon DEF SessionInv, HeldFresh
  <2> QED BY <1>1, <2>1, Zenon DEF HeldBy, Fresh, SID
<1> QED BY <1>4, <1>5, <1>6, <1>7, <1>8, <1>9, <1>10, CalmKeepsOneRuns,
    CalmKeepsFirstTurn, CalmKeepsAround, CalmKeepsRead, Zenon DEF Good, SessionInv

-----------------------------------------------------------------------------
(***************************************************************************)
(* The invariant, and what follows.                                        *)
(***************************************************************************)
IInv == ShapeInv /\ SessionInv /\ AliveHasItsProcess

LEMMA InitIsGood ==
  ASSUME Init
  PROVE  IInv
<1>1. /\ pool = None /\ saved = 0 /\ lastSession = 0 /\ retired = 0
      /\ conn = [c \in Conns |-> NewConn(None)]
      /\ watch = [p \in Procs |-> None]
      /\ killer = [k \in Killers |-> Idle]
      /\ turn = [t \in Turns |-> NoTurn]
  BY DEF Init, None
<1>2. NewConn(None) \in ConnRecs /\ NewConn(None).acpSID = None /\ ~NewConn(None).alive
  BY NumbersAreNatural, NewConnTyped
<1>3. /\ NoTurn.pc = "idle" /\ NoTurn.on = None /\ NoTurn.pre = None
      /\ NoTurn.captured = None /\ NoTurn.stage = "first" /\ ~NoTurn.cancelled
      /\ NoTurn.span = Anywhere
  BY DEF NoTurn, Anywhere
<1>4. Idle.at = "off"
  BY DEF Idle
<1>5. TypeInv
  BY <1>1, <1>2, NumbersAreNatural, NoTurnTyped, IdleTyped, Zenon DEF TypeInv, None
<1>6. \A t \in Turns : turn[t] = NoTurn
  BY <1>1
<1>7. \A c \in Conns : SID(c) = None /\ ~conn[c].alive
  BY <1>1, <1>2, Zenon DEF SID
<1>8. ShapeInv
  <2>1. TurnPlaced(NoTurn) /\ KillPlaced(Idle)
    BY <1>3, <1>4, SMT DEF TurnPlaced, KillPlaced
  <2> QED BY <1>1, <1>5, <2>1, Zenon DEF ShapeInv
<1>9. ~IsLive(NoTurn) /\ ~IsRunning(NoTurn) /\ ~FellBack(NoTurn) /\ ~Prompting(NoTurn)
  BY <1>3, SMT DEF IsLive, IsRunning, FellBack, Prompting
<1>10. OneRuns /\ SpanInv /\ FallbackInv /\ AroundInv /\ ReadInv
  BY <1>6, <1>9, Zenon DEF OneRuns, SpanInv, FallbackInv, AroundInv, ReadInv
<1>11. FirstTurn
  BY <1>1 DEF FirstTurn
<1>12. SavedFresh /\ PoolFresh
  BY <1>1, DroppedIsFresh DEF SavedFresh, PoolFresh, None
<1>13. HeldFresh
  BY <1>3, <1>6, DroppedIsFresh DEF HeldFresh, HeldBy
<1>14. KnownInv
  <2>1. 0 <= 0 /\ 0 <= MaxSessions /\ None <= 0
    BY NumbersAreNatural DEF None
  <2>2. Lower(NoTurn) = 0
    BY <1>3, SpansTyped, Zenon
  <2> QED BY <1>1, <1>3, <1>6, <1>7, <2>1, <2>2, Zenon DEF KnownInv
<1>15. AliveHasItsProcess
  BY <1>7 DEF AliveHasItsProcess
<1> QED BY <1>8, <1>10, <1>11, <1>12, <1>13, <1>14, <1>15 DEF IInv, SessionInv

LEMMA StutterIsGood ==
  ASSUME ShapeInv, SessionInv, UNCHANGED vars
  PROVE  Good
<1>1. UNCHANGED <<pool, conn, watch, killer, turn>> /\ UNCHANGED sessionVars
  BY DEF vars, connVars, procVars
<1>2. Quiet
  BY <1>1, NoConnMoves, NoKillMoves, NoTurnMoves, WatchTyped, QuietFrom, Zenon
<1> QED BY <1>2, QuietIsGood

LEMMA TurnStepIsGood ==
  ASSUME ShapeInv, SessionInv, NEW t \in Turns, TurnStep(t)
  PROVE  Good
<1>1. CASE Get(t)
  BY <1>1, GetIsGood
<1>2. CASE Forget(t)
  BY <1>2, ForgetIsQuiet, QuietIsGood
<1>3. CASE Ensure(t)
  BY <1>3, EnsureIsGood
<1>4. CASE RespawnReap(t)
  BY <1>4, RespawnReapIsQuiet, QuietIsGood
<1>5. CASE Respawn(t)
  BY <1>5, RespawnIsGood
<1>6. CASE GiveUp(t)
  <2>1. FirstTry(turn[t]) /\ ~HasConversationHistory(t) => lastSession = 0
    BY DEF SessionInv, FirstTurn
  <2> QED BY <1>6, <2>1, GiveUpIsQuiet, QuietIsGood
<1>7. CASE Emit(t)
  BY <1>7, EmitIsGood
<1>8. CASE ReadConn(t)
  BY <1>8, ReadConnIsQuiet, QuietIsGood
<1>9. CASE Send(t)
  BY <1>9, SendIsQuiet, QuietIsGood
<1>10. CASE Answered(t)
  BY <1>10, AnsweredIsQuiet, QuietIsGood
<1>11. CASE PromptFails(t)
  BY <1>11, PromptErrorIsQuiet, QuietIsGood DEF PromptFails
<1>12. CASE Leave(t)
  BY <1>12, LeaveIsQuiet, QuietIsGood
<1> QED BY <1>1, <1>2, <1>3, <1>4, <1>5, <1>6, <1>7, <1>8, <1>9, <1>10, <1>11, <1>12
    DEF TurnStep

LEMMA NextIsGood ==
  ASSUME ShapeInv, SessionInv, Next
  PROVE  Good
<1>1. ASSUME NEW t \in Turns, BeginTurn(t)
      PROVE  Good
  BY <1>1, BeginTurnIsGood
<1>2. ASSUME NEW t \in Turns, TurnStep(t)
      PROVE  Good
  BY <1>2, TurnStepIsGood
<1>3. ASSUME NEW t \in Turns, ExecutorStep(t)
      PROVE  Good
  BY <1>3, CaptureIsGood, FinalizeIsQuiet, QuietIsGood DEF ExecutorStep
<1>4. ASSUME NEW t \in Turns, Stall(t)
      PROVE  Good
  BY <1>4, StallIsQuiet, QuietIsGood
<1>5. ASSUME NEW t \in Turns, WriteFails(t)
      PROVE  Good
  BY <1>5, PromptErrorIsQuiet, QuietIsGood DEF WriteFails
<1>6. ASSUME NEW k \in Killers, KillStep(k)
      PROVE  Good
  BY <1>6, KillBeginIsQuiet, KillReapIsQuiet, KillMarkIsQuiet, QuietIsGood DEF KillStep
<1>7. ASSUME NEW p \in Procs, WatchDone(p) \/ Fault(p)
      PROVE  Good
  BY <1>7, WatchDoneIsQuiet, FaultIsQuiet, QuietIsGood
<1>8. CASE Cancel \/ Sweep \/ SweepLook \/ Close
  BY <1>8, CancelIsQuiet, SweepIsQuiet, CloseIsQuiet, QuietIsGood
<1>9. CASE Rewind \/ RewindForget \/ RewindRemove
  BY <1>9, RewindIsGood, RewindForgetIsGood, RewindRemoveIsGood
<1> QED BY <1>1, <1>2, <1>3, <1>4, <1>5, <1>6, <1>7, <1>8, <1>9, Zenon DEF Next

\* The sessions that anything holds - the pool, the connections, the turns, their
\* executors, the database - are such that no turn can come to prompt in one that is
\* not its conversation's, whatever dies, is killed, swept, closed, rewound or retried
\* in the middle of GetOrCreateConn, ensureAliveWithSession and Prompt.
THEOREM Inductive == Spec => []IInv
<1>1. Init => IInv
  BY InitIsGood
<1>2. IInv /\ [Next]_vars => IInv'
  <2> SUFFICES ASSUME IInv, [Next]_vars
               PROVE  IInv'
    OBVIOUS
  <2>1. Good
    BY NextIsGood, StutterIsGood DEF IInv
  <2>2. AliveHasItsProcess'
    <3>1. None \notin Procs
      BY NumbersAreNatural
    <3> QED BY <2>1, <3>1, Zenon DEF IInv, AliveHasItsProcess, Good, FlagSteps, FlagStep
  <2> QED BY <2>1, <2>2 DEF IInv, Good
<1> QED BY <1>1, <1>2, PTL DEF Spec

\* A connection that calls itself alive has the process it talks to, after whatever
\* kills and failed spawns (markSpawnFailedLocked, killAndMarkDead, close).
THEOREM AliveFlagsAreTrue == Spec => []AliveHasItsProcess
<1>1. IInv => AliveHasItsProcess
  BY DEF IInv
<1> QED BY <1>1, Inductive, PTL

\* A turn prompts in the session of its conversation: none from before the last
\* rewind, unless a cancelled turn brought that one back after the rewind forgot
\* it, and the persisted one if there was one (RemoveConn,
\* recoverableSessionIDLocked).
THEOREM PromptsAreOfTheConversation == Spec => []PromptsInItsSession
<1>1. IInv => PromptsInItsSession
  BY Zenon DEF IInv, SessionInv, ReadInv, Prompting, Lower, Upper, PromptsInItsSession
<1> QED BY <1>1, Inductive, PTL
=============================================================================
