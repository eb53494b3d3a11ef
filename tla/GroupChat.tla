------------------------------ MODULE GroupChat ------------------------------
(***************************************************************************)
(* One group chat (internal/service/group_orchestrator.go): the turn       *)
(* kernel drainSpeakers with the sequential and the parallel executor, the *)
(* host's routing rounds, the free relay, and each member's turn, over the *)
(* store of GroupTimeline.  Requests write rows and cancel while the turn  *)
(* runs, and the server may crash at any step.                             *)
(*                                                                         *)
(* The drain loop runs one turn at a time.  Auto-cruise is off.            *)
(***************************************************************************)
EXTENDS GroupTimeline, SequencesExt

CONSTANTS
  Hosts,         \* the hosts a group may have: Nobody is a free group
  Rosters,       \* the sets of members that may be enabled in a turn
  Speeches,      \* what each member's speeches may say
  Messages,      \* what the user may say
  MaxSpeeches,   \* chat.group_max_speeches
  MaxLaunches,   \* maxParallelLaunches
  MaxFailures,   \* maxConsecutiveHostFailures, maxConsecutiveParseFailures
  MaxRows,       \* bound: the rows up to which a turn starts
  MaxEvents      \* bound: rows and cancels of requests, and crashes

(* A route is a sequence of mention groups, each a sequence of members. *)
Targets == Members \cup {User}
MentionGroup == [turns : Seq(Targets), parallel : BOOLEAN]
Speech == [route : Seq(MentionGroup), note : Members \cup {User, Nobody},
           asked : BOOLEAN, end : BOOLEAN]

ASSUME GroupAssumption ==
  /\ Hosts \subseteq Members \cup {Nobody}
  /\ Rosters \subseteq (SUBSET Members) \ {{}}
  /\ Speeches \in [Members -> SUBSET Speech] /\ Messages \subseteq Speech
  /\ {MaxSpeeches, MaxLaunches, MaxFailures} \subseteq Nat \ {0}
  /\ {MaxRows, MaxEvents} \subseteq Nat

VARIABLES
  host,           \* GetGroupHostMember
  roster,         \* the enabled members, read at the turn's start
  pc,             \* where the orchestrator is
  stopped,        \* the turn's context is cancelled
  queue,          \* the groups not yet started
  group,          \* the group being run: its turns still to come
  appended,       \* the groups the relay added for it
  turn,           \* the turn of each member
  speeches,       \* memberSpeeches
  capReached,
  dropped,        \* the budget cut the parallel group short
  handBack,       \* the parallel group named the user
  hostFailures,
  parseFailures,
  res,            \* the DrainResult: "clean", "cancel" or "error"
  events          \* requests and crashes so far

round == <<queue, group, appended, dropped, handBack>>
tally == <<speeches, capReached, hostFailures, parseFailures>>
cast == <<host, roster>>
vars == <<store, cast, pc, stopped, round, turn, tally, res, events>>

NoGroup == [turns |-> <<>>, parallel |-> FALSE]
Silence == [route |-> <<>>, note |-> Nobody, asked |-> FALSE, end |-> FALSE]

NoTurn == [phase |-> "none", high |-> 0, rows |-> {}, notes |-> {},
           result |-> "none", said |-> Silence]

Phases == {"none", "marked", "ready", "launched", "speaking", "spoken",
           "advanced", "over"}

TurnRecord ==
  [phase : Phases, high : Nat, rows : SUBSET (Nat \ {0}), notes : SUBSET Note,
   result : {"none", "clean", "error", "cancel"},
   said : Speech]

PCs == {"rest", "top", "seq", "seqTurn", "par", "snap", "launch", "await",
        "joined", "hostTurn", "summarize", "summary", "drained", "closing"}

TypeOK ==
  /\ StoreTypeOK
  /\ host \in Hosts /\ roster \subseteq Members
  /\ pc \in PCs
  /\ stopped \in BOOLEAN
  /\ queue \in Seq(MentionGroup)
  /\ group \in MentionGroup
  /\ appended \in Seq(MentionGroup)
  /\ turn \in [Members -> TurnRecord]
  /\ speeches \in 0 .. MaxSpeeches
  /\ capReached \in BOOLEAN /\ dropped \in BOOLEAN /\ handBack \in BOOLEAN
  /\ hostFailures \in Nat /\ parseFailures \in Nat
  /\ res \in {"clean", "cancel", "error"}
  /\ events \in Nat

Init ==
  /\ StoreInit
  /\ host \in Hosts /\ roster = {}
  /\ pc = "rest"
  /\ stopped = FALSE
  /\ queue = <<>> /\ group = NoGroup /\ appended = <<>>
  /\ dropped = FALSE /\ handBack = FALSE
  /\ turn = [m \in Members |-> NoTurn]
  /\ speeches = 0 /\ capReached = FALSE
  /\ hostFailures = 0 /\ parseFailures = 0
  /\ res = "clean"
  /\ events = 0

(* NewGroupOrchestrator: every turn has an orchestrator and a context of   *)
(* its own.                                                                *)
Fresh ==
  /\ stopped' = FALSE
  /\ queue' = <<>> /\ group' = NoGroup /\ appended' = <<>>
  /\ dropped' = FALSE /\ handBack' = FALSE
  /\ turn' = [m \in Members |-> NoTurn]
  /\ speeches' = 0 /\ capReached' = FALSE
  /\ hostFailures' = 0 /\ parseFailures' = 0
  /\ res' = "clean"

Free == host = Nobody
Goto(place) == pc' = place
NoSpeakers == turn' = [m \in Members |-> NoTurn]

----------------------------------------------------------------------------
(* The entries of s at the places, in the order of s. *)
Pick(s, places) ==
  FlattenSeq([i \in DOMAIN s |-> IF i \in places THEN <<s[i]>> ELSE <<>>])

(* Routing.  The members named in a sequence of groups. *)
Named(groups) == UNION {Range(groups[i].turns) : i \in DOMAIN groups}

(* The targets of one mention that are still open, each of them once. *)
Claim ==
  [open \in SUBSET Targets |-> [named \in Seq(Targets) |->
     Pick(named, {k \in DOMAIN named :
                    /\ named[k] \in open
                    /\ \A l \in 1 .. k - 1 : named[l] # named[k]})]]

(* resolveSpeakerGroups, freeGroupFromRoute: targets that are barred,      *)
(* disabled or claimed by an earlier mention, in an earlier group or in    *)
(* the same, are dropped, then the groups left empty.                      *)
Claims ==
  [open \in SUBSET Targets |-> [route \in Seq(MentionGroup) |->
     LET turns(i) == Claim[open \ Named(SubSeq(route, 1, i - 1))][route[i].turns]
     IN  Pick([i \in DOMAIN route |-> [route[i] EXCEPT !.turns = turns(i)]],
              {i \in DOMAIN route : turns(i) # <<>>})]]

Resolve(route, able, barred) == Claims[(able \cup {User}) \ barred][route]

\* A bug: the outer queue is not threaded down (ISS-271).
RelayIgnoringOuter(outer, added, m, pending) ==
  Resolve(turn[m].said.route, roster, {m} \cup Named(added) \cup pending)

(* appendFreeTargets: whoever waits in the outer queue, among the groups   *)
(* already appended or in the rest of the speaker's own group is not named *)
(* again.                                                                  *)
Relay(outer, added, m, pending) ==
  Resolve(turn[m].said.route, roster,
          {m} \cup Named(outer) \cup Named(added) \cup pending)

(* freeInitialGroups: the members the user names, or the whole roster; the *)
(* group's switch makes one parallel group of them.                        *)
AllTurns(groups) == FlattenSeq([i \in DOMAIN groups |-> groups[i].turns])

FreeInitialGroups(said, able, together) ==
  LET seeded == Resolve(said.route, able, {})
      groups == IF seeded = <<>>
                  THEN <<[turns |-> SetToSeq(able), parallel |-> together]>>
                  ELSE seeded
  IN  IF together
        THEN <<[turns |-> AllTurns(groups), parallel |-> TRUE]>>
        ELSE groups

(* checkSpeechCap: says so on the timeline once per turn. *)
AtCap == speeches >= MaxSpeeches
LatchCap ==
  /\ capReached' = TRUE
  /\ timeline' = IF capReached THEN timeline
                               ELSE Append(timeline, FinishedRow(Nobody))

----------------------------------------------------------------------------
(* A member's turn: snapshotTurn and executeTurn. *)

(* The high-water mark is read before the prompt is built. *)
Marked == [NoTurn EXCEPT !.phase = "marked", !.high = HighWater]

(* snapshotTurn: the prompt holds the rows past the speaker's own cursor   *)
(* and the notes waiting for it.                                           *)
Snapshot(m) ==
  /\ turn[m].phase = "marked"
  /\ turn' = [turn EXCEPT ![m].phase = IF pc = "snap" THEN "ready"
                                                      ELSE "launched",
                          ![m].rows = Unseen(m),
                          ![m].notes = PendingFor(m)]
  /\ UNCHANGED <<store, cast, pc, stopped, round, tally, res, events>>

(* runTurn opens the reply's row. *)
Speak(m) ==
  /\ turn[m].phase = "launched"
  /\ timeline' = Append(timeline, StreamingRow(m))
  /\ turn' = [turn EXCEPT ![m].phase = "speaking"]
  /\ UNCHANGED <<cursor, mail, cast, pc, stopped, round, tally, res, events>>

(* runTurn returns, the row finished: a clean reply says something, a      *)
(* failed or cancelled one ends the turn's bookkeeping here.               *)
SpeaksCleanly(m, said) ==
  /\ turn[m].phase = "speaking"
  /\ FinishSpeech(m)
  /\ turn' = [turn EXCEPT ![m].phase = "spoken", ![m].result = "clean",
                          ![m].said = said]
  /\ UNCHANGED <<cursor, mail, cast, pc, stopped, round, tally, res, events>>

BreaksOff(m, result) ==
  /\ turn[m].phase = "speaking"
  /\ result = "cancel" => stopped
  /\ FinishSpeech(m)
  /\ turn' = [turn EXCEPT ![m].phase = "over", ![m].result = result]
  /\ UNCHANGED <<cursor, mail, cast, pc, stopped, round, tally, res, events>>

(* advanceCursorOnSuccess *)
Advance(m) ==
  /\ turn[m].phase = "spoken"
  /\ SetCursor(m, turn[m].high)
  /\ turn' = [turn EXCEPT ![m].phase = "advanced"]
  /\ UNCHANGED <<timeline, mail, cast, pc, stopped, round, tally, res,
                 events>>

(* storeRouteNotes: not to oneself, not to a disabled member and, with a   *)
(* host, not between two plain members (noteAllowed).                      *)
NoteAllowed(m, to) ==
  /\ to \in (roster \cup {User}) \ {m}
  /\ Free \/ to = User \/ host \in {m, to}

\* A bug: every note to the speaker is deleted, not those it was given.
ConsumeAll(m) ==
  /\ turn[m].phase = "advanced"
  /\ LET to == turn[m].said.note
     IN  AddNote(notes \ PendingFor(m), IF NoteAllowed(m, to) THEN to ELSE Nobody)
  /\ turn' = [turn EXCEPT ![m].phase = "over"]
  /\ UNCHANGED <<timeline, cursor, cast, pc, stopped, round, tally, res,
                 events>>

(* deletePendingBcc of what the prompt held, then storeSpeakerNotes. *)
Consume(m) ==
  /\ turn[m].phase = "advanced"
  /\ LET to == turn[m].said.note
     IN  AddNote(notes \ turn[m].notes,
                 IF NoteAllowed(m, to) THEN to ELSE Nobody)
  /\ turn' = [turn EXCEPT ![m].phase = "over"]
  /\ UNCHANGED <<timeline, cursor, cast, pc, stopped, round, tally, res,
                 events>>

MemberStep(m) ==
  \/ Snapshot(m) \/ Speak(m) \/ Advance(m) \/ Consume(m)
  \/ \E said \in Speeches[m] : SpeaksCleanly(m, said)
  \/ \E result \in {"error", "cancel"} : BreaksOff(m, result)

----------------------------------------------------------------------------
(* The start of a turn: RunGroupTurnDrain, prepareTurn, and the seed of a  *)
(* free group.  The message's row is on the timeline before; rows an       *)
(* earlier turn left streaming are finished first.                         *)
Begin(said, able, together) ==
  /\ pc = "rest"
  /\ Len(timeline) < MaxRows
  /\ timeline' = Finalized(Append(timeline, FinishedRow(Nobody)))
  /\ host \in able \cup {Nobody}
  /\ roster' = able
  /\ AddNote(notes, IF said.note \in able THEN said.note ELSE Nobody)
  /\ queue' = IF Free THEN FreeInitialGroups(said, able, together) ELSE <<>>
  /\ Goto("top")
  /\ UNCHANGED <<cursor, host, stopped, group, appended, dropped, handBack,
                 turn, tally, res, events>>

(* The kernel ends with a result; whoever is still marked speaks no more. *)
Drained(result) == res' = result /\ Goto("drained")

----------------------------------------------------------------------------
(* drainSpeakers: a stop is seen before every group and every refill. *)
SeeStop ==
  /\ pc = "top" /\ stopped
  /\ Drained("cancel")
  /\ UNCHANGED <<store, cast, stopped, round, turn, tally, events>>

(* The refill of a free group: the relay is over. *)
RelayEnds ==
  /\ pc = "top" /\ ~stopped /\ queue = <<>> /\ Free
  /\ Drained("clean")
  /\ UNCHANGED <<store, cast, stopped, round, turn, tally, events>>

NextGroup ==
  /\ pc = "top" /\ ~stopped /\ queue # <<>>
  /\ group' = Head(queue) /\ queue' = Tail(queue)
  /\ appended' = <<>> /\ dropped' = FALSE /\ handBack' = FALSE
  /\ Goto(IF Head(queue).parallel THEN "par" ELSE "seq")
  /\ UNCHANGED <<store, cast, stopped, turn, tally, res, events>>

----------------------------------------------------------------------------
(* runSequentialGroup *)
SeqStop ==
  /\ pc = "seq" /\ group.turns # <<>> /\ stopped
  /\ Drained("cancel")
  /\ UNCHANGED <<store, cast, stopped, round, turn, tally, events>>

SeqUser ==
  /\ pc = "seq" /\ group.turns # <<>> /\ ~stopped
  /\ Head(group.turns) = User
  /\ ClearUserNotes
  /\ Drained("clean")
  /\ UNCHANGED <<timeline, cursor, cast, stopped, round, turn, tally, events>>

SeqCap ==
  /\ pc = "seq" /\ group.turns # <<>> /\ ~stopped
  /\ Head(group.turns) # User /\ AtCap
  /\ LatchCap
  /\ Drained("clean")
  /\ UNCHANGED <<cursor, mail, cast, stopped, round, turn, speeches,
                 hostFailures, parseFailures, events>>

SeqMark ==
  /\ pc = "seq" /\ group.turns # <<>> /\ ~stopped
  /\ Head(group.turns) # User /\ ~AtCap
  /\ speeches' = speeches + 1
  /\ turn' = [turn EXCEPT ![Head(group.turns)] = Marked]
  /\ group' = [group EXCEPT !.turns = Tail(group.turns)]
  /\ Goto("seqTurn")
  /\ UNCHANGED <<store, cast, stopped, queue, appended, dropped, handBack,
                 capReached, hostFailures, parseFailures, res, events>>

(* A cancelled speech stops the whole turn, a question hands the floor     *)
(* back, a clean speech of a free group extends the relay.                 *)
SeqOver(m) ==
  /\ pc = "seqTurn" /\ turn[m].phase = "over"
  /\ NoSpeakers
  /\ \/ /\ turn[m].result = "cancel"
        /\ Drained("cancel")
        /\ UNCHANGED <<mail, appended>>
     \/ /\ turn[m].result = "clean" /\ turn[m].said.asked
        /\ ClearUserNotes
        /\ Drained("clean")
        /\ UNCHANGED appended
     \/ /\ turn[m].result = "clean" /\ ~turn[m].said.asked /\ Free
        /\ appended' = appended \o Relay(queue, appended, m, Range(group.turns))
        /\ Goto("seq")
        /\ UNCHANGED <<mail, res>>
     \/ /\ \/ turn[m].result = "error"
           \/ turn[m].result = "clean" /\ ~turn[m].said.asked /\ ~Free
        /\ Goto("seq")
        /\ UNCHANGED <<mail, appended, res>>
  /\ UNCHANGED <<timeline, cursor, cast, stopped, queue, group, dropped,
                 handBack, tally, events>>

SeqEnds ==
  /\ pc = "seq" /\ group.turns = <<>>
  /\ queue' = queue \o appended
  /\ Goto("top")
  /\ UNCHANGED <<store, cast, stopped, group, appended, dropped, handBack,
                 turn, tally, res, events>>

----------------------------------------------------------------------------
(* runSpeakerGroup, runParallelGroup *)

(* splitOffUser: the user comes last. *)
Speakers ==
  Pick(group.turns, {i \in DOMAIN group.turns : group.turns[i] # User})

\* A bug: one member too many.
BudgetedPlusOne ==
  IF MaxSpeeches + 1 - speeches >= Len(Speakers)
    THEN Speakers
    ELSE SubSeq(Speakers, 1, MaxSpeeches + 1 - speeches)

(* truncateToSpeechBudget *)
Budgeted ==
  IF MaxSpeeches - speeches >= Len(Speakers)
    THEN Speakers
    ELSE SubSeq(Speakers, 1, MaxSpeeches - speeches)

ParUserOnly ==
  /\ pc = "par" /\ Speakers = <<>>
  /\ ClearUserNotes
  /\ Drained("clean")
  /\ UNCHANGED <<timeline, cursor, cast, stopped, round, turn, tally, events>>

ParCap ==
  /\ pc = "par" /\ Speakers # <<>> /\ AtCap
  /\ LatchCap
  /\ Drained("clean")
  /\ UNCHANGED <<cursor, mail, cast, stopped, round, turn, speeches,
                 hostFailures, parseFailures, events>>

(* Every prompt of the group has the same high-water mark. *)
ParMark ==
  /\ pc = "par" /\ Speakers # <<>> /\ ~AtCap
  /\ handBack' = (User \in Range(group.turns))
  /\ dropped' = (Budgeted # Speakers)
  /\ speeches' = speeches + Len(Budgeted)
  /\ group' = [group EXCEPT !.turns = Budgeted]
  /\ turn' = [m \in Members |->
                IF m \in Range(Budgeted) THEN Marked ELSE NoTurn]
  /\ Goto("snap")
  /\ UNCHANGED <<store, cast, stopped, queue, appended, capReached,
                 hostFailures, parseFailures, res, events>>

\* A bug: the prompts are built by the goroutines that use them.
PreparedLazily ==
  /\ pc = "snap"
  /\ \E m \in Members : turn[m].phase = "ready"
  /\ Goto("launch")
  /\ UNCHANGED <<store, cast, stopped, round, turn, tally, res, events>>

AllPrepared ==
  /\ pc = "snap"
  /\ \A m \in Members : turn[m].phase # "marked"
  /\ Goto("launch")
  /\ UNCHANGED <<store, cast, stopped, round, turn, tally, res, events>>

(* The turns of the group not launched yet, in its order. *)
Ready ==
  Pick(group.turns,
       {i \in DOMAIN group.turns : turn[group.turns[i]].phase = "ready"})
Batch == Range(SubSeq(Ready, 1, IF Len(Ready) < MaxLaunches THEN Len(Ready)
                                                            ELSE MaxLaunches))

LaunchStop ==
  /\ pc = "launch" /\ Ready # <<>> /\ stopped
  /\ NoSpeakers
  /\ Drained("cancel")
  /\ UNCHANGED <<store, cast, stopped, round, tally, events>>

LaunchBatch ==
  /\ pc = "launch" /\ Ready # <<>> /\ ~stopped
  /\ turn' = [m \in Members |-> IF m \in Batch
                                  THEN [turn[m] EXCEPT !.phase = "launched"]
                                  ELSE turn[m]]
  /\ Goto("await")
  /\ UNCHANGED <<store, cast, stopped, round, tally, res, events>>

LaunchEnds ==
  /\ pc = "launch" /\ Ready = <<>>
  /\ Goto("joined")
  /\ UNCHANGED <<store, cast, stopped, round, turn, tally, res, events>>

\* A bug: the group is joined when every speech has a result of its own.
AwaitFinished ==
  /\ pc = "await"
  /\ \A m \in Members :
       \/ turn[m].phase \in {"none", "ready"}
       \/ turn[m].phase = "over" /\ turn[m].result # "cancel"
  /\ Goto("launch")
  /\ UNCHANGED <<store, cast, stopped, round, turn, tally, res, events>>

(* A batch is waited for as a whole; after a cancelled speech no other     *)
(* batch is launched.                                                      *)
AwaitBatch ==
  /\ pc = "await"
  /\ \A m \in Members : turn[m].phase \in {"none", "ready", "over"}
  /\ IF \E m \in Members : turn[m].result = "cancel"
       THEN Drained("cancel") /\ NoSpeakers
       ELSE Goto("launch") /\ UNCHANGED <<res, turn>>
  /\ UNCHANGED <<store, cast, stopped, round, tally, events>>

Clean == {m \in Members : turn[m].result = "clean"}

(* handbackIfQuestionAsked *)
ParAsked ==
  /\ pc = "joined" /\ \E m \in Clean : turn[m].said.asked
  /\ NoSpeakers
  /\ ClearUserNotes
  /\ Drained("clean")
  /\ UNCHANGED <<timeline, cursor, cast, stopped, round, tally, events>>

NobodyAsked == pc = "joined" /\ \A m \in Clean : ~turn[m].said.asked

(* A group cut short ends the turn, what its speakers named is not run. *)
ParDropped ==
  /\ NobodyAsked /\ dropped
  /\ NoSpeakers
  /\ LatchCap
  /\ Drained("clean")
  /\ UNCHANGED <<cursor, mail, cast, stopped, round, speeches, hostFailures,
                 parseFailures, events>>

ParHandsBack ==
  /\ NobodyAsked /\ ~dropped /\ handBack
  /\ NoSpeakers
  /\ ClearUserNotes
  /\ Drained("clean")
  /\ UNCHANGED <<timeline, cursor, cast, stopped, round, tally, events>>

(* appendParallelRelay: what the clean speakers named, in the group's      *)
(* order; whoever waits or is a member of the group is not named again.    *)
ParRelay ==
  LET named(m) == IF m \in Clean THEN turn[m].said.route ELSE <<>>
      route == FlattenSeq([i \in DOMAIN group.turns |-> named(group.turns[i])])
  IN  IF Free THEN Resolve(route, roster, Named(queue) \cup Range(group.turns))
              ELSE <<>>

ParEnds ==
  /\ NobodyAsked /\ ~dropped /\ ~handBack
  /\ NoSpeakers
  /\ queue' = queue \o ParRelay
  /\ Goto("top")
  /\ UNCHANGED <<store, cast, stopped, group, appended, dropped, handBack,
                 tally, res, events>>

----------------------------------------------------------------------------
(* runRounds: the host's turn is the refill. *)
HostRefills == pc = "top" /\ ~stopped /\ queue = <<>> /\ ~Free

HostCap ==
  /\ HostRefills /\ AtCap
  /\ LatchCap
  /\ Drained("clean")
  /\ UNCHANGED <<cursor, mail, cast, stopped, round, turn, speeches,
                 hostFailures, parseFailures, events>>

HostMark ==
  /\ HostRefills /\ ~AtCap
  /\ turn' = [turn EXCEPT ![host] = Marked]
  /\ Goto("hostTurn")
  /\ UNCHANGED <<store, cast, stopped, round, tally, res, events>>

HostOver(result) ==
  pc = "hostTurn" /\ turn[host].phase = "over" /\ turn[host].result = result

HostCancelled ==
  /\ HostOver("cancel")
  /\ NoSpeakers
  /\ Drained("cancel")
  /\ UNCHANGED <<store, cast, stopped, round, tally, events>>

(* pickFallbackMember rotates over the members other than the host. *)
Fallback ==
  \E m \in roster \ {host} :
    /\ queue' = <<[turns |-> <<m>>, parallel |-> FALSE]>>
    /\ Goto("top")
    /\ UNCHANGED res

NoFallback(result) ==
  /\ roster \subseteq {host}
  /\ Drained(result)
  /\ UNCHANGED queue

(* The host is given up after its summary. *)
GiveUp(result) == Goto("summarize") /\ res' = result /\ UNCHANGED queue

(* hostFailureFallback *)
HostFailed ==
  /\ HostOver("error")
  /\ NoSpeakers
  /\ hostFailures' = hostFailures + 1
  /\ IF hostFailures' >= MaxFailures
       THEN GiveUp("error")
       ELSE Fallback \/ NoFallback("error")
  /\ UNCHANGED <<store, cast, stopped, group, appended, dropped, handBack,
                 speeches, capReached, parseFailures, events>>

(* hostTurnOutcome: a question clears the user's notes, an end does not. *)
HostAsks ==
  /\ HostOver("clean") /\ turn[host].said.asked
  /\ NoSpeakers
  /\ hostFailures' = 0
  /\ ClearUserNotes
  /\ Drained("clean")
  /\ UNCHANGED <<timeline, cursor, cast, stopped, round, speeches, capReached,
                 parseFailures, events>>

HostEnds ==
  /\ HostOver("clean") /\ ~turn[host].said.asked /\ turn[host].said.end
  /\ NoSpeakers
  /\ hostFailures' = 0
  /\ Drained("clean")
  /\ UNCHANGED <<store, cast, stopped, round, speeches, capReached,
                 parseFailures, events>>

(* The host routes; hostRouteFailure when nobody it names can speak. *)
HostRoutes ==
  /\ HostOver("clean") /\ ~turn[host].said.asked /\ ~turn[host].said.end
  /\ NoSpeakers
  /\ hostFailures' = 0
  /\ LET groups == Resolve(turn[host].said.route, roster, {host})
     IN  IF groups # <<>>
           THEN /\ queue' = groups /\ parseFailures' = 0
                /\ Goto("top") /\ UNCHANGED res
           ELSE /\ parseFailures' = parseFailures + 1
                /\ IF parseFailures' >= MaxFailures
                     THEN GiveUp("clean")
                     ELSE Fallback \/ NoFallback("clean")
  /\ UNCHANGED <<store, cast, stopped, group, appended, dropped, handBack,
                 speeches, capReached, events>>

----------------------------------------------------------------------------
(* The end of a turn.  A host group that met the cap is summed up; the     *)
(* summary's own result is ignored.                                        *)
KernelEnds ==
  /\ pc = "drained"
  /\ Goto(IF ~Free /\ capReached /\ res = "clean" THEN "summarize"
                                                   ELSE "closing")
  /\ UNCHANGED <<store, cast, stopped, round, turn, tally, res, events>>

SummaryMark ==
  /\ pc = "summarize"
  /\ turn' = [turn EXCEPT ![host] = Marked]
  /\ Goto("summary")
  /\ UNCHANGED <<store, cast, stopped, round, tally, res, events>>

SummaryOver ==
  /\ pc = "summary" /\ turn[host].phase = "over"
  /\ NoSpeakers
  /\ Goto("closing")
  /\ UNCHANGED <<store, cast, stopped, round, tally, res, events>>

(* runLoop: the user's turn is announced when the result is clean and the  *)
(* message queue is empty; orphans are finished.                           *)
Close(announced) ==
  /\ pc = "closing"
  /\ announced => res = "clean"
  /\ timeline' = Finalized(IF announced
                             THEN Append(timeline, FinishedRow(Nobody))
                             ELSE timeline)
  /\ Fresh
  /\ Goto("rest")
  /\ UNCHANGED <<cursor, mail, cast, events>>

----------------------------------------------------------------------------
(* Requests and crashes. *)

Event == events < MaxEvents /\ events' = events + 1

(* A membership event is written while the turn runs. *)
HttpRow ==
  /\ Event
  /\ timeline' = Append(timeline, FinishedRow(Nobody))
  /\ UNCHANGED <<cursor, mail, cast, pc, stopped, round, turn, tally, res>>

Cancel ==
  /\ Event
  /\ pc # "rest" /\ ~stopped
  /\ stopped' = TRUE
  /\ UNCHANGED <<store, cast, pc, round, turn, tally, res>>

(* The store survives, with the rows that were being written. *)
Crash ==
  /\ Event
  /\ pc # "rest"
  /\ Fresh
  /\ Goto("rest")
  /\ UNCHANGED <<store, cast>>

----------------------------------------------------------------------------
KernelStep ==
  \/ SeeStop \/ RelayEnds \/ NextGroup
  \/ SeqStop \/ SeqUser \/ SeqCap \/ SeqMark \/ SeqEnds
  \/ \E m \in Members : SeqOver(m)
  \/ ParUserOnly \/ ParCap \/ ParMark \/ AllPrepared
  \/ LaunchStop \/ LaunchBatch \/ LaunchEnds \/ AwaitBatch
  \/ ParAsked \/ ParDropped \/ ParHandsBack \/ ParEnds
  \/ HostCap \/ HostMark \/ HostCancelled \/ HostFailed
  \/ HostAsks \/ HostEnds \/ HostRoutes
  \/ KernelEnds \/ SummaryMark \/ SummaryOver
  \/ \E announced \in BOOLEAN : Close(announced)

Next ==
  \/ \E said \in Messages, able \in Rosters, together \in BOOLEAN :
       Begin(said, able, together)
  \/ KernelStep
  \/ \E m \in Members : MemberStep(m)
  \/ HttpRow \/ Cancel \/ Crash

Spec == Init /\ [][Next]_vars

FairSpec ==
  /\ Spec
  /\ WF_vars(KernelStep)
  /\ \A m \in Members : WF_vars(MemberStep(m))

----------------------------------------------------------------------------
(* What goes right. *)

(* A member's cursor never passes a row somebody else wrote that the       *)
(* prompt of the turn it just finished cleanly did not hold: not a row     *)
(* that landed while it spoke, not a sibling's, not one of a turn that     *)
(* failed, was cancelled or was cut by a crash (advanceCursorOnSuccess,    *)
(* "never the group high-water ... lose them permanently").                *)
NothingSkipped ==
  [][\A m \in Members :
       cursor'[m] # cursor[m] =>
         \A i \in cursor[m] + 1 .. cursor'[m] :
           timeline[i].by = m \/ i \in turn[m].rows]_vars

(* A private note to a member goes away only when a prompt that held it    *)
(* ended cleanly, or when its target's queue was full (deletePendingBcc:   *)
(* "a failed/cancelled turn keeps its rows").                              *)
NotesAreKept ==
  [][\A n \in notes \ notes' :
       \/ n.to = User
       \/ turn[n.to].phase = "advanced" /\ n \in turn[n.to].notes
       \/ Cardinality(PendingFor(n.to)) >= MaxPending]_vars

(* Nobody waits for two turns at once, wherever the second mention came    *)
(* from (appendFreeTargets, the rule ISS-271 was about).                   *)
Waiting ==
  IF pc \in {"seq", "seqTurn"} THEN <<group>> \o queue \o appended ELSE queue

NoOneWaitsTwice ==
  LET turns == AllTurns(Waiting)
  IN  \A i, j \in DOMAIN turns : turns[i] = turns[j] => i = j

(* The members of a parallel group do not see each other's speech of this  *)
(* round, not even a later batch that of an earlier one (runParallelGroup, *)
(* "mutually non-referencing").                                            *)
SiblingsAreUnseen ==
  pc \in {"snap", "launch", "await", "joined"} =>
    \A m \in Members : \A i \in turn[m].rows :
      timeline[i].by \in Members => i <= turn[m].high

(* A turn ends, whoever keeps naming whom: the cap bounds the relay, the   *)
(* failure streaks bound the host.                                         *)
TurnEnds == pc # "rest" ~> pc = "rest"
=============================================================================
