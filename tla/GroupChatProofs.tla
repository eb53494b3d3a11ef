-------------------------- MODULE GroupChatProofs --------------------------
(***************************************************************************)
(* Proofs about GroupChat, for any members, speeches and bounds: no row    *)
(* and no note is lost on a member, the members of a parallel group do not *)
(* see each other, nobody is queued twice, and no turn exceeds its cap.    *)
(***************************************************************************)
EXTENDS GroupChat, FiniteSetTheorems, SequenceTheorems, TLAPS

-----------------------------------------------------------------------------
(***************************************************************************)
(* The inductive invariant                                                 *)
(***************************************************************************)

\* What the properties are about; the rest of the state only steers.
CoreTypeOK ==
  /\ timeline \in Seq(Row) /\ cursor \in [Members -> Nat]
  /\ turn \in [Members -> TurnRecord]
  /\ host \in Members \cup {Nobody} /\ roster \subseteq Members
  /\ pc \in PCs

MailTypeOK == notes \subseteq Note /\ IsFiniteSet(notes) /\ lastNote \in Nat

\* Between two groups nobody speaks.
Between == {"top", "seq", "par", "drained", "summarize", "closing"}

\* Which phases the members may be in while the orchestrator is at pc.
PhaseInv ==
  /\ pc \in Between \cup {"rest"} => \A m \in Members : turn[m].phase = "none"
  /\ pc \in {"seqTurn", "hostTurn", "summary"} =>
       \A m, n \in Members : turn[m].phase # "none" /\ turn[n].phase # "none" => m = n
  /\ pc = "snap" => \A m \in Members : turn[m].phase \in {"none", "marked", "ready"}
  /\ pc \in {"launch", "joined"} => \A m \in Members : turn[m].phase \in {"none", "ready", "over"}
  /\ pc = "await" => \A m \in Members : turn[m].phase # "marked"

\* The summary and the rounds are a host's.
HostInv == pc \in {"hostTurn", "summarize", "summary"} => host # Nobody

\* A row is being written only while its author speaks, once a turn has begun.
StreamInv ==
  pc # "rest" => \A i \in DOMAIN timeline :
    timeline[i].streaming => timeline[i].by \in Members /\ turn[timeline[i].by].phase = "speaking"

\* The mark lies in the timeline, and up to it the prompt held what the cursor
\* had not passed.
ShownInv == \A m \in Members :
  /\ turn[m].high <= Len(timeline)
  /\ turn[m].phase = "none" => turn[m].high = 0 /\ turn[m].rows = {}
  /\ turn[m].phase # "marked" =>
       \A i \in cursor[m] + 1 .. turn[m].high : timeline[i].by = m \/ i \in turn[m].rows

\* A prompt holds rows of the timeline and the member's own notes.
HeldInv == \A m \in Members :
  /\ turn[m].rows \subseteq DOMAIN timeline
  /\ \A n \in turn[m].notes : n.to = m

\* While prompts are built, no member has written past the mark.
SnapInv ==
  pc = "snap" => \A m \in Members : turn[m].phase # "none" =>
    \A i \in turn[m].high + 1 .. Len(timeline) : timeline[i].by \notin Members

CoreInv ==
  /\ CoreTypeOK /\ PhaseInv /\ HostInv /\ StreamInv /\ ShownInv /\ HeldInv /\ SnapInv
  /\ SiblingsAreUnseen

-----------------------------------------------------------------------------
(***************************************************************************)
(* The timeline                                                            *)
(***************************************************************************)

\* Rows are added at the end, and nobody's name changes.
Extended ==
  /\ timeline' \in Seq(Row) /\ Len(timeline) <= Len(timeline')
  /\ \A i \in 1 .. Len(timeline) : timeline'[i].by = timeline[i].by

\* ... by at most one row that is finished, and nobody's.
Noticed == timeline' = timeline \/ timeline' = Append(timeline, FinishedRow(Nobody))

LEMMA Rows ==
  ASSUME NEW by \in Members \cup {Nobody}
  PROVE  /\ FinishedRow(by) \in Row /\ StreamingRow(by) \in Row
         /\ FinishedRow(by).by = by /\ ~FinishedRow(by).streaming
         /\ StreamingRow(by).by = by /\ StreamingRow(by).streaming
  BY DEF FinishedRow, StreamingRow, Row

LEMMA Appended ==
  ASSUME timeline \in Seq(Row), NEW r \in Row, timeline' = Append(timeline, r)
  PROVE  /\ Extended /\ Len(timeline') = Len(timeline) + 1
         /\ \A i \in 1 .. Len(timeline) : timeline'[i] = timeline[i]
         /\ timeline'[Len(timeline) + 1] = r
  BY DEF Extended

LEMMA NoticedRows ==
  ASSUME timeline \in Seq(Row), Noticed
  PROVE  /\ Extended
         /\ \A i \in 1 .. Len(timeline) : timeline'[i] = timeline[i]
         /\ \A i \in Len(timeline) + 1 .. Len(timeline') :
              ~timeline'[i].streaming /\ timeline'[i].by = Nobody
<1>1. CASE timeline' = timeline
  BY <1>1 DEF Extended
<1>2. CASE timeline' = Append(timeline, FinishedRow(Nobody))
  <2>1. FinishedRow(Nobody) \in Row /\ ~FinishedRow(Nobody).streaming /\ FinishedRow(Nobody).by = Nobody
    BY Rows
  <2>2. QED
    BY <1>2, <2>1, Appended
<1>3. QED
  BY <1>1, <1>2 DEF Noticed

LEMMA FinishedRows ==
  ASSUME timeline \in Seq(Row), NEW m \in Members, FinishSpeech(m)
  PROVE  /\ Extended /\ Len(timeline') = Len(timeline)
         /\ \A i \in 1 .. Len(timeline) :
              timeline'[i].streaming => timeline[i].streaming /\ timeline[i].by # m
<1>1. FinishedRow(m) \in Row /\ FinishedRow(m).by = m /\ ~FinishedRow(m).streaming
  BY Rows
<1>2. timeline' = [i \in 1 .. Len(timeline) |->
                     IF timeline[i].by = m THEN FinishedRow(m) ELSE timeline[i]]
  BY DEF FinishSpeech
<1>3. timeline' \in [1 .. Len(timeline) -> Row]
  BY <1>1, <1>2
<1>4. timeline' \in Seq(Row) /\ Len(timeline') = Len(timeline)
  BY <1>3
<1>5. QED
  BY <1>1, <1>2, <1>4 DEF Extended

LEMMA FinalizedRows ==
  ASSUME NEW rows \in Seq(Row)
  PROVE  /\ Finalized(rows) \in Seq(Row)
         /\ \A i \in DOMAIN Finalized(rows) : ~Finalized(rows)[i].streaming
<1>1. \A i \in 1 .. Len(rows) : /\ rows[i].by \in Members \cup {Nobody}
                                /\ FinishedRow(rows[i].by) \in Row
                                /\ ~FinishedRow(rows[i].by).streaming
  <2> SUFFICES ASSUME NEW i \in 1 .. Len(rows)
               PROVE  /\ rows[i].by \in Members \cup {Nobody}
                      /\ FinishedRow(rows[i].by) \in Row
                      /\ ~FinishedRow(rows[i].by).streaming
    OBVIOUS
  <2>1. rows[i] \in Row
    OBVIOUS
  <2>2. rows[i].by \in Members \cup {Nobody}
    BY <2>1 DEF Row
  <2>3. QED
    BY <2>2, Rows
<1>2. Finalized(rows) = [i \in 1 .. Len(rows) |-> FinishedRow(rows[i].by)]
  BY DEF Finalized
<1>3. Finalized(rows) \in [1 .. Len(rows) -> Row]
  BY <1>1, <1>2
<1>4. QED
  BY <1>1, <1>2, <1>3

-----------------------------------------------------------------------------
(***************************************************************************)
(* Who speaks                                                              *)
(***************************************************************************)

\* While nobody speaks, no row is being written.
LEMMA NobodyWrites ==
  ASSUME CoreInv, pc # "rest", \A m \in Members : turn[m].phase # "speaking"
  PROVE  \A i \in DOMAIN timeline : ~timeline[i].streaming
  BY DEF CoreInv, StreamInv

LEMMA BetweenNobodySpeaks ==
  ASSUME CoreInv, pc \in Between \cup {"snap", "launch", "joined"}
  PROVE  pc # "rest" /\ \A m \in Members : turn[m].phase # "speaking"
<1>1. pc # "rest"
  BY DEF Between
<1>2. CASE pc \in Between
  <2>1. \A m \in Members : turn[m].phase = "none"
    BY <1>2 DEF CoreInv, PhaseInv
  <2>2. QED
    BY <1>1, <2>1
<1>3. CASE pc = "snap"
  BY <1>3 DEF CoreInv, PhaseInv
<1>4. CASE pc \in {"launch", "joined"}
  BY <1>4 DEF CoreInv, PhaseInv
<1>5. QED
  BY <1>1, <1>2, <1>3, <1>4

\* Where one member's turn is waited for and is over, nobody speaks.
LEMMA OverNobodySpeaks ==
  ASSUME CoreInv, pc \in {"seqTurn", "hostTurn", "summary"}, NEW m \in Members,
         turn[m].phase = "over"
  PROVE  \A n \in Members : turn[n].phase # "speaking"
  BY DEF CoreInv, PhaseInv

LEMMA NoTurnTyped == NoTurn \in TurnRecord
  BY DEF NoTurn, TurnRecord, Phases, Silence, Speech

\* All turns are put away while nobody speaks.
LEMMA PutAwayKeeps ==
  ASSUME CoreInv, NoSpeakers, cursor' = cursor, UNCHANGED cast, Noticed,
         \A i \in DOMAIN timeline : ~timeline[i].streaming,
         pc' \in Between, pc' = "summarize" => host # Nobody
  PROVE  CoreInv'
<1>1. CoreTypeOK'
  BY NoTurnTyped, NoticedRows DEF CoreInv, CoreTypeOK, NoSpeakers, cast, Between, PCs, Extended
<1>2. \A m \in Members : turn'[m] = NoTurn
  BY DEF NoSpeakers
<1>3. PhaseInv' /\ HostInv'
  BY <1>2 DEF PhaseInv, HostInv, Between, NoTurn, cast
<1>4. StreamInv'
  <2> SUFFICES ASSUME NEW i \in DOMAIN timeline', timeline'[i].streaming
               PROVE  FALSE
    BY DEF StreamInv
  <2>1. timeline \in Seq(Row) /\ timeline' \in Seq(Row)
    BY NoticedRows DEF CoreInv, CoreTypeOK, Extended
  <2>2. i \in 1 .. Len(timeline) \/ i \in Len(timeline) + 1 .. Len(timeline')
    BY <2>1
  <2>3. QED
    BY <2>1, <2>2, NoticedRows
<1>5. ShownInv'
  BY <1>1, <1>2 DEF ShownInv, NoTurn, CoreTypeOK
<1>6. HeldInv' /\ SnapInv' /\ SiblingsAreUnseen'
  BY <1>1, <1>2 DEF HeldInv, SnapInv, SiblingsAreUnseen, NoTurn, Between
<1>7. QED
  BY <1>1, <1>3, <1>4, <1>5, <1>6 DEF CoreInv

\* What the properties are about survives the growth of the timeline.
LEMMA GrowthKeeps ==
  ASSUME CoreInv, Extended, UNCHANGED <<cursor, turn>>
  PROVE  ShownInv' /\ HeldInv'
<1> USE DEF Extended, CoreInv, CoreTypeOK
<1>1. \A m \in Members : turn[m].high \in Nat /\ cursor[m] \in Nat
  BY DEF TurnRecord
<1>2. Len(timeline) \in Nat /\ Len(timeline') \in Nat
  OBVIOUS
<1>3. ShownInv'
  <2> SUFFICES ASSUME NEW m \in Members
               PROVE  /\ turn[m].high <= Len(timeline')
                      /\ turn[m].phase = "none" => turn[m].high = 0 /\ turn[m].rows = {}
                      /\ turn[m].phase # "marked" =>
                           \A i \in cursor[m] + 1 .. turn[m].high :
                             timeline'[i].by = m \/ i \in turn[m].rows
    BY DEF ShownInv
  <2>1. turn[m].high <= Len(timeline)
    BY DEF ShownInv
  <2>2. ASSUME NEW i \in cursor[m] + 1 .. turn[m].high
        PROVE  timeline'[i].by = timeline[i].by
    BY <1>1, <1>2, <2>1
  <2>3. turn[m].high <= Len(timeline')
    BY <1>1, <1>2, <2>1
  <2>4. ASSUME turn[m].phase # "marked", NEW i \in cursor[m] + 1 .. turn[m].high
        PROVE  timeline'[i].by = m \/ i \in turn[m].rows
    <3>1. timeline[i].by = m \/ i \in turn[m].rows
      BY <2>4 DEF ShownInv
    <3>2. QED
      BY <2>2, <3>1
  <2>5. turn[m].phase = "none" => turn[m].high = 0 /\ turn[m].rows = {}
    BY DEF ShownInv
  <2>6. QED
    BY <2>3, <2>4, <2>5
<1>4. HeldInv'
  BY <1>2 DEF HeldInv
<1>5. QED
  BY <1>3, <1>4

\* A step of the orchestrator that leaves the turns alone.
LEMMA QuietKeeps ==
  ASSUME CoreInv, UNCHANGED <<cursor, turn, cast>>, Noticed,
         pc \in Between, pc' \in Between, pc' = "summarize" => host # Nobody
  PROVE  CoreInv'
<1>1. Extended
  BY NoticedRows DEF CoreInv, CoreTypeOK
<1>2. CoreTypeOK'
  BY <1>1 DEF CoreInv, CoreTypeOK, cast, Between, PCs, Extended
<1>3. \A m \in Members : turn[m].phase = "none"
  BY DEF CoreInv, PhaseInv
<1>4. PhaseInv' /\ HostInv'
  BY <1>3 DEF PhaseInv, HostInv, Between, cast
<1>5. \A i \in DOMAIN timeline : ~timeline[i].streaming
  BY NobodyWrites, BetweenNobodySpeaks
<1>6. StreamInv'
  <2> SUFFICES ASSUME NEW i \in DOMAIN timeline', timeline'[i].streaming
               PROVE  FALSE
    BY DEF StreamInv
  <2>1. timeline \in Seq(Row) /\ timeline' \in Seq(Row)
    BY <1>1 DEF CoreInv, CoreTypeOK, Extended
  <2>2. i \in 1 .. Len(timeline) \/ i \in Len(timeline) + 1 .. Len(timeline')
    BY <2>1
  <2>3. QED
    BY <1>5, <2>1, <2>2, NoticedRows
<1>7. SnapInv' /\ SiblingsAreUnseen'
  BY DEF SnapInv, SiblingsAreUnseen, Between
<1>8. QED
  BY <1>1, <1>2, <1>4, <1>6, <1>7, GrowthKeeps DEF CoreInv

\* A turn is marked while nobody else has one.
LEMMA MarkedTyped ==
  ASSUME timeline \in Seq(Row)
  PROVE  /\ Marked \in TurnRecord /\ Marked.phase = "marked"
         /\ Marked.high = Len(timeline) /\ Marked.rows = {} /\ Marked.notes = {}
         /\ Marked.result = "none"
<1>1. Len(timeline) \in Nat
  OBVIOUS
<1>2. Marked = [NoTurn EXCEPT !.phase = "marked", !.high = Len(timeline)]
  BY DEF Marked, HighWater
<1>3. Marked = [phase |-> "marked", high |-> Len(timeline), rows |-> {}, notes |-> {},
                result |-> "none", said |-> Silence]
  BY <1>2 DEF NoTurn
<1>4. Silence \in Speech
  BY NoTurnTyped DEF NoTurn, TurnRecord
<1>5. QED
  BY <1>1, <1>3, <1>4 DEF TurnRecord, Phases

LEMMA MarkKeeps ==
  ASSUME CoreInv, UNCHANGED <<timeline, cursor, cast>>, NEW x,
         turn' = [turn EXCEPT ![x] = Marked],
         pc \in Between, pc' \in {"seqTurn", "hostTurn", "summary"},
         pc' # "seqTurn" => host # Nobody
  PROVE  CoreInv'
<1>1. timeline \in Seq(Row) /\ turn \in [Members -> TurnRecord] /\ cursor \in [Members -> Nat]
  BY DEF CoreInv, CoreTypeOK
<1>2. \A m \in Members : turn'[m] = IF m = x THEN Marked ELSE turn[m]
  BY <1>1
<1>3. \A m \in Members : turn[m].phase = "none"
  BY DEF CoreInv, PhaseInv
<1>4. CoreTypeOK'
  BY <1>1, MarkedTyped DEF CoreInv, CoreTypeOK, cast, PCs
<1>5. PhaseInv'
  BY <1>2, <1>3, MarkedTyped DEF PhaseInv, Between
<1>6. HostInv'
  BY DEF HostInv, cast
<1>7. \A i \in DOMAIN timeline : ~timeline[i].streaming
  BY NobodyWrites, BetweenNobodySpeaks
<1>8. StreamInv'
  BY <1>7 DEF StreamInv
<1>9. ShownInv'
  <2>1. Len(timeline) \in Nat
    BY <1>1
  <2>2. QED
    BY <1>1, <1>2, <2>1, MarkedTyped DEF CoreInv, ShownInv
<1>10. HeldInv'
  BY <1>1, <1>2, MarkedTyped DEF CoreInv, HeldInv
<1>11. SnapInv' /\ SiblingsAreUnseen'
  BY DEF SnapInv, SiblingsAreUnseen
<1>12. QED
  BY <1>4, <1>5, <1>6, <1>8, <1>9, <1>10, <1>11 DEF CoreInv

\* The members of a parallel group are marked together.
LEMMA ParMarkKeeps == ASSUME CoreInv, ParMark PROVE CoreInv'
<1>1. timeline \in Seq(Row) /\ turn \in [Members -> TurnRecord] /\ cursor \in [Members -> Nat]
  BY DEF CoreInv, CoreTypeOK
<1> DEFINE B == Range(Budgeted)
<1>2. /\ turn' = [m \in Members |-> IF m \in B THEN Marked ELSE NoTurn]
      /\ pc = "par" /\ pc' = "snap" /\ UNCHANGED <<store, cast>>
  BY DEF ParMark, Goto
<1> HIDE DEF B
<1>3. \A m \in Members : turn'[m] = Marked \/ turn'[m] = NoTurn
  BY <1>2
<1>4. CoreTypeOK'
  BY <1>1, <1>2, NoTurnTyped, MarkedTyped DEF CoreInv, CoreTypeOK, cast, store, PCs
<1>5. PhaseInv' /\ HostInv'
  BY <1>1, <1>2, <1>3, MarkedTyped DEF PhaseInv, HostInv, Between, NoTurn
<1>6. \A i \in DOMAIN timeline : ~timeline[i].streaming
  BY <1>2, NobodyWrites, BetweenNobodySpeaks DEF Between
<1>7. StreamInv'
  BY <1>2, <1>6 DEF StreamInv, store
<1>8. Len(timeline) \in Nat /\ timeline' = timeline /\ cursor' = cursor
  BY <1>1, <1>2 DEF store
<1>9. ShownInv'
  BY <1>1, <1>3, <1>8, MarkedTyped DEF ShownInv, NoTurn
<1>10. HeldInv'
  BY <1>1, <1>3, <1>8, MarkedTyped DEF HeldInv, NoTurn
<1>11. SnapInv'
  BY <1>1, <1>3, <1>8, MarkedTyped DEF SnapInv, NoTurn
<1>12. SiblingsAreUnseen'
  BY <1>1, <1>3, MarkedTyped DEF SiblingsAreUnseen, NoTurn
<1>13. QED
  BY <1>4, <1>5, <1>7, <1>9, <1>10, <1>11, <1>12 DEF CoreInv

\* All prompts are built, a batch or all turns are joined.
LEMMA PassKeeps ==
  ASSUME CoreInv, AllPrepared \/ LaunchEnds \/ (AwaitBatch /\ pc' = "launch")
  PROVE  CoreInv'
<1>1. /\ UNCHANGED <<timeline, cursor, turn, cast>>
      /\ \/ pc = "snap" /\ pc' = "launch" /\ \A m \in Members : turn[m].phase # "marked"
         \/ pc = "launch" /\ pc' = "joined"
         \/ /\ pc = "await" /\ pc' = "launch"
            /\ \A m \in Members : turn[m].phase \in {"none", "ready", "over"}
  BY DEF AllPrepared, LaunchEnds, AwaitBatch, Drained, Goto, store, cast
<1>2. CoreTypeOK' /\ HostInv' /\ StreamInv'
  BY <1>1 DEF CoreInv, CoreTypeOK, HostInv, StreamInv, cast, PCs
<1>3. PhaseInv'
  BY <1>1 DEF CoreInv, PhaseInv, Between
<1>4. ShownInv' /\ HeldInv' /\ SnapInv' /\ SiblingsAreUnseen'
  BY <1>1 DEF CoreInv, ShownInv, HeldInv, SnapInv, SiblingsAreUnseen
<1>5. QED
  BY <1>2, <1>3, <1>4 DEF CoreInv

\* Launching a batch changes nothing but phases.
LEMMA LaunchKeeps == ASSUME CoreInv, LaunchBatch PROVE CoreInv'
<1>1. timeline \in Seq(Row) /\ turn \in [Members -> TurnRecord]
  BY DEF CoreInv, CoreTypeOK
<1> DEFINE B == Batch
<1>2. /\ turn' = [m \in Members |-> IF m \in B THEN [turn[m] EXCEPT !.phase = "launched"]
                                               ELSE turn[m]]
      /\ pc = "launch" /\ pc' = "await" /\ UNCHANGED <<timeline, cursor, cast>>
  BY DEF LaunchBatch, Goto, store
<1> HIDE DEF B
<1>3. \A m \in Members :
        /\ turn'[m] \in TurnRecord
        /\ turn'[m].phase \in {turn[m].phase, "launched"}
        /\ turn'[m].high = turn[m].high /\ turn'[m].rows = turn[m].rows
        /\ turn'[m].notes = turn[m].notes
  BY <1>1, <1>2 DEF TurnRecord, Phases
<1>4. turn' \in [Members -> TurnRecord]
  BY <1>2, <1>3
<1>5. CoreTypeOK' /\ HostInv'
  BY <1>2, <1>4 DEF CoreInv, CoreTypeOK, HostInv, cast, PCs
<1>6. PhaseInv'
  BY <1>2, <1>3 DEF CoreInv, PhaseInv, Between
<1>7. \A i \in DOMAIN timeline : ~timeline[i].streaming
  BY <1>2, NobodyWrites, BetweenNobodySpeaks
<1>8. StreamInv'
  BY <1>2, <1>7 DEF StreamInv
<1>9. \A m \in Members : turn[m].phase # "marked"
  BY <1>2 DEF CoreInv, PhaseInv
<1>10. ShownInv'
  BY <1>2, <1>3, <1>9 DEF CoreInv, ShownInv
<1>11. HeldInv' /\ SnapInv' /\ SiblingsAreUnseen'
  BY <1>2, <1>3 DEF CoreInv, HeldInv, SnapInv, SiblingsAreUnseen
<1>12. QED
  BY <1>5, <1>6, <1>8, <1>10, <1>11 DEF CoreInv

-----------------------------------------------------------------------------
(***************************************************************************)
(* A member's turn                                                         *)
(***************************************************************************)

LEMMA CoreTyped ==
  ASSUME CoreInv
  PROVE  /\ timeline \in Seq(Row) /\ turn \in [Members -> TurnRecord]
         /\ cursor \in [Members -> Nat] /\ Len(timeline) \in Nat
<1>1. timeline \in Seq(Row) /\ turn \in [Members -> TurnRecord] /\ cursor \in [Members -> Nat]
  BY DEF CoreInv, CoreTypeOK
<1>2. QED
  BY <1>1

LEMMA ExtendedTyped ==
  ASSUME Extended
  PROVE  /\ timeline' \in Seq(Row) /\ Len(timeline') \in Nat
         /\ Len(timeline) <= Len(timeline')
         /\ \A i \in 1 .. Len(timeline) : timeline'[i].by = timeline[i].by
<1>1. timeline' \in Seq(Row)
  BY DEF Extended
<1>2. Len(timeline') \in Nat
  BY <1>1
<1>3. QED
  BY <1>1, <1>2 DEF Extended

Active == {"marked", "launched", "speaking", "spoken", "advanced"}

\* A step of a member's turn: the rows are extended, the others' turns and
\* cursors are left alone, the mark stays.
LEMMA MemberKeeps ==
  ASSUME CoreInv, NEW m \in Members, turn[m].phase \in Active,
         NEW t \in TurnRecord, turn' = [turn EXCEPT ![m] = t],
         UNCHANGED <<pc, cast>>, Extended,
         t.phase \notin {"none", "marked"}, pc = "snap" => t.phase = "ready",
         pc = "snap" => timeline' = timeline,
         cursor' \in [Members -> Nat], \A n \in Members : n # m => cursor'[n] = cursor[n],
         t.high = turn[m].high, t.rows \subseteq DOMAIN timeline', \A n \in t.notes : n.to = m,
         \A i \in cursor'[m] + 1 .. t.high : timeline'[i].by = m \/ i \in t.rows,
         pc \in {"snap", "launch", "await", "joined"} =>
           \A i \in t.rows : timeline'[i].by \in Members => i <= t.high,
         StreamInv'
  PROVE  CoreInv'
<1>1. /\ timeline \in Seq(Row) /\ turn \in [Members -> TurnRecord] /\ cursor \in [Members -> Nat]
      /\ timeline' \in Seq(Row) /\ Len(timeline) \in Nat /\ Len(timeline') \in Nat
      /\ Len(timeline) <= Len(timeline')
      /\ \A i \in 1 .. Len(timeline) : timeline'[i].by = timeline[i].by
  BY CoreTyped, ExtendedTyped
<1>2. turn'[m] = t /\ \A n \in Members : n # m => turn'[n] = turn[n]
  BY <1>1
<1>3. \A n \in Members : turn[n].high \in Nat /\ cursor[n] \in Nat
  BY <1>1 DEF TurnRecord
<1>4. CoreTypeOK' /\ HostInv'
  BY <1>1 DEF CoreInv, CoreTypeOK, HostInv, cast
<1>5. PhaseInv'
  <2>1. pc \notin Between \cup {"rest", "launch", "joined"}
    BY DEF CoreInv, PhaseInv, Active
  <2>2. pc' = "snap" => \A n \in Members : turn'[n].phase \in {"none", "marked", "ready"}
    BY <1>2 DEF CoreInv, PhaseInv
  <2>3. pc' = "await" => \A n \in Members : turn'[n].phase # "marked"
    BY <1>2 DEF CoreInv, PhaseInv
  <2>4. ASSUME pc' \in {"seqTurn", "hostTurn", "summary"}, NEW k \in Members, NEW n \in Members,
               turn'[k].phase # "none", turn'[n].phase # "none"
        PROVE  k = n
    <3>1. turn[m].phase # "none"
      BY DEF Active
    <3>2. turn[k].phase # "none" /\ turn[n].phase # "none"
      BY <1>2, <2>4, <3>1
    <3>3. QED
      BY <2>4, <3>2 DEF CoreInv, PhaseInv
  <2>5. QED
    BY <2>1, <2>2, <2>3, <2>4 DEF PhaseInv
<1>6. ShownInv'
  <2> SUFFICES ASSUME NEW n \in Members
               PROVE  /\ turn'[n].high <= Len(timeline')
                      /\ turn'[n].phase = "none" => turn'[n].high = 0 /\ turn'[n].rows = {}
                      /\ turn'[n].phase # "marked" =>
                           \A i \in cursor'[n] + 1 .. turn'[n].high :
                             timeline'[i].by = n \/ i \in turn'[n].rows
    BY DEF ShownInv
  <2>1. turn[n].high <= Len(timeline)
    BY DEF CoreInv, ShownInv
  <2>2. turn'[n].high <= Len(timeline')
    BY <1>1, <1>2, <1>3, <2>1
  <2>3. CASE n = m
    BY <1>2, <2>2, <2>3
  <2>4. CASE n # m
    <3>1. turn'[n] = turn[n] /\ cursor'[n] = cursor[n]
      BY <1>2, <2>4
    <3>2. ASSUME turn[n].phase # "marked", NEW i \in cursor[n] + 1 .. turn[n].high
          PROVE  timeline'[i].by = n \/ i \in turn[n].rows
      <4>1. timeline[i].by = n \/ i \in turn[n].rows
        BY <3>2 DEF CoreInv, ShownInv
      <4>2. i \in 1 .. Len(timeline)
        BY <1>1, <1>3, <2>1
      <4>3. QED
        BY <1>1, <4>1, <4>2
    <3>3. QED
      BY <2>2, <3>1, <3>2 DEF CoreInv, ShownInv
  <2>5. QED
    BY <2>3, <2>4
<1>7. HeldInv'
  BY <1>1, <1>2 DEF CoreInv, HeldInv
<1>8. SnapInv'
  BY <1>1, <1>2 DEF CoreInv, SnapInv, Active
<1>9. SiblingsAreUnseen'
  <2> SUFFICES ASSUME pc \in {"snap", "launch", "await", "joined"}, NEW n \in Members,
                      NEW i \in turn'[n].rows, timeline'[i].by \in Members
               PROVE  i <= turn'[n].high
    BY DEF SiblingsAreUnseen
  <2>1. CASE n = m
    BY <1>2, <2>1
  <2>2. CASE n # m
    <3>1. turn'[n] = turn[n] /\ i \in 1 .. Len(timeline)
      BY <1>1, <1>2, <2>2 DEF CoreInv, HeldInv
    <3>2. QED
      BY <1>1, <3>1 DEF CoreInv, SiblingsAreUnseen
  <2>3. QED
    BY <2>1, <2>2
<1>10. QED
  BY <1>4, <1>5, <1>6, <1>7, <1>8, <1>9 DEF CoreInv

\* The rest of the invariant that a step on a launched turn does not touch.
LEMMA LaterKeeps ==
  ASSUME CoreInv, NEW m \in Members, turn[m].phase \in Active \ {"marked"},
         NEW t \in TurnRecord, turn' = [turn EXCEPT ![m] = t],
         UNCHANGED <<pc, cast, cursor>>, Extended,
         t.phase \notin {"none", "marked"},
         t.high = turn[m].high, t.rows = turn[m].rows, t.notes = turn[m].notes,
         StreamInv'
  PROVE  CoreInv'
<1>1. /\ timeline \in Seq(Row) /\ turn \in [Members -> TurnRecord] /\ cursor \in [Members -> Nat]
      /\ timeline' \in Seq(Row) /\ Len(timeline) \in Nat /\ Len(timeline') \in Nat
      /\ Len(timeline) <= Len(timeline')
      /\ \A i \in 1 .. Len(timeline) : timeline'[i].by = timeline[i].by
  BY CoreTyped, ExtendedTyped
<1>2. turn[m].high \in Nat /\ cursor[m] \in Nat /\ turn[m].high <= Len(timeline)
  BY <1>1 DEF TurnRecord, CoreInv, ShownInv
<1>3. pc # "snap"
  BY DEF CoreInv, PhaseInv, Active
<1>4. t.rows \subseteq 1 .. Len(timeline) /\ \A n \in t.notes : n.to = m
  BY <1>1 DEF CoreInv, HeldInv
<1>5. t.rows \subseteq DOMAIN timeline'
  BY <1>1, <1>4
<1>6. ASSUME NEW i \in cursor'[m] + 1 .. t.high
      PROVE  timeline'[i].by = m \/ i \in t.rows
  <2>1. timeline[i].by = m \/ i \in t.rows
    BY DEF CoreInv, ShownInv, Active
  <2>2. i \in 1 .. Len(timeline)
    BY <1>1, <1>2
  <2>3. QED
    BY <1>1, <2>1, <2>2
<1>7. ASSUME pc \in {"snap", "launch", "await", "joined"}, NEW i \in t.rows,
             timeline'[i].by \in Members
      PROVE  i <= t.high
  <2>1. timeline[i].by \in Members
    BY <1>1, <1>4, <1>7
  <2>2. QED
    BY <1>7, <2>1 DEF CoreInv, SiblingsAreUnseen
<1>8. turn[m].phase \in Active /\ cursor' \in [Members -> Nat]
  BY <1>1
<1>9. QED
  BY <1>3, <1>4, <1>5, <1>6, <1>7, <1>8, MemberKeeps

LEMMA SnapshotKeeps == ASSUME CoreInv, MailTypeOK, NEW m \in Members, Snapshot(m) PROVE CoreInv'
<1> DEFINE t == [turn[m] EXCEPT !.phase = IF pc = "snap" THEN "ready" ELSE "launched",
                                !.rows = Unseen(m), !.notes = PendingFor(m)]
<1>1. /\ turn[m].phase = "marked"
      /\ turn' = [turn EXCEPT ![m] = t]
      /\ UNCHANGED <<pc, cast, timeline, cursor, notes>>
  BY DEF Snapshot, store, mail
<1>2. turn[m] \in TurnRecord /\ cursor[m] \in Nat /\ turn[m].high \in Nat
  BY CoreTyped DEF TurnRecord
<1>3. turn[m].high <= Len(timeline) /\ pc \in {"seqTurn", "hostTurn", "summary", "snap"}
  BY <1>1 DEF CoreInv, CoreTypeOK, PhaseInv, ShownInv, Between, PCs
<1>4. Unseen(m) \subseteq 1 .. Len(timeline)
  BY <1>2, CoreTyped DEF Unseen
<1>5. PendingFor(m) \subseteq Note /\ \A n \in PendingFor(m) : n.to = m
  BY DEF MailTypeOK, PendingFor
<1>6. /\ t.phase \in {"ready", "launched"} /\ (pc = "snap" => t.phase = "ready")
      /\ t.high = turn[m].high /\ t.rows = Unseen(m) /\ t.notes = PendingFor(m)
  BY <1>2 DEF TurnRecord
<1>7. t \in TurnRecord
  <2>1. Unseen(m) \subseteq Nat \ {0}
    BY <1>4, CoreTyped
  <2>2. QED
    BY <1>2, <1>5, <2>1 DEF TurnRecord, Phases
<1> HIDE DEF t
<1>8. \A i \in DOMAIN timeline : ~timeline[i].streaming
  <2>1. \A n \in Members : turn[n].phase # "speaking"
    BY <1>1, <1>3 DEF CoreInv, PhaseInv
  <2>2. QED
    BY <1>3, <2>1, NobodyWrites
<1>9. \A i \in cursor[m] + 1 .. t.high : timeline[i].by = m \/ i \in t.rows
  <2> SUFFICES ASSUME NEW i \in cursor[m] + 1 .. t.high, timeline[i].by # m
               PROVE  i \in Unseen(m)
    BY <1>6
  <2>1. i \in cursor[m] + 1 .. Len(timeline) /\ i \in 1 .. Len(timeline)
    BY <1>2, <1>3, <1>6, CoreTyped
  <2>2. QED
    BY <1>8, <2>1, CoreTyped DEF Unseen
<1>10. ASSUME pc \in {"snap", "launch", "await", "joined"}, NEW i \in t.rows,
              timeline[i].by \in Members
       PROVE  i <= t.high
  <2>1. pc = "snap" /\ i \in 1 .. Len(timeline)
    BY <1>3, <1>4, <1>6, <1>10
  <2>2. ~(i \in turn[m].high + 1 .. Len(timeline))
    BY <1>1, <1>10, <2>1 DEF CoreInv, SnapInv
  <2>3. QED
    BY <1>2, <1>6, <2>1, <2>2, CoreTyped
<1>11. StreamInv'
  BY <1>1, <1>8 DEF StreamInv
<1>12. Extended
  BY <1>1, CoreTyped DEF Extended
<1>13. t.rows \subseteq DOMAIN timeline'
  BY <1>1, <1>4, <1>6, CoreTyped
<1>14. turn[m].phase \in Active /\ cursor' \in [Members -> Nat]
  BY <1>1, CoreTyped DEF Active
<1>15. QED
  BY <1>1, <1>5, <1>6, <1>7, <1>9, <1>10, <1>11, <1>12, <1>13, <1>14, MemberKeeps

LEMMA SpeakKeeps == ASSUME CoreInv, NEW m \in Members, Speak(m) PROVE CoreInv'
<1> DEFINE t == [turn[m] EXCEPT !.phase = "speaking"]
<1>1. /\ turn[m].phase = "launched" /\ turn' = [turn EXCEPT ![m] = t]
      /\ UNCHANGED <<pc, cast, cursor>>
      /\ timeline' = Append(timeline, StreamingRow(m))
  BY DEF Speak
<1>2. turn[m] \in TurnRecord
  BY CoreTyped
<1>3. /\ t \in TurnRecord /\ t.phase = "speaking"
      /\ t.high = turn[m].high /\ t.rows = turn[m].rows /\ t.notes = turn[m].notes
  BY <1>2 DEF TurnRecord, Phases
<1> HIDE DEF t
<1>4. StreamingRow(m) \in Row /\ StreamingRow(m).by = m
  BY Rows
<1>5. /\ Extended /\ Len(timeline') = Len(timeline) + 1
      /\ \A i \in 1 .. Len(timeline) : timeline'[i] = timeline[i]
      /\ timeline'[Len(timeline) + 1] = StreamingRow(m)
  BY <1>1, <1>4, Appended, CoreTyped
<1>6. StreamInv'
  <2> SUFFICES ASSUME pc' # "rest", NEW i \in DOMAIN timeline', timeline'[i].streaming
               PROVE  timeline'[i].by \in Members /\ turn'[timeline'[i].by].phase = "speaking"
    BY DEF StreamInv
  <2>1. i \in 1 .. Len(timeline) \/ i = Len(timeline) + 1
    BY <1>5, CoreTyped, ExtendedTyped
  <2>2. CASE i = Len(timeline) + 1
    BY <1>1, <1>3, <1>4, <1>5, <2>2, CoreTyped
  <2>3. CASE i \in 1 .. Len(timeline)
    <3>1. timeline'[i] = timeline[i] /\ i \in DOMAIN timeline
      BY <1>5, <2>3, CoreTyped
    <3>2. timeline[i].by \in Members /\ turn[timeline[i].by].phase = "speaking"
      BY <1>1, <3>1 DEF CoreInv, StreamInv
    <3>3. QED
      BY <1>1, <1>3, <3>1, <3>2, CoreTyped
  <2>4. QED
    BY <2>1, <2>2, <2>3
<1>7. QED
  BY <1>1, <1>3, <1>5, <1>6, LaterKeeps DEF Active

\* A speech that ends, cleanly or not.
LEMMA FallsSilentKeeps ==
  ASSUME CoreInv, NEW m \in Members, turn[m].phase = "speaking", FinishSpeech(m),
         NEW t \in TurnRecord, turn' = [turn EXCEPT ![m] = t], t.phase \in {"spoken", "over"},
         t.high = turn[m].high, t.rows = turn[m].rows, t.notes = turn[m].notes,
         UNCHANGED <<pc, cast, cursor>>
  PROVE  CoreInv'
<1>1. /\ Extended /\ Len(timeline') = Len(timeline)
      /\ \A i \in 1 .. Len(timeline) :
           timeline'[i].streaming => timeline[i].streaming /\ timeline[i].by # m
  BY FinishedRows, CoreTyped
<1>2. StreamInv'
  <2> SUFFICES ASSUME pc' # "rest", NEW i \in DOMAIN timeline', timeline'[i].streaming
               PROVE  timeline'[i].by \in Members /\ turn'[timeline'[i].by].phase = "speaking"
    BY DEF StreamInv
  <2>1. i \in 1 .. Len(timeline) /\ i \in DOMAIN timeline
    BY <1>1, CoreTyped, ExtendedTyped
  <2>2. timeline[i].streaming /\ timeline[i].by # m /\ timeline'[i].by = timeline[i].by
    BY <1>1, <2>1, ExtendedTyped
  <2>3. timeline[i].by \in Members /\ turn[timeline[i].by].phase = "speaking"
    BY <2>1, <2>2 DEF CoreInv, StreamInv
  <2>4. QED
    BY <2>2, <2>3, CoreTyped
<1>3. QED
  BY <1>1, <1>2, LaterKeeps DEF Active

LEMMA SpeaksCleanlyKeeps ==
  ASSUME CoreInv, NEW m \in Members, NEW said \in Speech, SpeaksCleanly(m, said)
  PROVE  CoreInv'
<1> DEFINE t == [turn[m] EXCEPT !.phase = "spoken", !.result = "clean", !.said = said]
<1>1. /\ turn[m].phase = "speaking" /\ FinishSpeech(m) /\ turn' = [turn EXCEPT ![m] = t]
      /\ UNCHANGED <<pc, cast, cursor>>
  BY DEF SpeaksCleanly
<1>2. turn[m] \in TurnRecord
  BY CoreTyped
<1>3. /\ t \in TurnRecord /\ t.phase = "spoken"
      /\ t.high = turn[m].high /\ t.rows = turn[m].rows /\ t.notes = turn[m].notes
  BY <1>2 DEF TurnRecord, Phases
<1> HIDE DEF t
<1>4. QED
  BY <1>1, <1>3, FallsSilentKeeps

LEMMA BreaksOffKeeps ==
  ASSUME CoreInv, NEW m \in Members, NEW result \in {"error", "cancel"}, BreaksOff(m, result)
  PROVE  CoreInv'
<1> DEFINE t == [turn[m] EXCEPT !.phase = "over", !.result = result]
<1>1. /\ turn[m].phase = "speaking" /\ FinishSpeech(m) /\ turn' = [turn EXCEPT ![m] = t]
      /\ UNCHANGED <<pc, cast, cursor>>
  BY DEF BreaksOff
<1>2. turn[m] \in TurnRecord
  BY CoreTyped
<1>3. /\ t \in TurnRecord /\ t.phase = "over"
      /\ t.high = turn[m].high /\ t.rows = turn[m].rows /\ t.notes = turn[m].notes
  BY <1>2 DEF TurnRecord, Phases
<1> HIDE DEF t
<1>4. QED
  BY <1>1, <1>3, FallsSilentKeeps

\* A step that touches neither the timeline nor who is speaking.
LEMMA SameRows ==
  ASSUME CoreInv, NEW m \in Members, NEW t \in TurnRecord, turn' = [turn EXCEPT ![m] = t],
         UNCHANGED <<pc, timeline>>, turn[m].phase # "speaking"
  PROVE  Extended /\ StreamInv'
<1>1. Extended
  BY CoreTyped DEF Extended
<1>2. StreamInv'
  BY CoreTyped DEF CoreInv, StreamInv
<1>3. QED
  BY <1>1, <1>2

LEMMA AdvanceKeeps == ASSUME CoreInv, NEW m \in Members, Advance(m) PROVE CoreInv'
<1> DEFINE t == [turn[m] EXCEPT !.phase = "advanced"]
<1>1. /\ turn[m].phase = "spoken" /\ turn' = [turn EXCEPT ![m] = t]
      /\ cursor' = [cursor EXCEPT ![m] = turn[m].high]
      /\ UNCHANGED <<pc, cast, timeline>>
  BY DEF Advance, SetCursor
<1>2. turn[m] \in TurnRecord
  BY CoreTyped
<1>3. /\ t \in TurnRecord /\ t.phase = "advanced"
      /\ t.high = turn[m].high /\ t.rows = turn[m].rows /\ t.notes = turn[m].notes
  BY <1>2 DEF TurnRecord, Phases
<1> HIDE DEF t
<1>4. Extended /\ StreamInv'
  BY <1>1, <1>3, SameRows
<1>5. turn[m].high \in Nat
  BY <1>2 DEF TurnRecord
<1>6. /\ cursor' \in [Members -> Nat] /\ cursor'[m] = t.high
      /\ \A n \in Members : n # m => cursor'[n] = cursor[n]
  BY <1>1, <1>3, <1>5, CoreTyped
<1>7. \A i \in cursor'[m] + 1 .. t.high : timeline'[i].by = m \/ i \in t.rows
  BY <1>3, <1>5, <1>6
<1>8. pc # "snap"
  BY <1>1 DEF CoreInv, PhaseInv
<1>9. t.rows \subseteq DOMAIN timeline' /\ \A n \in t.notes : n.to = m
  BY <1>1, <1>3 DEF CoreInv, HeldInv
<1>10. pc \in {"snap", "launch", "await", "joined"} =>
         \A i \in t.rows : timeline'[i].by \in Members => i <= t.high
  BY <1>1, <1>3 DEF CoreInv, SiblingsAreUnseen
<1>11. turn[m].phase \in Active
  BY <1>1 DEF Active
<1>12. QED
  BY <1>1, <1>3, <1>4, <1>6, <1>7, <1>8, <1>9, <1>10, <1>11, MemberKeeps

LEMMA ConsumeKeeps == ASSUME CoreInv, NEW m \in Members, Consume(m) PROVE CoreInv'
<1> DEFINE t == [turn[m] EXCEPT !.phase = "over"]
<1>1. /\ turn[m].phase = "advanced" /\ turn' = [turn EXCEPT ![m] = t]
      /\ UNCHANGED <<pc, cast, timeline, cursor>>
  BY DEF Consume
<1>2. turn[m] \in TurnRecord
  BY CoreTyped
<1>3. /\ t \in TurnRecord /\ t.phase = "over"
      /\ t.high = turn[m].high /\ t.rows = turn[m].rows /\ t.notes = turn[m].notes
  BY <1>2 DEF TurnRecord, Phases
<1> HIDE DEF t
<1>4. Extended /\ StreamInv'
  BY <1>1, <1>3, SameRows
<1>5. QED
  BY <1>1, <1>3, <1>4, LaterKeeps DEF Active

LEMMA MemberStepKeeps ==
  ASSUME CoreInv, MailTypeOK, NEW m \in Members, MemberStep(m)
  PROVE  CoreInv'
<1>1. CASE \E said \in Speeches[m] : SpeaksCleanly(m, said)
  BY <1>1, GroupAssumption, SpeaksCleanlyKeeps
<1>2. QED
  BY <1>1, SnapshotKeeps, SpeakKeeps, AdvanceKeeps, ConsumeKeeps, BreaksOffKeeps DEF MemberStep

-----------------------------------------------------------------------------
(***************************************************************************)
(* A turn's start and end, and what happens outside                        *)
(***************************************************************************)

LEMMA BeginKeeps ==
  ASSUME CoreInv, NEW said, NEW able \in Rosters, NEW together, Begin(said, able, together)
  PROVE  CoreInv'
<1> DEFINE rows == Append(timeline, FinishedRow(Nobody))
<1>1. /\ pc = "rest" /\ pc' = "top" /\ UNCHANGED <<cursor, host, turn>>
      /\ timeline' = Finalized(rows) /\ roster' = able
  BY DEF Begin, Goto
<1>2. rows \in Seq(Row)
  BY Rows, CoreTyped
<1> HIDE DEF rows
<1>3. /\ timeline' \in Seq(Row) /\ Len(timeline') \in Nat
      /\ \A i \in DOMAIN timeline' : ~timeline'[i].streaming
  <2>1. /\ timeline' \in Seq(Row)
        /\ \A i \in DOMAIN timeline' : ~timeline'[i].streaming
    BY <1>1, <1>2, FinalizedRows
  <2>2. QED
    BY <2>1
<1>4. \A m \in Members : turn[m].phase = "none" /\ turn[m].high = 0 /\ turn[m].rows = {}
  BY <1>1 DEF CoreInv, PhaseInv, ShownInv
<1>5. able \subseteq Members
  BY GroupAssumption
<1>6. CoreTypeOK'
  BY <1>1, <1>3, <1>5 DEF CoreInv, CoreTypeOK, PCs
<1>7. PhaseInv' /\ HostInv' /\ StreamInv'
  BY <1>1, <1>3, <1>4 DEF PhaseInv, HostInv, StreamInv
<1>8. ShownInv'
  BY <1>1, <1>3, <1>4, CoreTyped DEF ShownInv
<1>9. HeldInv' /\ SnapInv' /\ SiblingsAreUnseen'
  BY <1>1, <1>4 DEF CoreInv, HeldInv, SnapInv, SiblingsAreUnseen
<1>10. QED
  BY <1>6, <1>7, <1>8, <1>9 DEF CoreInv

\* A turn that is over, or that a crash cut short, leaves no turns of members.
LEMMA RestKeeps ==
  ASSUME CoreInv, timeline' \in Seq(Row), UNCHANGED <<cursor, cast>>, NoSpeakers, pc' = "rest"
  PROVE  CoreInv'
<1>1. \A m \in Members : turn'[m] = NoTurn
  BY DEF NoSpeakers
<1>2. CoreTypeOK'
  BY NoTurnTyped DEF CoreInv, CoreTypeOK, NoSpeakers, cast, PCs
<1>3. PhaseInv' /\ HostInv' /\ StreamInv'
  BY <1>1 DEF PhaseInv, HostInv, StreamInv, NoTurn
<1>4. Len(timeline') \in Nat
  OBVIOUS
<1>5. ShownInv'
  BY <1>1, <1>4, CoreTyped DEF ShownInv, NoTurn
<1>6. HeldInv' /\ SnapInv' /\ SiblingsAreUnseen'
  BY <1>1 DEF HeldInv, SnapInv, SiblingsAreUnseen, NoTurn
<1>7. QED
  BY <1>2, <1>3, <1>5, <1>6 DEF CoreInv

LEMMA CloseKeeps ==
  ASSUME CoreInv, NEW announced \in BOOLEAN, Close(announced) PROVE CoreInv'
<1> DEFINE rows == IF announced THEN Append(timeline, FinishedRow(Nobody)) ELSE timeline
<1>1. timeline' = Finalized(rows) /\ UNCHANGED <<cursor, cast>> /\ NoSpeakers /\ pc' = "rest"
  BY DEF Close, Fresh, Goto, NoSpeakers
<1>2. rows \in Seq(Row)
  BY Rows, CoreTyped
<1> HIDE DEF rows
<1>3. timeline' \in Seq(Row)
  BY <1>1, <1>2, FinalizedRows
<1>4. QED
  BY <1>1, <1>3, RestKeeps

LEMMA CrashKeeps == ASSUME CoreInv, Crash PROVE CoreInv'
<1>1. timeline' = timeline /\ UNCHANGED <<cursor, cast>> /\ NoSpeakers /\ pc' = "rest"
  BY DEF Crash, Fresh, Goto, NoSpeakers, store
<1>2. QED
  BY <1>1, RestKeeps, CoreTyped

\* A row of a request is nobody's, so no prompt and no cursor notices.
LEMMA HttpRowKeeps == ASSUME CoreInv, HttpRow PROVE CoreInv'
<1>1. UNCHANGED <<cursor, turn, cast, pc>> /\ Noticed
  BY DEF HttpRow, Noticed
<1>2. /\ Extended
      /\ \A i \in 1 .. Len(timeline) : timeline'[i] = timeline[i]
      /\ \A i \in Len(timeline) + 1 .. Len(timeline') :
           ~timeline'[i].streaming /\ timeline'[i].by = Nobody
  BY <1>1, NoticedRows, CoreTyped
<1>3. CoreTypeOK' /\ PhaseInv' /\ HostInv'
  BY <1>1, <1>2, ExtendedTyped DEF CoreInv, CoreTypeOK, PhaseInv, HostInv, cast
<1>4. ASSUME NEW i \in DOMAIN timeline'
      PROVE  \/ i \in DOMAIN timeline /\ timeline'[i] = timeline[i]
             \/ ~timeline'[i].streaming /\ timeline'[i].by \notin Members
  <2>1. i \in 1 .. Len(timeline) \/ i \in Len(timeline) + 1 .. Len(timeline')
    BY <1>2, CoreTyped, ExtendedTyped
  <2>2. QED
    BY <1>2, <2>1, CoreTyped, TimelineAssumption
<1>5. StreamInv'
  BY <1>1, <1>4 DEF CoreInv, StreamInv
<1>6. ShownInv' /\ HeldInv'
  BY <1>1, <1>2, GrowthKeeps
<1>7. SnapInv'
  <2> SUFFICES ASSUME pc = "snap", NEW m \in Members, turn[m].phase # "none",
                      NEW i \in turn[m].high + 1 .. Len(timeline')
               PROVE  timeline'[i].by \notin Members
    BY <1>1 DEF SnapInv
  <2>1. turn[m].high \in Nat
    BY CoreTyped DEF TurnRecord
  <2>2. i \in 1 .. Len(timeline')
    BY <1>2, <2>1, ExtendedTyped
  <2>3. CASE i \in DOMAIN timeline /\ timeline'[i] = timeline[i]
    <3>1. i \in turn[m].high + 1 .. Len(timeline)
      BY <2>1, <2>3, CoreTyped
    <3>2. QED
      BY <2>3, <3>1 DEF CoreInv, SnapInv
  <2>4. QED
    BY <1>2, <1>4, <2>2, <2>3, ExtendedTyped
<1>8. SiblingsAreUnseen'
  BY <1>1, <1>2, CoreTyped, ExtendedTyped DEF CoreInv, SiblingsAreUnseen, HeldInv
<1>9. QED
  BY <1>3, <1>5, <1>6, <1>7, <1>8 DEF CoreInv

\* Nothing of it changes.
LEMMA SameKeeps ==
  ASSUME CoreInv, UNCHANGED <<timeline, cursor, turn, cast, pc>> PROVE CoreInv'
  BY DEF CoreInv, CoreTypeOK, PhaseInv, HostInv, StreamInv, ShownInv, HeldInv, SnapInv,
         SiblingsAreUnseen, cast

-----------------------------------------------------------------------------
(***************************************************************************)
(* The orchestrator                                                        *)
(***************************************************************************)

LEMMA CapIsNoticed == ASSUME LatchCap PROVE Noticed
  BY DEF LatchCap, Noticed

\* The steps that leave the members' turns alone.
QuietStep ==
  \/ SeeStop \/ RelayEnds \/ NextGroup \/ SeqStop \/ SeqUser \/ SeqCap \/ SeqEnds
  \/ ParUserOnly \/ ParCap \/ HostCap \/ KernelEnds

LEMMA QuietStepKeeps == ASSUME CoreInv, QuietStep PROVE CoreInv'
<1>1. CASE SeeStop \/ RelayEnds \/ NextGroup \/ SeqStop \/ SeqUser \/ SeqEnds \/ ParUserOnly
  <2>1. /\ UNCHANGED <<cursor, turn, cast>> /\ timeline' = timeline
        /\ pc \in Between /\ pc' \in Between /\ pc' # "summarize"
    BY <1>1 DEF SeeStop, RelayEnds, NextGroup, SeqStop, SeqUser, SeqEnds, ParUserOnly,
                Drained, Goto, store, Between, cast
  <2>2. QED
    BY <2>1, QuietKeeps DEF Noticed
<1>2. CASE SeqCap \/ ParCap \/ HostCap
  <2>1. /\ UNCHANGED <<cursor, turn, cast>> /\ Noticed
        /\ pc \in Between /\ pc' \in Between /\ pc' # "summarize"
    BY <1>2, CapIsNoticed DEF SeqCap, ParCap, HostCap, HostRefills, Drained, Goto, Between, cast
  <2>2. QED
    BY <2>1, QuietKeeps
<1>3. CASE KernelEnds
  <2>1. /\ UNCHANGED <<cursor, turn, cast>> /\ timeline' = timeline
        /\ pc \in Between /\ pc' \in Between /\ (pc' = "summarize" => host # Nobody)
    BY <1>3 DEF KernelEnds, Goto, store, Between, cast, Free
  <2>2. QED
    BY <2>1, QuietKeeps DEF Noticed
<1>4. QED
  BY <1>1, <1>2, <1>3 DEF QuietStep

\* The steps that start one member's turn.
MarkStep == SeqMark \/ HostMark \/ SummaryMark

LEMMA MarkStepKeeps == ASSUME CoreInv, MarkStep PROVE CoreInv'
<1>1. CASE SeqMark
  <2>1. /\ UNCHANGED <<timeline, cursor, cast>>
        /\ turn' = [turn EXCEPT ![Head(group.turns)] = Marked]
        /\ pc \in Between /\ pc' = "seqTurn"
    BY <1>1 DEF SeqMark, Goto, store, Between, cast
  <2>2. QED
    BY <2>1, MarkKeeps
<1>2. CASE HostMark \/ SummaryMark
  <2>1. /\ UNCHANGED <<timeline, cursor, cast>>
        /\ turn' = [turn EXCEPT ![host] = Marked]
        /\ pc \in Between /\ pc' \in {"hostTurn", "summary"} /\ host # Nobody
    BY <1>2 DEF HostMark, SummaryMark, HostRefills, Free, Goto, store, Between, cast,
                CoreInv, HostInv
  <2>2. QED
    BY <2>1, MarkKeeps
<1>3. QED
  BY <1>1, <1>2 DEF MarkStep

\* The steps that put all turns away.
PutAwayStep ==
  \/ \E m \in Members : SeqOver(m)
  \/ LaunchStop \/ (AwaitBatch /\ pc' # "launch")
  \/ ParAsked \/ ParDropped \/ ParHandsBack \/ ParEnds
  \/ HostCancelled \/ HostFailed \/ HostAsks \/ HostEnds \/ HostRoutes
  \/ SummaryOver

LEMMA PutAwayStepKeeps == ASSUME CoreInv, PutAwayStep PROVE CoreInv'
<1>1. ASSUME NEW m \in Members, SeqOver(m) PROVE CoreInv'
  <2>1. /\ NoSpeakers /\ UNCHANGED <<timeline, cursor, cast>>
        /\ pc = "seqTurn" /\ turn[m].phase = "over" /\ pc' \in {"drained", "seq"}
    BY <1>1 DEF SeqOver, Drained, Goto, cast
  <2>2. \A i \in DOMAIN timeline : ~timeline[i].streaming
    BY <2>1, OverNobodySpeaks, NobodyWrites
  <2>3. QED
    BY <2>1, <2>2, PutAwayKeeps DEF Noticed, Between
<1>2. CASE LaunchStop \/ ParAsked \/ ParDropped \/ ParHandsBack \/ ParEnds
  <2>1. /\ NoSpeakers /\ UNCHANGED <<cursor, cast>> /\ Noticed
        /\ pc \in {"launch", "joined"} /\ pc' \in {"drained", "top"}
    BY <1>2, CapIsNoticed DEF LaunchStop, ParAsked, ParDropped, ParHandsBack, ParEnds,
       NobodyAsked, Drained, Goto, store, cast, Noticed
  <2>2. \A i \in DOMAIN timeline : ~timeline[i].streaming
    BY <2>1, BetweenNobodySpeaks, NobodyWrites
  <2>3. QED
    BY <2>1, <2>2, PutAwayKeeps DEF Between
<1>3. CASE AwaitBatch /\ pc' # "launch"
  <2>1. /\ NoSpeakers /\ UNCHANGED <<timeline, cursor, cast>>
        /\ pc = "await" /\ pc' = "drained"
        /\ \A m \in Members : turn[m].phase \in {"none", "ready", "over"}
    BY <1>3 DEF AwaitBatch, Drained, Goto, store, cast
  <2>2. \A i \in DOMAIN timeline : ~timeline[i].streaming
    BY <2>1, NobodyWrites
  <2>3. QED
    BY <2>1, <2>2, PutAwayKeeps DEF Noticed, Between
<1>4. CASE HostCancelled \/ HostFailed \/ HostAsks \/ HostEnds \/ HostRoutes \/ SummaryOver
  <2>1. /\ NoSpeakers /\ UNCHANGED <<timeline, cursor, cast>>
        /\ turn[host].phase = "over"
        /\ pc \in {"hostTurn", "summary"}
        /\ pc' \in {"drained", "top", "summarize", "closing"}
    <3>1. CASE HostCancelled \/ HostAsks \/ HostEnds \/ SummaryOver
      BY <3>1 DEF HostCancelled, HostAsks, HostEnds, SummaryOver, HostOver, Drained, Goto,
                  store, cast
    <3>2. CASE HostFailed
      BY <3>2 DEF HostFailed, HostOver, GiveUp, Fallback, NoFallback, Drained, Goto, store, cast
    <3>3. CASE HostRoutes
      BY <3>3 DEF HostRoutes, HostOver, GiveUp, Fallback, NoFallback, Drained, Goto, store, cast
    <3>4. QED
      BY <1>4, <3>1, <3>2, <3>3
  <2>2. host \in Members /\ (pc' = "summarize" => host # Nobody)
    <3>1. pc = "summary" => host # Nobody
      BY DEF CoreInv, HostInv
    <3>2. pc = "hostTurn" => host # Nobody
      BY DEF CoreInv, HostInv
    <3>3. QED
      BY <2>1, <3>1, <3>2 DEF CoreInv, CoreTypeOK
  <2>3. \A i \in DOMAIN timeline : ~timeline[i].streaming
    BY <2>1, <2>2, OverNobodySpeaks, NobodyWrites
  <2>4. QED
    BY <2>1, <2>2, <2>3, PutAwayKeeps DEF Noticed, Between
<1>5. QED
  BY <1>1, <1>2, <1>3, <1>4 DEF PutAwayStep

LEMMA KernelStepKeeps == ASSUME CoreInv, KernelStep PROVE CoreInv'
<1>1. \/ QuietStep \/ MarkStep \/ PutAwayStep \/ ParMark \/ LaunchBatch
      \/ AllPrepared \/ LaunchEnds \/ (AwaitBatch /\ pc' = "launch")
      \/ \E announced \in BOOLEAN : Close(announced)
  BY DEF KernelStep, QuietStep, MarkStep, PutAwayStep
<1>2. QED
  BY <1>1, QuietStepKeeps, MarkStepKeeps, PutAwayStepKeeps, ParMarkKeeps, LaunchKeeps,
     PassKeeps, CloseKeeps

\* Every step keeps the invariant.
LEMMA NextKeeps == ASSUME CoreInv, MailTypeOK, [Next]_vars PROVE CoreInv'
<1>1. CASE UNCHANGED vars
  BY <1>1, SameKeeps DEF vars, store, round, cast
<1>2. CASE Cancel
  BY <1>2, SameKeeps DEF Cancel, store, round, cast
<1>3. CASE \E said \in Messages, able \in Rosters, together \in BOOLEAN :
             Begin(said, able, together)
  BY <1>3, BeginKeeps
<1>4. QED
  BY <1>1, <1>2, <1>3, KernelStepKeeps, MemberStepKeeps, HttpRowKeeps, CrashKeeps DEF Next

LEMMA InitCore == ASSUME Init PROVE CoreInv
<1>1. /\ timeline = <<>> /\ cursor = [m \in Members |-> 0]
      /\ turn = [m \in Members |-> NoTurn] /\ pc = "rest"
      /\ host \in Members \cup {Nobody} /\ roster = {}
  BY GroupAssumption DEF Init, StoreInit
<1>2. timeline \in Seq(Row) /\ Len(timeline) = 0
  BY <1>1
<1>3. CoreTypeOK
  BY <1>1, <1>2, NoTurnTyped DEF CoreTypeOK, PCs
<1>4. PhaseInv /\ HostInv /\ StreamInv
  BY <1>1 DEF PhaseInv, HostInv, StreamInv, NoTurn
<1>5. ShownInv /\ HeldInv /\ SnapInv /\ SiblingsAreUnseen
  BY <1>1, <1>2 DEF ShownInv, HeldInv, SnapInv, SiblingsAreUnseen, NoTurn
<1>6. QED
  BY <1>3, <1>4, <1>5 DEF CoreInv

-----------------------------------------------------------------------------
(***************************************************************************)
(* The private notes                                                       *)
(***************************************************************************)

Addressees == Members \cup {User, Nobody}

\* A full queue is full before the note that overflows it arrives.
LEMMA EvictedWereFull ==
  ASSUME MailTypeOK, NEW kept \in SUBSET notes, NEW to, NEW n \in Evicted(kept, to)
  PROVE  n.to = to /\ Cardinality(PendingFor(n.to)) >= MaxPending
<1> DEFINE mine == {o \in kept : o.to = to}
           later == {o \in mine : o.id > n.id}
<1>1. n \in mine /\ Cardinality(later) + 1 >= MaxPending
  BY DEF Evicted
<1>2. n.to = to /\ n \in notes
  BY <1>1
<1>3. IsFiniteSet(PendingFor(to)) /\ PendingFor(to) \subseteq notes
  BY FS_Subset DEF MailTypeOK, PendingFor
<1>4. later \subseteq PendingFor(to) /\ n \in PendingFor(to)
  BY <1>2 DEF PendingFor
<1>5. n \notin later
  BY <1>2 DEF MailTypeOK, Note
<1> HIDE DEF later
<1>6. IsFiniteSet(later)
  BY <1>3, <1>4, FS_Subset
<1>7. Cardinality(later \cup {n}) = Cardinality(later) + 1 /\ IsFiniteSet(later \cup {n})
  BY <1>5, <1>6, FS_AddElement
<1>8. Cardinality(later \cup {n}) <= Cardinality(PendingFor(to))
  BY <1>3, <1>4, FS_Subset
<1>9. Cardinality(later) \in Nat /\ Cardinality(PendingFor(to)) \in Nat
  BY <1>3, <1>6, FS_CardinalityType
<1>10. QED
  BY <1>1, <1>2, <1>7, <1>8, <1>9, TimelineAssumption

\* Adding a note drops what was taken out of the queue before, and what a full
\* queue has no room for.
LEMMA NoteAdded ==
  ASSUME MailTypeOK, NEW kept \in SUBSET notes, NEW to \in Addressees, AddNote(kept, to)
  PROVE  /\ MailTypeOK'
         /\ \A n \in notes \ notes' :
              n \notin kept \/ Cardinality(PendingFor(n.to)) >= MaxPending
<1>1. kept \subseteq Note /\ IsFiniteSet(kept)
  BY FS_Subset DEF MailTypeOK
<1>2. CASE to = Nobody
  BY <1>1, <1>2 DEF AddNote, MailTypeOK
<1>3. CASE to # Nobody
  <2> DEFINE new == [id |-> lastNote + 1, to |-> to]
             left == kept \ Evicted(kept, to)
  <2>1. lastNote' = lastNote + 1 /\ notes' = left \cup {new}
    BY <1>3 DEF AddNote
  <2>2. new \in Note
    BY <1>3 DEF MailTypeOK, Note, Addressees
  <2>3. left \subseteq kept
    OBVIOUS
  <2>4. \A n \in kept : n \in left \/ Cardinality(PendingFor(n.to)) >= MaxPending
    BY EvictedWereFull
  <2> HIDE DEF new, left
  <2>5. IsFiniteSet(left) /\ IsFiniteSet(left \cup {new})
    BY <1>1, <2>3, FS_Subset, FS_AddElement
  <2>6. MailTypeOK'
    BY <1>1, <2>1, <2>2, <2>3, <2>5 DEF MailTypeOK
  <2>7. QED
    BY <2>1, <2>4, <2>6
<1>4. QED
  BY <1>2, <1>3

LEMMA UserNotesCleared ==
  ASSUME MailTypeOK, ClearUserNotes
  PROVE  MailTypeOK' /\ \A n \in notes \ notes' : n.to = User
<1>1. notes' \subseteq notes /\ lastNote' = lastNote
  BY DEF ClearUserNotes
<1>2. IsFiniteSet(notes')
  BY <1>1, FS_Subset DEF MailTypeOK
<1>3. QED
  BY <1>1, <1>2 DEF MailTypeOK, ClearUserNotes, PendingFor

\* What a step does to the notes.
MailStep ==
  \/ UNCHANGED <<notes, lastNote>>
  \/ ClearUserNotes
  \/ \E to \in Addressees : AddNote(notes, to)
  \/ \E m \in Members : /\ turn[m].phase = "advanced"
                        /\ \E to \in Addressees : AddNote(notes \ turn[m].notes, to)

LEMMA QuietMail == ASSUME QuietStep \/ MarkStep PROVE MailStep
<1>1. CASE SeeStop \/ RelayEnds \/ NextGroup \/ SeqStop \/ SeqUser \/ SeqCap \/ SeqEnds
  BY <1>1 DEF SeeStop, RelayEnds, NextGroup, SeqStop, SeqUser, SeqCap, SeqEnds, store, mail, MailStep
<1>2. CASE ParUserOnly \/ ParCap \/ HostCap \/ KernelEnds
  BY <1>2 DEF ParUserOnly, ParCap, HostCap, KernelEnds, store, mail, MailStep
<1>3. CASE MarkStep
  BY <1>3 DEF MarkStep, SeqMark, HostMark, SummaryMark, store, mail, MailStep
<1>4. QED
  BY <1>1, <1>2, <1>3 DEF QuietStep

LEMMA PutAwayMail == ASSUME PutAwayStep PROVE MailStep
<1>1. ASSUME NEW m \in Members, SeqOver(m) PROVE MailStep
  BY <1>1 DEF SeqOver, mail, MailStep
<1>2. CASE LaunchStop \/ AwaitBatch \/ ParAsked \/ ParDropped \/ ParHandsBack \/ ParEnds
  BY <1>2 DEF LaunchStop, AwaitBatch, ParAsked, ParDropped, ParHandsBack, ParEnds, store, mail, MailStep
<1>3. CASE HostCancelled \/ HostFailed \/ HostAsks \/ HostEnds \/ HostRoutes \/ SummaryOver
  BY <1>3 DEF HostCancelled, HostFailed, HostAsks, HostEnds, HostRoutes, SummaryOver, store, mail,
              MailStep
<1>4. QED
  BY <1>1, <1>2, <1>3 DEF PutAwayStep

LEMMA KernelMail == ASSUME KernelStep PROVE MailStep
<1>1. \/ QuietStep \/ MarkStep \/ PutAwayStep \/ ParMark \/ LaunchBatch
      \/ AllPrepared \/ LaunchEnds \/ (AwaitBatch /\ pc' = "launch")
      \/ \E announced \in BOOLEAN : Close(announced)
  BY DEF KernelStep, QuietStep, MarkStep, PutAwayStep
<1>2. CASE ParMark \/ LaunchBatch \/ AllPrepared \/ LaunchEnds \/ AwaitBatch
  BY <1>2 DEF ParMark, LaunchBatch, AllPrepared, LaunchEnds, AwaitBatch, store, mail, MailStep
<1>3. CASE \E announced \in BOOLEAN : Close(announced)
  BY <1>3 DEF Close, mail, MailStep
<1>4. QED
  BY <1>1, <1>2, <1>3, QuietMail, PutAwayMail

LEMMA MemberMail ==
  ASSUME CoreInv, NEW m \in Members, MemberStep(m) PROVE MailStep
<1>1. CASE Consume(m)
  <2> DEFINE to == IF NoteAllowed(m, turn[m].said.note) THEN turn[m].said.note ELSE Nobody
  <2>1. turn[m].said.note \in Addressees
    BY CoreTyped DEF TurnRecord, Speech, Addressees
  <2>2. to \in Addressees
    BY <2>1 DEF Addressees
  <2>3. turn[m].phase = "advanced" /\ AddNote(notes \ turn[m].notes, to)
    BY <1>1 DEF Consume
  <2>4. QED
    BY <2>2, <2>3 DEF MailStep
<1>2. CASE Snapshot(m) \/ Speak(m) \/ Advance(m)
  BY <1>2 DEF Snapshot, Speak, Advance, store, mail, MailStep
<1>3. CASE \E said \in Speeches[m] : SpeaksCleanly(m, said)
  BY <1>3 DEF SpeaksCleanly, mail, MailStep
<1>4. CASE \E result \in {"error", "cancel"} : BreaksOff(m, result)
  BY <1>4 DEF BreaksOff, mail, MailStep
<1>5. QED
  BY <1>1, <1>2, <1>3, <1>4 DEF MemberStep

LEMMA NextMail == ASSUME CoreInv, [Next]_vars PROVE MailStep
<1>1. ASSUME NEW said \in Messages, NEW able \in Rosters, NEW together \in BOOLEAN,
             Begin(said, able, together)
      PROVE  MailStep
  <2>1. said \in Speech /\ able \subseteq Members
    BY GroupAssumption
  <2>2. (IF said.note \in able THEN said.note ELSE Nobody) \in Addressees
    BY <2>1 DEF Addressees
  <2>3. AddNote(notes, IF said.note \in able THEN said.note ELSE Nobody)
    BY <1>1 DEF Begin
  <2>4. QED
    BY <2>2, <2>3 DEF MailStep
<1>2. CASE HttpRow \/ Cancel \/ Crash
  BY <1>2 DEF HttpRow, Cancel, Crash, store, mail, MailStep
<1>3. CASE UNCHANGED vars
  BY <1>3 DEF vars, store, mail, MailStep
<1>4. QED
  BY <1>1, <1>2, <1>3, KernelMail, MemberMail DEF Next

\* The notes keep their type, and a step drops only what it may drop.
LEMMA NotesKept ==
  ASSUME CoreInv, MailTypeOK, MailStep
  PROVE  /\ MailTypeOK'
         /\ \A n \in notes \ notes' :
              \/ n.to = User
              \/ turn[n.to].phase = "advanced" /\ n \in turn[n.to].notes
              \/ Cardinality(PendingFor(n.to)) >= MaxPending
<1>1. CASE UNCHANGED <<notes, lastNote>>
  BY <1>1 DEF MailTypeOK
<1>2. CASE ClearUserNotes
  BY <1>2, UserNotesCleared
<1>3. CASE \E to \in Addressees : AddNote(notes, to)
  BY <1>3, NoteAdded
<1>4. ASSUME NEW m \in Members, turn[m].phase = "advanced", NEW to \in Addressees,
             AddNote(notes \ turn[m].notes, to)
      PROVE  /\ MailTypeOK'
             /\ \A n \in notes \ notes' :
                  \/ turn[n.to].phase = "advanced" /\ n \in turn[n.to].notes
                  \/ Cardinality(PendingFor(n.to)) >= MaxPending
  <2>1. /\ MailTypeOK'
        /\ \A n \in notes \ notes' :
             n \in turn[m].notes \/ Cardinality(PendingFor(n.to)) >= MaxPending
    BY <1>4, NoteAdded
  <2>2. \A n \in turn[m].notes : n.to = m
    BY DEF CoreInv, HeldInv
  <2>3. QED
    BY <1>4, <2>1, <2>2
<1>5. QED
  BY <1>1, <1>2, <1>3, <1>4 DEF MailStep

-----------------------------------------------------------------------------
(***************************************************************************)
(* The cursors                                                             *)
(***************************************************************************)

LEMMA CursorMoves ==
  ASSUME [Next]_vars PROVE cursor' = cursor \/ \E m \in Members : Advance(m)
<1>1. CASE KernelStep
  <2>1. CASE QuietStep
    BY <2>1 DEF QuietStep, SeeStop, RelayEnds, NextGroup, SeqStop, SeqUser, SeqCap, SeqEnds,
                ParUserOnly, ParCap, HostCap, KernelEnds, store
  <2>2. CASE MarkStep \/ ParMark \/ LaunchBatch \/ AllPrepared \/ LaunchEnds \/ AwaitBatch
    BY <2>2 DEF MarkStep, SeqMark, HostMark, SummaryMark, ParMark, LaunchBatch, AllPrepared,
                LaunchEnds, AwaitBatch, store
  <2>3. CASE PutAwayStep
    <3>1. CASE \E m \in Members : SeqOver(m)
      BY <3>1 DEF SeqOver
    <3>2. CASE LaunchStop \/ AwaitBatch \/ ParAsked \/ ParDropped \/ ParHandsBack \/ ParEnds
      BY <3>2 DEF LaunchStop, AwaitBatch, ParAsked, ParDropped, ParHandsBack, ParEnds, store
    <3>3. CASE HostCancelled \/ HostFailed \/ HostAsks \/ HostEnds \/ HostRoutes \/ SummaryOver
      BY <3>3 DEF HostCancelled, HostFailed, HostAsks, HostEnds, HostRoutes, SummaryOver, store
    <3>4. QED
      BY <2>3, <3>1, <3>2, <3>3 DEF PutAwayStep
  <2>4. CASE \E announced \in BOOLEAN : Close(announced)
    BY <2>4 DEF Close
  <2>5. QED
    BY <1>1, <2>1, <2>2, <2>3, <2>4 DEF KernelStep, QuietStep, MarkStep, PutAwayStep
<1>2. ASSUME NEW m \in Members, MemberStep(m)
      PROVE  cursor' = cursor \/ Advance(m)
  BY <1>2 DEF MemberStep, Snapshot, Speak, SpeaksCleanly, BreaksOff, Consume, store
<1>3. CASE \E said \in Messages, able \in Rosters, together \in BOOLEAN :
             Begin(said, able, together)
  BY <1>3 DEF Begin
<1>4. CASE HttpRow \/ Cancel \/ Crash \/ UNCHANGED vars
  BY <1>4 DEF HttpRow, Cancel, Crash, vars, store
<1>5. QED
  BY <1>1, <1>2, <1>3, <1>4 DEF Next

\* A cursor moves to the mark of a turn whose prompt held what lies between.
LEMMA CursorPasses ==
  ASSUME CoreInv, NEW k \in Members, Advance(k), NEW m \in Members, cursor'[m] # cursor[m]
  PROVE  \A i \in cursor[m] + 1 .. cursor'[m] : timeline[i].by = m \/ i \in turn[m].rows
<1>1. turn[k].phase = "spoken" /\ cursor' = [cursor EXCEPT ![k] = turn[k].high]
  BY DEF Advance, SetCursor
<1>2. m = k /\ cursor'[m] = turn[m].high
  BY <1>1, CoreTyped
<1>3. QED
  BY <1>1, <1>2 DEF CoreInv, ShownInv

-----------------------------------------------------------------------------
(***************************************************************************)
(* Sequences put together from parts                                       *)
(***************************************************************************)

\* Induction over the natural numbers, for a set: were a number left out, the
\* numbers below it would be a least such set among the finite ones.
LEMMA Induction ==
  ASSUME NEW S \in SUBSET Nat, 0 \in S, \A n \in S : n + 1 \in S
  PROVE  S = Nat
<1> SUFFICES ASSUME Nat \ S # {}
             PROVE  FALSE
  OBVIOUS
<1> DEFINE Below(n) == {k \in Nat : k < n}
           T == {Below(n) : n \in Nat \ S}
<1>1. T \subseteq FiniteSubsetsOf(Nat) /\ T # {}
  <2>1. ASSUME NEW n \in Nat
        PROVE  IsFiniteSet(Below(n))
    <3>1. \A k \in Below(n) : k \in Nat /\ k <= n
      OBVIOUS
    <3>2. Below(n) \in SUBSET Nat
      OBVIOUS
    <3> HIDE DEF Below
    <3>3. QED
      BY <3>1, <3>2, FS_BoundedSetOfNaturals
  <2>2. QED
    BY <2>1 DEF FiniteSubsetsOf
<1> HIDE DEF T
<1>2. PICK U \in T : \A V \in T : <<V, U>> \notin StrictSubsetOrdering(Nat)
  BY <1>1, FS_StrictSubsetOrderingWellFounded, WFMin
<1>3. PICK n \in Nat \ S : U = Below(n)
  BY <1>2 DEF T
<1>4. n # 0 /\ n - 1 \in Nat \ S
  OBVIOUS
<1>5. Below(n - 1) \in T
  BY <1>4 DEF T
<1>6. <<Below(n - 1), U>> \in StrictSubsetOrdering(Nat)
  <2>1. Below(n - 1) \subseteq Below(n) /\ n - 1 \in Below(n) /\ n - 1 \notin Below(n - 1)
    BY <1>4
  <2>2. QED
    BY <1>3, <2>1 DEF StrictSubsetOrdering
<1>7. QED
  BY <1>2, <1>5, <1>6

\* Among numbers one is the least.
LEMMA Least ==
  ASSUME NEW S \in SUBSET Nat, S # {}
  PROVE  \E n \in S : \A k \in S : n <= k
<1> SUFFICES ASSUME \A n \in S : \E k \in S : ~(n <= k)
             PROVE  FALSE
  OBVIOUS
<1> DEFINE T == {n \in Nat : \A k \in 0 .. n : k \notin S}
<1>1. 0 \in T
  <2>1. \A k \in S : 0 <= k
    OBVIOUS
  <2>2. 0 \notin S
    BY <2>1
  <2>3. QED
    BY <2>2
<1>2. ASSUME NEW n \in T
      PROVE  n + 1 \in T
  <2>1. n \in Nat /\ \A k \in 0 .. n : k \notin S
    OBVIOUS
  <2>2. \A k \in S : n + 1 <= k
    BY <2>1
  <2>3. n + 1 \notin S
    BY <2>2
  <2>4. \A k \in 0 .. n + 1 : k \in 0 .. n \/ k = n + 1
    BY <2>1
  <2>5. QED
    BY <2>1, <2>3, <2>4
<1>3. T = Nat
  <2>1. T \in SUBSET Nat
    OBVIOUS
  <2> HIDE DEF T
  <2>2. QED
    BY <1>1, <1>2, <2>1, Induction
<1>4. \A n \in Nat : n \notin S
  <2>1. \A n \in T : n \notin S
    OBVIOUS
  <2> HIDE DEF T
  <2>2. QED
    BY <1>3, <2>1
<1>5. QED
  BY <1>4

\* The sequences on the way to the flattened one.
LEMMA PrefixesExist ==
  ASSUME NEW X, NEW seqs \in Seq(Seq(X))
  PROVE  \E f \in [0 .. Len(seqs) -> Seq(X)] :
           f[0] = <<>> /\ \A n \in 1 .. Len(seqs) : f[n] = f[n - 1] \o seqs[n]
<1> DEFINE Solves(f, n) == /\ f \in [0 .. n -> Seq(X)] /\ f[0] = <<>>
                           /\ \A k \in 1 .. n : f[k] = f[k - 1] \o seqs[k]
<1>1. \E f : Solves(f, 0)
  <2> DEFINE g == [i \in 0 .. 0 |-> <<>>]
  <2>1. g \in [0 .. 0 -> Seq(X)] /\ g[0] = <<>>
    OBVIOUS
  <2>2. Solves(g, 0)
    BY <2>1
  <2>3. QED
    BY <2>2
<1>2. ASSUME NEW n \in Nat, n + 1 <= Len(seqs), NEW f, Solves(f, n)
      PROVE  \E g : Solves(g, n + 1)
  <2> DEFINE x == f[n] \o seqs[n + 1]
             g == [i \in 0 .. n + 1 |-> IF i = n + 1 THEN x ELSE f[i]]
  <2>1. seqs[n + 1] \in Seq(X) /\ f[n] \in Seq(X)
    BY <1>2
  <2>2. x \in Seq(X)
    BY <2>1, ConcatProperties
  <2> HIDE DEF x
  <2>3. \A i \in 0 .. n : f[i] \in Seq(X)
    BY <1>2
  <2>4. g \in [0 .. n + 1 -> Seq(X)] /\ g[0] = <<>>
    BY <1>2, <2>2, <2>3
  <2>5. \A i \in 0 .. n + 1 : g[i] = IF i = n + 1 THEN x ELSE f[i]
    OBVIOUS
  <2> HIDE DEF g
  <2>6. ASSUME NEW k \in 1 .. n + 1
        PROVE  g[k] = g[k - 1] \o seqs[k]
    <3>1. g[k - 1] = f[k - 1] /\ g[k] = IF k = n + 1 THEN x ELSE f[k]
      BY <2>5
    <3>2. k # n + 1 => k \in 1 .. n
      OBVIOUS
    <3>3. k # n + 1 => f[k] = f[k - 1] \o seqs[k]
      BY <1>2, <3>2
    <3>4. k = n + 1 => k - 1 = n
      OBVIOUS
    <3>5. QED
      BY <3>1, <3>3, <3>4 DEF x
  <2>7. Solves(g, n + 1)
    BY <2>4, <2>6
  <2>8. QED
    BY <2>7
<1> DEFINE S == {n \in Nat : n <= Len(seqs) => \E f : Solves(f, n)}
<1> HIDE DEF Solves
<1>3. S = Nat
  <2>1. 0 \in S
    BY <1>1
  <2>2. ASSUME NEW n \in S
        PROVE  n + 1 \in S
    <3>1. n \in Nat /\ n + 1 \in Nat /\ (n <= Len(seqs) => \E f : Solves(f, n))
      OBVIOUS
    <3>2. ASSUME n + 1 <= Len(seqs)
          PROVE  \E f : Solves(f, n + 1)
      <4>1. n <= Len(seqs)
        BY <3>1, <3>2, LenProperties
      <4>2. QED
        BY <1>2, <3>1, <3>2, <4>1
    <3>3. QED
      BY <3>1, <3>2
  <2> HIDE DEF S
  <2>3. S \in SUBSET Nat
    BY DEF S
  <2>4. QED
    BY <2>1, <2>2, <2>3, Induction
<1>4. Len(seqs) \in S /\ Len(seqs) <= Len(seqs)
  <2> HIDE DEF S
  <2>1. QED
    BY <1>3, LenProperties
<1>5. \E f : Solves(f, Len(seqs))
  BY <1>4
<1>6. QED
  BY <1>5 DEF Solves

\* FlattenSeq computes the last of them.
LEMMA FlattenedIsLast ==
  ASSUME NEW X, NEW seqs \in Seq(Seq(X)), NEW f \in [0 .. Len(seqs) -> Seq(X)],
         f[0] = <<>>, \A n \in 1 .. Len(seqs) : f[n] = f[n - 1] \o seqs[n]
  PROVE  FlattenSeq(seqs) = f[Len(seqs)]
<1> DEFINE Unfolds(g) == g = [i \in 1 .. Len(seqs) |->
                                IF i = 1 THEN seqs[i] ELSE g[i - 1] \o seqs[i]]
           flatten == CHOOSE g : Unfolds(g)
<1>1. Len(seqs) \in Nat /\ \A i \in 1 .. Len(seqs) : seqs[i] \in Seq(X)
  BY LenProperties, ElementOfSeq
<1>2. Len(seqs) # 0 => f[1] = seqs[1]
  <2>1. SUFFICES ASSUME Len(seqs) # 0
                 PROVE  f[1] = seqs[1]
    OBVIOUS
  <2>2. 1 \in 1 .. Len(seqs)
    BY <1>1, <2>1
  <2>3. f[1] = f[1 - 1] \o seqs[1]
    BY <2>2, Zenon
  <2>4. f[1 - 1] = <<>>
    OBVIOUS
  <2>5. <<>> \o seqs[1] = seqs[1]
    BY <1>1, <2>2, ConcatEmptySeq
  <2>6. QED
    BY <2>3, <2>4, <2>5, Zenon
<1>3. CASE Len(seqs) = 0
  <2>1. seqs = <<>>
    BY <1>3
  <2>2. FlattenSeq(seqs) = seqs
    BY <1>3, Zenon DEF FlattenSeq
  <2>3. QED
    BY <1>3, <2>1, <2>2
<1>4. CASE Len(seqs) # 0
  <2>1. FlattenSeq(seqs) = flatten[Len(seqs)]
    BY <1>4, Zenon DEF FlattenSeq
  <2>2. Unfolds([i \in 1 .. Len(seqs) |-> f[i]])
    <3> DEFINE g == [i \in 1 .. Len(seqs) |-> f[i]]
    <3>1. ASSUME NEW i \in 1 .. Len(seqs)
          PROVE  f[i] = IF i = 1 THEN seqs[i] ELSE g[i - 1] \o seqs[i]
      <4>1. i # 1 => i - 1 \in 1 .. Len(seqs)
        BY <1>1
      <4>2. i # 1 => g[i - 1] = f[i - 1]
        BY <4>1
      <4> HIDE DEF g
      <4>3. f[i] = f[i - 1] \o seqs[i]
        OBVIOUS
      <4>4. QED
        BY <1>2, <1>4, <4>2, <4>3
    <3>2. QED
      BY <3>1, Zenon
  <2>3. Unfolds(flatten)
    BY <2>2, Zenon
  <2> HIDE DEF flatten
  <2>4. \A n \in 1 .. Len(seqs) :
          flatten[n] = IF n = 1 THEN seqs[n] ELSE flatten[n - 1] \o seqs[n]
    BY <2>3
  <2> HIDE DEF Unfolds
  <2> DEFINE S == {n \in Nat : n \in 1 .. Len(seqs) => flatten[n] = f[n]}
  <2>5. S = Nat
    <3>1. 0 \in S
      OBVIOUS
    <3>2. ASSUME NEW n \in S
          PROVE  n + 1 \in S
      <4> SUFFICES ASSUME n + 1 \in 1 .. Len(seqs)
                   PROVE  flatten[n + 1] = f[n + 1]
        OBVIOUS
      <4>1. n \in Nat /\ (n + 1) - 1 = n
        OBVIOUS
      <4>2. f[n + 1] = f[n] \o seqs[n + 1]
        BY <4>1
      <4>3. flatten[n + 1] = IF n + 1 = 1 THEN seqs[n + 1]
                                          ELSE flatten[n] \o seqs[n + 1]
        BY <2>4, <4>1
      <4>4. n = 0 \/ n \in 1 .. Len(seqs)
        BY <1>1, <4>1
      <4>5. n # 0 => flatten[n] = f[n]
        BY <4>4
      <4>6. n = 0 => flatten[n + 1] = f[n + 1]
        BY <1>2, <1>4, <4>3
      <4>7. n # 0 => n + 1 # 1
        BY <4>1
      <4>8. QED
        BY <4>2, <4>3, <4>5, <4>6, <4>7
    <3> HIDE DEF S
    <3>3. S \in SUBSET Nat
      BY DEF S
    <3>4. QED
      BY <3>1, <3>2, <3>3, Induction
  <2>6. flatten[Len(seqs)] = f[Len(seqs)]
    <3>1. Len(seqs) \in S /\ Len(seqs) \in 1 .. Len(seqs)
      BY <1>1, <1>4, <2>5
    <3>2. QED
      BY <3>1
  <2>7. QED
    BY <2>1, <2>6
<1>5. QED
  BY <1>3, <1>4

\* Every place of the flattened sequence is that of an entry, and of one only.
LEMMA Flattened ==
  ASSUME NEW X, NEW seqs \in Seq(Seq(X))
  PROVE  /\ FlattenSeq(seqs) \in Seq(X)
         /\ \E row, col \in [1 .. Len(FlattenSeq(seqs)) -> Nat] :
              /\ \A p \in 1 .. Len(FlattenSeq(seqs)) :
                   /\ row[p] \in 1 .. Len(seqs) /\ col[p] \in 1 .. Len(seqs[row[p]])
                   /\ FlattenSeq(seqs)[p] = seqs[row[p]][col[p]]
              /\ \A p, q \in 1 .. Len(FlattenSeq(seqs)) :
                   row[p] = row[q] /\ col[p] = col[q] => p = q
<1> DEFINE Placed(s, n, row, col) ==
             /\ row \in [1 .. Len(s) -> Nat] /\ col \in [1 .. Len(s) -> Nat]
             /\ \A p \in 1 .. Len(s) :
                  /\ row[p] \in 1 .. n /\ col[p] \in 1 .. Len(seqs[row[p]])
                  /\ s[p] = seqs[row[p]][col[p]]
             /\ \A p, q \in 1 .. Len(s) :
                  row[p] = row[q] /\ col[p] = col[q] => p = q
<1>1. PICK f \in [0 .. Len(seqs) -> Seq(X)] :
        f[0] = <<>> /\ \A n \in 1 .. Len(seqs) : f[n] = f[n - 1] \o seqs[n]
  BY PrefixesExist
<1>2. Len(seqs) \in Nat /\ \A i \in 1 .. Len(seqs) : seqs[i] \in Seq(X)
  BY LenProperties, ElementOfSeq
<1>3. FlattenSeq(seqs) = f[Len(seqs)]
  BY <1>1, FlattenedIsLast
<1>4. \E row, col : Placed(f[0], 0, row, col)
  <2>1. Len(f[0]) = 0
    BY <1>1
  <2>2. \A p : p \notin 1 .. Len(f[0])
    BY <2>1
  <2> DEFINE none == [p \in 1 .. Len(f[0]) |-> 0]
  <2>3. none \in [1 .. Len(f[0]) -> Nat]
    OBVIOUS
  <2> HIDE DEF none
  <2>4. Placed(f[0], 0, none, none)
    BY <2>2, <2>3, Zenon
  <2>5. QED
    BY <2>4, Zenon
<1>5. ASSUME NEW n \in Nat, n + 1 <= Len(seqs), NEW row, NEW col, Placed(f[n], n, row, col)
      PROVE  \E r, c : Placed(f[n + 1], n + 1, r, c)
  <2> DEFINE old == f[n]
             new == seqs[n + 1]
             row2 == [p \in 1 .. Len(f[n + 1]) |-> IF p <= Len(old) THEN row[p] ELSE n + 1]
             col2 == [p \in 1 .. Len(f[n + 1]) |-> IF p <= Len(old) THEN col[p] ELSE p - Len(old)]
  <2>1. old \in Seq(X) /\ new \in Seq(X)
    <3>1. n \in 0 .. Len(seqs) /\ n + 1 \in 1 .. Len(seqs)
      BY <1>2, <1>5
    <3>2. QED
      BY <1>2, <3>1
  <2>2. f[n + 1] = old \o new
    <3>1. n + 1 \in 1 .. Len(seqs) /\ (n + 1) - 1 = n
      BY <1>2, <1>5
    <3>2. QED
      BY <1>1, <3>1
  <2>3. Len(old) \in Nat /\ Len(new) \in Nat
    BY <2>1, LenProperties
  <2> HIDE DEF old, new
  <2>4. /\ Len(f[n + 1]) = Len(old) + Len(new)
        /\ \A p \in 1 .. Len(old) + Len(new) :
             f[n + 1][p] = IF p <= Len(old) THEN old[p] ELSE new[p - Len(old)]
    BY <2>1, <2>2, ConcatProperties
  <2>5. Placed(old, n, row, col)
    BY <1>5 DEF old
  <2>6. ASSUME NEW p \in 1 .. Len(f[n + 1])
        PROVE  /\ row2[p] \in 1 .. n + 1 /\ col2[p] \in 1 .. Len(seqs[row2[p]])
               /\ f[n + 1][p] = seqs[row2[p]][col2[p]]
    <3>1. CASE p <= Len(old)
      <4>1. p \in 1 .. Len(old) /\ row2[p] = row[p] /\ col2[p] = col[p] /\ f[n + 1][p] = old[p]
        BY <2>3, <2>4, <3>1
      <4>2. row[p] \in 1 .. n /\ col[p] \in 1 .. Len(seqs[row[p]]) /\ old[p] = seqs[row[p]][col[p]]
        BY <2>5, <4>1
      <4>3. QED
        BY <4>1, <4>2
    <3>2. CASE ~(p <= Len(old))
      <4>1. row2[p] = n + 1 /\ col2[p] = p - Len(old) /\ f[n + 1][p] = new[p - Len(old)]
        BY <2>3, <2>4, <3>2
      <4>2. p - Len(old) \in 1 .. Len(new)
        BY <2>3, <2>4, <3>2
      <4>3. QED
        BY <4>1, <4>2 DEF new
    <3>3. QED
      BY <3>1, <3>2
  <2>7. row2 \in [1 .. Len(f[n + 1]) -> Nat] /\ col2 \in [1 .. Len(f[n + 1]) -> Nat]
    BY <2>3, <2>4, <2>5
  <2>8. ASSUME NEW p \in 1 .. Len(f[n + 1]), NEW q \in 1 .. Len(f[n + 1]),
               row2[p] = row2[q], col2[p] = col2[q]
        PROVE  p = q
    <3>1. \A r \in 1 .. Len(old) : row[r] \in 1 .. n
      BY <2>5
    <3>2. CASE p <= Len(old) /\ q <= Len(old)
      BY <2>3, <2>4, <2>5, <2>8, <3>2
    <3>3. CASE p <= Len(old) /\ ~(q <= Len(old))
      BY <2>3, <2>4, <2>8, <3>1, <3>3
    <3>4. CASE ~(p <= Len(old)) /\ q <= Len(old)
      BY <2>3, <2>4, <2>8, <3>1, <3>4
    <3>5. CASE ~(p <= Len(old)) /\ ~(q <= Len(old))
      BY <2>3, <2>4, <2>8, <3>5
    <3>6. QED
      BY <3>2, <3>3, <3>4, <3>5
  <2> HIDE DEF row2, col2
  <2>9. Placed(f[n + 1], n + 1, row2, col2)
    BY <2>6, <2>7, <2>8
  <2> HIDE DEF Placed
  <2>10. QED
    BY <2>9, Zenon
<1> DEFINE S == {n \in Nat : n <= Len(seqs) => \E row, col : Placed(f[n], n, row, col)}
<1> HIDE DEF Placed
<1>6. S = Nat
  <2>1. 0 \in S
    BY <1>4
  <2>2. ASSUME NEW n \in S
        PROVE  n + 1 \in S
    <3>1. n \in Nat /\ n + 1 \in Nat
      OBVIOUS
    <3>2. n <= Len(seqs) => \E row, col : Placed(f[n], n, row, col)
      OBVIOUS
    <3>3. ASSUME n + 1 <= Len(seqs)
          PROVE  \E row, col : Placed(f[n + 1], n + 1, row, col)
      <4>1. n <= Len(seqs)
        BY <1>2, <3>1, <3>3
      <4>2. QED
        BY <1>5, <3>1, <3>2, <3>3, <4>1
    <3>4. QED
      BY <3>1, <3>3
  <2> HIDE DEF S
  <2>3. S \in SUBSET Nat
    BY DEF S
  <2>4. QED
    BY <2>1, <2>2, <2>3, Induction
<1>7. Len(seqs) \in S /\ Len(seqs) <= Len(seqs)
  <2> HIDE DEF S
  <2>1. QED
    BY <1>2, <1>6
<1>8. PICK row, col : Placed(FlattenSeq(seqs), Len(seqs), row, col)
  BY <1>3, <1>7
<1>9. FlattenSeq(seqs) \in Seq(X)
  BY <1>1, <1>2, <1>3
<1>10. QED
  BY <1>8, <1>9 DEF Placed

\* No entry of the sequences is missing in the flattened one.
LEMMA FlattenedHoldsAll ==
  ASSUME NEW X, NEW seqs \in Seq(Seq(X)),
         NEW i \in 1 .. Len(seqs), NEW j \in 1 .. Len(seqs[i])
  PROVE  \E p \in 1 .. Len(FlattenSeq(seqs)) : FlattenSeq(seqs)[p] = seqs[i][j]
<1> DEFINE x == seqs[i][j]
           Holds(s) == \E p \in 1 .. Len(s) : s[p] = x
<1>1. PICK f \in [0 .. Len(seqs) -> Seq(X)] :
        f[0] = <<>> /\ \A n \in 1 .. Len(seqs) : f[n] = f[n - 1] \o seqs[n]
  BY PrefixesExist
<1>2. Len(seqs) \in Nat /\ \A n \in 1 .. Len(seqs) : seqs[n] \in Seq(X)
  BY LenProperties, ElementOfSeq
<1>3. FlattenSeq(seqs) = f[Len(seqs)]
  BY <1>1, <1>2, FlattenedIsLast
<1>4. Holds(seqs[i])
  OBVIOUS
<1> HIDE DEF x
<1>5. ASSUME NEW n \in 1 .. Len(seqs), Holds(f[n - 1]) \/ Holds(seqs[n])
      PROVE  Holds(f[n])
  <2> DEFINE old == f[n - 1]
             new == seqs[n]
  <2>1. old \in Seq(X) /\ new \in Seq(X) /\ f[n] = old \o new
    <3>1. n - 1 \in 0 .. Len(seqs)
      BY <1>2
    <3>2. QED
      BY <1>1, <1>2, <3>1
  <2>2. Holds(old) \/ Holds(new)
    BY <1>5
  <2> HIDE DEF old, new
  <2>3. /\ Len(old) \in Nat /\ Len(new) \in Nat
        /\ Len(f[n]) = Len(old) + Len(new)
        /\ \A p \in 1 .. Len(old) + Len(new) :
             f[n][p] = IF p <= Len(old) THEN old[p] ELSE new[p - Len(old)]
    BY <2>1, LenProperties, ConcatProperties
  <2>4. CASE Holds(old)
    <3>1. PICK p \in 1 .. Len(old) : old[p] = x
      BY <2>4
    <3>2. p \in 1 .. Len(f[n]) /\ p \in 1 .. Len(old) + Len(new) /\ p <= Len(old)
      BY <2>3
    <3>3. f[n][p] = x
      BY <2>3, <3>1, <3>2
    <3>4. QED
      BY <3>2, <3>3
  <2>5. CASE Holds(new)
    <3>1. PICK p \in 1 .. Len(new) : new[p] = x
      BY <2>5
    <3>2. /\ p + Len(old) \in 1 .. Len(f[n]) /\ ~(p + Len(old) <= Len(old))
          /\ (p + Len(old)) - Len(old) = p
      BY <2>3
    <3>3. f[n][p + Len(old)] = x
      BY <2>3, <3>1, <3>2
    <3>4. QED
      BY <3>2, <3>3
  <2>6. QED
    BY <2>2, <2>4, <2>5
<1> HIDE DEF Holds
<1> DEFINE S == {n \in Nat : i <= n /\ n <= Len(seqs) => Holds(f[n])}
<1>6. S = Nat
  <2>1. 0 \in S
    OBVIOUS
  <2>2. ASSUME NEW n \in S
        PROVE  n + 1 \in S
    <3>1. n \in Nat /\ n + 1 \in Nat /\ (i <= n /\ n <= Len(seqs) => Holds(f[n]))
      OBVIOUS
    <3>2. ASSUME i <= n + 1, n + 1 <= Len(seqs)
          PROVE  Holds(f[n + 1])
      <4>1. n + 1 \in 1 .. Len(seqs) /\ (n + 1) - 1 = n /\ n <= Len(seqs)
        BY <1>2, <3>1, <3>2
      <4>2. i <= n \/ i = n + 1
        BY <3>1, <3>2
      <4>3. QED
        BY <1>4, <1>5, <3>1, <4>1, <4>2
    <3>3. QED
      BY <3>1, <3>2
  <2> HIDE DEF S
  <2>3. S \in SUBSET Nat
    BY DEF S
  <2>4. QED
    BY <2>1, <2>2, <2>3, Induction
<1>7. Holds(f[Len(seqs)])
  <2>1. Len(seqs) \in S
    <3> HIDE DEF S
    <3>1. QED
      BY <1>2, <1>6
  <2>2. i <= Len(seqs)
    BY <1>2
  <2>3. QED
    BY <1>2, <2>1, <2>2
<1>8. QED
  BY <1>3, <1>7 DEF Holds, x

\* Pick keeps entries at places of their own, and only at those picked.
LEMMA Picked ==
  ASSUME NEW X, NEW s \in Seq(X), NEW places
  PROVE  /\ Pick(s, places) \in Seq(X)
         /\ \E at \in [1 .. Len(Pick(s, places)) -> places \cap (1 .. Len(s))] :
              /\ \A p \in 1 .. Len(Pick(s, places)) : Pick(s, places)[p] = s[at[p]]
              /\ \A p, q \in 1 .. Len(Pick(s, places)) : at[p] = at[q] => p = q
<1> DEFINE seqs == [i \in DOMAIN s |-> IF i \in places THEN <<s[i]>> ELSE <<>>]
<1>1. Len(s) \in Nat /\ DOMAIN s = 1 .. Len(s) /\ \A i \in 1 .. Len(s) : s[i] \in X
  BY LenProperties, ElementOfSeq
<1>2. \A i \in 1 .. Len(s) : seqs[i] \in Seq(X)
  BY <1>1
<1>3. seqs \in Seq(Seq(X)) /\ Len(seqs) = Len(s)
  BY <1>1, <1>2
<1>4. \A i \in 1 .. Len(s) : /\ Len(seqs[i]) = IF i \in places THEN 1 ELSE 0
                             /\ i \in places => seqs[i][1] = s[i]
  BY <1>1
<1>5. Pick(s, places) = FlattenSeq(seqs)
  BY Zenon DEF Pick
<1> HIDE DEF seqs
<1>6. PICK row, col \in [1 .. Len(FlattenSeq(seqs)) -> Nat] :
        /\ \A p \in 1 .. Len(FlattenSeq(seqs)) :
             /\ row[p] \in 1 .. Len(seqs) /\ col[p] \in 1 .. Len(seqs[row[p]])
             /\ FlattenSeq(seqs)[p] = seqs[row[p]][col[p]]
        /\ \A p, q \in 1 .. Len(FlattenSeq(seqs)) :
             row[p] = row[q] /\ col[p] = col[q] => p = q
  BY <1>3, Flattened
<1>7. \A p \in 1 .. Len(FlattenSeq(seqs)) :
        /\ row[p] \in places \cap (1 .. Len(s)) /\ col[p] = 1
        /\ FlattenSeq(seqs)[p] = s[row[p]]
  <2> SUFFICES ASSUME NEW p \in 1 .. Len(FlattenSeq(seqs))
               PROVE  /\ row[p] \in places \cap (1 .. Len(s)) /\ col[p] = 1
                      /\ FlattenSeq(seqs)[p] = s[row[p]]
    OBVIOUS
  <2>1. /\ row[p] \in 1 .. Len(s) /\ col[p] \in 1 .. Len(seqs[row[p]])
        /\ FlattenSeq(seqs)[p] = seqs[row[p]][col[p]]
    BY <1>3, <1>6
  <2>2. row[p] \in places /\ col[p] = 1
    BY <1>4, <2>1
  <2>3. QED
    BY <1>4, <2>1, <2>2
<1>8. /\ row \in [1 .. Len(FlattenSeq(seqs)) -> places \cap (1 .. Len(s))]
      /\ \A p, q \in 1 .. Len(FlattenSeq(seqs)) : row[p] = row[q] => p = q
  BY <1>6, <1>7
<1>9. Pick(s, places) \in Seq(X)
  BY <1>3, <1>5, Flattened
<1>10. \E at \in [1 .. Len(FlattenSeq(seqs)) -> places \cap (1 .. Len(s))] :
         /\ \A p \in 1 .. Len(FlattenSeq(seqs)) : FlattenSeq(seqs)[p] = s[at[p]]
         /\ \A p, q \in 1 .. Len(FlattenSeq(seqs)) : at[p] = at[q] => p = q
  <2>1. \A p \in 1 .. Len(FlattenSeq(seqs)) : FlattenSeq(seqs)[p] = s[row[p]]
    BY <1>7
  <2>2. QED
    BY <1>8, <2>1
<1>11. QED
  BY <1>5, <1>9, <1>10

\* Pick keeps every entry that is picked.
LEMMA PickedHoldsAll ==
  ASSUME NEW X, NEW s \in Seq(X), NEW places, NEW i \in places \cap DOMAIN s
  PROVE  \E p \in DOMAIN Pick(s, places) : Pick(s, places)[p] = s[i]
<1> DEFINE seqs == [k \in DOMAIN s |-> IF k \in places THEN <<s[k]>> ELSE <<>>]
<1>1. Len(s) \in Nat /\ DOMAIN s = 1 .. Len(s) /\ \A k \in 1 .. Len(s) : s[k] \in X
  BY LenProperties, ElementOfSeq
<1>2. seqs \in Seq(Seq(X)) /\ Len(seqs) = Len(s)
  <2>1. \A k \in 1 .. Len(s) : seqs[k] \in Seq(X)
    BY <1>1
  <2>2. QED
    BY <1>1, <2>1
<1>3. i \in 1 .. Len(s) /\ 1 \in 1 .. Len(seqs[i]) /\ seqs[i][1] = s[i]
  BY <1>1
<1>4. Pick(s, places) = FlattenSeq(seqs)
  BY Zenon DEF Pick
<1> HIDE DEF seqs
<1>5. \E p \in 1 .. Len(FlattenSeq(seqs)) : FlattenSeq(seqs)[p] = seqs[i][1]
  <2>1. i \in 1 .. Len(seqs) /\ 1 \in 1 .. Len(seqs[i])
    BY <1>2, <1>3
  <2>2. \A j \in 1 .. Len(seqs[i]) :
          \E p \in 1 .. Len(FlattenSeq(seqs)) : FlattenSeq(seqs)[p] = seqs[i][j]
    BY <1>2, <2>1, FlattenedHoldsAll
  <2>3. QED
    BY <2>1, <2>2
<1>6. DOMAIN FlattenSeq(seqs) = 1 .. Len(FlattenSeq(seqs))
  BY <1>2, Flattened, LenProperties
<1>7. QED
  BY <1>3, <1>4, <1>5, <1>6

-----------------------------------------------------------------------------
(***************************************************************************)
(* Who is named                                                            *)
(***************************************************************************)

\* Nobody is named at two places of a sequence of groups.
OnceEach(groups) ==
  \A i, j \in DOMAIN groups :
    \A k \in DOMAIN groups[i].turns, l \in DOMAIN groups[j].turns :
      groups[i].turns[k] = groups[j].turns[l] => i = j /\ k = l

\* The groups of a sequence, and their turns, have their types.
LEMMA GroupTyped ==
  ASSUME NEW groups \in Seq(MentionGroup), NEW i \in DOMAIN groups
  PROVE  /\ groups[i] \in MentionGroup /\ groups[i].turns \in Seq(Targets)
         /\ DOMAIN groups[i].turns = 1 .. Len(groups[i].turns)
<1>1. groups[i] \in MentionGroup
  BY ElementOfSeq, LenProperties
<1>2. groups[i].turns \in Seq(Targets)
  BY <1>1 DEF MentionGroup
<1>3. QED
  BY <1>1, <1>2, LenProperties

\* All turns of such a sequence are of different members.
LEMMA AllTurnsOnce ==
  ASSUME NEW groups \in Seq(MentionGroup)
  PROVE  /\ AllTurns(groups) \in Seq(Targets)
         /\ OnceEach(groups) =>
              \A p, q \in DOMAIN AllTurns(groups) :
                AllTurns(groups)[p] = AllTurns(groups)[q] => p = q
<1> DEFINE seqs == [i \in DOMAIN groups |-> groups[i].turns]
<1>1. Len(groups) \in Nat /\ DOMAIN groups = 1 .. Len(groups)
  BY LenProperties
<1>2. \A i \in 1 .. Len(groups) : groups[i].turns \in Seq(Targets)
  BY <1>1, GroupTyped
<1>3. /\ seqs \in Seq(Seq(Targets)) /\ Len(seqs) = Len(groups)
      /\ \A i \in 1 .. Len(groups) : seqs[i] = groups[i].turns
  BY <1>1, <1>2
<1>4. AllTurns(groups) = FlattenSeq(seqs)
  BY Zenon DEF AllTurns
<1> HIDE DEF seqs
<1>5. PICK row, col \in [1 .. Len(FlattenSeq(seqs)) -> Nat] :
        /\ \A p \in 1 .. Len(FlattenSeq(seqs)) :
             /\ row[p] \in 1 .. Len(seqs) /\ col[p] \in 1 .. Len(seqs[row[p]])
             /\ FlattenSeq(seqs)[p] = seqs[row[p]][col[p]]
        /\ \A p, q \in 1 .. Len(FlattenSeq(seqs)) :
             row[p] = row[q] /\ col[p] = col[q] => p = q
  BY <1>3, Flattened
<1>6. AllTurns(groups) \in Seq(Targets)
  BY <1>3, <1>4, Flattened
<1>7. ASSUME OnceEach(groups), NEW p \in DOMAIN AllTurns(groups),
             NEW q \in DOMAIN AllTurns(groups), AllTurns(groups)[p] = AllTurns(groups)[q]
      PROVE  p = q
  <2>1. p \in 1 .. Len(FlattenSeq(seqs)) /\ q \in 1 .. Len(FlattenSeq(seqs))
    BY <1>4, <1>6, LenProperties
  <2>2. ASSUME NEW r \in 1 .. Len(FlattenSeq(seqs))
        PROVE  /\ row[r] \in DOMAIN groups /\ col[r] \in DOMAIN groups[row[r]].turns
               /\ AllTurns(groups)[r] = groups[row[r]].turns[col[r]]
    <3>1. row[r] \in 1 .. Len(groups) /\ col[r] \in 1 .. Len(seqs[row[r]])
      BY <1>3, <1>5
    <3>2. FlattenSeq(seqs)[r] = seqs[row[r]][col[r]]
      BY <1>5
    <3>3. row[r] \in DOMAIN groups /\ seqs[row[r]] = groups[row[r]].turns
      BY <1>1, <1>3, <3>1
    <3>4. DOMAIN groups[row[r]].turns = 1 .. Len(groups[row[r]].turns)
      BY <3>3, GroupTyped
    <3>5. QED
      BY <1>4, <3>1, <3>2, <3>3, <3>4
  <2>3. groups[row[p]].turns[col[p]] = groups[row[q]].turns[col[q]]
    BY <1>7, <2>1, <2>2
  <2>4. row[p] = row[q] /\ col[p] = col[q]
    BY <1>7, <2>1, <2>2, <2>3 DEF OnceEach
  <2>5. QED
    BY <1>5, <2>1, <2>4
<1>8. QED
  BY <1>6, <1>7

\* A mention claims targets that are open, each of them once.
LEMMA Claimed ==
  ASSUME NEW targets \in Seq(Targets), NEW open \in SUBSET Targets
  PROVE  /\ Claim[open][targets] \in Seq(Targets)
         /\ \A p \in DOMAIN Claim[open][targets] :
              /\ Claim[open][targets][p] \in open
              /\ \E k \in DOMAIN targets : Claim[open][targets][p] = targets[k]
         /\ \A p, q \in DOMAIN Claim[open][targets] :
              Claim[open][targets][p] = Claim[open][targets][q] => p = q
<1> DEFINE places == {k \in DOMAIN targets :
                        /\ targets[k] \in open
                        /\ \A l \in 1 .. k - 1 : targets[l] # targets[k]}
           claim == Pick(targets, places)
<1>1. Claim[open][targets] = claim
  BY DEF Claim
<1>2. DOMAIN targets = 1 .. Len(targets) /\ Len(targets) \in Nat
  BY LenProperties
<1>3. \A k, l \in places : targets[k] = targets[l] => k = l
  BY <1>2
<1>4. \A k \in places : k \in DOMAIN targets /\ targets[k] \in open
  OBVIOUS
<1> HIDE DEF places
<1>5. claim \in Seq(Targets)
  BY Picked
<1>6. PICK at \in [1 .. Len(claim) -> places \cap (1 .. Len(targets))] :
        /\ \A p \in 1 .. Len(claim) : claim[p] = targets[at[p]]
        /\ \A p, q \in 1 .. Len(claim) : at[p] = at[q] => p = q
  BY Picked
<1> HIDE DEF claim
<1>7. DOMAIN claim = 1 .. Len(claim)
  BY <1>5, LenProperties
<1>8. \A p \in 1 .. Len(claim) : at[p] \in places /\ claim[p] = targets[at[p]]
  BY <1>6
<1>9. \A p \in 1 .. Len(claim) :
        claim[p] \in open /\ \E k \in DOMAIN targets : claim[p] = targets[k]
  BY <1>4, <1>8
<1>10. \A p, q \in 1 .. Len(claim) : claim[p] = claim[q] => p = q
  BY <1>3, <1>6, <1>8
<1>11. QED
  BY <1>1, <1>5, <1>7, <1>9, <1>10

\* A mention claims every open target.
LEMMA ClaimedHoldsAll ==
  ASSUME NEW targets \in Seq(Targets), NEW open \in SUBSET Targets
  PROVE  Range(Claim[open][targets]) = Range(targets) \cap open
<1> DEFINE places == {k \in DOMAIN targets :
                        /\ targets[k] \in open
                        /\ \A l \in 1 .. k - 1 : targets[l] # targets[k]}
<1>1. Claim[open][targets] = Pick(targets, places)
  BY DEF Claim
<1>2. DOMAIN targets = 1 .. Len(targets) /\ Len(targets) \in Nat
  BY LenProperties
<1>3. ASSUME NEW t \in open, NEW j \in DOMAIN targets, targets[j] = t
      PROVE  t \in Range(Claim[open][targets])
  <2> DEFINE named == {k \in DOMAIN targets : targets[k] = t}
  <2>1. named \in SUBSET Nat /\ named # {}
    BY <1>2, <1>3
  <2>2. PICK k \in named : \A l \in named : k <= l
    BY <2>1, Least
  <2>3. k \in DOMAIN targets /\ targets[k] = t
    OBVIOUS
  <2>4. ASSUME NEW l \in 1 .. k - 1
        PROVE  targets[l] # targets[k]
    BY <1>2, <2>2, <2>3
  <2>5. k \in places \cap DOMAIN targets
    BY <2>3, <2>4
  <2> HIDE DEF places
  <2>6. \E p \in DOMAIN Pick(targets, places) : Pick(targets, places)[p] = t
    BY <2>3, <2>5, PickedHoldsAll
  <2>7. QED
    BY <1>1, <2>6 DEF Range
<1>4. Range(Claim[open][targets]) \subseteq Range(targets) \cap open
  BY Claimed DEF Range
<1>5. Range(targets) \cap open \subseteq Range(Claim[open][targets])
  BY <1>3 DEF Range
<1>6. QED
  BY <1>4, <1>5

\* The groups of a route name open targets only, and nobody at two places.
LEMMA ClaimsOnce ==
  ASSUME NEW route \in Seq(MentionGroup), NEW open \in SUBSET Targets
  PROVE  /\ Claims[open][route] \in Seq(MentionGroup)
         /\ OnceEach(Claims[open][route])
         /\ Named(Claims[open][route]) \subseteq open
<1> DEFINE left(i) == open \ Named(SubSeq(route, 1, i - 1))
           turns(i) == Claim[left(i)][route[i].turns]
           places == {i \in DOMAIN route : turns(i) # <<>>}
           groups == [i \in DOMAIN route |-> [route[i] EXCEPT !.turns = turns(i)]]
           claims == Pick(groups, places)
<1>1. Claims[open][route] = claims
  BY DEF Claims
<1>2. DOMAIN route = 1 .. Len(route) /\ Len(route) \in Nat
  BY LenProperties
<1>3. ASSUME NEW i \in DOMAIN route
      PROVE  /\ turns(i) \in Seq(Targets)
             /\ \A k \in DOMAIN turns(i) :
                  turns(i)[k] \in left(i) /\ turns(i)[k] \in Range(route[i].turns)
             /\ \A k, l \in DOMAIN turns(i) : turns(i)[k] = turns(i)[l] => k = l
  <2>1. route[i].turns \in Seq(Targets)
    BY GroupTyped
  <2> DEFINE rest == left(i)
             named == route[i].turns
  <2>2. rest \in SUBSET Targets
    OBVIOUS
  <2>3. turns(i) = Claim[rest][named]
    OBVIOUS
  <2> HIDE DEF left, turns, rest
  <2>4. QED
    BY <2>1, <2>2, <2>3, Claimed DEF Range, rest
<1>4. ASSUME NEW i \in DOMAIN route, NEW j \in DOMAIN route, i < j
      PROVE  Range(route[i].turns) \cap left(j) = {}
  <2>1. /\ i \in 1 .. j - 1 /\ DOMAIN SubSeq(route, 1, j - 1) = 1 .. j - 1
        /\ SubSeq(route, 1, j - 1)[i] = route[i]
    BY <1>2, <1>4
  <2>2. Range(route[i].turns) \subseteq Named(SubSeq(route, 1, j - 1))
    BY <2>1 DEF Named
  <2>3. QED
    BY <2>2
<1>5. \A i \in DOMAIN route : left(i) \subseteq open
  OBVIOUS
<1> HIDE DEF left, turns
<1>6. ASSUME NEW i \in DOMAIN route
      PROVE  groups[i] \in MentionGroup /\ groups[i].turns = turns(i)
  <2>1. route[i] \in MentionGroup /\ turns(i) \in Seq(Targets)
    BY <1>3, GroupTyped
  <2>2. groups[i] = [route[i] EXCEPT !.turns = turns(i)]
    OBVIOUS
  <2> HIDE DEF groups
  <2>3. QED
    BY <2>1, <2>2 DEF MentionGroup
<1>7. groups \in Seq(MentionGroup) /\ Len(groups) = Len(route)
  <2>1. groups \in [1 .. Len(route) -> MentionGroup]
    BY <1>2, <1>6
  <2> HIDE DEF groups
  <2>2. QED
    BY <1>2, <2>1
<1> HIDE DEF groups, places
<1>8. claims \in Seq(MentionGroup)
  BY <1>7, Picked
<1>9. PICK at \in [1 .. Len(claims) -> places \cap (1 .. Len(groups))] :
        /\ \A p \in 1 .. Len(claims) : claims[p] = groups[at[p]]
        /\ \A p, q \in 1 .. Len(claims) : at[p] = at[q] => p = q
  BY <1>7, Picked
<1> HIDE DEF claims
<1>10. /\ DOMAIN claims = 1 .. Len(claims)
       /\ \A p \in DOMAIN claims : at[p] \in DOMAIN route /\ claims[p].turns = turns(at[p])
  BY <1>2, <1>6, <1>7, <1>8, <1>9, LenProperties
<1>11. OnceEach(claims)
  <2> SUFFICES ASSUME NEW p \in DOMAIN claims, NEW q \in DOMAIN claims,
                      NEW k \in DOMAIN claims[p].turns, NEW l \in DOMAIN claims[q].turns,
                      claims[p].turns[k] = claims[q].turns[l]
               PROVE  p = q /\ k = l
    BY DEF OnceEach
  <2> DEFINE i == at[p]
             j == at[q]
  <2>1. /\ i \in DOMAIN route /\ j \in DOMAIN route
        /\ k \in DOMAIN turns(i) /\ l \in DOMAIN turns(j) /\ turns(i)[k] = turns(j)[l]
    BY <1>10
  <2>2. i = j => p = q
    BY <1>9, <1>10
  <2> HIDE DEF i, j
  <2>3. ~(i < j) /\ ~(j < i)
    BY <1>3, <1>4, <2>1
  <2>4. i = j
    BY <1>2, <2>1, <2>3
  <2>5. QED
    BY <1>3, <2>1, <2>2, <2>4
<1>12. Named(claims) \subseteq open
  BY <1>3, <1>5, <1>10 DEF Named, Range
<1>13. QED
  BY <1>1, <1>8, <1>11, <1>12

\* The groups of a route name every open target of its mentions.
LEMMA ClaimsHoldAll ==
  ASSUME NEW route \in Seq(MentionGroup), NEW open \in SUBSET Targets
  PROVE  Named(Claims[open][route]) = Named(route) \cap open
<1> DEFINE left(i) == open \ Named(SubSeq(route, 1, i - 1))
           turns(i) == Claim[left(i)][route[i].turns]
           places == {i \in DOMAIN route : turns(i) # <<>>}
           groups == [i \in DOMAIN route |-> [route[i] EXCEPT !.turns = turns(i)]]
           claims == Pick(groups, places)
<1>1. Claims[open][route] = claims
  BY DEF Claims
<1>2. DOMAIN route = 1 .. Len(route) /\ Len(route) \in Nat
  BY LenProperties
<1>3. ASSUME NEW i \in DOMAIN route
      PROVE  turns(i) \in Seq(Targets) /\ Range(turns(i)) = Range(route[i].turns) \cap left(i)
  <2> DEFINE rest == left(i)
             named == route[i].turns
  <2>1. named \in Seq(Targets)
    BY GroupTyped
  <2>2. rest \in SUBSET Targets
    OBVIOUS
  <2>3. turns(i) = Claim[rest][named]
    OBVIOUS
  <2> HIDE DEF left, turns, rest, named
  <2>4. turns(i) \in Seq(Targets) /\ Range(turns(i)) = Range(named) \cap rest
    BY <2>1, <2>2, <2>3, Claimed, ClaimedHoldsAll
  <2>5. QED
    BY <2>4 DEF rest, named
<1>4. ASSUME NEW i \in DOMAIN route, NEW t \in open,
             \A j \in 1 .. i - 1 : t \notin Range(route[j].turns)
      PROVE  t \in left(i)
  <2>1. /\ DOMAIN SubSeq(route, 1, i - 1) = 1 .. i - 1
        /\ \A j \in 1 .. i - 1 : SubSeq(route, 1, i - 1)[j] = route[j]
    BY <1>2
  <2>2. t \notin Named(SubSeq(route, 1, i - 1))
    BY <1>4, <2>1 DEF Named
  <2>3. QED
    BY <2>2
<1> HIDE DEF left, turns
<1>5. ASSUME NEW i \in DOMAIN route
      PROVE  groups[i] \in MentionGroup /\ groups[i].turns = turns(i)
  <2>1. route[i] \in MentionGroup /\ turns(i) \in Seq(Targets)
    BY <1>3, GroupTyped
  <2>2. groups[i] = [route[i] EXCEPT !.turns = turns(i)]
    OBVIOUS
  <2> HIDE DEF groups
  <2>3. QED
    BY <2>1, <2>2 DEF MentionGroup
<1>6. groups \in Seq(MentionGroup) /\ DOMAIN groups = DOMAIN route
  <2>1. groups \in [1 .. Len(route) -> MentionGroup]
    BY <1>2, <1>5
  <2>2. DOMAIN groups = DOMAIN route
    OBVIOUS
  <2> HIDE DEF groups
  <2>3. QED
    BY <1>2, <2>1, <2>2
<1>7. \A i \in places : i \in DOMAIN route
  OBVIOUS
<1>8. \A i \in DOMAIN route : turns(i) # <<>> => i \in places
  OBVIOUS
<1> HIDE DEF groups, places
<1>9. ASSUME NEW t \in open, NEW j \in DOMAIN route, t \in Range(route[j].turns)
      PROVE  t \in Named(claims)
  <2> DEFINE naming == {i \in DOMAIN route : t \in Range(route[i].turns)}
  <2>1. naming \in SUBSET Nat /\ naming # {}
    BY <1>2, <1>9
  <2>2. PICK i \in naming : \A k \in naming : i <= k
    BY <2>1, Least
  <2>3. i \in DOMAIN route /\ t \in Range(route[i].turns)
    OBVIOUS
  <2>4. \A k \in 1 .. i - 1 : t \notin Range(route[k].turns)
    BY <1>2, <2>2, <2>3
  <2>5. t \in Range(turns(i)) /\ turns(i) \in Seq(Targets)
    BY <1>3, <1>4, <2>3, <2>4
  <2>6. turns(i) # <<>>
    BY <2>5 DEF Range
  <2>7. i \in places \cap DOMAIN groups
    BY <1>6, <1>8, <2>3, <2>6
  <2>8. PICK p \in DOMAIN claims : claims[p] = groups[i]
    BY <1>6, <2>7, PickedHoldsAll
  <2> HIDE DEF claims
  <2>9. claims[p].turns = turns(i)
    BY <1>5, <2>3, <2>8
  <2>10. QED
    BY <2>5, <2>9 DEF Named
<1>10. ASSUME NEW t \in Named(claims)
       PROVE  t \in Named(route)
  <2>1. PICK p \in DOMAIN claims : t \in Range(claims[p].turns)
    BY DEF Named
  <2>2. PICK at \in [1 .. Len(claims) -> places \cap (1 .. Len(groups))] :
          \A q \in 1 .. Len(claims) : claims[q] = groups[at[q]]
    BY <1>6, Picked
  <2>3. DOMAIN claims = 1 .. Len(claims)
    BY <1>6, Picked, LenProperties
  <2> HIDE DEF claims
  <2>4. at[p] \in DOMAIN route /\ claims[p] = groups[at[p]]
    BY <1>7, <2>2, <2>3
  <2>5. t \in Range(route[at[p]].turns)
    BY <1>3, <1>5, <2>1, <2>4
  <2>6. QED
    BY <2>4, <2>5 DEF Named
<1>11. Named(claims) \subseteq open
  BY <1>1, ClaimsOnce
<1>12. Named(route) \cap open \subseteq Named(claims)
  <2> HIDE DEF claims
  <2>1. QED
    BY <1>9 DEF Named
<1>13. QED
  BY <1>1, <1>10, <1>11, <1>12

\* A route resolves to groups that name exactly the targets of its mentions who
\* are enabled and not barred, and each of them once: in no two groups, and not
\* twice in one (resolveSpeakerGroups, freeGroupFromRoute).
THEOREM RouteNamesEachOnce ==
  ASSUME NEW route \in Seq(MentionGroup), NEW able \in SUBSET Members, NEW barred
  PROVE  /\ Resolve(route, able, barred) \in Seq(MentionGroup)
         /\ OnceEach(Resolve(route, able, barred))
         /\ Named(Resolve(route, able, barred)) =
              Named(route) \cap ((able \cup {User}) \ barred)
<1> DEFINE open == (able \cup {User}) \ barred
<1>1. open \in SUBSET Targets
  BY DEF Targets
<1>2. Resolve(route, able, barred) = Claims[open][route]
  BY DEF Resolve
<1> HIDE DEF open
<1>3. /\ Claims[open][route] \in Seq(MentionGroup) /\ OnceEach(Claims[open][route])
      /\ Named(Claims[open][route]) = Named(route) \cap open
  BY <1>1, ClaimsOnce, ClaimsHoldAll
<1>4. QED
  BY <1>2, <1>3 DEF open

\* ... hence nobody barred.
LEMMA ResolveOnce ==
  ASSUME NEW route \in Seq(MentionGroup), NEW able \in SUBSET Members, NEW barred
  PROVE  /\ Resolve(route, able, barred) \in Seq(MentionGroup)
         /\ OnceEach(Resolve(route, able, barred))
         /\ Named(Resolve(route, able, barred)) \cap barred = {}
<1> DEFINE groups == Resolve(route, able, barred)
<1>1. /\ groups \in Seq(MentionGroup) /\ OnceEach(groups)
      /\ Named(groups) = Named(route) \cap ((able \cup {User}) \ barred)
  BY RouteNamesEachOnce
<1> HIDE DEF groups
<1>2. Named(groups) \cap barred = {}
  BY <1>1
<1>3. QED
  BY <1>1, <1>2 DEF groups

\* Nobody has two turns of a group.
Distinct(turns) == \A k, l \in DOMAIN turns : turns[k] = turns[l] => k = l

\* A set of members is listed without a member listed twice.
LEMMA ListedOnce ==
  ASSUME NEW able \in SUBSET Members
  PROVE  SetToSeq(able) \in Seq(Targets) /\ Distinct(SetToSeq(able))
<1> DEFINE n == Cardinality(able)
           Lists(f) == f \in [1 .. n -> able] /\ IsInjective(f)
<1>1. IsFiniteSet(able)
  BY TimelineAssumption, FS_Subset
<1>2. n \in Nat /\ ExistsBijection(1 .. n, able)
  BY <1>1, FS_CardinalityType
<1>3. \E f : Lists(f)
  BY <1>2 DEF ExistsBijection, Bijection, Injection, IsInjective
<1>4. SetToSeq(able) = CHOOSE f \in [1 .. n -> able] : IsInjective(f)
  BY Zenon DEF SetToSeq
<1>5. Lists(SetToSeq(able))
  BY <1>3, <1>4, Zenon
<1> HIDE DEF n
<1>6. SetToSeq(able) \in [1 .. n -> Targets]
  BY <1>5 DEF Targets
<1>7. QED
  BY <1>2, <1>5, <1>6 DEF Distinct, IsInjective

\* A group by itself names nobody twice when none of its turns repeats.
LEMMA GroupIsOnce ==
  ASSUME NEW turns \in Seq(Targets), Distinct(turns), NEW parallel \in BOOLEAN
  PROVE  /\ <<[turns |-> turns, parallel |-> parallel]>> \in Seq(MentionGroup)
         /\ OnceEach(<<[turns |-> turns, parallel |-> parallel]>>)
<1> DEFINE g == [turns |-> turns, parallel |-> parallel]
<1>1. g \in MentionGroup /\ g.turns = turns
  BY DEF MentionGroup
<1> HIDE DEF g
<1>2. <<g>> \in Seq(MentionGroup) /\ DOMAIN <<g>> = {1} /\ <<g>>[1] = g
  BY <1>1
<1>3. OnceEach(<<g>>)
  BY <1>1, <1>2 DEF OnceEach, Distinct
<1>4. QED
  BY <1>2, <1>3 DEF g

\* The groups a user's message starts a free group with.
LEMMA InitialOnce ==
  ASSUME NEW said \in Speech, NEW able \in SUBSET Members, NEW together \in BOOLEAN
  PROVE  /\ FreeInitialGroups(said, able, together) \in Seq(MentionGroup)
         /\ OnceEach(FreeInitialGroups(said, able, together))
<1> DEFINE seeded == Resolve(said.route, able, {})
           all == <<[turns |-> SetToSeq(able), parallel |-> together]>>
           groups == IF seeded = <<>> THEN all ELSE seeded
<1>1. seeded \in Seq(MentionGroup) /\ OnceEach(seeded)
  <2>1. said.route \in Seq(MentionGroup)
    BY DEF Speech
  <2>2. QED
    BY <2>1, ResolveOnce
<1>2. all \in Seq(MentionGroup) /\ OnceEach(all)
  BY ListedOnce, GroupIsOnce
<1> DEFINE merged == <<[turns |-> AllTurns(groups), parallel |-> TRUE]>>
<1>3. FreeInitialGroups(said, able, together) = IF together THEN merged ELSE groups
  BY Zenon DEF FreeInitialGroups
<1> HIDE DEF seeded, all
<1>4. groups \in Seq(MentionGroup) /\ OnceEach(groups)
  BY <1>1, <1>2
<1> HIDE DEF groups
<1>5. AllTurns(groups) \in Seq(Targets) /\ Distinct(AllTurns(groups))
  BY <1>4, AllTurnsOnce DEF Distinct
<1>6. merged \in Seq(MentionGroup) /\ OnceEach(merged)
  BY <1>5, GroupIsOnce
<1> HIDE DEF merged
<1>7. QED
  BY <1>3, <1>4, <1>6

\* Two sequences of groups with nobody in common are one.
LEMMA JoinedOnce ==
  ASSUME NEW a \in Seq(MentionGroup), NEW b \in Seq(MentionGroup),
         OnceEach(a), OnceEach(b), Named(a) \cap Named(b) = {}
  PROVE  a \o b \in Seq(MentionGroup) /\ OnceEach(a \o b)
<1> DEFINE s == a \o b
<1>1. /\ Len(a) \in Nat /\ DOMAIN a = 1 .. Len(a)
      /\ Len(b) \in Nat /\ DOMAIN b = 1 .. Len(b)
  BY LenProperties
<1>2. s \in Seq(MentionGroup) /\ Len(s) = Len(a) + Len(b)
  BY ConcatProperties
<1>3. \A i \in 1 .. Len(a) + Len(b) : s[i] = IF i <= Len(a) THEN a[i] ELSE b[i - Len(a)]
  BY ConcatProperties
<1>4. DOMAIN s = 1 .. Len(a) + Len(b)
  BY <1>2, LenProperties
<1> HIDE DEF s
<1>5. \A i \in DOMAIN s : \/ i \in DOMAIN a /\ s[i] = a[i]
                          \/ /\ i - Len(a) \in DOMAIN b /\ s[i] = b[i - Len(a)]
                             /\ i \in Nat
  BY <1>1, <1>3, <1>4
<1>6. /\ \A i \in DOMAIN a : \A k \in DOMAIN a[i].turns : a[i].turns[k] \in Named(a)
      /\ \A i \in DOMAIN b : \A k \in DOMAIN b[i].turns : b[i].turns[k] \in Named(b)
  BY DEF Named, Range
<1>7. ASSUME NEW i \in DOMAIN s, NEW j \in DOMAIN s, NEW k \in DOMAIN s[i].turns,
             NEW l \in DOMAIN s[j].turns, s[i].turns[k] = s[j].turns[l]
      PROVE  i = j /\ k = l
  <2>1. CASE i \in DOMAIN a /\ s[i] = a[i] /\ j \in DOMAIN a /\ s[j] = a[j]
    BY <1>7, <2>1 DEF OnceEach
  <2>2. CASE /\ i - Len(a) \in DOMAIN b /\ s[i] = b[i - Len(a)]
             /\ j - Len(a) \in DOMAIN b /\ s[j] = b[j - Len(a)]
    <3>1. i - Len(a) = j - Len(a) /\ k = l
      BY <1>7, <2>2 DEF OnceEach
    <3>2. QED
      BY <1>1, <1>4, <3>1
  <2>3. CASE i \in DOMAIN a /\ s[i] = a[i] /\ j - Len(a) \in DOMAIN b /\ s[j] = b[j - Len(a)]
    BY <1>6, <1>7, <2>3
  <2>4. CASE j \in DOMAIN a /\ s[j] = a[j] /\ i - Len(a) \in DOMAIN b /\ s[i] = b[i - Len(a)]
    BY <1>6, <1>7, <2>4
  <2>5. QED
    BY <1>5, <2>1, <2>2, <2>3, <2>4
<1>8. OnceEach(s)
  BY <1>7 DEF OnceEach
<1>9. QED
  BY <1>2, <1>8 DEF s

\* Two sequences of groups name together whom either names.
LEMMA NamedInBoth ==
  ASSUME NEW a \in Seq(MentionGroup), NEW b \in Seq(MentionGroup)
  PROVE  Named(a \o b) = Named(a) \cup Named(b)
<1> DEFINE s == a \o b
<1>1. /\ Len(a) \in Nat /\ DOMAIN a = 1 .. Len(a)
      /\ Len(b) \in Nat /\ DOMAIN b = 1 .. Len(b)
  BY LenProperties
<1>2. /\ s \in Seq(MentionGroup) /\ Len(s) = Len(a) + Len(b)
      /\ \A i \in 1 .. Len(a) + Len(b) : s[i] = IF i <= Len(a) THEN a[i] ELSE b[i - Len(a)]
  BY ConcatProperties
<1>3. DOMAIN s = 1 .. Len(a) + Len(b)
  BY <1>2, LenProperties
<1> HIDE DEF s
<1>4. \A i \in DOMAIN s : \/ i \in DOMAIN a /\ s[i] = a[i]
                          \/ i - Len(a) \in DOMAIN b /\ s[i] = b[i - Len(a)]
  BY <1>1, <1>2, <1>3
<1>5. /\ \A i \in DOMAIN a : i \in DOMAIN s /\ s[i] = a[i]
      /\ \A i \in DOMAIN b : i + Len(a) \in DOMAIN s /\ s[i + Len(a)] = b[i]
  BY <1>1, <1>2, <1>3
<1>6. Named(s) \subseteq Named(a) \cup Named(b)
  BY <1>4 DEF Named
<1>7. Named(a) \subseteq Named(s) /\ Named(b) \subseteq Named(s)
  BY <1>5 DEF Named
<1>8. QED
  BY <1>6, <1>7 DEF s

-----------------------------------------------------------------------------
(***************************************************************************)
(* The queue                                                               *)
(***************************************************************************)

\* The groups are well formed.
QueueTypeOK ==
  /\ queue \in Seq(MentionGroup) /\ group \in MentionGroup /\ appended \in Seq(MentionGroup)

\* Nobody is at two places of the queue, of the group being run or of what the
\* relay added, nor in two of them.
QueueInv ==
  /\ QueueTypeOK
  /\ OnceEach(queue)
  /\ pc \in {"seq", "seqTurn"} =>
       /\ Distinct(group.turns) /\ OnceEach(appended)
       /\ Range(group.turns) \cap Named(queue) = {}
       /\ Range(group.turns) \cap Named(appended) = {}
       /\ Named(queue) \cap Named(appended) = {}

\* No group, nobody named.
LEMMA EmptyOnce == <<>> \in Seq(MentionGroup) /\ OnceEach(<<>>) /\ Named(<<>>) = {}
  BY DEF OnceEach, Named

\* The group before the first one.
LEMMA NoGroupTyped == NoGroup \in MentionGroup
  BY DEF NoGroup, MentionGroup

\* The head of the queue is run, with nothing added yet.
LEMMA NextGroupQueue == ASSUME QueueInv, NextGroup PROVE QueueInv'
<1>1. /\ queue \in Seq(MentionGroup) /\ queue # <<>> /\ OnceEach(queue)
      /\ group' = Head(queue) /\ queue' = Tail(queue) /\ appended' = <<>>
  BY DEF QueueInv, QueueTypeOK, NextGroup
<1>2. /\ Len(queue) \in Nat /\ Len(queue) # 0 /\ DOMAIN queue = 1 .. Len(queue)
  BY <1>1, LenProperties, EmptySeq
<1>3. /\ Tail(queue) \in Seq(MentionGroup) /\ Len(Tail(queue)) = Len(queue) - 1
      /\ \A i \in 1 .. Len(Tail(queue)) : Tail(queue)[i] = queue[i + 1]
  BY <1>1, HeadTailProperties
<1>4. Head(queue) = queue[1] /\ 1 \in DOMAIN queue
  BY <1>1, <1>2
<1>5. DOMAIN Tail(queue) = 1 .. Len(Tail(queue))
  BY <1>3, LenProperties
<1>6. \A i \in DOMAIN Tail(queue) : /\ i \in Nat /\ i + 1 \in DOMAIN queue /\ i + 1 # 1
                                    /\ Tail(queue)[i] = queue[i + 1]
  BY <1>2, <1>3, <1>5
<1>7. OnceEach(queue')
  BY <1>1, <1>6 DEF OnceEach
<1>8. Distinct(group'.turns)
  BY <1>1, <1>4 DEF OnceEach, Distinct
<1>9. Range(group'.turns) \cap Named(queue') = {}
  BY <1>1, <1>4, <1>6 DEF OnceEach, Range, Named
<1>10. QueueTypeOK'
  BY <1>1, <1>3, <1>4, EmptyOnce, GroupTyped DEF QueueTypeOK
<1>11. QED
  BY <1>1, <1>7, <1>8, <1>9, <1>10, EmptyOnce DEF QueueInv

\* The head of the group has its turn.
LEMMA SeqMarkQueue == ASSUME QueueInv, SeqMark PROVE QueueInv'
<1> DEFINE t == group.turns
<1>1. /\ pc = "seq" /\ t # <<>> /\ group' = [group EXCEPT !.turns = Tail(t)]
      /\ UNCHANGED <<queue, appended>>
  BY DEF SeqMark
<1>2. t \in Seq(Targets) /\ group \in MentionGroup
  BY DEF QueueInv, QueueTypeOK, MentionGroup
<1>3. group' \in MentionGroup /\ group'.turns = Tail(t)
  BY <1>1, <1>2, HeadTailProperties DEF MentionGroup
<1>4. Distinct(t) /\ Range(t) \cap Named(queue) = {} /\ Range(t) \cap Named(appended) = {}
  BY <1>1 DEF QueueInv
<1> HIDE DEF t
<1>5. /\ Tail(t) \in Seq(Targets) /\ Len(Tail(t)) = Len(t) - 1
      /\ \A i \in 1 .. Len(Tail(t)) : Tail(t)[i] = t[i + 1]
  BY <1>1, <1>2, HeadTailProperties
<1>6. /\ DOMAIN t = 1 .. Len(t) /\ Len(t) \in Nat
      /\ DOMAIN Tail(t) = 1 .. Len(Tail(t))
  BY <1>2, <1>5, LenProperties
<1>7. \A i \in DOMAIN Tail(t) : i \in Nat /\ i + 1 \in DOMAIN t /\ Tail(t)[i] = t[i + 1]
  BY <1>5, <1>6
<1>8. Distinct(Tail(t))
  BY <1>4, <1>7 DEF Distinct
<1>9. Range(Tail(t)) \subseteq Range(t)
  BY <1>7 DEF Range
<1>10. QED
  BY <1>1, <1>3, <1>4, <1>8, <1>9 DEF QueueInv, QueueTypeOK

\* The relay adds whoever waits nowhere.
LEMMA SeqOverQueue ==
  ASSUME CoreInv, QueueInv, NEW m \in Members, SeqOver(m) PROVE QueueInv'
<1> DEFINE new == Relay(queue, appended, m, Range(group.turns))
<1>1. pc = "seqTurn" /\ UNCHANGED <<queue, group>> /\ pc' \in {"seq", "drained"}
  BY DEF SeqOver, Drained, Goto
<1>2. appended' = appended \/ appended' = appended \o new
  BY DEF SeqOver
<1>3. /\ QueueTypeOK /\ OnceEach(queue) /\ Distinct(group.turns) /\ OnceEach(appended)
      /\ Range(group.turns) \cap Named(queue) = {}
      /\ Range(group.turns) \cap Named(appended) = {}
      /\ Named(queue) \cap Named(appended) = {}
  BY <1>1 DEF QueueInv
<1>4. /\ new \in Seq(MentionGroup) /\ OnceEach(new)
      /\ Named(new) \cap ({m} \cup Named(queue) \cup Named(appended) \cup Range(group.turns)) = {}
  <2> DEFINE barred == {m} \cup Named(queue) \cup Named(appended) \cup Range(group.turns)
             route == turn[m].said.route
  <2>1. route \in Seq(MentionGroup) /\ roster \in SUBSET Members
    BY DEF CoreInv, CoreTypeOK, TurnRecord, Speech
  <2>2. new = Resolve(route, roster, barred)
    BY DEF Relay
  <2> HIDE DEF barred, route, new
  <2>3. new \in Seq(MentionGroup) /\ OnceEach(new) /\ Named(new) \cap barred = {}
    BY <2>1, <2>2, ResolveOnce
  <2>4. QED
    BY <2>3 DEF barred
<1> HIDE DEF new
<1>5. CASE appended' = appended
  BY <1>1, <1>3, <1>5 DEF QueueInv, QueueTypeOK
<1>6. CASE appended' = appended \o new
  <2>1. appended' \in Seq(MentionGroup) /\ OnceEach(appended')
    BY <1>3, <1>4, <1>6, JoinedOnce DEF QueueTypeOK
  <2>2. Named(appended') = Named(appended) \cup Named(new)
    BY <1>3, <1>4, <1>6, NamedInBoth DEF QueueTypeOK
  <2>3. QED
    BY <1>1, <1>3, <1>4, <2>1, <2>2 DEF QueueInv, QueueTypeOK
<1>7. QED
  BY <1>2, <1>5, <1>6

\* What the relay added goes behind what was queued.
LEMMA SeqEndsQueue == ASSUME QueueInv, SeqEnds PROVE QueueInv'
<1>1. /\ pc = "seq" /\ pc' = "top" /\ queue' = queue \o appended
      /\ UNCHANGED <<group, appended>>
  BY DEF SeqEnds, Goto
<1>2. queue' \in Seq(MentionGroup) /\ OnceEach(queue')
  BY <1>1, JoinedOnce DEF QueueInv, QueueTypeOK
<1>3. QED
  BY <1>1, <1>2 DEF QueueInv, QueueTypeOK

\* What the speakers of a parallel group named is new to the queue.
LEMMA ParEndsQueue == ASSUME CoreInv, QueueInv, ParEnds PROVE QueueInv'
<1> DEFINE named(m) == IF m \in Clean THEN turn[m].said.route ELSE <<>>
           seqs == [i \in DOMAIN group.turns |-> named(group.turns[i])]
           route == FlattenSeq(seqs)
           barred == Named(queue) \cup Range(group.turns)
           new == Resolve(route, roster, barred)
<1>1. /\ pc' = "top" /\ queue' = queue \o ParRelay /\ UNCHANGED <<group, appended>>
  BY DEF ParEnds, Goto
<1>2. \A m \in Members : turn[m].said.route \in Seq(MentionGroup)
  BY DEF CoreInv, CoreTypeOK, TurnRecord, Speech
<1>3. \A m : named(m) \in Seq(MentionGroup)
  BY <1>2, EmptyOnce DEF Clean
<1>4. group.turns \in Seq(Targets)
  BY DEF QueueInv, QueueTypeOK, MentionGroup
<1>5. DOMAIN group.turns = 1 .. Len(group.turns) /\ Len(group.turns) \in Nat
  BY <1>4, LenProperties
<1>6. ParRelay = IF Free THEN new ELSE <<>>
  BY Zenon DEF ParRelay
<1> HIDE DEF named
<1>7. seqs \in Seq(Seq(MentionGroup))
  BY <1>3, <1>5
<1> HIDE DEF seqs
<1>8. route \in Seq(MentionGroup)
  BY <1>7, Flattened
<1> HIDE DEF route
<1>9. roster \in SUBSET Members
  BY DEF CoreInv, CoreTypeOK
<1> HIDE DEF barred
<1>10. new \in Seq(MentionGroup) /\ OnceEach(new) /\ Named(new) \cap barred = {}
  BY <1>8, <1>9, ResolveOnce
<1> HIDE DEF new
<1>11. /\ ParRelay \in Seq(MentionGroup) /\ OnceEach(ParRelay)
       /\ Named(queue) \cap Named(ParRelay) = {}
  BY <1>6, <1>10, EmptyOnce DEF barred
<1>12. queue' \in Seq(MentionGroup) /\ OnceEach(queue')
  BY <1>1, <1>11, JoinedOnce DEF QueueInv, QueueTypeOK
<1>13. QED
  BY <1>1, <1>12 DEF QueueInv, QueueTypeOK

\* A group that is not run from leaves only the queue to look at.
LEMMA RequeuedQueue ==
  ASSUME QueueInv, queue' \in Seq(MentionGroup), OnceEach(queue'),
         UNCHANGED <<group, appended>>, pc' \notin {"seq", "seqTurn"}
  PROVE  QueueInv'
  BY DEF QueueInv, QueueTypeOK

\* Nothing of it changes, and no group is started.
LEMMA SameQueue ==
  ASSUME QueueInv, UNCHANGED <<queue, group, appended>>,
         pc' \in {"seq", "seqTurn"} => pc \in {"seq", "seqTurn"}
  PROVE  QueueInv'
  BY DEF QueueInv, QueueTypeOK

\* A turn's end, or a crash, leaves no group.
LEMMA FreshQueue == ASSUME Fresh, pc' = "rest" PROVE QueueInv'
  BY EmptyOnce, NoGroupTyped DEF Fresh, QueueInv, QueueTypeOK

\* A free group's turn starts with the groups of the message.
LEMMA BeginQueue ==
  ASSUME QueueInv, NEW said \in Messages, NEW able \in Rosters, NEW together \in BOOLEAN,
         Begin(said, able, together)
  PROVE  QueueInv'
<1>1. /\ queue' = IF Free THEN FreeInitialGroups(said, able, together) ELSE <<>>
      /\ pc' = "top" /\ UNCHANGED <<group, appended>>
  BY DEF Begin, Goto
<1>2. said \in Speech /\ able \in SUBSET Members
  BY GroupAssumption
<1>3. queue' \in Seq(MentionGroup) /\ OnceEach(queue')
  BY <1>1, <1>2, InitialOnce, EmptyOnce
<1>4. QED
  BY <1>1, <1>3, RequeuedQueue

\* The member that stands in for the host is alone in the queue.
LEMMA FallbackQueue ==
  ASSUME CoreInv, QueueInv, Fallback, UNCHANGED <<group, appended>> PROVE QueueInv'
<1>1. PICK m \in roster \ {host} : queue' = <<[turns |-> <<m>>, parallel |-> FALSE]>> /\ pc' = "top"
  BY DEF Fallback, Goto
<1>2. m \in Targets
  BY DEF CoreInv, CoreTypeOK, Targets
<1>3. <<m>> \in Seq(Targets) /\ Distinct(<<m>>)
  BY <1>2 DEF Distinct
<1>4. queue' \in Seq(MentionGroup) /\ OnceEach(queue')
  BY <1>1, <1>3, GroupIsOnce
<1>5. QED
  BY <1>1, <1>4, RequeuedQueue

\* The host's route, or its stand-in, fills an empty queue.
LEMMA HostQueue ==
  ASSUME CoreInv, QueueInv, HostFailed \/ HostRoutes PROVE QueueInv'
<1> DEFINE groups == Resolve(turn[host].said.route, roster, {host})
<1>1. /\ UNCHANGED <<group, appended>>
      /\ \/ Fallback
         \/ UNCHANGED queue /\ pc' \in {"drained", "summarize"}
         \/ HostRoutes /\ queue' = groups /\ pc' = "top"
  BY DEF HostFailed, HostRoutes, GiveUp, NoFallback, Drained, Goto
<1>2. CASE HostRoutes /\ queue' = groups /\ pc' = "top"
  <2>1. host \in Members
    BY <1>2 DEF HostRoutes, HostOver, CoreInv, CoreTypeOK, HostInv
  <2>2. turn[host].said.route \in Seq(MentionGroup) /\ roster \in SUBSET Members
    BY <2>1 DEF CoreInv, CoreTypeOK, TurnRecord, Speech
  <2>3. queue' \in Seq(MentionGroup) /\ OnceEach(queue')
    BY <1>2, <2>2, ResolveOnce
  <2>4. QED
    BY <1>1, <1>2, <2>3, RequeuedQueue
<1>3. QED
  BY <1>1, <1>2, FallbackQueue, SameQueue

\* The budget cuts a group short, and never lets in more than is left of it.
LEMMA BudgetedTyped ==
  ASSUME QueueInv, speeches \in 0 .. MaxSpeeches
  PROVE  Budgeted \in Seq(Targets) /\ speeches + Len(Budgeted) \in 0 .. MaxSpeeches
<1>1. group.turns \in Seq(Targets)
  BY DEF QueueInv, QueueTypeOK, MentionGroup
<1>2. Speakers \in Seq(Targets)
  BY <1>1, Picked DEF Speakers
<1>3. MaxSpeeches \in Nat /\ MaxSpeeches - speeches \in Nat
  BY GroupAssumption
<1>4. Len(Speakers) \in Nat
  BY <1>2, LenProperties
<1>5. CASE MaxSpeeches - speeches >= Len(Speakers)
  BY <1>2, <1>3, <1>4, <1>5 DEF Budgeted
<1>6. CASE ~(MaxSpeeches - speeches >= Len(Speakers))
  <2> DEFINE left == MaxSpeeches - speeches
  <2>1. Budgeted = SubSeq(Speakers, 1, left) /\ left <= Len(Speakers) /\ left \in Nat
    BY <1>3, <1>4, <1>6 DEF Budgeted
  <2> HIDE DEF left
  <2>2. SubSeq(Speakers, 1, left) \in Seq(Targets) /\ Len(SubSeq(Speakers, 1, left)) = left
    BY <1>2, <1>4, <2>1, SubSeqProperties
  <2>3. QED
    BY <1>3, <2>1, <2>2 DEF left
<1>7. QED
  BY <1>5, <1>6

\* A parallel group is cut to its budget.
LEMMA ParMarkQueue ==
  ASSUME QueueInv, speeches \in 0 .. MaxSpeeches, ParMark PROVE QueueInv'
<1>1. /\ group' = [group EXCEPT !.turns = Budgeted] /\ pc' = "snap"
      /\ UNCHANGED <<queue, appended>>
  BY DEF ParMark, Goto
<1>2. group' \in MentionGroup
  BY <1>1, BudgetedTyped DEF QueueInv, QueueTypeOK, MentionGroup
<1>3. QED
  BY <1>1, <1>2 DEF QueueInv, QueueTypeOK

\* Every step of the orchestrator keeps the queue's invariant.
LEMMA KernelQueue ==
  ASSUME CoreInv, QueueInv, speeches \in 0 .. MaxSpeeches, KernelStep PROVE QueueInv'
<1>1. CASE SeeStop \/ RelayEnds \/ SeqStop \/ SeqUser \/ SeqCap \/ ParUserOnly \/ ParCap
  <2>1. UNCHANGED round /\ pc' = "drained"
    BY <1>1 DEF SeeStop, RelayEnds, SeqStop, SeqUser, SeqCap, ParUserOnly, ParCap,
                Drained, Goto, round
  <2>2. QED
    BY <2>1, SameQueue DEF round
<1>2. CASE HostCap \/ KernelEnds \/ HostMark \/ SummaryMark
  <2>1. UNCHANGED round /\ pc' \notin {"seq", "seqTurn"}
    BY <1>2 DEF HostCap, KernelEnds, HostMark, SummaryMark, Drained, Goto, round
  <2>2. QED
    BY <2>1, SameQueue DEF round
<1>3. CASE \/ LaunchStop \/ LaunchBatch \/ LaunchEnds \/ AllPrepared \/ AwaitBatch
           \/ ParAsked \/ ParDropped \/ ParHandsBack
  <2>1. UNCHANGED round /\ pc' \notin {"seq", "seqTurn"}
    BY <1>3 DEF LaunchStop, LaunchBatch, LaunchEnds, AllPrepared, AwaitBatch, ParAsked,
                ParDropped, ParHandsBack, Drained, Goto, round
  <2>2. QED
    BY <2>1, SameQueue DEF round
<1>4. CASE HostCancelled \/ HostAsks \/ HostEnds \/ SummaryOver
  <2>1. UNCHANGED round /\ pc' \notin {"seq", "seqTurn"}
    BY <1>4 DEF HostCancelled, HostAsks, HostEnds, SummaryOver, Drained, Goto, round
  <2>2. QED
    BY <2>1, SameQueue DEF round
<1>5. CASE \E announced \in BOOLEAN : Close(announced)
  BY <1>5, FreshQueue DEF Close, Goto
<1>6. CASE \E m \in Members : SeqOver(m)
  BY <1>6, SeqOverQueue
<1>7. QED
  BY <1>1, <1>2, <1>3, <1>4, <1>5, <1>6, NextGroupQueue, SeqMarkQueue, SeqEndsQueue,
     ParMarkQueue, ParEndsQueue, HostQueue DEF KernelStep

\* Every step does: members and requests leave the queue alone.
LEMMA NextQueue ==
  ASSUME CoreInv, QueueInv, speeches \in 0 .. MaxSpeeches, [Next]_vars PROVE QueueInv'
<1>1. CASE \E m \in Members : MemberStep(m)
  <2>1. UNCHANGED <<round, pc>>
    BY <1>1 DEF MemberStep, Snapshot, Speak, SpeaksCleanly, BreaksOff, Advance, Consume
  <2>2. QED
    BY <2>1, SameQueue DEF round
<1>2. CASE HttpRow \/ Cancel \/ UNCHANGED vars
  <2>1. UNCHANGED <<round, pc>>
    BY <1>2 DEF HttpRow, Cancel, vars
  <2>2. QED
    BY <2>1, SameQueue DEF round
<1>3. CASE Crash
  BY <1>3, FreshQueue DEF Crash, Goto
<1>4. QED
  BY <1>1, <1>2, <1>3, BeginQueue, KernelQueue DEF Next

\* The invariant is what the run checks: the waiting turns are of different members.
LEMMA WaitingOnce == ASSUME QueueInv PROVE NoOneWaitsTwice
<1>1. Waiting \in Seq(MentionGroup) /\ OnceEach(Waiting)
  <2>1. CASE pc \notin {"seq", "seqTurn"}
    BY <2>1 DEF Waiting, QueueInv, QueueTypeOK
  <2>2. CASE pc \in {"seq", "seqTurn"}
    <3> DEFINE front == <<group>> \o queue
    <3>1. /\ queue \in Seq(MentionGroup) /\ OnceEach(queue) /\ group \in MentionGroup
          /\ appended \in Seq(MentionGroup) /\ OnceEach(appended)
          /\ Distinct(group.turns)
          /\ Range(group.turns) \cap Named(queue) = {}
          /\ Range(group.turns) \cap Named(appended) = {}
          /\ Named(queue) \cap Named(appended) = {}
      BY <2>2 DEF QueueInv, QueueTypeOK
    <3>2. /\ <<group>> \in Seq(MentionGroup) /\ OnceEach(<<group>>)
          /\ Named(<<group>>) = Range(group.turns)
      <4>1. DOMAIN <<group>> = {1} /\ <<group>>[1] = group
        OBVIOUS
      <4>2. OnceEach(<<group>>)
        BY <3>1, <4>1 DEF OnceEach, Distinct
      <4>3. Named(<<group>>) = Range(group.turns)
        BY <4>1 DEF Named
      <4>4. QED
        BY <3>1, <4>2, <4>3
    <3>3. front \in Seq(MentionGroup) /\ OnceEach(front)
      BY <3>1, <3>2, JoinedOnce
    <3>4. Named(front) = Range(group.turns) \cup Named(queue)
      BY <3>1, <3>2, NamedInBoth
    <3>5. Waiting = front \o appended
      BY <2>2 DEF Waiting
    <3> HIDE DEF front
    <3>6. Named(front) \cap Named(appended) = {}
      BY <3>1, <3>4
    <3>7. QED
      BY <3>1, <3>3, <3>5, <3>6, JoinedOnce
  <2>3. QED
    BY <2>1, <2>2
<1>2. \A p, q \in DOMAIN AllTurns(Waiting) :
        AllTurns(Waiting)[p] = AllTurns(Waiting)[q] => p = q
  BY <1>1, AllTurnsOnce
<1>3. QED
  BY <1>2 DEF NoOneWaitsTwice

-----------------------------------------------------------------------------
(***************************************************************************)
(* The flags and the counters                                              *)
(***************************************************************************)

\* The flags are truth values, and the counters numbers.
FlagTypeOK ==
  /\ stopped \in BOOLEAN /\ capReached \in BOOLEAN
  /\ dropped \in BOOLEAN /\ handBack \in BOOLEAN

CountTypeOK ==
  /\ host \in Hosts
  /\ hostFailures \in Nat /\ parseFailures \in Nat /\ events \in Nat
  /\ res \in {"clean", "cancel", "error"}

\* What most steps leave alone.
flags == <<stopped, capReached, dropped, handBack>>

\* The orchestrator's steps set the flags to truth values.
LEMMA KernelFlags == ASSUME FlagTypeOK, KernelStep PROVE FlagTypeOK'
<1>1. CASE SeeStop \/ RelayEnds \/ SeqStop \/ SeqUser \/ SeqMark \/ SeqEnds \/ ParUserOnly
           \/ AllPrepared \/ LaunchStop \/ LaunchBatch \/ LaunchEnds \/ AwaitBatch
  <2>1. UNCHANGED flags
    BY <1>1 DEF SeeStop, RelayEnds, SeqStop, SeqUser, SeqMark, SeqEnds, ParUserOnly,
                AllPrepared, LaunchStop, LaunchBatch, LaunchEnds, AwaitBatch,
                flags, round, tally
  <2>2. QED
    BY <2>1 DEF flags, FlagTypeOK
<1>2. CASE ParAsked \/ ParHandsBack \/ ParEnds \/ HostMark \/ HostCancelled \/ HostFailed
           \/ HostAsks \/ HostEnds \/ HostRoutes \/ KernelEnds \/ SummaryMark \/ SummaryOver
  <2>1. UNCHANGED flags
    BY <1>2 DEF ParAsked, ParHandsBack, ParEnds, HostMark, HostCancelled, HostFailed,
                HostAsks, HostEnds, HostRoutes, KernelEnds, SummaryMark, SummaryOver,
                flags, round, tally
  <2>2. QED
    BY <2>1 DEF flags, FlagTypeOK
<1>3. CASE \E m \in Members : SeqOver(m)
  <2>1. UNCHANGED flags
    BY <1>3 DEF SeqOver, flags, tally
  <2>2. QED
    BY <2>1 DEF flags, FlagTypeOK
<1>4. CASE SeqCap \/ ParCap \/ HostCap \/ ParDropped
  <2>1. UNCHANGED <<stopped, dropped, handBack>> /\ capReached' = TRUE
    BY <1>4 DEF SeqCap, ParCap, HostCap, ParDropped, LatchCap, round
  <2>2. QED
    BY <2>1 DEF FlagTypeOK
<1>5. CASE NextGroup
  <2>1. UNCHANGED <<stopped, capReached>> /\ dropped' = FALSE /\ handBack' = FALSE
    BY <1>5 DEF NextGroup, tally
  <2>2. QED
    BY <2>1 DEF FlagTypeOK
<1>6. CASE ParMark
  <2>1. UNCHANGED <<stopped, capReached>>
    BY <1>6 DEF ParMark
  <2>2. dropped' \in BOOLEAN
    <3>1. dropped' = (Budgeted # Speakers)
      BY <1>6 DEF ParMark
    <3>2. CASE Budgeted # Speakers
      BY <3>1, <3>2
    <3>3. CASE Budgeted = Speakers
      BY <3>1, <3>3
    <3>4. QED
      BY <3>2, <3>3
  <2>3. handBack' \in BOOLEAN
    <3>1. handBack' = (User \in Range(group.turns))
      BY <1>6 DEF ParMark
    <3>2. CASE User \in Range(group.turns)
      BY <3>1, <3>2
    <3>3. CASE User \notin Range(group.turns)
      BY <3>1, <3>3
    <3>4. QED
      BY <3>2, <3>3
  <2>4. QED
    BY <2>1, <2>2, <2>3 DEF FlagTypeOK
<1>7. CASE \E announced \in BOOLEAN : Close(announced)
  <2>1. Fresh
    BY <1>7 DEF Close
  <2>2. QED
    BY <2>1 DEF Fresh, FlagTypeOK
<1>8. QED
  BY <1>1, <1>2, <1>3, <1>4, <1>5, <1>6, <1>7 DEF KernelStep

\* So does every step.
LEMMA NextFlags == ASSUME FlagTypeOK, [Next]_vars PROVE FlagTypeOK'
<1>1. CASE \E m \in Members : MemberStep(m)
  <2>1. UNCHANGED flags
    BY <1>1 DEF MemberStep, Snapshot, Speak, SpeaksCleanly, BreaksOff, Advance, Consume,
                flags, round, tally
  <2>2. QED
    BY <2>1 DEF flags, FlagTypeOK
<1>2. CASE \/ \E said \in Messages, able \in Rosters, together \in BOOLEAN :
                Begin(said, able, together)
           \/ HttpRow \/ UNCHANGED vars
  <2>1. UNCHANGED flags
    BY <1>2 DEF Begin, HttpRow, vars, flags, round, tally
  <2>2. QED
    BY <2>1 DEF flags, FlagTypeOK
<1>3. CASE Cancel
  BY <1>3 DEF Cancel, FlagTypeOK, round, tally
<1>4. CASE Crash
  BY <1>4 DEF Crash, Fresh, FlagTypeOK
<1>5. QED
  BY <1>1, <1>2, <1>3, <1>4, KernelFlags DEF Next

\* What a step of the orchestrator does to the counters and to the result.
Counted ==
  /\ UNCHANGED <<host, events>>
  /\ hostFailures' \in {0, hostFailures, hostFailures + 1}
  /\ parseFailures' \in {0, parseFailures, parseFailures + 1}
  /\ res' \in {res, "clean", "cancel", "error"}

\* Only a mark counts a speech, and only a new turn forgets them.
LEMMA KernelCounted ==
  ASSUME KernelStep
  PROVE  /\ Counted
         /\ \/ SeqMark \/ ParMark \/ speeches' = speeches
            \/ \E announced \in BOOLEAN : Close(announced)
<1>1. CASE SeeStop \/ RelayEnds \/ NextGroup \/ SeqStop \/ SeqUser \/ SeqCap \/ SeqMark
           \/ SeqEnds \/ ParUserOnly \/ ParCap \/ ParMark \/ AllPrepared
           \/ LaunchStop \/ LaunchBatch \/ LaunchEnds \/ AwaitBatch
  BY <1>1 DEF SeeStop, RelayEnds, NextGroup, SeqStop, SeqUser, SeqCap, SeqMark, SeqEnds,
              ParUserOnly, ParCap, ParMark, AllPrepared, LaunchStop, LaunchBatch,
              LaunchEnds, AwaitBatch, Drained, cast, tally, Counted
<1>2. CASE ParAsked \/ ParDropped \/ ParHandsBack \/ ParEnds \/ HostCap \/ HostMark
           \/ HostCancelled \/ HostFailed \/ HostAsks \/ HostEnds \/ HostRoutes
           \/ KernelEnds \/ SummaryMark \/ SummaryOver
  BY <1>2 DEF ParAsked, ParDropped, ParHandsBack, ParEnds, HostCap, HostMark,
              HostCancelled, HostFailed, HostAsks, HostEnds, HostRoutes, KernelEnds,
              SummaryMark, SummaryOver, Drained, GiveUp, Fallback, NoFallback, cast, tally,
              Counted
<1>3. CASE (\E m \in Members : SeqOver(m)) \/ \E announced \in BOOLEAN : Close(announced)
  BY <1>3 DEF SeqOver, Close, Fresh, Drained, cast, tally, Counted
<1>4. QED
  BY <1>1, <1>2, <1>3 DEF KernelStep

\* The counters stay numbers.
LEMMA NextCounts == ASSUME CountTypeOK, [Next]_vars PROVE CountTypeOK'
<1>1. CASE \E m \in Members : MemberStep(m)
  <2>1. UNCHANGED <<cast, tally, res, events>>
    BY <1>1 DEF MemberStep, Snapshot, Speak, SpeaksCleanly, BreaksOff, Advance, Consume
  <2>2. QED
    BY <2>1 DEF cast, tally, CountTypeOK
<1>2. CASE \/ \E said \in Messages, able \in Rosters, together \in BOOLEAN :
                Begin(said, able, together)
           \/ UNCHANGED vars
  <2>1. UNCHANGED <<host, tally, res, events>>
    BY <1>2 DEF Begin, vars, cast
  <2>2. QED
    BY <2>1 DEF tally, CountTypeOK
<1>3. CASE HttpRow \/ Cancel
  <2>1. UNCHANGED <<cast, tally, res>> /\ events' = events + 1
    BY <1>3 DEF HttpRow, Cancel, Event
  <2>2. QED
    BY <2>1 DEF cast, tally, CountTypeOK
<1>4. CASE Crash
  BY <1>4 DEF Crash, Fresh, Event, cast, CountTypeOK
<1>5. CASE KernelStep
  BY <1>5, KernelCounted DEF Counted, CountTypeOK
<1>6. QED
  BY <1>1, <1>2, <1>3, <1>4, <1>5 DEF Next

\* Nobody is marked past the cap, and a parallel group is cut to what is left.
LEMMA NextSpeeches ==
  ASSUME QueueInv, speeches \in 0 .. MaxSpeeches, [Next]_vars
  PROVE  speeches' \in 0 .. MaxSpeeches
<1>1. CASE SeqMark
  BY <1>1, GroupAssumption DEF SeqMark, AtCap
<1>2. CASE ParMark
  BY <1>2, BudgetedTyped DEF ParMark
<1>3. CASE (\E announced \in BOOLEAN : Close(announced)) \/ Crash
  BY <1>3, GroupAssumption DEF Close, Crash, Fresh
<1>4. CASE KernelStep
  BY <1>1, <1>2, <1>3, <1>4, KernelCounted
<1>5. CASE \E m \in Members : MemberStep(m)
  BY <1>5 DEF MemberStep, Snapshot, Speak, SpeaksCleanly, BreaksOff, Advance, Consume, tally
<1>6. CASE \/ \E said \in Messages, able \in Rosters, together \in BOOLEAN :
                Begin(said, able, together)
           \/ HttpRow \/ Cancel \/ UNCHANGED vars
  BY <1>6 DEF Begin, HttpRow, Cancel, vars, tally
<1>7. QED
  BY <1>1, <1>2, <1>3, <1>4, <1>5, <1>6 DEF Next

-----------------------------------------------------------------------------
(***************************************************************************)
(* The theorems                                                            *)
(***************************************************************************)

\* The inductive invariant of the whole state.
GroupInv ==
  /\ CoreInv /\ MailTypeOK /\ QueueInv /\ FlagTypeOK /\ CountTypeOK
  /\ speeches \in 0 .. MaxSpeeches

\* It holds of a group nothing was said in.
LEMMA InitGroup == ASSUME Init PROVE GroupInv
<1>1. CoreInv
  BY InitCore
<1>2. MailTypeOK
  BY FS_EmptySet DEF Init, StoreInit, MailTypeOK
<1>3. QueueInv
  BY EmptyOnce, NoGroupTyped DEF Init, QueueInv, QueueTypeOK
<1>4. FlagTypeOK /\ CountTypeOK
  BY DEF Init, FlagTypeOK, CountTypeOK
<1>5. speeches \in 0 .. MaxSpeeches
  BY GroupAssumption DEF Init
<1>6. QED
  BY <1>1, <1>2, <1>3, <1>4, <1>5 DEF GroupInv

\* It holds throughout.
LEMMA AlwaysGroup == Spec => []GroupInv
<1>1. GroupInv /\ [Next]_vars => GroupInv'
  BY NextKeeps, NextMail, NotesKept, NextQueue, NextFlags, NextCounts, NextSpeeches
     DEF GroupInv
<1>2. QED
  BY <1>1, InitGroup, PTL DEF Spec

\* No row of the timeline is lost on a member: its cursor passes a row only
\* when it wrote the row itself or a prompt that ended cleanly held it, for
\* any members, speeches, failures, cancels and crashes.
THEOREM NoRowIsSkipped == Spec => NothingSkipped
<1>1. GroupInv /\ [Next]_vars =>
        [\A m \in Members :
           cursor'[m] # cursor[m] =>
             \A i \in cursor[m] + 1 .. cursor'[m] :
               timeline[i].by = m \/ i \in turn[m].rows]_vars
  BY CursorMoves, CursorPasses DEF GroupInv
<1>2. QED
  BY <1>1, AlwaysGroup, PTL DEF Spec, NothingSkipped

\* A private note leaves a member's queue only when a turn that was shown it
\* ended cleanly, or when the queue was full.
THEOREM NoNoteIsLost == Spec => NotesAreKept
<1>1. GroupInv /\ [Next]_vars =>
        [\A n \in notes \ notes' :
           \/ n.to = User
           \/ turn[n.to].phase = "advanced" /\ n \in turn[n.to].notes
           \/ Cardinality(PendingFor(n.to)) >= MaxPending]_vars
  BY NextMail, NotesKept DEF GroupInv
<1>2. QED
  BY <1>1, AlwaysGroup, PTL DEF Spec, NotesAreKept

\* The prompts of a parallel group hold no speech of the group's own round,
\* however many batches it is launched in.
THEOREM SiblingsStayUnseen == Spec => []SiblingsAreUnseen
<1>1. GroupInv => SiblingsAreUnseen
  BY DEF GroupInv, CoreInv
<1>2. QED
  BY <1>1, AlwaysGroup, PTL

\* Nobody waits for two turns at once: not in the queue, not in the group being
\* run, not among what its speeches added, whatever the members name, at any
\* size of the group and for any user's message.
THEOREM NobodyIsQueuedTwice == Spec => []NoOneWaitsTwice
<1>1. GroupInv => NoOneWaitsTwice
  BY WaitingOnce DEF GroupInv
<1>2. QED
  BY <1>1, AlwaysGroup, PTL

\* The whole state keeps its types; among them, the members of a turn never
\* speak more often than the cap of the settings, parallel groups included.
THEOREM TypeCorrect == Spec => []TypeOK
<1>1. GroupInv => TypeOK
  BY DEF GroupInv, TypeOK, StoreTypeOK, CoreInv, CoreTypeOK, MailTypeOK, QueueInv,
         QueueTypeOK, FlagTypeOK, CountTypeOK
<1>2. QED
  BY <1>1, AlwaysGroup, PTL
=============================================================================
