---------------------------- MODULE GroupTimeline ----------------------------
(***************************************************************************)
(* What a group chat keeps in SQLite (internal/service/group_store.go and  *)
(* group_inject.go): the shared timeline, how far each member has been     *)
(* shown it, and the private notes waiting for a member's next turn.       *)
(*                                                                         *)
(* A row is its author and whether its reply is still being written; its   *)
(* id is its place.  SQLite serialises the writers, so ids grow in commit  *)
(* order.                                                                  *)
(***************************************************************************)
EXTENDS Integers, FiniteSets, Sequences

CONSTANTS
  Members,     \* the member rows of the group, the host's included
  User,        \* the reserved target that is the human
  Nobody,      \* the author of a row no member wrote, the target of no note
  MaxPending   \* maxPendingBccPerTarget

ASSUME TimelineAssumption ==
  /\ User \notin Members /\ Nobody \notin Members /\ User # Nobody
  /\ IsFiniteSet(Members)
  /\ MaxPending \in Nat \ {0}

VARIABLES
  timeline,  \* chat_history of the group: sequence of [by, streaming]
  cursor,    \* seen_cursor of each member
  notes,     \* group_pending_bcc: set of [id, to]
  lastNote   \* the last id group_pending_bcc gave out

mail == <<notes, lastNote>>
store == <<timeline, cursor, mail>>

Row == [by : Members \cup {Nobody}, streaming : BOOLEAN]
Note == [id : Nat \ {0}, to : Members \cup {User}]

StoreTypeOK ==
  /\ timeline \in Seq(Row)
  /\ cursor \in [Members -> Nat]
  /\ notes \subseteq Note
  /\ lastNote \in Nat

StoreInit ==
  /\ timeline = <<>>
  /\ cursor = [m \in Members |-> 0]
  /\ notes = {}
  /\ lastNote = 0

----------------------------------------------------------------------------
(* GroupTimelineHighWater: the largest id, rows still streaming included. *)
HighWater == Len(timeline)

(* groupInjectionTextWithRoster: the finished rows past the member's own   *)
(* cursor that somebody else wrote.                                        *)
Unseen(m) ==
  {i \in cursor[m] + 1 .. Len(timeline) :
     ~timeline[i].streaming /\ timeline[i].by # m}

(* pendingBccForTarget *)
PendingFor(to) == {n \in notes : n.to = to}

FinishedRow(by) == [by |-> by, streaming |-> FALSE]
StreamingRow(by) == [by |-> by, streaming |-> TRUE]

(* finalizeGroupOrphans: closes every row an earlier run left streaming. *)
Finalized(rows) == [i \in DOMAIN rows |-> FinishedRow(rows[i].by)]

(* The speech m was writing is finished. *)
FinishSpeech(m) ==
  timeline' = [i \in DOMAIN timeline |->
                 IF timeline[i].by = m THEN FinishedRow(m) ELSE timeline[i]]

\* A bug: the cursor is advanced to the end of the timeline.
SetCursorToNow(m, high) == cursor' = [cursor EXCEPT ![m] = HighWater]

(* advanceCursorOnSuccess, SetMemberCursor *)
SetCursor(m, high) == cursor' = [cursor EXCEPT ![m] = high]

----------------------------------------------------------------------------
(* addPendingBcc: a full queue drops its oldest notes first, in the same   *)
(* transaction.                                                            *)
Evicted(kept, to) ==
  LET mine == {n \in kept : n.to = to}
      later(n) == {o \in mine : o.id > n.id}
  IN  {n \in mine : Cardinality(later(n)) + 1 >= MaxPending}

(* A speech carries at most one note here; no target, no note. *)
AddNote(kept, to) ==
  IF to = Nobody
    THEN notes' = kept /\ UNCHANGED lastNote
    ELSE /\ lastNote' = lastNote + 1
         /\ notes' = (kept \ Evicted(kept, to))
                       \cup {[id |-> lastNote + 1, to |-> to]}

(* handUserBack: the user reads notes in the card, never in a prompt. *)
ClearUserNotes == notes' = notes \ PendingFor(User) /\ UNCHANGED lastNote
=============================================================================
