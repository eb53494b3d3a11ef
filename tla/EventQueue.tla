----------------------------- MODULE EventQueue -----------------------------
(***************************************************************************)
(* ForgeTaskTrigger's queue of one task                                    *)
(* (internal/service/forge_task_trigger.go): a forge event that arrives    *)
(* while the task runs waits here, and one drain goroutine fires the       *)
(* events one at a time.  Events are numbered in the order in which        *)
(* HandleChange lets them through (the kill-switch, the debounce and the   *)
(* self-authorship filter come before that).                               *)
(***************************************************************************)
EXTENDS Integers, Sequences

CONSTANTS
  MaxEvents,         \* events of one history
  MaxQueue,          \* maxQueue
  MaxFireAttempts    \* maxFireAttempts

ASSUME QueueAssumption ==
  MaxEvents \in Nat /\ MaxQueue \in Nat \ {0} /\ MaxFireAttempts \in Nat \ {0}

VARIABLES
  accepted,    \* the number of events queued so far
  queue,       \* t.queues[taskID]
  drain,       \* the drain goroutine: pc, the event in hand, its busy attempts
  fired,       \* history: the events whose execution began, in that order
  dropped      \* history: the events given up: overflow, busy, task gone, crash

queueVars == <<accepted, queue, drain, fired, dropped>>

NoDrain == [pc |-> "idle", event |-> 0, attempts |-> 0]

QueueTypeOK ==
  /\ accepted \in Nat
  /\ queue \in Seq(Nat) /\ fired \in Seq(Nat) /\ dropped \subseteq Nat
  /\ drain \in [pc : {"idle", "fire", "claiming", "executing", "next"},
                event : Nat, attempts : Nat]

QueueInit ==
  /\ accepted = 0
  /\ queue = <<>> /\ drain = NoDrain
  /\ fired = <<>> /\ dropped = {}

\* t.running[taskID]: a drain goroutine is alive.
Draining == drain.pc # "idle"

\* enqueueAndDrain, a drain goroutine exists: append; the oldest make room.
Enqueue ==
  /\ accepted < MaxEvents /\ Draining
  /\ accepted' = accepted + 1
  /\ LET q == Append(queue, accepted + 1)
         over == IF Len(q) > MaxQueue THEN Len(q) - MaxQueue ELSE 0
     IN /\ queue' = SubSeq(q, over + 1, Len(q))
        /\ dropped' = dropped \cup {q[i] : i \in 1..over}
  /\ UNCHANGED <<drain, fired>>

\* enqueueAndDrain, none exists: start one with the event in hand.
StartDrain ==
  /\ accepted < MaxEvents /\ ~Draining
  /\ accepted' = accepted + 1
  /\ drain' = [pc |-> "fire", event |-> accepted + 1, attempts |-> 0]
  /\ UNCHANGED <<queue, fired, dropped>>

\* fire finds no such task: there is nothing to retry.
FireNothing ==
  /\ drain.pc = "fire"
  /\ drain' = [drain EXCEPT !.pc = "next"]
  /\ dropped' = dropped \cup {drain.event}
  /\ UNCHANGED <<accepted, queue, fired>>

\* fire: triggerTaskWithContext has read the task.
FireRead ==
  /\ drain.pc = "fire"
  /\ drain' = [drain EXCEPT !.pc = "claiming"]
  /\ UNCHANGED <<accepted, queue, fired, dropped>>

\* ... has the claim, and runs the execution before it returns.
FireBegins ==
  /\ drain.pc = "claiming"
  /\ drain' = [drain EXCEPT !.pc = "executing"]
  /\ fired' = Append(fired, drain.event)
  /\ UNCHANGED <<accepted, queue, dropped>>

\* ... returned true.
FireReturns ==
  /\ drain.pc = "executing"
  /\ drain' = [drain EXCEPT !.pc = "next"]
  /\ UNCHANGED <<accepted, queue, fired, dropped>>

\* A bug: a busy task sends its event to the end of the queue.
BusyToTheEnd ==
  /\ drain.pc = "claiming"
  /\ drain' = [drain EXCEPT !.pc = "next"]
  /\ queue' = Append(queue, drain.event)
  /\ UNCHANGED <<accepted, fired, dropped>>

\* A bug: a busy task loses its event.
BusyForgets ==
  /\ drain.pc = "claiming"
  /\ drain' = [drain EXCEPT !.pc = "next"]
  /\ UNCHANGED <<accepted, queue, fired, dropped>>

\* ... returned false: back off and retry the same event, or give it up after
\* the last attempt.
FireBusy ==
  /\ drain.pc = "claiming"
  /\ IF drain.attempts + 1 >= MaxFireAttempts
     THEN /\ drain' = [drain EXCEPT !.pc = "next"]
          /\ dropped' = dropped \cup {drain.event}
     ELSE /\ drain' = [drain EXCEPT !.pc = "fire", !.attempts = @ + 1]
          /\ UNCHANGED dropped
  /\ UNCHANGED <<accepted, queue, fired>>

\* Under t.mu: take the next event, or end the goroutine with the queue empty.
DrainNext ==
  /\ drain.pc = "next"
  /\ IF queue = <<>>
     THEN drain' = NoDrain /\ UNCHANGED queue
     ELSE /\ drain' = [pc |-> "fire", event |-> Head(queue), attempts |-> 0]
          /\ queue' = Tail(queue)
  /\ UNCHANGED <<accepted, fired, dropped>>

\* The process dies with what it had in memory.
QueueLost ==
  /\ queue' = <<>> /\ drain' = NoDrain
  /\ dropped' = dropped \cup {queue[i] : i \in DOMAIN queue}
       \cup (IF drain.pc \in {"fire", "claiming"} THEN {drain.event} ELSE {})
  /\ UNCHANGED <<accepted, fired>>
=============================================================================
