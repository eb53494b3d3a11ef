# ClawBench: a verification project for sessions, delivery, tasks, groups and agents

ClawBench is a server that runs AI coding agents for its users. A user sends
messages to a *session*; the server runs one agent turn per message, queues what
arrives while a turn runs, and lets the user cancel, interrupt, merge, edit or
insert queued messages from several devices at once. Around that core, events
of a session go to the user's devices over WebSockets that come and go, tasks
start sessions by themselves, a group chat lets several agents answer one
message, and a pool keeps the connections to the agents' programs. This
directory holds TLA+ modules that model the five, TLC configurations that check
them on small instances, and TLAPS proofs of their most important invariants. Paths are relative to the repository.

## Inventory

| Component | State | Operations | Interacts through | Hard parts |
|---|---|---|---|---|
| Message queue store `internal/service/queue_store.go` | tables `queued_messages`, `chat_history` | add, claim and materialize (by age, id, queue id), requeue, clear, cancel, merge | SQL transactions under one write mutex | competing claims, crash between claim and use |
| Runner registry `session_runner.go` | `registry[sessionID]`: context, wake mark, current turn | submit, wake, retire, remove, take, finish | `registryMu`; keyed by session id only | entry replaced under an older owner |
| Drain loop `drain.go` and turn `run_turn.go` | locals of one goroutine per run | turn, resume hooks, terminal handling, dequeue, retire, cleanup | registry, store, reason slot | exit against late work, retries, panic |
| Message entry `session_command.go`, `handler/chat.go` | locals of a request | insert, claim, launch, release | registry, store | claim without launch, launch after cancel |
| Queue reaper `queue_reaper.go` | ticker | scan, `EnsureConsumer` | registry, store | races with senders, shutdown |
| Cancel, interrupt, shutdown `session_runtime.go`, `handler/queue.go` | reason slot, push guard, `shuttingDown` | cancel, interrupt one turn, sweep all | all of the above | steps outside the lock, single slot per session |
| Mid-turn injection `midturn.go` | the claimed row | claim, ask the backend, requeue | store, the running turn | declined after the claim, requeue fails |
| Auto-continue, cruise `auto_continue.go`, `cruise.go` | attempt counters | resume hooks | drain loop | stale decision after a delay |
| Stream executor `session_executor.go`, `stream_coalescer.go` | blocks, split state, flush timer | consume events, split at an insertion, finalize | store, stream hub | order of split, flush and end |
| Event delivery `internal/ws/manager.go`, `stream_hub.go`, `events.go`, `service/pending_events.go` | per client: current socket, send queue, replay buffer, telemetry demand; per session: subscribers; stored events | connect and replace, replay, read, subscribe, emit, write, disconnect, clean up | channels, locks of the manager, the subscription and the hub | the old handler's teardown beside the new one, slow clients, gaps |
| Group chat `group_orchestrator.go`, `group_store.go` | queue, timeline, a cursor and private notes per member | relay of mentions in order or in parallel, host rounds, summary | executions of its members, the group's queue and cancel | failing members and hosts, late rows, relays of relays |
| Scheduler `scheduler.go`, `task_script.go`, `handler/scheduler.go` | task row, execution rows, running flag, cron entry, cancellable executions | trigger, script, turn, resume, settle, advance; pause, resume, edit, delete, stop | registry (`adoptRunner`), cron library | stop against every phase, edits during a run, crash |
| Triggers `forge_task_trigger.go`, `mail_task_trigger.go` | queue of events per task, one drain goroutine | enqueue, fire, retry, drop | scheduler | busy task, order, full queue |
| ACP pool `internal/ai/acp_pool.go`, `acp_conn_lifecycle.go`, `acp_conn_prompt.go`, `acp_backend.go` | per session a connection: process, session id, alive flag, prompt's cancel | acquire, spawn, recover or create a session, prompt and retry, kill, idle sweep, close, rewind | agent processes, `external_session_id`, the turn's executor | kills give the mutex up, processes that hang or keep a pipe open, sessions that are retired |
| Restart resume `restart_resume.go` | interrupted sessions found by `InitDB` | record when the process starts, resume each once after a delay | queue, registry | resume twice, resume against a new message |

The rest (terminal, tunnel, live share, upgrade, forge and mail
synchronisation, RAG, speech, file and git endpoints, the clients) is listed in
`PROJECT.json` with the reason it is not modelled: pure I/O, generated code, or
independent of the session core.

What makes the core correct: a message is given to the agent at most once; it
leaves the queue only to be answered, withdrawn or put back; a session that is
reported as running can be cancelled and will stop being so; a stop reaches the
run or the turn it was aimed at and no other; whatever is queued eventually runs.

## Modules

| Module | Models | Correspondence |
|---|---|---|
| `QueueStore` | the two tables | one action per transaction; a row's `parts` are the messages it holds, because merge folds rows; `created` is `created_at` |
| `RunnerRegistry` | `registry[sessionID]` of one session, and which contexts are cancelled | one action per critical section of `registryMu` |
| `SessionState` | the state all actors share; claim, launch and release of a run | `epc`/`exec`: pc and locals per execution goroutine; `hpc`/`hloc`: per sender and for the reaper; `cancelling`, `interrupting`, `injecting`, `stopping`: requests in progress; `reason`, `pushDone`: the slots keyed by session |
| `DrainLoop` | `runTurn`, `RunDrainLoop`, deferred cleanup, panic | one action per step between two shared accesses |
| `MessageEntry` | `EnqueueAndMaybeStart`, `AIChat`, `WakeSessionRunner`, `EnsureConsumer`, the reaper's pass | claim, then insert or take, then launch or release, as separate steps |
| `TurnControl` | `CancelSession`, `QueueInterruptHandler`, `InjectQueuedMessage`, queue panel edits, shutdown sweep, crash | take / reason / cancel / notify are separate steps, in the code's order |
| `SessionRuns` | the composition, its fairness and its properties | `Next` is the disjunction of all actors |
| `MessageDelivery` | what a session promises for a message | implemented by `SessionRuns` through `Stage` |
| `Subscription` | `ClientSubscription` of one client and the hub's entry for it | `sub` has the struct's fields; one operator per critical section of `m.mu` / `sub.mu` |
| `EventDelivery` | `EventsHandler`, `Subscribe`, `StopWriter`, `writeLoop`, `EmitToSession`, `Emit`, `StoreNotifiableEvent`, the telemetry broadcast, cleanup | `pc`/`loc`: pc and locals of each socket's handler; `drains`: the queue each writer reads; `emit`: each producer of events |
| `TaskState` | the rows of a task and of its executions, cron entry, running flag, cancellable entries | one operator per statement or critical section |
| `TaskExecution` | `executeTask` and `advanceTaskAfterRun` | `pc[e]`: where execution `e` is; `snap`: the row it was started with |
| `EventQueue` | `ForgeTaskTrigger`: queue, drain goroutine, retries | `drain`: pc, attempts and event in hand |
| `ScheduledTasks` | triggers, requests, stops, crash and restart around the three | `call`: the request in progress, step by step |
| `GroupTimeline` | rows of the group session, cursors, notes | high water, unseen rows, eviction of notes as the SQL does it |
| `GroupChat` | `runLoop`, `drainSpeakers`, sequential and parallel groups, `runRounds`, `executeTurn`, relays | `pc`: the orchestrator goroutine; `turn[m].phase`: a member's turn, on its own goroutine in a parallel group |
| `AgentConnection` | `ExecuteStream`, `GetOrCreateConn`, `ensureAliveWithSession`, `Prompt`, the kills, `watchProcessDeath`, the stall watchdog, `sweepOnce`, `CloseConn`, rewind | `conn[c]`: the fields under `c.mu`; `turn[t]`: pc and locals of a turn; `killer`: kills in progress, by who kills; `watch[p]`: the watcher started with a process |
| `*Proofs` | theorems | each extends the module it is about; `DeliveryProofs` joins two of them, `EventQueueProofs` goes on from `ScheduledTasksProofs` |
| `MC*` | sets and symmetry for TLC | |

```
QueueStore   RunnerRegistry
      \        /
     SessionState
    /     |      \
DrainLoop MessageEntry TurnControl
    \     |      /
     SessionRuns ----INSTANCE----> MessageDelivery

Subscription -- EventDelivery        GroupTimeline -- GroupChat

AgentConnection

TaskState -- TaskExecution
                    \
      EventQueue -- ScheduledTasks
```

The five compositions are checked apart. What one needs of another is small and
stated as the environment's choice: a task's turn ends as a session's turn may
end and may be cancelled through the registry (`CancelSession` appears in
`ScheduledTasks` with the part that reaches the adopted runner), a group member
speaks as an execution does, and events are emitted by whoever runs. In
`AgentConnection` a turn begins when no other turn of the session is running and
may be cancelled while it still winds down, as in `SessionRuns`.

In `SessionRuns` one session is modelled: the code shares nothing between sessions here except
the locks. A *run* names a runner and the context it owns; the code finds
runners by session id only, and so does the model, which is what lets one run
act on another's entry. Run identities are reused once nobody holds them
(`Fresh`), so few of them stand for any number of executions; `Runs` bounds how
many exist at the same time.

### Granularity

A store transaction and a `registryMu` section are one step each. Everything
else that other actors can observe in between is a step of its own: the time
between a claim and the launch, between taking a runner and recording its
reason, between recording and cancelling, between marking a session as not
running, sending the terminal event (with its synchronous push) and the deferred
`FinishSessionRun`.

### Abstractions

* Content, files, titles, models and the wording of events are left out.
* A turn ends nondeterministically: clean, abnormal, empty, failed before the
  stream (`TurnFails`) or in a panic. A turn whose context is cancelled ends
  like any other, since it returns when the agent or its timeout lets it.
* Time is left out: the reaper's grace period and the hooks' delays only delay a
  step. The reaper may therefore look at any moment the queue is not empty.
* The client sends a message once. Retried requests carry a queue id the server
  does not deduplicate by; a retry is another message.
* The gate for a group member that compacts is outside the model.
* `EventDelivery`: one client in detail, one session. The other clients are what
  they make the two gates answer (`ProbeAnswers`, `GateAnswers`): any answer that
  this client's own connection and subscription leave open. The limit on subscriptions, the
  bound on `StopWriter`'s wait and other clocks are left out; a window passes or
  not. The two frames a late subscriber is recovered with are one. A producer
  that finds the queue full closes the socket in a step of its own, as the code
  does after the unlock.
* `ScheduledTasks`: one task, one request at a time beside any number of
  executions. Writes to the database succeed. Debouncing and matching of events
  and the deduplication of mails happen before the model begins. An edit
  changes mode and expression, not the repetition; deleting executions is out.
  A restart registers an active cron task or passes it over, as the code does when
  the task's agent is not loaded or the registration fails (`LoadTask`).
  `CancelSession` takes the runner in one step and cancels it in another.
* `GroupChat`: a speech is what its mentions are: a route, a handover, a
  question, a note to one member, or silence. One mention may name a member twice,
  by id and by name; the second is dropped as the code does. The member who stands in for a
  failed host is any, where the code rotates. A clean turn leaves its row, the
  final write of a reply succeeds, the roster is read when a turn starts.
  Auto-cruise, forks of member context and command injection are out.
* `AgentConnection`: one session; the five things that are bounded (`MaxTurns`,
  `MaxConns`, `MaxProcs`, `MaxSessions`, `MaxUpsets`) are its constants, and a
  connection or process that nothing refers to is used again for the next. RPCs
  under the mutex are part of the step that holds it. The clocks are left out:
  the sweep may find the connection idle whenever no turn runs, with enough other
  connections alive; a rewind goes on at any time, since it waits for a turn only
  if the session still runs, and two seconds at most; the wait for a killed
  process (`crashDiagWaitTimeout`) does not expire: a killed process is gone with
  all that held its pipe. A rewind counts as two upsets, the cancel and the close. `watchProcessDeath` reads `c.conn` as soon as it is
  started. A turn has history when another turn began before it.
* `retired` and the field `span` (`AgentConnection`), `handed`, `gap`, `accepted`,
  `away`, `asked` (`EventDelivery`), `stopped`, `raced`, `passedOver`
  (`ScheduledTasks`), `fired` and `dropped` are history variables too.
* `turns`, `aimed`, `lost` and the fields `found`, `looked` are history
  variables: no guard reads them, and they are only there to state properties.

## Runs

`Events` selects the rare events a run allows and `MaxEvents` how many of them
happen in one history. Message sending, turns, the drain loop and the reaper
are never bounded by it.

| Run | Instance | Question |
|---|---|---|
| `session_events` | 2 messages, 2 runs, one dequeue retry, one event of all eight kinds (1.4 million states) | all safety properties, of the tables and of the session, and the delivery promise |
| `session_liveness` | 2 messages, 2 runs, one crash or fault, with fairness | is every queued message taken, does the session come to rest? |
| `event_delivery` | 2 sockets of one client, queue and buffer of 1, 3 events of the three kinds, 2 client messages (3.8 million states) | does a replaced connection harm the new one, is any loss noticed? |
| `scheduled_tasks` | 2 executions, 2 queued events, queue of 1, 2 requests, session cancels or restarts, 1 auto-continue (2.3 million states) | one run at a time, stoppable in every phase, agreeing with its rows? |
| `group_chat` | a host and 2 members, 3 speeches, 2 failures, 1 user event or crash, with fairness (0.8 million states) | is every row and note shown, does every turn end? |
| `agent_connection` | 2 turns, 3 connections, 2 processes, 2 agent sessions, 2 upsets, with fairness (0.3 million states) | is a dead process ever taken for a live one, does a prompt go to a wrong session, does every turn end? |
| `stale_handler_wipes_nothing`, `offline_can_recover` | the instance of `event_delivery`, without telemetry | two statements of comments that the code does not keep |
| `own_context_only`, `no_stranding`, `reason_of_this_turn`, `interrupt_own_message` | 2 or 3 messages, at most one event | four statements of comments that the code does not keep |

Why the bounds are enough to be interesting: two messages make a running turn
and a queued message, or two senders racing for the idle session; two runs make
an old goroutine that still winds down beside a new one; the reaper is a third
consumer. One event is placed at every point of every interleaving; one retry
makes a dequeue that fails reach the end of its retries (drain.go:364).
`MaxRows` bounds the row ids of `StoreSpec` only, the store on its own that
`QueueStoreProofs` is about: in the session a message enters once, and
each requeue or merge is a counted event. `Msgs` and `Runs` are symmetric; the
liveness run uses no symmetry. Deadlock checking is off since the system rests
once all messages are handled; `ComesToRest` says that is where it ends.

For event delivery two sockets are the replaced one and its replacement (a
socket's name is reused when nobody holds it, so more may follow in the code than
names here); capacity 1 makes the second frame the overflow; the three events
are one per kind of delivery: `user_message` (stored unless some client is connected
and all that are watch the session), `stream_start` (what a late subscriber is recovered with) and the
terminal update (to all clients). More sockets at once are a matter of the
theorems, which hold for any number. For a task two executions are the one that
runs and the one that wants to; `MaxRuns` 2 makes a limited task complete, and
`MaxQueue` 1 with two events makes one wait, one retry and one be dropped when its
attempts are used up. The branch of `Enqueue` that drops the oldest event of a full queue
needs a third event, which is beyond the run; the theorems cover it. For
a group the messages and speeches are chosen so that each way of speaking
happens: a mention in order, a relay to both, a group in parallel with a note,
a question to the user, silence; a cap of 3 is reached by relays of relays, 2
parallel launches make a second batch, and 2 failures give up the host. A turn
begins only below `MaxRows` rows, which bounds the history, never a turn. For
the agents two turns are a cancelled one that still winds down beside the next;
three connections are the one in the pool, one being closed and one a turn still
holds; two processes are the killed one and its replacement; two sessions are
the retired and the new one; and two upsets combine any two of: cancel, sweep,
close, rewind, an edit of the configuration, a failed spawn, handshake, recovery
or write, a turn the agent did not run, a process that dies or hangs.

`WaitingIsTaken` and `ComesToRest` leave shutdown out: after `MarkShuttingDown`
the reaper refuses on purpose and the process ends, and the next process takes
the rows (the crash event covers that restart).

### What the properties say

* `StoreInv`, `NothingVanishes`: no message is in two rows, and only deletion removes one.
* `RunningIsCancellable`: a registered runner's context is live, except in the last step of the shutdown sweep.
* `RunningIsReleased`: a registered session has a goroutine before its final event, or a claimer; so no failure path strands it as running.
* `AtMostOneTurn`, `TakenIsHeld`: no double answer; a message taken off the queue is in somebody's hands until its turn starts.
* `RetireLeavesNoWork`: when a runner retires its own entry, each waiting message has a sender about to submit or wake. Its hypotheses name the two cases in which this is not so: another goroutine of the session may have consumed the mark, and a requeued insertion sets none.
* `InterruptSparesLaterTurns`: an interrupt does not stop a turn that began after the handler looked.
* `ImplementsDelivery`: refinement to `MessageDelivery`.
* `WaitingIsTaken`, `ComesToRest`: liveness.
* `ChannelIsLive`, `ClosedOnce`, `WritersAreToldToEnd`: a queue that is offered
  has a writer that reads it; it is closed once, by the handler or by its
  replacement; a writer whose connection is gone has had its queue closed or has
  somebody about to close it. `CurrentSocketIsServed`, `OnlyItsHandlerDetaches`:
  the teardown of a replaced connection leaves the new one alone.
* `GapMeansClose`, `ClearedWasConsumed`: a client that missed a frame of the
  current connection is being closed; the buffer is cleared only after its
  content went to a socket or to a connection that is gone.
* `SubscriberKnowsTheRun`: a subscriber was told of the reply that streams, once
  no handler is between its subscription and the frames it recovers the client
  with. (With three sockets a late subscribe message of a replaced one opens the
  hub for the current one again, whose `OnSubscribe` then tells it; two sockets
  cannot show that, the proof did.)
  `DemandIsCurrent`: telemetry demand was declared on the current socket.
* `OneRunAtATime`, `RunningRowHasARun`, `EntriesReachTheRun`, `CancelIsHonoured`,
  `CronFollowsStatus`, `EventsAreKept`, `EventsInOrder`: see `ScheduledTasks`;
  `CronFollowsStatus` says that no sequence of requests, ends of runs and restarts
  leaves two jobs, or a job of a task that is not an active cron task, and that an
  active one without a job is one the last restart passed over. It leaves out the
  case in which a request overlaps the
  bookkeeping at the end of a run, which reads the task and writes it later: the
  request is overwritten then, although the comment at scheduler.go:1458 says the
  status is read "to avoid overwriting user-initiated changes (e.g. pause)".
* `NothingSkipped`, `NotesAreKept`: a cursor passes only rows that were in a
  prompt that ended cleanly, and a note goes with the prompt that showed it.
  `NoOneWaitsTwice`, `SiblingsAreUnseen`, `TurnEnds`: order, independence and end
  of a group turn. `TypeOK` of `GroupChat` holds the bound on speeches.
* `AliveHasItsProcess`: a connection that calls itself alive has the process it
  talks to, whatever failed or was killed while the mutex was free.
  `PromptsInItsSession`: a prompt goes to a session opened after the last rewind,
  and to no new one if one was persisted when the turn began; it is what the
  order of the rewind's steps and the three places that keep a session id are
  for. One way back is left in the code and named in the property (`Revives`): a
  turn that was cancelled before or by the rewind drains its events late, and its
  `session_capture` finds no session persisted and persists the retired one. `TurnsEnd`: the watchdog, and the kill it makes, free every turn; only a
  turn whose agent had a tool in flight when it fell silent waits for its user,
  which is deliberate (acp_pool.go:1426).

### What the violation runs show

* `OwnContextOnly`. `finishRunner` (session_runner.go:159) looks up by session
  id. An old goroutine that already removed its entry runs its deferred
  `FinishSessionRun` after a new message claimed the session, and cancels the
  new run. session_runtime.go:491 says a goroutine cancels its *own* context.
  Two consequences are visible in the same traces: two goroutines of one session
  run turns at the same time, against the comment at session_runtime.go:694-696
  ("only one turn runs at a time"), and the session is reported as not running
  while one of them still works.
* `NoStranding`. Error exits remove the entry without reading the wake mark
  (session_command.go:453 says a message cannot be stranded). The reaper picks
  the message up later, which is why `WaitingIsTaken` holds all the same.
* `ReasonIsOfThisTurn`. The reason is stored after the runner was taken
  (session_runtime.go:935) and the next run may read it
  (session_runtime.go:770).
* `InterruptSparesOwnMessage`. The turn is read after the check that the message
  is still queued (handler/queue.go:194), so the message's own turn may be the
  one that is stopped (handler/queue.go:190).

* `StaleHandlerWipesNothing`. A handler clears the replay buffer after its
  replay without asking whether its connection is still the current one
  (events.go:140), and drops the client's subscriptions after it released the
  lock under which it asked (events.go:100). A connection installed meanwhile
  misses events or its subscription (manager.go:272: "must not wipe a freshly
  installed one").
* `OfflineCanRecover`. The write-ahead is there "so offline clients can recover"
  events after they reconnect (stream_hub.go:214). Its gate skips the clients
  without a socket (manager.go:590): when the connected ones all watch the
  session, the event is not stored, and a client that is offline gets it neither
  live nor later.

Three more divergences have no run of their own. The doc of `SetSessionRunning`
(session_runtime.go:473) says `running=false` "cancels its context"; the body
(487-493) deliberately does not. The overlap of a request and the end of a task's
run, and the retired session that comes back after a rewind (against
session_rewind.go:147, "so the next prompt starts a fresh session"), are in the
models and named as the exceptions of `CronFollowsStatus` and
`PromptsInItsSession`.

## Fairness

`FairSpec` gives weak fairness to each execution goroutine, each sender's
request, the reaper and the cancel, interrupt, injection and shutdown steps: a
goroutine that can go on does (Go's scheduler), a lock that is released is
acquired, the reaper's ticker fires until shutdown (queue_reaper.go:141), and a
turn ends because the agent answers or the backend's idle timeouts end it. The
injection's fairness is that the backend answers with one of its two answers.
Sending, faults, resumes, edits, cancels, interrupts and crashes get none.
Weak fairness is enough everywhere: no step of an actor is disabled again and
again by another one while it waits, except a claim against a registered runner,
where the alternative (hand over and wake) is enabled.

`GroupChat` has a `FairSpec` of its own: weak fairness of the orchestrator's
goroutine and of each member's turn, which returns because the agent answers,
fails or runs into its timeouts. Users, cancels, failures, system rows and crashes get
none. `EventDelivery` and `ScheduledTasks` are checked for safety only: what a
client eventually sees depends on its network, and when a task runs on its
triggers.

`AgentConnection` has one too: weak fairness of each turn's goroutine and executor,
and of its watchdog and the kill it makes. RPCs other than the prompt have
deadlines, an agent that is up answers in the end, and the watchdog is on (it can
be switched off by a negative timeout, which no caller of the repository sets).
The sweep, the watchers, the handlers and the faults get none: a lost connection
fails the prompt by itself.

## Proofs

Checked by `tlapm`, for any sets of messages, runs and events and any bounds,
from the assumptions named in the modules (`NoRunAssumption`,
`ReaperAssumption`, `RetriesAssumption`, `EventsAssumption`, `MaxRowsAssumption`,
`TaskAssumption`, `QueueAssumption`, `TimelineAssumption`, `GroupAssumption`,
`NoConnAssumption`, `CapAssumption`, `EventAssumption`, `ConnectionAssumption`,
`ExecutionAssumption`, `BoundAssumption`):

| Theorem | Statement | Inductive invariant |
|---|---|---|
| `StoreCorrect` | `StoreSpec => []StoreInv` | `StoreInv`: disjointness alone is not inductive, since `Requeue` deletes by id; ids have to be unique and below the counters |
| `StoreLosesNothing` | `StoreSpec => NothingVanishes` | `StoreInv`, for the row `Requeue` removes |
| `TablesStayInOrder`, `SessionLosesNothing` (`DeliveryProofs`) | `Spec => []StoreInv`, `Spec => NothingVanishes` | `MessageInv`, for the history row a declined insertion deletes |
| `TypeCorrect` | `Spec => []TypeOK` | `TypeOK`; it says that a cancel and a sweep in progress hold a run, which the other two need |
| `RunningIsAlwaysCancellable` | `Spec => []RunningIsCancellable` | with `TakenIsNotRegistered`: the run a cancel took is not the registered one, so cancelling it later leaves the registered context alone |
| `RunningIsAlwaysReleased` | `Spec => []RunningIsReleased` | with `ClaimsAreHeld` (a claimed run is in the hands of a request) and `ClaimsAreDistinct` (of one only), so that a release ends that claim and no other |
| `InterruptSparesEveryLaterTurn` | `Spec => []InterruptSparesLaterTurns` | `SparesInv`: the registered turn is not newer than the last id handed out, so what the handler looked up is not either; clearing compares with what was looked up |
| `NoMessageIsAnsweredTwice` | `Spec => []AtMostOneTurn` | `MessageInv`, see below |
| `TakenIsAlwaysHeld` | `Spec => []TakenIsHeld` | `MessageInv` |
| `SessionImplementsDelivery` | `Spec => ImplementsDelivery` | `MessageInv`, which says at which stage the messages of a step are |
| `RetireNeverLeavesWork` | `Spec => RetireLeavesNoWork` | `RetireInv`, see below |
| `TypeCorrect` (`ScheduledTasksProofs`) | `Spec => []TypeOK` | `TypeOK` with `CronInv`: a task with a cron entry has a job, so removing the entry never counts below none |
| `TaskRunsOnce`, `StopFindsTheRun`, `StopIsHonoured`, `RunningRowsAreAlive` | `OneRunAtATime`, `EntriesReachTheRun`, `CancelIsHonoured`, `RunningRowHasARun` | `IInv`, see below |
| `JobFollowsStatus` | `CronFollowsStatus` | `IInv` with `JobInv`: where each request and each update of a finished run is, and what that leaves of the job |
| `NoEventIsForgotten`, `OrderIsKept` (`EventQueueProofs`) | `EventsAreKept`, `EventsInOrder` | `QueueInv`: fired, in hand, waiting and dropped events are all that were accepted, and a queue that is not empty has its drain goroutine (`KeptInv`); the first three are in the order of arrival, one after the other (`OrderInv`) |
| `TypeCorrect`, `SendsAreSafe`, `NoChannelIsClosedTwice`, `CurrentIsServed`, `WritersEnd`, `TeardownsAreApart` (`EventDeliveryProofs`) | `TypeOK`, `ChannelIsLive`, `ClosedOnce`, `CurrentSocketIsServed`, `WritersAreToldToEnd`, `OnlyItsHandlerDetaches` | `SocketInv`, see below |
| `GapsAreClosed`, `ReplayLosesNothing`, `NoStaleDemand`, `SubscribersAreTold` | `GapMeansClose`, `ClearedWasConsumed`, `DemandIsCurrent`, `SubscriberKnowsTheRun` | `IInv` of `EventDeliveryProofs`, see below |
| `AliveFlagsAreTrue`, `PromptsAreOfTheConversation` (`AgentConnectionProofs`) | `AliveHasItsProcess`, `PromptsInItsSession` | `IInv` of `AgentConnectionProofs`, see below |
| `NoRowIsSkipped`, `NoNoteIsLost` (`GroupChatProofs`) | `NothingSkipped`, `NotesAreKept` | `CoreInv` with `MailTypeOK`, see below |
| `SiblingsStayUnseen` | `Spec => []SiblingsAreUnseen` | `CoreInv`, by `SnapInv` |
| `RouteNamesEachOnce` | what `Resolve` returns, for any route, roster and barred set | no invariant: lemmas about `FlattenSeq`, see below |
| `NobodyIsQueuedTwice` | `Spec => []NoOneWaitsTwice` | `QueueInv` with `CoreInv`, see below |
| `TypeCorrect` (`GroupChatProofs`) | `Spec => []TypeOK` | `GroupInv`, all parts of the invariant together; that a turn's speeches stay within the cap needs the type of the queue, since a parallel group is cut to the budget in one step |

`MessageInv` joins `StoreInv` and the invariant of `RunningIsAlwaysReleased` with
what is known of the holders of messages (`HoldersInv`): goroutines and an
insertion in progress hold disjoint sets; what they hold is in the history and
has had no turn; a goroutine that holds something starts its turn next; a message
its sender has not stored yet is in no table; the history row that a declined
insertion deletes is the one it wrote. Without the first three a claim could make
a holder forget a message, or a second turn answer it; without the last a requeue
would take somebody else's row out of the history.

`RetireInv` adds to it that the sole goroutine of a session that is about to
retire without a mark leaves nothing but announced work (`NoLateWork`), and that
the history has at most as many rows as ids were handed out (`HistoryIsCounted`).
The second is what makes the hypothesis of `RetireLeavesNoWork` one about the
past: an insert adds one to both sides and a declined insertion takes a row away,
so once a message went back unannounced the two numbers never meet again. That a
claim which is given up cannot be overlooked comes from `ClaimsAreHeld`: whoever
gives it up has a goroutine that is not idle until it removes the entry.

Each proof has one step per action, over lemmas about the shared pieces
(claiming, launching, abandoning a run; moving a goroutine). The action lists
are grouped by actor as in `Next`.

`IInv` of `ScheduledTasksProofs` says what each phase of an execution has left
behind: its outcome (`OutcomeInv`), its row (`RowInv`), its cancellable entry
(`EntryInv`) and whether a stop that reached it must show in the outcome
(`StopInv`); and that nothing of it is left when the server is down (`DownInv`).
The four properties speak of pairs of these, so none is inductive alone: a row is
running only while its execution is in a phase that still writes the row, which
needs the flag, the entry and the outcome to agree with the phase.

`CoreInv` of `GroupChatProofs` starts from who may speak where the orchestrator is
(`PhaseInv`), which gives that no row streams when a prompt is built
(`StreamInv`). Hence a prompt holds all rows between the member's cursor and its
mark but its own (`ShownInv`), which is what a cursor may pass; a prompt holds
the notes of its own member only (`HeldInv`), which is what it may delete; and no
member has written past the mark while the prompts of a parallel group are built
(`SnapInv`). That a full queue was full before the note that overflowed it is
counting over finite sets (`EvictedWereFull`).

`QueueInv` says of the groups that wait what `NoOneWaitsTwice` says of the turns in
them: nobody has two places in the queue (`OnceEach`), and while a sequential group
runs, its remaining turns, the queue behind it and what its speakers appended
name different members. The split into three is what makes it inductive: a relay
checks its targets against each of the three, and only when the group is over are
the last two joined. It rests on what the routing operators return for every
route: `RouteNamesEachOnce` (exactly the targets that are enabled and not barred,
each once, neither twice across the groups of a route nor inside one, where a
member may be named by its id and by its name) and `AllTurnsOnce` (flattening
keeps turns apart). These are statements about `FlattenSeq` over sequences of any
length, so they need induction over data. The library's induction theorems cannot
be instantiated here; `Induction` obtains it for sets of numbers from a fact the
library states without an operator parameter, that strict inclusion is well
founded on the finite subsets of a set. `PrefixesExist` and `FlattenedIsLast` use
it to give the recursive function inside `FlattenSeq` a value; `Flattened`,
`FlattenedHoldsAll`, `Picked` and `PickedHoldsAll` say where its entries come from
and that none is missing.
To be within reach of this, `GroupChat` filters sequences with `Pick`, a
`FlattenSeq`, and states the claims of a route place by place (`Claim`, `Claims`)
instead of folding over it.

`SocketInv` of `EventDeliveryProofs` says who has which channel. The socket, its
channel and its writer in the subscription are one connection's
(`PartsBelongTogether`) whose handler has yet to take them down
(`AttachedHasHandler`); a channel that a handler took is no longer attached and
no other handler has it (`TakenQueuesApart`), so it is closed once and sent to
never again (`CloseIsDue`); and a writer reads its own socket's channel, which is
attached, closed, or about to be closed (`WritersDrainTheirOwn`). `IInv` adds
what is known of events under way: the copy a handler replays and what waits in
its channel are the buffer it clears (`CopyIsComplete`), and the reply that
streams is known to a subscriber or on its way to it (`LiveInv`).

`IInv` of `AgentConnectionProofs` follows a session id through the five places
that keep one: the connection, a turn that respawns it (`pre`), the id on its way
to the executor (`captured`), the database and the turn that prompts. What a turn may
find in any of them by the end of its life is above its lower bound (`AroundInv`),
all of them know only sessions that were opened (`KnownInv`), and as long as a
turn is held to the persisted session no other is opened (`SpanInv`). Neither
follows from a turn's own state, so the invariant says what is fresh in each phase of the
rewind: the database from the moment it is forgotten (`SavedFresh`), the pool once the
connection was taken out of it (`PoolFresh`), and what is on its way to the
executor of a turn that was not cancelled (`HeldFresh`). Of a cancelled turn the
last does not hold, since the rewind waits for it at most two seconds and often
not at all; when such a turn persists its session after all, that session and
all later ones count as the conversation's again (`retired` goes down with it),
and every turn's lower bound with them. A new session after a failed recovery
is opened for the first turn only, which either nothing was retired for or a
rewind has cancelled (`FirstTurn`, `FallbackInv`). Most steps open,
save and retire nothing: they are `Calm`, and one lemma carries the invariant over
all of them. No limit on turns, connections, processes, sessions or
things that go wrong is used.

Every invariant and every action property that a passing run checks is a theorem.
Only model-checked are the liveness properties: liveness under fairness and
`ENABLED` are out of the prover's reach. So are `RECURSIVE` operators; no module
here declares one.

## Not modelled, and what is left

The components that `PROJECT.json` lists as not modelled are pure I/O, wrappers
of other programs, single SQL statements, or independent of the session core.
One is a candidate for more work: the stream executor (`session_executor.go`)
splits a reply at a message that is inserted while it streams; joined to the
insertion of `TurnControl` it would say that no text is in two rows.

Of the modelled components these parts are left: the identity of the run that
used the terminal push guard (`pushDone` is keyed by session), the budgets of
auto-continue and cruise, several sessions per client, several requests at a time for a
task, a database that fails under a task or a group, and of the pool what its
entry in `PROJECT.json` names: loading a foreign session, the caches of modes and
options, steering, connections without a session, the stop at shutdown.

Some behaviours were read and not turned into properties because nothing in
the repository says what should happen: a cron tick that passed its check before
the last allowed run ended runs once more (scheduler.go:733); a queued event
fires a task that was paused after it arrived (scheduler.go:486); a client that
loses its connection or its subscription between the gate of the write-ahead and
the fan-out is counted as told (pending_events.go:532), and so is one that
subscribes between the probe and the gate (stream_hub.go:286); an email task
saved with an empty expression is paused after its first run (scheduler.go:1480);
a cancel during a group's summary leaves the turn clean
(group_orchestrator.go:2172); the check of the speech cap and the budget
of a group read the setting twice (group_orchestrator.go:1758).

Of the pool, these windows are in the model, and the properties hold with them; no
document says what should happen:

* `killAndMarkDeadLocked` and `close` give `c.mu` up while they wait for the
  process and then clear the fields whoever set them (acp_pool.go:2535-2546). A
  process spawned meanwhile is forgotten and never killed; two spawns that
  overlap lose one process in the same way.
* `watchProcessDeath` marks its connection dead when the process it watched ends,
  also if the connection has a new process by then, and cancels that one's
  prompt (acp_conn_lifecycle.go:1273-1284); the deferred
  `c.promptCancel = nil` of a prompt drops the function of a later one
  (acp_conn_prompt.go:122).
* A recovery that fails has lost the session in memory (`spawnLocked` clears it,
  acp_conn_lifecycle.go:1208). The comments that say it is preserved
  (acp_conn_lifecycle.go:562) are true of the persisted copy only, which
  `recoverableSessionIDLocked` reads; `NewSessionFallback` therefore resumes that
  session too if there is one.
* A reset during the first turn of a session lets the cancelled turn's late
  `session_capture` persist its session while the next turn prompts in another.

The run count is limited on purpose: one passing run per composition, a
liveness run where there is waiting, and a violation run only where the
repository makes a statement the code does not keep.
