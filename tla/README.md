# Omini: a verification development

Omini is a coding agent: a server process keeps *threads*, each with one *agent
instance* that talks to a model provider, runs tools and background tasks, and
streams what happens to the clients that watch the thread.  This directory
holds TLA+ modules for the parts of it in which several actors share state, the
TLC configurations that check them on small instances, and TLAPS proofs for any
number of hosts, tasks, tool calls, messages, connections and requests.

All paths below are relative to the repository; `core` is
`crates/omini-core/src`, `server` is `crates/omini-server/src`.

## 1. Inventory

### Components, their state and what they do

| Component | State | Operations | Talks to |
|---|---|---|---|
| **Run gate** `core/execution/handle.rs` | lifecycle, run slot, deferred flag, one `Notify` | reserve, commit, drop of a reservation, start of an internal run, maintenance, idle close, close | hosts (reservations, `Close`), the instance loop |
| **Instance loop** `core/runtime/run_loop.rs`, `manual_compact.rs`, `plan_approval.rs` | `deferred_start`, main cancel flag, command and completion receivers, messages in memory | receive a command or a completion, run a sequence of queries, compact, stop, shut down | gate, engine, task supervisor, host |
| **Task ledgers** `core/tasks/manager.rs` | task records, stop ledger, notification ledger, stopped inbox, background slots | register, update, finish and notify, open and close the stop boundary, mark delivered | loop, supervisor, background shell |
| **Agent task supervisor** `core/agent/tasks.rs` | table of child agents with their cancel flags and inboxes | prepare, launch, finish, cancel, messages to a child and to its parent | ledgers, host, child engines |
| **Query engine** `core/engine/mod.rs`, `turn.rs`, `state.rs` | pending completions, turn counter, repeat guard, finish reason | drain completions, execute turns, ask for a follow-up | provider, tools, event channel |
| **Tool execution, pauses** `core/engine/tool.rs`, `pause.rs`, `util/cancel.rs` | set of running tool calls, table of waiting pauses, cancel flag and `Notify` | run calls in order groups, abort, pause for approval, resolve | engine, clients |
| **Compaction** `core/runtime/compact.rs` | circuit breaker, rewritten messages | thresholds, collapse, summary, rewrite under a new context version | store |
| **Event sink** `core/runtime/event_sink.rs`, `history.rs`, `usage.rs` | acknowledgement channels | persist an event, then show it | host, store |
| **Store** `server/store/` | the database rows: threads, runs, steps, messages, tasks, notifications | insert, settle, recover after a restart | every host call |
| **Thread session** `server/thread/` | presence of clients, controller, event consumer, replay buffer | attach, detach, submit, idle reclaim, close | instance handle, clients |
| **Project** `server/project/` | cache of sessions | create, load, fork, reclaim, shut down | sessions, store |
| **Event replay** `server/event/` | ring of sequenced events, live projection | record, snapshot, replay | sessions, clients |
| **Transport, process** `server/routes`, `server/ws`, `server/lib.rs` | sockets, daemon files | HTTP and WebSocket handlers | sessions |
| **Client** `crates/omini-tui` | interface state | render, submit | protocol |
| **Permissions** `crates/omini-permissions` | none (rules are input) | decide about a command or a path | tools |
| **Assembly, agents, prompts, skills, tools, MCP, configuration, provider, protocol, entities, CLI** | none shared, or I/O | construction, parsing, I/O | |

`PROJECT.json` lists the same components with their files, what of each is
modelled and why the rest is not.

### What is hard in it

* **Two authorities for one fact.**  The gate has a `deferred` flag and the
  loop a `deferred_start`; the supervisor's table and the task manager's index
  both list tasks; a notification is in the store, in memory, in the engine's
  queue or in the stop inbox.  Each pair is updated in separate critical
  sections.
* **Hosts are cancelled.**  A reservation may be dropped at any await of the
  request that holds it: before its command is sent, while the command is in
  the channel, after it was accepted.
* **A stop races with work being created.**  A background task is in no table
  while the host creates its session, and a completion may be between table
  and channel when the user stops the instance.
* **Failure half-way.**  A host call may fail between two effects that belong
  together: after a queue was taken, after a boundary was closed, in the middle
  of a run's records.
* **Ordering of shutdown.**  Close must refuse what is in the channel, wait for
  reservations, cancel and wait for tasks, settle what they report, and
  announce itself, while hosts go on reserving, committing and dropping.
* **Stale reads.**  Idle reclaim, plan approval, `cancel_task` and the consumer
  of a session read, release a lock, and act on what they read.
* **A cancel at any await.**  A query polls its cancel flag, registers a wait
  and is dropped at awaits; its tools have started, wait for an answer, or have
  results nobody has joined yet.  Main and child queries share one table of
  pauses.
* **Joining while it happens.**  A client that connects gets rows, a replay
  buffer, a status and live events, read at different moments from state that
  one task trims while another fills it.
* **Exactly once over a crash.**  A message, its row, the end of the task it is
  for and the notification of that end are written by different transactions,
  repeated by callers and put right by a recovery that has only the rows.


The hazards of `PROJECT.json` name the lines; each one is covered by a property
or says why it is not.  Without one are: the deferred start that is stale in the
loop (**DeferredIsSettled** follows the gate's flag), the idle close that misses
a completion, a controller who releases control as the only client, a load that
a whole session overtook, the start of a run that fails and is not retried, a
stop during a manual compaction, the text of a plan whose start is thrown away,
the count of background slots, and a child's message to its parent.

### What makes each part correct

* Gate: one holder of the run slot; a slot is reserved exactly for a live
  reservation; closing ends; nothing is admitted once it has begun.
* Loop: a deferred start is retried or superseded; explicit input begins
  outside a stop boundary; a run caused by a notification alone does not begin
  inside one.
* Ledgers, supervisor: a stop reaches every task it silences; a pending
  completion has exactly one holder; it is delivered once, and eventually.
* Compaction: what was delivered stays in the stored context.
* Query: no request has a tool use without its result; nothing of a query runs
  on after it; no tool starts before it is recorded; a stop ends it.
* Messages to a task: each enters the child's history once or is reported as
  undelivered; nobody waits for a child that is gone; an end is told once.
* Session, project: what accepts work is what the cache has; a rebuilt session
  knows what is stored; a session everyone left is reclaimed; the roles that
  clients show converge; a pause has one answerer.
* Replay: each block is shown once, whenever a client joined.

## 2. The modules and the code

```
Admission      abstract: a closable permit with one holder
    ^ implemented by (TLC and TLAPS)
RunGate  --->  RunAdmission      gate operators; gate + hosts + loop
                  ^ implemented by (TLC and TLAPS)
TaskLedger --> AgentLoop         + tasks, notifications, delivery, stop, runs

QueryTurn       one query inside a run: turns, tools, pauses, cancel
TaskMessages    one background task: messages, cancel, end, crash and recovery
SessionLife     one thread on the server: cache, sessions, clients, control
EventReplay     what a client that joins is shown of a run and of a child

RunAdmissionProofs, AgentLoopProofs, QueryTurnProofs, TaskMessagesProofs,
SessionLifeProofs                        theorems about the modules they name
EventReplayProofs <-- EventBufferProofs <-- EventShownProofs
                                         theorems about EventReplay, in layers
```

The last four each take one of the things the loop treats as a step and look
inside it: a `turn` of `AgentLoop` is a query of `QueryTurn`; a task that ends
there is the child of `TaskMessages`; an instance of `SessionLife` is the permit
of `Admission` (`slot`, `life`, and the wake-up `permit` that a release gives)
with a loop that announces that it is idle; and the sinks of `EventReplay` write
rows and events in the order in which query and loop emit them.

**RunGate** has the state behind the mutex of `RunGate` (handle.rs) and one
operator per critical section, with the wake-up it gives.  Module `Admission`
says what the gate promises: a permit with at most one holder, which can be
closed, after which nobody is admitted and no work begins.

**RunAdmission** adds the hosts (`res[r]`, one `RunReservation` object per run
id) and the loop (`pc`).  `run_loop` is split where it gives up the lock: the
test of the lifecycle (`top`), the test of the slot (`check`), the `select!`
(`select`), the start of an internal run (`starting`), a run or a compaction
(`run`, `maint`), and the steps of `shutdown` (`closing`, `drain`, `await`,
`parked`, `settle`).  The stored permit of `notify_one` is `permit`; the two
places that wait on it, `select!` and `wait_unreserved`, consume it.  A
`CommitRun` is in the channel exactly while its reservation is `sent` or
`abandoned`, so the channel needs no variable of its own; the order of commands
is left open.

**TaskLedger** has the root background tasks of the instance (`stage`), the
stop ledger (`stopped`, `open`, `generation`), the notification ledger
(`pending`, `delivered`) and the completion channel.  `prepare_task` is split
at its awaits: what it captures about stops before the host creates the session
(`stamp`), what it compares afterwards (`Register`), the launch.  `finish_task`
is split between the terminal state in the table and the sending of the
completion.

**AgentLoop** composes both.  Every action is an action of `RunAdmission` with
its effect on the notifications, or leaves the right to run alone.  Places a
completion can be: `chan`, the engine's `queue`, `draining` (taken by a query
and handed to the host), `inbox` (settled by a stop, not in memory yet), `mem`
(in the messages of the instance), `rows` (the row says delivered) and `stored`
(in the stored context of the current version).  `step` is where a run is:
collecting, opening its records, the first drain of the query, a turn, the
drain after a turn, the end of the query, waiting for its tools, the record of
the run, the tail, the decision about a follow-up.  `Persist` is
`insert_task_notification` of the server: one transaction, with its test of the
row, followed by the ledger's mark.

What the model leaves out of these parts, on purpose:

* Only root background *agent* tasks have completions here.  Background shell
  commands use the same ledgers through the same calls.  Nested and synchronous
  tasks have none.
* The limit on background slots is not modelled: `HasActiveTasks` only says
  whether a slot or a table entry is there.
* The order of completions in channel and queues is left open (they are sets);
  a task is spawned once, so a completion is named by its task.
* `connected` is FALSE from the moment the consumer is gone; in the code the
  first send finds out.  The model therefore has the loss earlier, never later.
* `begin_idle_close` reads the task ledgers before it takes the gate's lock.
  The model keeps the gate's half and allows it whatever the tasks do.
* The stamp of a spawn is compared with the generation although in the
  reachable states a run waits for its tool calls, so a stop and the next
  explicit input cannot both pass a spawn that is under way; the code compares
  it, so the model does.
* A run's text, its steps and records, and everything the provider says are
  abstracted to: a turn completes, is interrupted, or fails.
* A follow-up labels the slot before it collects; the code collects first.  The
  slot is active on both sides, and no other action reads the label.

**QueryTurn** is `run_query` with `execute_turn` and the tool executor.  `pc` is
where the query awaits, or a point between its look at the cancel flag and its
wait (`invoking`, `draining`: `invoke_or_cancel`, `drain_tasks`); a stop of the
main query comes only at an await, since the task that would cancel it is the
one that polls it; a child is cancelled at any point.  A tool call goes through
`spawned`, `asking`, `waiting`, `working` to `result`, `denied`, `panicked` or
`dropped`; `joined` are the calls whose task `join_next` returned; `open` are
the `tool_use` blocks without a result, which is what a provider refuses.
`OthersDrain` is another query of the instance that empties the shared table of
pauses at its boundaries.  The order groups of tools, the deltas of a stream and
what a tool does are left out: any subset of the calls may run at a time, which
includes every grouping.

**TaskMessages** has one task with its entry in the supervisor (`task`,
`inbox`), the child's loop (`child`), the rows of the store, and three kinds of
caller: `send_message` of the main agent (`call`), the input of a client
(`request`), `cancel_task` (`canceller`), each cut where it awaits.  One
transaction is one action: `enqueue_delivery`, `inject_task_message`, both
settlements, `finish_agent_task`, the upserts of the task row,
`insert_task_notification`.  `Faults` are failed transactions, a panic of the
child, an HTTP request or tool call dropped after its message was stored
(`abandon`), and the end of the process (`crash`), also during the recovery:
`RecoverTasks`, `RecoverDeliveries` and `Load` are the server's start in its
order.  Messages of the child to its parent, nested and synchronous tasks are
left out.

**SessionLife** has the cache entry of one thread, the sessions built for it,
connections and requests with the point of the code they are at (`actor`), and
the consumer of each session.  `get_or_load_thread` looks, reads the store, and
looks again; `create_thread` writes the row and then the cache; a change of
control happens under the lock and is announced after it (`due`);
`close_thread_if_idle` and the consumer's reclaim each test twice.  A request
reserves, is accepted, commits and runs, claims, releases or takes control, or
answers a pause.  `orphans` and `overtaken` are history variables that name the
two cases in which the code departs from a property.

**EventReplay** has the core's sinks (`stage`, `rows`, `out`), the session's one
consumer (`inbox`, `seq`, `buffer`, `status`) and one client: `Subscribe`, the
three reads of the snapshot, the replay (taken at one moment, then sent entry by
entry while the thread goes on), the status, live events.  A block is a
piece of text, a tool use, a result, an input, a summary; `client.view` counts
how often it stands on the screen.  `Scenarios` bound what one behaviour
contains: `"reorder"` is for tool results that are stored in another order than
their events came in, which the snapshot's trim does not recognize and the
client shows by the id of the tool use, once; `"watch"` for a user who looks at
the view of the child, which is otherwise removed with the child's end
(`prune_terminal_tasks`).  A snapshot that has the child's end gives the client
no view of it, and none of its history (`InSnapshot`).  A reconnect is a
connection that begins at that moment, so a behaviour has one connection, at any
moment, and a user looks at a view only after it was opened.

What these four leave out on purpose:

* thirty task streams of a session, the limits of 64 KiB and 256 KiB, a
  receiver that lags by 512 events; plan dialogs; usage figures;
* text that repeats an older message, which `reconcile_live_tail` of the client
  may take for it, and the clearing of queued child messages by events of main;
* projects, forks, settings, the listing of threads, attachments;
* in recovery, steps and tool uses, which follow their run.

Operators named `Mutant...` are wrong on purpose.  Each is what the definition
after it would be after a plausible slip, and none is used by a specification;
`PROJECT.json` says which property finds which.

## 3. What the runs check

| Run | Constants | Shows |
|---|---|---|
| `admission` | two host runs | type; **ReservationOwnsSlot**, **SlotMatchesWork**, **ClosedIsVacant**; **ClosingCompletes**, **DeferredIsSettled**; refinement of `Admission` |
| `loop_safety` | one host run, two tasks, one stop, all five kinds of event | type; **StoppedIsCancelled**, **NotifiedOnce**, **PendingIsHeld**, **DeliveredIsKept**; refinement of `RunAdmission` |
| `loop_live` | one host run, one task, one stop, no event | **AutoRunStartsClean**, **StoredKeepsDelivered**; **ClosingCompletes**, **CompletionsAreDelivered** |
| `query` | main or child, two calls a turn, two turns, a repeat limit of two, a failing host | type; **RequestsArePaired**, **NothingOutlivesQuery**, **ToolsAreRecorded**, **LastTurnIsFinal**; **MessagesAreInjected**; **StopEndsQuery** |
| `tasks` | three casts of a message, an input sent twice and a cancel; seven faults, two of them per behaviour | type; **InjectedOnce**, **NothingIsStranded**, **CompletedMeansDelivered**; **FinalStays**; **CompletionIsNotified** |
| `session` | six stories of two connections and up to three requests, two sessions | type; **LiveIsCached**, **MemoryIsStored**, **RolesConverge**, **PauseHasOneAnswerer**; **UnattendedIsReclaimed** |
| `events` | six scenarios of one turn, one text delta and one tool use, two inputs, a child with two deltas; the last one on calm connections only | type; **ShownOnce**, **ChildIsShown**, **ViewsConverge** |
| `orphan`, `auto_compact`, `plan`, `retry`, `events_lost` | the smallest instance and the event each needs | the code does not do what a comment or document of the repository says (section 5) |

**Bounds.**  *Host runs:* with two, a reservation can be dropped while another
run holds the slot, and a stale command can meet a later run; a third adds
nobody who could be confused with another, since the loop answers one command
at a time.  The proofs of section 4 have no such bound.  `AgentLoop` uses one,
for its own properties do not tell hosts apart.  *Tasks:* two are enough for one
completion to be in each place of a pair that must be disjoint, and for a stop
to meet one task in the table and one under creation; they are symmetric in the
safety run.  *MaxStops:* one stop, followed by explicit input, reaches every
state of the boundary; the properties of `loop_safety` were also checked with
two stops and one task during development.  `mem` counts to 2, so that a second
delivery is seen.  *Calls and turns:* two calls give results out of order, one
aborted while the other is done, and pauses of two queries in the table; two
turns give one before the limit and the one that sums up; with a repeat limit of
two the guard strikes in the second.  *Casts:* a message and an input meet in
the inbox with a cancel; an input and its repetition meet at every point of the
first; three callers at once add no pair.  *Two faults* let a crash meet a
failed transaction, or a second crash the recovery from the first.  *Sessions:*
the second is the one that is rebuilt, doubled or loaded late; two connections
are enough for control to pass and for one to leave while the other comes.
*Stories* stand for the product of clients and requests, which is too large:
each has the actors one mechanism needs.  *Events:* a message of two pieces can
be trimmed between them; an output channel of two and a client one event behind
let the core be ahead of the consumer, and the consumer of the client.  The
scenario in which the user looks at the child is cut, by the constraint
`Explored`, to connections that are calm: **ShownOnce** and **ChildIsShown** are
about these only, and the others are in the scenario without the user.  The
proofs have none of these bounds.

**Events.**  `Events` says which failures and which races the environment may
bring about, so that a property can be checked where it holds and refuted where
the code breaks it: a failing host call, a failing turn, automatic compaction, a
stop during a manual compaction, a spawn call dropped at an await.  `loop_safety`
has them all.  `loop_live` has none, for each breaks one of its
properties:

* `AutoCompact`, `DropSpawn`: the findings of section 5;
* `TurnFails`: a completion received by a query whose turn then fails stays in
  the engine's queue of an idle instance until the next input, although
  docs/usage.md says that the agent is notified automatically;
* `StopCompact`: a stop during a manual compaction does not settle what was
  already queued (manual_compact.rs:107), unlike the idle stop; queued
  completions wait for the next input.  No document says otherwise;
* `HostFails`: a stopped completion whose second attempt fails returns to the
  engine's queue after its boundary was closed (run_loop.rs:238) and may be
  delivered by a run inside a later one.  The source accepts it as rare; so
  **AutoRunStartsClean** is claimed without it.

`query` has failing hosts and no panicking tool: with `ToolPanics` a request may
go out with a tool use that has no result, since a task that panicked is joined
without a result and nothing reconciles it unless the query was cancelled.  The
theorem says the same: **RequestsArePaired** if no tool panics.

**Exceptions in the properties.**  Some properties hold but for cases that they
name.  Each is necessary: the steps into it are in the model, and TLC finds a
violation when the exception is dropped (for the orphans of **MemoryIsStored**
with a second connection in the story that creates the thread):

* **LiveIsCached** excepts `orphans`: `create_thread` overwrites the session
  that a concurrent load has put into the cache.
* **MemoryIsStored** excepts `overtaken`: a loader that read the store, while
  another session came, stored a run and went, builds from what it had read;
  and it excepts a thread with orphans, whose two sessions store by turns.
* **NothingIsStranded** excepts `lost`: a message registered by a call that was
  dropped stays pending until a restart, and a task whose final transaction
  failed keeps an open row, from which a rebuilt session restores a task that
  nothing runs.
* **ShownOnce** and **ChildIsShown** except connections that are not `calm`: a
  row was written while the snapshot was read, a row was ahead of its event
  when the client subscribed, or a message was trimmed half recorded.  Then a
  block stands twice or not at all; what never stands is finding
  **events_lost**.  The row that may be ahead is also the child's end.  A client
  that subscribes when it is stored and `Finished` is not yet broadcast reads a
  task that is over and drops its history (app/events.rs:1044); the replay, which
  still has `Started`, then opens a new view that holds only the prompt
  (app/events.rs:577), and the stored message stands nowhere until `Finished`
  comes.
* **StopEndsQuery** is claimed of the main query.  A child may be cancelled
  between its look at the flag and its registration at the `Notify`; if a tool
  then hangs, the child hangs with it.
* **FinalStays** is about the agent task, its run and the deliveries: the
  background row may go from its end back to cancelling, by the late upsert of
  `cancel_task`.

**Deadlock** is not checked: a closed instance, a task that was notified, a
session nobody uses and a client that has seen everything stop for good.  That
they do not stop earlier is what **ClosingCompletes**, **StopEndsQuery**,
**CompletionIsNotified** and **UnattendedIsReclaimed** say.

**Fairness.**  The loop is one tokio task that never waits without a waker, so
each step it can always take is weakly fair.  The arms of its `select!` are
polled in random order (no `biased`), so an arm that is ready time and again is
taken: strong fairness for the wake-up, `Close`, `CommitRun` and the
completions.  A host commits a reservation or drops it: the documentation of
`close` demands it, and dropping is what a cancelled request does.  A turn, a
compaction and a task may last for ever; only once they have been cancelled, or
closing has begun, must they end, since each then waits on a signal it was
sent.  Nothing is assumed of users, of the provider, or of the consumer.

In `QueryTurn` the executor polls the query (weak fairness of its steps), and a
provider that was asked answers and ends its stream: its client has timeouts,
and the query looks at the cancel flag only between events of the stream while
it commits or sends.  A host answers every call it gets, with success or
failure: the awaits of its acknowledgements are steps of the query, and as fair
as these.  Nothing is assumed of tools and users.
`TaskMessages` has weak fairness for the child, for the owner that takes a
notification, and for a server that starts; callers, the canceller and faults
may stop anywhere.  Since faults are bounded, the server finally stays up.
`SessionLife` needs only that *some* task that can go on does (`RunOn`): its
steps are tasks of one runtime and none of them can go on for ever.  Nobody has
to connect, leave, ask, announce a pause or answer it.

## 4. What is proved

`RunAdmissionProofs` proves for **every** set of run ids, from the assumptions
`NoRunAssumption` (the id of no run is not a run id) and `RunsAreIds` (run ids
differ from the three names of the other holders):

* **AdmissionTypeCorrect**: `AdmissionSafety => []AdmissionTypeOK`;
* **AdmissionSafe**: the slot is reserved exactly for a live reservation;
* **SlotFollowsWork**: it says "running" exactly while the loop runs (so the
  assertion at handle.rs:243 cannot fail);
* **ClosedStaysVacant**: a closed instance is vacant with no commit unanswered;
* **AdmissionImplements**: gate, hosts and loop implement `Admission`.

None of the three safety invariants is inductive.  `TypeInv` adds that what is
being started is a start that may be put off.  `ShutdownOrder` adds where the
lifecycle and the channel are at each point of the shutdown: without it, the
last look of `wait_unreserved` would say nothing about a commit that is sent
afterwards, and the final `Closed` could meet an active gate.  `AdmissionInv` is
their conjunction; each action is a step of its proof.  The refinement needs the
invariant too: `Finished` maps to `Leave` because the slot matches the work, and
`AnnounceClosed` maps to `Finish` because the shut-down instance is vacant.

`AgentLoopProofs` proves for **every** set of host runs, tasks and events and
any number of stops:

* **LoopImplementsAdmission**: every action of `AgentLoop` is a step of
  `RunAdmission` or leaves its variables alone; hence **LoopAdmissionSafe**,
  everything above holds of the whole loop;
* **LoopTypeCorrect**: `LoopSafety => []LoopTypeOK`;
* **StopReachesTasks**: `[]StoppedIsCancelled`;
* **CompletionsAreHeld**: `[]PendingIsHeld`;
* **NeverNotifiedTwice** and **DeliveredStays**: `[]NotifiedOnce` and
  `[]DeliveredIsKept`;
* **AutoRunsStartClean**: `[]AutoRunStartsClean`, if no host call fails
  (`"HostFails" \notin Events`);
* **DeliveredStaysStored**: `[]StoredKeepsDelivered`, if no automatic compaction
  happens (`"AutoCompact" \notin Events`).

The hypotheses of the last two are the events that break them (section 3): with
any of the other events the properties hold, in the runs and in the theorems,
which `loop_live`, without any event, does not show.

Its invariant `LoopInv` was checked by TLC on the instance of `loop_safety`
before it was proved.  It has three parts beside `TypeInv`:

* `FlowInv` says where a run can be, and that what follows a run is a start a
  follow-up may have, which the refinement needs;
* `StopInv` adds to **StoppedIsCancelled** that no stop knows a task before the
  task table does.  Without it a task could be stopped while it is created and
  register as not cancelled;
* `DeliveryInv` says where completions are.  **PendingIsHeld** is about a living
  instance, and a dropped query loses what it had taken; what is inductive is
  weaker on one side and stronger on the other (`HeldOnce`): the four places are
  disjoint parts of what is pending *always*, and cover it while the instance
  lives.  `KeptOnce` says the same of memory and the store, with one fact the
  code never states: `rows = delivered`, the store and the ledger agree about
  what was delivered whatever fails.  The last conjunct says that only a query
  waiting for its host has taken completions, so that taking the queue
  overwrites nothing.

Two more parts belong to the last two theorems.  A run that a notification
alone caused does not begin inside a stop boundary, because inside one nothing
is left that could cause it: `CleanInv` follows the cancel flag from the stop to
the decision about a follow-up (`FlagInv`), the start that was chosen until it
is taken (`StartInv`), and says that within a boundary the queues are empty or
the run under way is cancelled (`BoundaryInv`).  The failing host call is what
refills a queue there.  `StoredInv` adds to **StoredKeepsDelivered** what manual
compaction relies on: its flush has put everything delivered into memory before
the memory is stored.

The proof does not go through sixty actions for each of these parts.
`PlaceStep` shows that a step moves completions in one of seven ways
(`PlaceMoves`), `StopMoves` that it treats tasks and stops in one of three, and
each part of the invariant is preserved by each way.

`QueryTurnProofs` proves for **every** finite set of calls, turn limit and
repeat limit (`QueryAssumption`): **QueryTypeCorrect**, **RequestsStayPaired**
(if no tool panics), **QueriesLeaveNothing**, **RunningIsRecorded**,
**LimitIsFinal**, and the action property **AcceptedIsInjected**.  The invariant
`QueryInv` adds to the types `ToolInv` (outside of a turn no call is alive, and
what runs was streamed and recorded), `TurnInv` (at the limit a finalization is
under way), `PauseInv` (no pause is left at the boundaries), `InboxInv` (what
`run_query` tested before it ended), and `PairInv`, for queries whose tools do
not panic: uses are open only while the calls of a turn are drained, each
streamed call has been started or rejected by then, and a tool that was dropped
was dropped by a cancel.  Pairing is inductive only with the last part: an
aborted tool leaves no result, and the repair of `reconcile_cancelled` happens
only if the query was cancelled.

`TaskMessagesProofs` proves for **every** set of calls, requests and keys, every
cast, every set of faults and any number of them (`TaskAssumption`):
**TaskTypeCorrect**, **DeliveriesAreInjectedOnce**, **NobodyIsStranded**,
**CompletedIsDelivered**, **NotifiedAtMostOnce** and **FinalIsKept**.
`TaskInv` has `RowInv` (**InjectedOnce**, and which points of a caller come
after its row), `EndInv` (the order in which a child ends: no new messages, the
verdict, the store, the memory), `StoreInv` (what the rows say of each other, also
during a restart), `DeliveredInv` (**CompletedMeansDelivered** from the verdict
on) and **NothingIsStranded** itself, which is inductive with the rest.
`StoreInv` has what no single step shows: once recovery has reached the
deliveries, no task is open and nothing is pending.

`SessionLifeProofs` proves for **every** set of connections, requests and
scenarios and any number of sessions (`SessionAssumption`):
**SessionTypeCorrect**, **LiveSessionIsCached**, **MemoryFollowsStore**,
**RolesFollowControl** and **OneAnswererPerPause**.  `SessionInv` adds `Unbuilt`
(a session that was not built is untouched), `Announced` (only an instance that
is closed has a `Closed` under way: what start_session_reclaim relies on),
`SlotInv` (who holds a slot), `Attached` (the presence of a session is exactly
its registered connections), `LoaderInv` (a loader that missed, with no session
built since, has read what is stored) and `PauseInv` (a pause is on its way to
the consumer, in the set, or with one request, and its event is under way once
at most).  `PauseInv` is stronger than the property it is for: without the
count of events under way, hearing one could bring back a pause that a request
has taken.  As in the loop, the parts do not go through the thirty actions:
`CoreMoves`, `ConsumerMoves`, `ConnMoves`, `HoldersMove` and the others say
once what a step does to an instance, a consumer, a connection or a pause.

`EventReplay` has three proof modules, each extending the one before, for
**every** set of scenarios and any number of turns, deltas, inputs, and any
channel and lag (`ReplayAssumption`).

`EventReplayProofs` proves **EventsTyped** (`[]EventTypeOK`) and
**StatusConverges** (`[]ViewsConverge`).  `NumberInv` says that entries of the
buffer, of the replay being sent and of the queue of the client are numbered
once, below the next number, and in the order of the queue.  `PauseInv` says
which pauses the channel still opens and closes: at most one is unanswered, the
one of the present turn, and a run neither starts nor ends with one open, so the
projection, which forgets all of them at those events, forgets none.  `ViewInv`
is the reason for convergence: the status sent to a client is *newer* than some
of the events that follow it, and these are applied on top.  It is inductive as
a statement about the last event in the queue that touches a pause (or the
activity): if there is one, it leaves the client with what the status says; if
there is none, the client has it already.

`EventShownProofs` proves **BlocksShownOnce** (`[]ShownOnce`): what the
snapshot, the replay and the live events show of the conversation is each block
once.  Its argument has two halves.  What the server holds
(`EventBufferProofs`): a block is emitted once (`FreshInv`); what is emitted and
not stored belongs to the turn under way, and an event that empties the tail of
the buffer comes after the rows of all that it throws away (`StoredInv`,
`RowsInv`); the tail is filled only inside a run (`RunInv`), holds blocks of one
turn (`SameTurn`, `NewTurn`) and all of that turn's stream (`Whole`), unless it
was trimmed half recorded (`torn`); and a compaction's entries are gone when its
row is there (`CompactInv`).  What the client gets (`EventShownProofs`): no
block is held twice (`HeldInv`); until the snapshot is sent, what was recorded
is in the rows or in the tail (`KeptInv`); the rows that were read are the rows
there are, and what the snapshot trims is exactly what it contains (`JoinInv`,
where `Whole` is needed: the trim compares the tail with whole messages); and
from then on a block stands once if it was recorded and is not awaited, and not
otherwise (`CountInv`).  Order does not enter: an entry is awaited if the
replay has not sent it, or the queue has it with a number the replay does not
cover.  So no induction over the queue is needed.  Results are the exception:
one that the snapshot's trim has not recognized stands although an entry of the
replay will bring it again, and then changes nothing.

It also proves **ChildStaysShown** (`[]ChildIsShown`), where order does enter: a
delta that comes after the message would be typed behind it for good.
`OrderInv` says that of two events of the child, whether held, queued or still
in the channel, the later one may follow the earlier one (`Follows`), and
`DateInv` how far the child has come when one of its events is there.  The
consumer has told of the message all of it or nothing, and the row is ahead of
that only as long as the event of the message is in the channel (`ChildRows`,
`ToldRight`).  Until the message is told, each piece of its text is in the
channel or in a delta of the buffer, which merging only makes larger
(`ChildKept`).  A calm connection reads the row exactly when it is told, and the
view open exactly when the child is alive (`ChildJoins`: spawning and ending the
task are rows too, so a calm connection has none of them on the way, and once
the end is told nothing of the child is held or comes, `Ended`: no replay opens
the view again).  From then on (`ChildShown`) the client has no view and gets
none (`Gone`), or it either has the message, and waits for nothing of
it, or has, in its view or on the way, every piece of the text; and its view is
open, or opens before any of this text reaches it.  Text being typed is only
bounded below: a merged delta keeps its first number, and may type a piece
twice.

Each invariant was checked by TLC on the instance of its run, or on smaller
ones, before it was proved.

Not proved: liveness (fairness and ENABLED are out of the prover's reach), that
is **ClosingCompletes**, **DeferredIsSettled**, **CompletionsAreDelivered**,
**StopEndsQuery**, **CompletionIsNotified** and **UnattendedIsReclaimed**.

## 5. Where code and documents disagree

Each of these is a run in which TLC finds the violation.

1. **orphan**: a `spawn_agent` call aborted between the entry of its task in
   the supervisor's table and its launch leaves a task that nothing runs;
   `close` waits for it for ever.
2. **auto_compact**: automatic compaction replaces the stored context by the
   memory of the run, without the notifications of the stop inbox; manual
   compaction flushes them first, for the reason its comment gives.
3. **plan**: the run an approved plan starts is explicit work, but only a
   submitted message closes the stop boundary and resets the cancel flag.
4. **retry**: an input sent again is compared with the stored one as a string
   with a JSON object (thread/core.rs:430), which are never equal: every
   repetition is answered with a conflict, where docs/protocol.md:76 promises
   that it is safe.
5. **events_lost**: a row written between the reads of the snapshot and the
   replay is in neither; the client never shows that block, where the order of
   subscription and registration in ws.rs is meant to exclude it.

Observed while modelling, and kept in the models as the code does it:

* handle.rs calls the gate's flag and the loop's `deferred_start` two sides of
  one fact; starting another internal run clears the flag alone.
* A client input accepted after the child settled is failed but missing from
  the count of undelivered messages of the task (thread/core.rs:381 and
  docs/protocol.md:78 say it is counted), and so is one failed by recovery after
  a crash between the settlement and the end of the task.
* The settlement counts every failed delivery of the task, also one that its
  sender was told of: such a task ends as failed.
* The start, the interruption and the end of any child query empty the whole
  table of pauses, also of main's.  An answer of the wrong type takes the pause
  out of the table and cancels it.
* The consumer's reclaim reads presence and then closes: a client that
  connects in between, or a handler that found the session before, can register
  on a session that is closing (thread/build.rs, thread/core.rs:155).  A session that no
  client ever connected to is not reclaimed.
* A controller who releases as the only client leaves connected clients without
  one (thread/presence.rs:73).
* A refused answer may put a pause back after the tool's result was heard.
* The view that a client opens between the child's stored end and its `Finished`
  has no history (section 3, **ChildIsShown**).
* A live `Finished` recorded after the snapshot that contains its row is shown
  twice; a compaction whose `Started` is recorded after the summary's trim
  stays in the buffer until the next run; merged deltas of a child keep their
  first number, so that text being typed may stand twice until its message is
  committed.

## 6. What is left

Planned next, in this order:

1. **Parents**: messages of a child to its parent, nested and synchronous
   tasks.
2. **Steps in recovery**: the rows of steps and tool uses, with
   `recover_interrupted_state` run twice.
3. **Task streams**: thirty streams, the limit of bytes, a client that lags.
4. **Permissions**, as operators, against a reference of the rule precedence.
5. **Fork and settings** of a project.

### Not modelled

Rendering, layout and input of the terminal client, Markdown, the text
processing of compaction, prompts, skills and configuration are sequential text
processing, most of the repository's lines, and covered by its unit tests.  The
tools, provider and MCP clients are I/O: for the models they end, fail or hang.
Permissions are a pure decision table.  Entities and protocol are declarations;
the transactions on them are actions of the models that use them.

## 7. Running it

```
tlc -config MCLoopSafety.cfg MCAgentLoop     # and so on, see PROJECT.json
tlapm RunAdmissionProofs.tla                 # and so on
```

| Run | Distinct states | | Proofs | Obligations |
|---|---|---|---|---|
| `events` | 4.6 million, 130 s | | `RunAdmissionProofs` | 503 |
| `loop_safety` | 1.6 million, 90 s | | `AgentLoopProofs` | 1045 |
| `tasks` | 474 thousand | | `TaskMessagesProofs` | 1234 |
| `session` | 347 thousand, 150 s | | `QueryTurnProofs` | 668 |
| `query` | 199 thousand | | `SessionLifeProofs` | 2945, four minutes |
| | | | `EventReplayProofs` | 1838 |
| | | | `EventBufferProofs` | 2532 |
| | | | `EventShownProofs` | 3801, four minutes |

The other runs are smaller.
