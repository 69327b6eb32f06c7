# Formal models of ARF

ARF is a Rust framework for agents that talk over a broadcast bus. This directory holds TLA+
models of its parts, TLC configurations that check them on small instances, and TLAPS proofs of
theorems about nearly all of them. The code is the reference: `PROJECT.json` maps every definition to
the lines it models.

## The system

| Component | State it keeps | Operations | Hard behaviour |
|---|---|---|---|
| Resource pool (`arf-pool`) | permits of a semaphore, idle queue, `total`, `pending`, a `Notify` | `acquire` under Block / Reject / Queue, `Lease::drop`, `provision_one`, `provision`, `release` | the resource of a dropped lease comes back from a spawned task, later than its permit; `Notify` coalesces wake-ups; timeouts race grants |
| Message bus (`arf-bus`) | command queue (256), registry of nodes with `last_ack`, broadcast ring; per handle a forwarding task and an inbound queue (16) | `connect`, `send`, `recv`, `disconnect`, `attach_to`, heartbeat tick, `shutdown`, `signal_shutdown`, `barrier` | lag, full queues, handles dropped without `disconnect`, several handles of one NodeId, tasks that keep each other's channels open |
| Engine (`arf-engine`) | the caller's `State` (messages, turn count, wait events), an inbound queue behind a filter fixed at connect | `run`: model turns, tool batches, permission requests, handoffs, five checkpoints | late answers, cancellation at any await, one failing call of a batch, answers the filter does not take, restart from a checkpoint |
| Outbox (`arf-engine`, `arf-session`) | event log (`OutboundSent`, `InboundReply`), LRU of reply ids | record and send, take or dispatch a reply, `resend_pending_outbound` | crash between record and send, repeated replies, best-effort writes |
| Session store (`arf-session`) | sessions, checkpoints, events, in SQLite or JSONL | `save`, `load`, `list`, `delete`, `snapshot`, `record_event`, `pending_outbound` | several statements without a transaction, a line and its newline written apart, a crash between |
| Registry, checkpoint rules, `DiscoveryCache` (`arf-engine`) | a frozen registry, cached receiver lists, cached skill text | `build`, tools and skills of a model turn, evaluate, `get_or_compute`, `invalidate` | a node that comes between the graph snapshot and the insert; a listener that lags |
| Subagent pool (`arf-subagent-pool`) | idle engines, semaphore | `delegate`, `populate`, `shutdown`, bus listener | `populate` beside `delegate`, State carried from task to task |
| Model adapter, compactor | conversation in each provider's form, retries, streams | answer `model_call`, compact | calls split over stream events, retries, pairs cut by a compaction |
| MCP tool nodes (`arf-mcp`) | tools and skills found, processes, cancellation senders | answer `tool_exec` and `tool_call_set`, run layers | dependencies, cascades, timeouts, one tool object for many calls |
| Pool nodes | a pool and a sub bus behind one node | acquire, forward, await, answer | late answers, timeouts, broadcast to several nodes |
| Backends (`arf-backend`) | files of several children behind prefixes | read, write, edit, upload, delete, ls, glob, grep, execute | overlapping prefixes, partial batches, edits that read and then write |
| Configuration (`py-arf`) | agent and team files | load, build, write | names YAML reads as something else, missing and misspelt keys |
| Python team, handles, relay (`py-arf`) | engine and state cells, mutexes, one node id per pool handle, file positions | `build`, `start`, `stop`, `delegate`, `run`, `chat`, `stream` | coroutines cancelled at any await, results for others, lines still being written |

Components meet on the bus. An engine, a model adapter, an MCP node or a UI is a NodeHandle;
requests and answers are matched by correlation id in `wait_for_strategy`. The pool is used by
the pool nodes of the model adapter and of MCP. The engine writes the session store at every
checkpoint and before every asynchronous request. The Python relay reads the store's JSONL files.

What makes each part correct: the pool loses no permit, no resource and no wake-up; the bus's
lifecycle messages agree with its registry, its calls return and its tasks end; the engine takes
the answer to its own request, can hear it, pairs every announced tool call with a tool message,
respects its turn limit and its token; the outbox sends what it recorded and does not repeat what
was answered; the store keeps what it acknowledged; a delegated task starts from a clean State and
its result reaches who asked; tools run in dependency order; several backends look like one.

## Modules

| Module | What it is |
|---|---|
| `Pool`, `MCPool`, `PoolProofs` | the pool, its instances for TLC, its theorems |
| `Bus`, `PromptBus`, `MCBus`, `BusProofs` | one bus with its handles, its theorems; `PromptBus` adds a history variable for how prompt tasks and readers have been |
| `MCBusBarrier` | `Bus`, and an instance of `Barrier` with two barriers, for TLC |
| `Engine`, `MCEngine`, `EngineProofs` | `run()`, its responders and a restart; its theorems |
| `Outbox`, `MCOutbox`, `OutboxProofs` | recording, sending, replies, crash and resend; its theorems |
| `SubagentPool` | the pool of ephemeral engines |
| `Team`, `Handles`, `PyNodeHandle`, `Relay` | the Python team, engine handles, node handle and event stream |
| `Delegation`, `DelegationProofs` | `Team`, `Handles`, `PyNodeHandle` and `Relay` side by side; theorems about them and about `SubagentPool` |
| `MCDelegation` | `SubagentPool` and `Delegation` for TLC |
| `PoolNode`, `Responder` | the pool facades, composed with `Pool`; the abstract responder they implement |
| `PoolNodeProofs` | the proof of that refinement, and backpressure |
| `Inbox`, `Barrier` | the engine's filter and waits; barriers over several buses |
| `MCMessaging` | `PoolNode` and an instance of `Inbox` for TLC |
| `Backends`, `BackendProofs` | the file backends behind one composite, its theorem |
| `SessionStore`, `ToolExec`, `Wiring`, `Conversation`, `Config` | the stores, an MCP node, registry and discovery, providers and compaction, configuration files |
| `AgentParts`, `AgentProofs` | `SessionStore`, `ToolExec`, `Wiring`, `Conversation` and `Config` side by side; theorems about them |
| `MCAgent` | `AgentParts` and `Backends` for TLC |

The four composite instances hold components that share no state. A variable `part` chooses the
component a behaviour follows and the others rest in an initial state: that checks each component
by itself, in one run.

Operators whose name begins with `Faulty` (in the first modules: whose comment says *seeded
fault*) are changed forms of a definition. No specification uses them; `PROJECT.json` pairs each
with a property that notices it.

### Pool

An acquirer is one caller of `acquire()`; `pc` is where its future stands. One action is one
stretch between two awaits or lock sections: `AcquireBlock`, `AcquireReject` and `AcquireQueue`
are the three arms of the match, `EnterPending`, `PollNotified`, `LeavePending` and
`RetryAcquire` the Queue path, `TakeResource` the pop with `try_acquire` and lazy provisioning.
`Lease::drop` is three steps, as in the code: the spawn of the return task (`DropLease`), the
permit (`DropPermit`), and in the task the push (`ReturnPush`) and the `notify_one` (`Announce`).
tokio's semaphore is a counter with a FIFO queue that hands permits over, its `Notify` one stored
wake-up and a FIFO of sleepers; both are marked external. `Faulty` are resources whose
`try_acquire` fails. `MaxUnannounced` bounds return tasks between push and notify.

### Bus

A handle is a NodeHandle object, and several may carry one NodeId. The broadcast channel is the
ring of its last messages and a count of unread ones per forwarding task; one more than the ring
holds means lagged. The command channel is bounded, and callers wait for room. `connect()` is two
steps (`Connect` and, once registered, `Subscribe`), as are `recv()` on an empty queue
(`RecvEmpty`, `RecvIsClosed`) and `shutdown(self)` (`ShutdownBus`, `DropBus`). Time is counted in
heartbeat ticks, `late[n]` being the ticks since the last ack. A connect that finds the broadcast
sender taken ends in phase `panicked`, which is what the `expect` at lib.rs:231 does.

### Engine

The conversation is kept as what the model API is strict about: `open`, the tool calls announced
by an assistant message that no tool message answers. `results` is what the batch gave so far, as in
`do_tool_turns_concurrent`; the place where a call ended is history. A request is known by its
correlation id alone; the round and the turn it was made at, which its answer echoes in `at`, are
history, which no guard reads. Responders may answer any request late, in any order or never. `Answered`, `WaitCancelled`, `WaitBreaks`, `Discard` and `DispatchIncoming`
are the ways out of, and around, the loop of `wait_for_strategy`; its `select!` is biased, so a
fired token wins. The error `Internal` of a closed bus may leave answers in the queue, because
`recv()` looks at the queue first and at the channel afterwards. `AtCheckpoint` is
`evaluate_and_dispatch` without rules: the token, the snapshot, then the next step. `Crash` drops
what is in memory and restarts from the last snapshot; answers to requests of the former process
may still come.

### Outbox

Persistent state is the highest attempt per id and the set of ids with a reply on record. `Record`
and `Send` are the two halves of every publish. A reply that is awaited (`TakeReply`), of the
awaited type but another id (`SkipReply`) or of another type (`DropDuplicate`, `Dispatch`) takes
its own path through `wait_for_strategy`, with what that path records. Every write and every send
may fail. A message of an application's own type (`custom`) is recorded, but
`reconstruct_message` cannot rebuild it. Requests have one recipient.

### SubagentPool

A slot is an engine and the State it carries. `delegate()` waits for a permit, takes or builds a
slot, runs, and recycles it (`TakeSlot`, `BuildSlot`, `RunOk`, `RunErr`, `RecycleSlot`, `Return`);
after a failed run the State is reset and the slot recycled like any other. `populate()` builds under the mutex of the idle queue, without
permits (`PopulateStart`, `PopulateBuild`, `PopulateEnd`). The listener serves one message at a
time. `Cancel` is the caller dropping the future. Of a State the model keeps whose messages it
holds; their number is the turn count that `max_turns` limits.

### Team, Handles, PyNodeHandle, Relay

`Team`: `build()` connects one node per engine and may fail in the middle; dropped handles stay
registered until `Evict`. All calls of `delegate()` on one pool handle share a node id, so a
second call is refused while the first one listens, and a later one, of the same coroutine or of
another, can hear results of earlier ones that timed out. A request is an id (`NewId`) and a task,
its result has both, and `delegate()` compares ids only. `Handles`: `run()` takes engine and state out of their cells and puts them
back; `chat()` and `chat_with_state()` hold the engine's mutex; a cancelled coroutine drops what
it carries. `PyNodeHandle`: `send()`, `recv()` and `disconnect()` hold the fair mutex of the handle
over their awaits, `disconnect()` empties the cell, and a cancelled call drops its place, its guard
or its result. `Relay`: the store writes a line and its newline separately, tailers read whole lines,
drivers push them into one channel, `Anext` parses, filters and numbers.

### PoolNode and Responder

A request is an acquirer of `Pool`, instanced with all its steps; `stage` is where the facade is
with it. The model facade has a task per request and a demultiplexer (`Demux`), the MCP facade
serves one at a time. A sub node answers what it has received, also after the facade gave up.
`Responder` is what an engine relies on: an answer only to who asked, one only, its own result or
an error. `ImplementsResponder` is the refinement, with the requests that reached the facade's
top handle as `asked`.

### Inbox and Barrier

`Inbox` computes the filter of the engine's handle from the declared routes, as
`engine_response_types` does, once, at `Build`; the requests are those the loop and the rules
send, each waiting for the type `response_msg_type_for` gives. A message of another type panics,
as in `Engine`. `Barrier` has several buses as logs with positions; `barrier_ack` goes to the bus
a handle connected to first; a barrier ends by its acks, its deadline, a lag or a closed bus.
`MaxLog` and `MaxApps` bound the broadcasts of a bus and the application's messages among them.

### SessionStore

SQLite is three tables and one action per statement; JSONL is a file of lines, and `open` says
that the newline of the last line is not yet written. `Crash` may come between any two writes and
the next process goes on with what is on disk, so that two records can end up in one line. Data is
a version number; what callers were told is history.

### Backends

A path is a sequence of components, a content a sequence of words. `CompositeIsFlat` compares the
composite, which routes by the longest prefix, strips it and adds it again, with one flat map of
absolute paths. Calls are atomic apart from `edit()` of a directory (`Edit`, then `EditWrite`) and
`execute()`.

### ToolExec

`DetectCycle`, `BuildInDegree` and `KahnSort` are executor.rs's algorithms; `SortsExactlyTheDags`
compares them with the definition of a partial order and of earliest layers, for TLC over every
relation of three calls. `dfs_cycle` is a function of the depth that is left: as every frame stands
on the stack once, no call goes deeper than there are calls. The calls of a layer run concurrently; a `ScriptTool` is shared by its calls, with its
table of senders, through which the timeout of a set cancels. Discovery of tools and skills and the
answers of a remote server are operators.

### Wiring

`Build` is `EngineBuilder::build` with its validations, for any order in which the hash map of
nodes may be iterated. `Connect` and `Disconnect` then change the graph; `TakeGraph` and
`Evaluate` are the two halves of a checkpoint, between which nodes may change; `Invalidate` and
`Lag` are the listener. `ModelTurn` collects tools from the live graph and skills through a cache
keyed by a hash over the lengths of names.

### Conversation

A message is its role, pieces of text, calls and the id it answers. The four `Convert…` operators
build requests, the `Parse…` operators read whole and streamed answers; `Api…` is the remote
service, which may answer, fail or send garbage, with each provider's retries.

### Config

A YAML mapping is a function on the keys present. `to_yaml` writes names unquoted, so a name in
`Ambiguous` is not text when it is read again. `LoadAgent` is the agent file with the defaults of
`parse_agent_yaml`.

## Runs

| Run | Properties | Bounds and why |
|---|---|---|
| `pool_queue` | `TypeOK` `PendingExact` `SleeperHasWaker` `AcquireReturns` | four acquirers on one resource, two may be pending: one leases, two sleep, one finds the queue full, and two returns can be announced before anybody polls |
| `pool_grow` | `PermitsConserved` `ExclusiveLease` `TotalExact` | three acquirers, `max_size` 2, three resources of which two fail `try_acquire`; the strategies Reject (with a provisioner) and Block (without) |
| `pool_closed` (violation) | `ClosedOnlyWhenClosed` | two acquirers, one resource, Block |
| `bus_shared_id` | `LifecycleMatchesRegistry` `ReadersStayOnline` `BarrierExact` | two handles of one id, command queue 2, ring 2, inbound 1, timeout of one tick: every queue fills and every task can lag; two barriers on one bus with a shared participant, which has a second bus to attach to first or later, one name listed twice, room for both requests and two acks in any order, a ring of three that these overrun, a shutdown at any point |
| `bus_live` | `CallsReturn` `ShutdownReleases` `AbandonedLoopEnds` | one handle, which may come back any number of times |
| `engine_rounds` | `AnswersMatch` `CallsPaired` `WaitsClean` `CancelStops` `RunsReturn` | an allowed, an asked and a denied tool, batches of up to two, `max_turns` 4 so that a round can end Ok after a batch and also be stopped at each of its five limit checks, two rounds so that answers of the first meet the second, one crash, after which the count of turns may be lower than before (837 thousand states) |
| `engine_panic` (violation) | `RunNeverPanics` | one tool, two rounds, no crash |
| `outbox_crash` | `RecordedIsSent` `AttemptsBacked` `DispatchedOnce` `AnsweredNotResent` | two peer messages, a handoff and a custom request, a dedup cache of one entry so that it evicts, one crash, which gives two copies and two replies |
| `outbox_resend` (violation) | `ResentOnce` | one request, two crashes |
| `delegation` | `NoInheritedFailure` `DelegatesReturn` `OwnResult` `TurnsKept` `HandleCallsEnd` `RelayExact` | two delegates and a message on two slots, so that one waits, with a `populate()` beside them; two coroutines that call the team's `delegate()` three times with two texts, so that the third call, a retry or not, hears what two that timed out left; three coroutines on one PyState with two engines and two handles; three coroutines on one node handle, so that two wait behind a `recv()`; two event files of two events over a channel of one place |
| `messaging` | `ImplementsResponder` `CallsAnswered` `DeclaredIsHeard` | two requests on one resource with one place to queue, two sub nodes of which one owns the tool; three sets of routes, two nodes that may leave, two requests so that an answer of the first meets the second |
| `agent` | `AckedStateLoads` `OutboxReplays` `SortsExactlyTheDags` `BlockedUntilSuccess` `OfferedIsRoutable` `StaleOnlyByRace` `NativeCallsPaired` `RosterRoundTrips` `CompositeIsFlat` | four calls per store, enough for a send, a crash inside it, its repetition and an answer; every dependency relation of three calls, two of them of one tool; three nodes and three changes of the graph, one between snapshot and insert; three model turns with up to two calls per answer; two routes of which one is below the other, two clients, three calls; a roster of one engine and one pool |

Symmetry is used among the handles of one id and among the two peer messages, in runs without
liveness properties. Deadlock is checked for the pool. The other components may really stop: a bus
that was shut down, an engine whose caller is done, a crashed process that nobody starts again.

### Fairness

A spawned or polled task runs whenever it can: weak fairness on the steps of `acquire()` and of the
return tasks, on the forwarding tasks and the message loop, on `EngineStep`, on the steps of
`delegate()`, `populate()` and the listener of the subagent pool, on the request tasks of a pool
node, on calls of a Python node handle and on an engine that polls its queue. The timer of the
heartbeat, the Block timeout and a request's response timeout fire. A lease is dropped in the end:
the pool nodes hold theirs for at most their response timeout. `CallsAnswered` needs neither the
facade's dispatcher nor its timer of 300 seconds. For `DeclaredIsHeard`, nodes that were asked
answer or leave. Otherwise nobody need call, cancel, answer, shut down or read; `RunsReturn` says
what it needs of the responders as its antecedent.

### What the violation runs show

* `pool_closed`: the lease's permit is free before its resource is back, and an acquirer that runs
  in between gets `Closed` from a pool that nobody closed (arf-pool lib.rs:337).
* `engine_panic`: a late answer of another type reaches `dispatch_incoming`, whose `blocking_lock`
  panics on a runtime thread (engine.rs:239).
* `outbox_resend`: a request whose resend is on record is resent at each restart, against
  engine.rs:1449.

### Properties outside the runs

The modules state some properties that no run lists, to keep the runs few. Proved (see below):
`TypeOK` of `Bus`, `Engine`, `Outbox` and `SubagentPool`; `CallsQueued` of `Bus`; `TurnsBounded` of
`Engine`; `SlotExclusive`, `EnginesBounded`, `AnsweredOnce` of `SubagentPool`; `Backpressure` of
`PoolNode`; `DisconnectLeaves` of `PyNodeHandle`. These hold when added to a configuration:
`SleeperWakes` of `Pool`; `ZombieLeaves` of `Bus`; `BarrierCompletes` of `Barrier`, which is what
`BarrierExact` comes to when the caller polls; `DelegateReturns` of `Team`; `ChatsReturn` of
`Handles`; `RelayDelivers` of `Relay`; `TimedSetsEnd` of `ToolExec`; `SearchReadsBack` of
`Backends`; `AnswerComplete`, `CallAnswered` of `Conversation`.

These are violated; each says what a comment, a doc or an obvious reading promises:

* `HoldersStayOnline` (`PromptBus`): a forwarding task that waits for room acks no heartbeat, so a live
  but idle handle is declared offline, against heartbeat.rs:173.
* `SignalCloses` (`Bus`): `signal_shutdown` on a full command queue is lost, against lib.rs:271.
* `MissingDidNotAck`, `AckReaches` (`Barrier`): a full ring makes the barrier's own listener lag, which
  is taken for a shutdown (lib.rs:345), so the barrier returns before its deadline with nodes
  `missing` that acknowledged, against lib.rs:284; `barrier_ack` goes to the bus connected first,
  whichever bus asked (connection.rs:326). Both are violated in
  `MCBusBarrier`.
* `PermissionIsHeard` (`Inbox`), `AskToolsHaveRoute` (`Config`): an ask-mode tool without a
  `permission_request` route waits for an answer its filter drops (arf-engine config.rs:105-107),
  and an agent file cannot declare routes.
* `LeasedAndIdleCapped` (`SubagentPool`): `populate` beside a running `delegate` makes more than
  `size` engines, against the comment on `idle` (lib.rs:83).
* `McpServesOn` (`PoolNode`): one refused `acquire()` ends the loop of the MCP facade.
* `AckedSendsPending` (`SessionStore`): a JSONL line torn by a crash swallows the next, acknowledged
  record (jsonl_store.rs:175).
* `StopDisconnects` (`Team`), `ChatIsSingleTurn`, `EngineRestored` (`Handles`): engines that
  `stop()` drops stay registered; `chat()` goes on with the handle's former State; a cancelled
  `run()` leaves its PyEngine empty.
* `RecvLetsPass` (`PyNodeHandle`): on a quiet bus `send()` and `disconnect()` wait behind a `recv()`
  for as long as no message comes (py-arf lib.rs:526).
* `RelayExact` (`Relay`) with `TornWrites`: a text seen half written is dropped as two bad lines.
* `UploadInOrder`, `KilledAtTimeout`, `LsIsAbsolute` (`Backends`): results of an upload come
  grouped by child, not in the order of the files; a command outlives its timeout; `ls` of a routed
  directory gives the paths of the child.
* `SkillsLive`, `CacheFresh`, `RoutableIsOffered` (`Wiring`): the skill text is cached by a
  hash over lengths of names; cached receivers go stale in the race and after a lag; tools of nodes
  on a bus that is not the first are routable and never offered.
* `RequestsPaired`, `ArgumentsDelivered` (`Conversation`): the engine keeps
  calls where `openai.rs:132` does not look, so its requests carry results without calls; streamed
  arguments in several fragments may reach the engine cut, as a string.
* `DescriptionRoundTrips`, `AnyNameRoundTrips` (`Config`): a description, and a name such as `42`,
  do not survive `to_yaml` and `from_yaml`.

## Proofs

`PoolProofs` proves for any finite sets of acquirers and resources, any `max_size`, any strategy:
`TypeOK`, `PermitsConserved`, `ExclusiveLease`, `TotalExact`, `PendingExact`, and, for Queue with a
provisioner and `max_size > 0`, `SleeperHasWaker`. None of them is inductive alone. The invariant
`PoolInv` joins the first five and adds that the two FIFO queues hold exactly acquirers that wait
there, nobody twice (`QueuesExact`), so that a hand-over moves one permit and a wake-up one sleeper,
and that an acquirer has a resource exactly while it has a lease (`LeaseExact`), so that moving a
resource from one place to another changes no count. `WakeInv` carries the wake-up argument on top
of it.

`OutboxProofs` proves for any set of requests, any capacity and any number of crashes: `TypeOK`,
`RecordedIsSent`, `AttemptsBacked`, `DispatchedOnce` and the action property `AnsweredNotResent`.
The inductive invariant adds to them: copies at peers and replies in the queue come from sends
(`Causality`), a request between its record and its send was never sent (`FreshRecord`), one between
a resend and its record has a send in hand (`ResentBacked`), what is still to be resent has no
reply on record (`TodoUnanswered`), every recorded request is sent, refused or still to be resent
(`AllSettled`), and a dispatched id is in the cache or was evicted (`DispatchCached`).

`EngineProofs` proves for any numbers of rounds, turns, calls, cancellations and restarts: `TypeOK`,
`CallsPaired`, `WaitsClean`, `TurnsBounded`, and the action properties `AnswersMatch` (a turn takes
the answer to its own request and throws none away) and `OwnAnswerKept` (a wait does not dispatch
away the message it waits for). `OpenInv` says which calls of a batch are open, by the place `run()`
is at: those still to come, those of earlier rounds, and the `Unanswered` ones, whose results say
why; `TurnsInv` bounds the turn count with what the rest of a batch may still add. `AnswersMatch`
rests on two facts about the requests somebody still works on, the queued answers and the awaited
request. `IdsUnique`: an id stands for one of them, and a restart from an older State hands none of
them out again. `MomentInv`: all but the awaited one were made at an earlier turn of this round or
in an earlier round, except a permission request of the same turn, which is of another type. The
first makes what is taken the awaited request's answer, the second what is discarded another's;
turns alone would not do, since a restart sets them back, and it is a new round.

`BusProofs` proves for any handles, ids, queue and ring sizes: `TypeOK`, `LifecycleMatchesRegistry`
and `CallsQueued`. The lifecycle invariant needs the shape of the ring (the cursors of lagged
receivers included), and `CallInv`: who waits in a call is in the command queue exactly once, so
that a command is never answered for a caller that left.

`LiveHandlesStayOnline` is about `PacedSpec`, which is `Bus` with its history variable: for any
handles, ids and queues, `ReadersStayOnline`. `PaceInv` says that as long as the pace is `read`, a
node id has one held handle, which is registered, and that it is late by at most the one heartbeat
that is on its way: unread in the ring, about to be acked by the forwarding task, or acked in the
command queue. The next tick comes to a loop without commands and tasks without messages, so it
finds none on its way and nobody late. The assumption: the timeout is at least one tick and the
ring has a place per node, because one tick may broadcast its own request and the departures of all
the other nodes; with fewer places a prompt task lags and loses the request. Both are parameters of
`Bus::new`; the defaults of the Python `Bus` are three ticks and 16 places.

`DelegationProofs` proves of `SubagentPool`, for any finite set of tasks, any size and set of engines: `TypeOK`,
`NoInheritedFailure`, `SlotExclusive`, `EnginesBounded`, `AnsweredOnce`. `PermitInv` says that
permits left and delegates that hold one add up to `size`; `SlotInv` that exactly the running and
recycling ones have an engine; `SizeInv` that idle engines and working delegates stay within `size`,
or twice that after a `populate()`; `HistInv` that an engine remembers successful runs only; `EndedInv`
and `MessageInv` tie a task's end to its stage and its answer. The hypotheses (`ConstantsOK`):
tasks are finite, messages are tasks, the values for nobody and no engine are unlike the others,
and `Engines`, if finite, has a name for each engine that can exist at a time.

`PoolNodeProofs` proves that the facade implements `Responder` (`ImplementsResponder`): an initial
state maps to an initial state, an answer to the step that answers, everything else to a stutter.
The refinement needs that a queued request is queued once (`QueueInv`) and that none is answered
before it gives its lease back (`AnswerInv`); it has no hypothesis on the constants.
`FacadeBackpressure` is proved with the invariant of `PoolProofs`, which an instance of that module
carries over: the actions of the facade's pool are steps of `Pool`. `LeaseInv` says that a request in
flight has its lease, `MapInv` that the pending map holds only requests that are under way.

Of the components in `Delegation` it proves `TurnsKept` and that no engine is run twice at a time for `Handles`,
`OwnResult` and `OneSubscriber` (one `delegate()` of a pool handle waits at a time) for `Team`,
`DisconnectLeaves` for `PyNodeHandle`, and `RelayExact` for `Relay`. `CarryInv`: a
State is in its cell or with exactly one coroutine, which has all turns; `EngineInv` the same for
engines, and the mutex belongs to who runs behind it; `WaitInv`: a call that waits owns the
subscription of its pool handle, whose node is online; `IdInv`: of the requests that the pool works
on and the results that wait in the subscription, those with the id a call waits for have its task,
for any coroutines, texts and numbers of calls; `NodInv`: one `disconnect()` takes the handle
out of its cell. The relay's invariant follows a text from the file to Python: a file is whole texts
and newlines in turn (`FileInv`), a line in hand or in the channel is one of its texts
or a newline left over (`LinesInv`), everything wanted that was read is given, queued or held
(`NoneLost`), and in the order of the file (`InOrder`). It assumes that no text is seen half written
(`TornWrites` is false); otherwise a line can be lost, see above.

`AgentProofs` proves eight invariants of an agent's surroundings.
`StaleOnlyByRace` of `Wiring`, for any nodes and buses of which the first is in the graph: until the
registry is built nothing is cached, and what an evaluation took from the graph is the graph of the
primary bus unless `raced` is set. `NativeCallsPaired` of `Conversation`, for replies with any
sequences of calls: the history is paired and has no system message before a compaction, the ids
still to be done are ids of calls in it, and the assembled request only shifts it.
`AckedStateLoads` of `SessionStore`, for any calls and crashes, in both stores: `SqlInv` says what
the tables hold by the statement a call is at, `JsonlInv` that the latest save line is at least as
new as the last acknowledged one. That load() finds the latest needs a maximum: the invariants
carry that one exists. The hypotheses: an event
is not called `save` or `snapshot`, and the value for nothing found is unlike a session.

`OutboxReplays`, of the same stores: `LogInv` says that the log a reader sees, a table or the lines
that parse, has the issued events in their order at increasing places and nothing else (`Mirrors`),
unless two records share a line. What `pending_outbound` computes from such a log is then argued
place by place: its sort gives increasing places of first sends, and places mirror the order of
issue. `OfferedIsRoutable` of `Wiring`: the loop over the declared resources keeps the registry
regular (each name in the index once, at a node whose binding admits the tool), by induction over
the resources, and the frozen registry stays so. `RosterRoundTrips` of `Config`: the file in the
state is what `to_yaml` makes of the saved roster, and `from_yaml` undoes each field, the filter
over `auto_subscribe` included; the hypothesis is that the fixed config name is itself plain text.

The two theorems about tool sets hold for any finite set of calls and any dependencies.
`ToolSetsAreSorted` compares algorithms with definitions. For `kahn_sort`, `KahnInv` says that an
in-degree counts the blockers that are not popped yet, so that a round's queue is exactly the calls
whose last blocker was in the round before; while calls remain that are on no cycle, one of them
has all its blockers popped, so the loop runs out of calls before it runs out of rounds. For
`dfs_cycle`, a *finished* set has all blockers of its members and, in each of its parts, a call
that nothing of the part blocks. A call of `dfs_cycle` that finds nothing turns a finished set of
visited calls (those not on the stack) into a larger one; one that finds a cycle does so because
the node reaches itself along the stack. Both are proved by induction on the depth, and within one
frame on the number of blockers looked at. `NothingRunsTooEarly` rests on the first: by `RunInv` all
layers before the one in progress succeeded, and what `cascade_cancel` reaches along `blocking` is
closed under it (`DoneInv`).

`BackendProofs` proves `CompositeIsFlat`, for any clients, paths, contents and batches. `with_route`
sorts its table, so after any number of routes it has the declared ones with prefixes that do not
get longer (`RoutesOK`); the first that fits a path is then the longest, which makes `resolve` find
the path's owner, and what it strips gives the path back under the owner's home (`ResolveIs`). The
inductive invariant `BackInv` adds that every child keeps only files it owns: then the absolute
path of a file tells its child, and what is shown changes at one path when a child's file does
(`PutKeeps`) and loses exactly a subtree when a child does (`DeleteKeeps`). An upload is an
induction over the buckets and one over their files (`BucketedIs`, `UploadedIs`). An
edit is two steps: the path it has resolved stays the owner's, as routes are fixed when clients
start. The hypotheses (`BackAssumption`): paths are sequences of names, a prefix and a child belong
to one route, the default child to none, and no prefix lies on the way from another
one to that one twice over (beside `/a` no `/a/a`). The last is needed because `resolve` hands a mount point to its child
unchanged: the file is shown at the prefix followed by itself, where another route could own it.
TLC evaluates `BackAssumption` for the instance of run `agent`, and found `BackInv` invariant there.

Induction over numbers is used in these proofs through the least-number principle (lemmas `Least`
and `CountUp`, from the well-foundedness of `<` on the naturals), so recursion is written as
recursive functions over numbers.

The assumptions elsewhere are the named `ASSUME`s of `Pool`, `Outbox`, `Bus` and `Engine`: types of the
constants, positive capacities, finiteness where a cardinality is taken. TLC evaluates them in
every run of those modules.

Only model-checked, and why:

* all liveness: fairness and `ENABLED` are beyond the prover.

## Observed and not stated as a property

* Without a provisioner a failing `acquire()` under Queue gives its permit back without a
  `notify_one`; a caller that queued meanwhile sleeps on although a permit is free.
* `pending` goes down when a waiter wakes, before it has a permit: more than n callers can wait
  under Queue(n). The doc can be read either way.
* `signal_shutdown` between the registration and the subscription of a `connect()` panics in the
  connecting task (lib.rs:231).
* `recv()` can report Closed and leave the last message in its queue.
* A cancelled or failed permission request, and a cancellation between the model's answer and the
  batch, leave a tool call without tool message, although engine.rs:970 says "no dangling
  tool_call_id"; so does a crash after the AfterModelCall snapshot.
* `turn_count` runs on over the rounds of a session, although
  docs/v1.x/phase10/03-state-persistence.md:481 calls it round-scoped; a long session ends in
  `MaxTurnsExceeded`.
* An awaited `human_handoff_reply` is never recorded and a `peer_reply` that comes while another is
  awaited is dropped unrecorded: both requests are resent at every restart.
* A store failure in `publish_and_await_query` leaves its wait event in the State.
* A node that connects between the graph snapshot and the insert leaves a stale list in
  `DiscoveryCache`; after a lag the listener that would clear it is gone.
* The JSONL store's `load` prefers the latest save to a later snapshot.
* An `acquire()` future dropped while it waits leaves `pending` raised; a Python program that cancels
  the coroutine of `Pool.acquire` does that.
* Tool sets: two calls with one id make an in-degree underflow (executor.rs:341); a call's own
  timeout leaves its sender in the table (script.rs:211); writing to stdin is outside the timeout
  (script.rs:160); the timeout of a set also cancels calls of the same tool in other sets
  (script.rs:253); a failing layer cancels later calls that do not depend on it (executor.rs:88).
* A notification before the answer in a remote server's event stream is taken for it and
  gives an error (remote.rs:244).
* `CompactRequest::correlation_id()` is a new id at each call; commands are recorded as outbound,
  are never answered, and are resent at each restart.
* A Discovery route that finds nobody sends to everybody; a wait with strategy All does not end
  when one recipient is offline; `every_n_rounds` of 0 divides by zero.
* The engine reads `usage.prompt_tokens`, the adapters send `input_tokens`; a provider's error
  becomes an empty answer; OpenAI requests are never retried.
* A misspelt permission word means Allow.
* The relay filters by a top-level `event_type` that the store's lines nest; files created after
  `stream()` are not tailed.
* `agent_id` and `system_prompt` of an EngineHandle block with the GIL held.

## Plan

1. `Engine` and `Outbox` composed, so that wait events and the event log fail together.
2. Proofs: the searches of `Backends`; the pool as an implementation of a
   counting allocator.

## Not modelled

HTTP and JSON syntax, wording of messages, what scripts do, middleware that applications write,
logging and metrics: data and I/O on which no property here depends. Most of the Python bindings
convert arguments and call code that is modelled. `arf-state` holds plain data. Cancelling an
`acquire()` future: only the Python `Pool.acquire` can, when its coroutine is cancelled. `PROJECT.json` gives the reason for each
component that has no module or is modelled in part.
