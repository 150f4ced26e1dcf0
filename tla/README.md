# A TLA+ model of Regulens

TLA+ modules that model the concurrent core of Regulens, the TLC configurations
that check them on small instances, and theorems about them that TLAPS checks for
every value of the constants. Paths are relative to `src/`.

## 1. The system

Regulens is a C++ program that monitors regulatory changes and hands compliance
events to agents. It is one process with many threads; its components are objects
that call each other, each with mutexes and condition variables of its own, and a
PostgreSQL database behind a connection pool. Nothing in the components below is
recovered after a crash: queues, registries and counters are in memory only.

| component | state it keeps | operations | who it talks to |
|---|---|---|---|
| AgentOrchestrator (`core/agent`) | task queue, worker threads, registry of agents, shutdown flag | submit_task, register/unregister/enable agents, health checks, shutdown | calls agents and task callbacks from its workers |
| ComplianceAgent (`core/agent`) | enabled, health, tasks in progress | process_event, health check | called by the orchestrator |
| CircuitBreaker (`shared/resilience`) | state, two counters, requests in flight, next attempt time | execute, force_open, force_close, reset | wraps calls of external services from any thread |
| ConnectionPool (`shared/database`) | connections, idle stack, counter | get_connection, return_connection, shutdown | regulatory monitor, event bus, knowledge base, audit, memory |
| EventBus (`shared/event_system`) | event queue, dead-letter queue, handlers, workers | publish, publish_batch, subscribe, unsubscribe, initialize, shutdown | calls handlers; persists through the pool |
| Regulatory monitor (`regulatory_monitor/production_regulatory_monitor`) | sources with failures and last check, the monitoring thread | add, update, remove, force_check_source, start and stop | web sites; database calls through the pool |
| Kubernetes operator (`infrastructure/k8s/operator`) | event queue, workers, controllers and what each has deployed | watch events, reconciliation, registration, run, shutdown | the API server |
| HumanAICollaboration (`shared/human_ai_collaboration`) | users, sessions, requests for assistance, a cleanup worker | sessions, messages, requests and responses, shutdown | web UI, agents |
| AgentActivityFeed (`shared/agent_activity_feed`) | bounded queues of events, statistics, subscriptions, a cleanup worker | record, subscribe, unsubscribe, cleanup, shutdown | calls its subscribers |
| Streaming and LLM clients (`shared/llm`) | sessions with parser buffers, timestamps of requests, one HTTP client | create_streaming_completion, check_rate_limit | LLM services; the callers' callbacks |
| ErrorHandler (`shared/error_handler`) | error history, component health, breakers of its own, fallbacks | report_error, execute_with_recovery, execute_with_circuit_breaker | clients of external services |
| EventProcessor (`shared/event_processor`) | event queue and a thread | enqueue, dequeue, shutdown | orchestrator |
| ToolRegistry (`shared/tool_integration`) | tools, rate limits | register, execute, health | agents |
| RedisClient (`shared/cache`) | a second connection pool | get/return, health check | caches |
| Data ingestion, feedback, memory, function calling, audit | buffers, background threads | see the sources | database |
| Agentic brain, risk, decision trees, UI, configuration, logging, metrics | little or none | scoring, HTTP, pages | external services |

What makes them hard, component by component:

* **AgentOrchestrator** - workers, submitters and shutdown share a queue under a
  mutex and a condition variable, but the shutdown flag is stored and notified
  outside it; agents throw; callbacks throw; the registry is changed while tasks run.
  Correct means: a task is with one worker, has one outcome, is not stranded; agents
  outlive the workers that use them; shutdown ends.
* **CircuitBreaker** - no two of its atomics change together. Correct means: the
  half-open limit holds, it opens, waits and closes for the documented reasons, and
  no state is a trap.
* **ConnectionPool** - callers borrow and often never return. Correct means: exclusive
  use, and a counter that explains where the slots are.
* **EventBus** - events are moved between five places under separate critical
  sections, and retried. Correct means: neither lost nor duplicated, retried a bounded
  number of times, routed eventually, the queue bounded, shutdown ends.
* **Regulatory monitor** - its thread works on copies of sources that others replace or
  remove meanwhile, and each check makes several database calls, any of which may get no
  connection. Correct means: due sources are checked, nothing removed comes back, no
  connection is kept.
* **Kubernetes operator** - stale listings and new notifications of one resource meet
  in a queue with several workers; creating something is a sequence of calls that fail.
  Resources are found by their plural, events by their kind, controllers by a key.
  Correct means: resources reach their controller, queued events a worker, what is
  remembered is what is deployed, and shutdown ends. The first and the third fail.
* **HumanAICollaboration** - users, a timeout and the shutdown all end sessions, and a
  session is begun in two critical sections. Correct means: one end for each, and none
  forgotten; what expired makes room. A session overwritten by one of an equal id has no end.
* **AgentActivityFeed** - callbacks run under a mutex; two limits and a cleanup take from
  the same queues. Correct means: the newest events without gaps, who subscribed hears,
  who unsubscribed does not.
* **Streaming** - the answer comes in chunks cut anywhere, a session can be ended in four
  ways, and all calls, streaming or not, share one HTTP client. Correct means: the tokens of the answer in
  order, one ending, the rate limit.

The hazards are listed in `PROJECT.json`, each with the line where it bites and the
properties that are about it, or a note that says why there is none.

## 2. The modules

| module | what it models |
|---|---|
| `TaskDispatch` | what the orchestrator promises of its queue: tasks are started in the order of submission, once each, and settled once |
| `AgentOrchestrator` | `core/agent/agent_orchestrator.cpp` with the parts of `compliance_agent.hpp` it uses; implements `TaskDispatch` |
| `CircuitBreaker` | `shared/resilience/circuit_breaker.{hpp,cpp}` |
| `ConnectionPool` | the pool of `shared/database/postgresql_connection.{hpp,cpp}` |
| `EventDelivery` | what the event bus promises of the events it accepts: delivered in the order of the queue, each by one worker at a time, repeated a bounded number of times, and not brought back once they are done or cleared |
| `EventBus` | `shared/event_system/event_bus.cpp`; implements `EventDelivery` |
| `RegulatoryMonitor` | `regulatory_monitor/production_regulatory_monitor.{hpp,cpp}`, its database calls left open |
| `MonitorOnPool` | `RegulatoryMonitor` on `ConnectionPool`: each of its database calls takes a connection, or does without, while others use the pool |
| `ResourceOperator` | `operator_framework.cpp` with one controller, that of `compliance_agent_controller.cpp`; the other two have the same shape |
| `HumanAICollaboration` | `shared/human_ai_collaboration.cpp` |
| `AgentActivityFeed` | `shared/agent_activity_feed.cpp` |
| `StreamingSessions` | `shared/llm/streaming_handler.cpp`, with the streaming call and the rate limit of `openai_client.cpp` and the callback and curl handle of `network/http_client.cpp` |
| `MC...` | the instances TLC checks |
| `Selection` | the loop that keeps some elements of a queue, as a recursive function; `EventBus` uses it for `Collect` |
| `SequenceFacts` | lemmas that several proofs need: what Append, Tail, concatenation, dropping the last element and `Select` do to the elements; induction and recursion over the natural numbers; the first and the last number of a set |
| `...Proofs` | theorems and proofs about the module they are named after; `MonitorOnPoolProofs` has those about the pool by itself, too. `InfrastructureProofs` has those about the breaker and those about the operator |

`PROJECT.json` names, for every definition, the lines it translates. Operators whose
name contains `Mutant` are not part of the model: each is a plausible slip in the
definition after it, and shows that the property it is listed with can fail.

**A step** is what the code does under one mutex, or with one atomic. What is local to
a thread between two such points is in the same step.

### AgentOrchestrator

`pc[w]` is where worker `w` is in `worker_thread_loop` and `process_task`; `task`,
`agent` and `ok` are its locals. `call[t]` is where the `submit_task` of task `t` is:
the flag is tested, the task pushed and the worker notified in three steps.
`condition_variable::wait` is two steps, `Acquire` (lock, evaluate the predicate) and
`Block` (release and sleep), and the mutex is held in between: a notification that is
sent without the mutex can fall between them. `SpuriousWakeup` may happen at any time.

`FindAgent` runs under `agents_mutex_` and `CheckAvailable` after it; `Start`, then
`Returned` or `Threw`, are the two sides of `process_event`. `Finalize` counts the
outcome and calls the callback; when the callback throws, or `process_event` did,
`Recover` is the catch block, which finalizes once more. A callback that throws there
leaves a thread function, which is `std::terminate`; nothing happens afterwards.

`results` (outcomes of each task) and `leaked` (calls of `process_event` that threw)
are history variables. An agent with CRITICAL health does not occur: nothing in the
repository stores it.

### CircuitBreaker

`pc[c]` is where caller `c` is in `execute`, `on_success` or `on_failure`; `seen` and
`count` are the locals those keep across steps. `get_current_state` is three steps:
the load, the compare-exchange, and the second store of HALF_OPEN by
`transition_to_state`. Time is one bit, `elapsed`. The counters stop at their
thresholds because the code only compares them with these. `waited` is a history
variable: whether a backoff has passed since the circuit opened.
`get_current_state` is declared const and assigns members that are not mutable; the
model does what the body says.

### ConnectionPool

Every operation is one step under `pool_mutex_`. A connection is its place in
`connections_`. `Abandon` is what most callers do: they take a connection and let the
pointer go. `Reconnect` is a client's disconnect-and-connect, with either result.
`lost` is a history variable: borrowed connections that did not come back.

### EventBus

`pc[w]` is where worker `w` is in `event_processing_loop`, `call[e]` where the
publishing of event `e` is, `letters` and `retrying` where the dead-letter thread is
and what it holds, `main` the thread that initializes and shuts down. `wait` is two
steps as above. `Route` runs the handlers under `handlers_mutex_`; when one throws, the
worker keeps that mutex until `Bury` has put the event into the dead-letter queue, and
in between nobody routes or subscribes. `Collect` empties the dead-letter queue under
`queue_mutex_`, `Requeue` takes the mutex a second time and pushes what is retried.
`Init` is the state after `set_worker_threads` in `initialize`: the workers run and
`running_` is still false. `attempts` and `settled` are history variables.

`EventDelivery` has no threads: `accepted` are the events the bus has pushed, `queue` is
`event_queue_`, `delivering` are the events of workers in `Route`, `failed` those of
workers in `Bury`, of the dead-letter queue and of the dead-letter thread, `done` is
`settled`. A worker that takes an event is `Start`; `Route` is `Deliver` or `Fail`;
`Collect` is `GiveUp` of what it does not retry, `Requeue` is `Retry`, and `ClearQueues` is
`Clear`, which nobody with an event to put back may survive. All else is a stutter.

### RegulatoryMonitor and MonitorOnPool

`pc`, `due`, `checking` and `op` are where the monitoring thread is: in its loop, in
`check_all_sources` with the ids it has collected, in `check_source` with one of them, at
one of the database calls. `Ask` borrows a connection or is refused, `Write` executes and
gives it back, `Apply` is the bookkeeping in memory under `sources_mutex_`. A page has
one new item or none. Time points are integers that overflow like the 64-bit ones they
are (`Minus`), since `force_check_source` stores the smallest one. `add_source` and
`update_source` store whatever record their caller gives them (`Given`): any number of failures,
any last check, active or not. `MonitorOnPool`
extends the pool and instantiates the monitor: `Ask` is `GetConnection` of the client
`monitor`, `Write` its `ReturnConnection`, and the rest of the pool belongs to the other
clients.

### ResourceOperator

`work_queue` is shared by the watch callback, the thread in `run` that lists resources
now and then, and the workers, whose `wait` is `Acquire` and `Block` as in the
orchestrator. An event is handled in one step, because `processResourceEvent` holds
`controllers_mutex_` from end to end; a creation or an update that fails on the way
leaves what it has made so far. The controllers are stored under one key, so that there
is one. `cluster` is what users want, `deployment` what the API server has, `active_agents`
what the controller remembers. `wire` holds the notifications under way, in order. A worker
that locks `agents_mutex_` a second time is `"stuck"` and keeps `controllers_mutex_`.

`registerController` stores every controller under the key "generic" (`ControllerKey`). Watch
and listing ask the API server for that plural; a notification carries the kind of its
resource, in lower case, and `processResourceEvent` looks for a controller of that name
(`Found`), while a listed resource gets the key whatever its kind (`ListedEvent`). The
constants `GenericPlural` and `GenericKind` say which resources the plural and the kind
"generic" are those of; of the repository's ComplianceAgents, none. A watch is started only
for the controllers there were at `initialize` (`watched`), and delivers notifications of
other types too (`Bookmark`), which `handleWatchCallback` drops.

The API server is outside, behind the interface `KubernetesAPIClient`. The repository
has a stub of it, which never refuses, lists nothing, and whose watch delivers one change of
a made-up resource, of the kind that was asked for. The model has what the interface
allows, the stub's answers among it: a call fails, succeeds, or is applied and then fails (a
timeout, an answer without a name), and a listing is empty or complete. The names that the
breaker's module has, too, begin with `Operator` here.

### HumanAICollaboration

`calls` are the threads between validating the user and locking `sessions_mutex_`.
Session and request ids are made of names and milliseconds, so that two of one unit of
time may be equal: the later one then replaces the earlier, which is never completed
(`overwritten`). The configured
`request_timeout` is read by nothing; requests live for the constant hour of
`human_ai_interaction.hpp`. `cleaner` is the worker, which waits on a condition variable
without a predicate; `stop` the thread that initializes and shuts down, again and again.
`created`, `ends`, `overwritten` and `before` are history variables.

### AgentActivityFeed

`pc[r]` is where the thread `r` is in `record_activity`: the event is made (with its time),
stored, counted without a mutex, and told to subscribers one by one under
`subscriptions_mutex_`. A callback that subscribes or unsubscribes locks that mutex
twice: its thread is `"stuck"` with it. A filter is its `end_time`, which the default
filter sets to the moment it was made; the list of agents in a filter is read by nothing.

### StreamingSessions

Each thread in `Callers` makes one call of `create_streaming_completion`, in a session of
its own. An answer is a sequence of symbols: an event, then two line ends; `Receive` takes
any number of them, so that a chunk ends anywhere, also between the line ends.
`Extract` is `extract_events` as a recursive function over the buffer, one symbol at a
time (`Scan`), and `Parsed` is `parse_chunk`, for texts of several events too;
`Process` is one round of `process_events`. `Recent` is the loop of `check_rate_limit`
that pops from the front what is `Outdated`; the clock, which is `system_clock`, is taken
never to be set back. `streaming_callback` is the one callback of the `HttpClient`, which the
next call overwrites; libcurl refuses a second transfer on a handle that is in use
(modelled from outside).

Another thread's request that does not stream (`OtherRequest`) passes the same rate check and
then, in `HttpClient::post`, sets the options of the same curl handle (`OtherPost`), also
while a call streams: `write_function` is what CURLOPT_WRITEFUNCTION was set to last, and a
chunk that arrives under `"body"` does not come to a session. It is written to a response
that may be gone by then; what that does to memory is undefined, and the model has it lost.
What of the other request's own body a streaming call directs to the callback holds no event,
and is left out. `crossed` has every call that met another one in the HttpClient, streaming
or not.

`handle_api_error` calls `report_error`, which locks
`error_mutex_` and then calls functions that lock it again; the call stays at
`"report_error"`. `heard`, `endings`, `passed` and `crossed` are history variables.
Nothing in the repository calls the streaming functions yet; the model has the calls
their interface invites.

## 3. What TLC checks

### Runs that pass

| run | instance | shows |
|---|---|---|
| `OrchestratorTasks` | 2 workers, 3 tasks (one a health check, one with a throwing callback), 1 agent | `TypeOK`, `TaskInOnePlace`, `OneOutcome`, `InProgressExact`, `NoStrandedTask`, `AgentsOutliveWorkers`, and `DispatchSpec`: the orchestrator implements `TaskDispatch` |
| `OrchestratorLive` | 2 workers, 2 tasks, 1 agent, fair | `AcceptedIsSettled` |
| `Breaker` | 2 callers, limit 1, thresholds 1 and 2, an operator, fair | `HalfOpenLimit`, `NotOpenForever`, `NotHalfOpenForever` |
| `BusEvents` | 2 workers, a batch of 2 and a single event, a queue of 2, a faulty handler, expiry, 1 retry | `TypeOK`, `NeverTwice`, `NeverLost`, `NoStrandedEvent`, and `DeliverySpec`: the bus implements `EventDelivery` |
| `BusLive` | 1 worker, 2 events, a faulty handler, fair | `PublishedIsAttempted` |
| `MonitorOnPool` | the monitor and a client, 1 to 2 connections, 1 source, stored with any record, a limit of 2 failures, 2 units of time, fair | `SystemTypeOK`, `ExclusiveUse`, `AccountsBalance`, `IdleConnected`, `RemovedStaysRemoved`, `DueIsChecked` |
| `Operator` | 2 workers, 1 resource of the plural and kind "generic", 3 specs (one invalid, one that lists sources), 2 changes from outside, fair | `OperatorTypeOK`, `NoneMissesShutdown`, `QueuedIsTaken`, `ShutdownReturnsUnlessStuck` |
| `Collaboration` | 2 calls of create_session at a time, 3 sessions, 1 user, 1 agent, 2 units of time, fair | `TypeOK`, `OneEnd`, `ShutdownEndsSessions`, `CleanupSettles` |
| `ActivityFeed` | 2 recording threads, 2 agents, 3 events, 2 subscribers, one of whom calls back, fair | `TypeOK`, `KeepsNewest`, `CallsOnlySubscribers`, `SubscribersHear` |
| `Streaming` | 2 calls, answers of 2 events, another request that does not stream, a limit of 1 per window | `TypeOK`, `OneEnding`, `StreamsAsSent`, `WithinRate` |

### Runs that find a disagreement

Each states what a comment or a document of the code says, and TLC finds a behaviour
of the code that breaks it. `PROJECT.json` quotes the lines.

| run | property | what happens |
|---|---|---|
| `OrchestratorShutdownHang` | `ShutdownCompletes` | lost wakeup, join() does not return |
| `ForcedCheckIgnored` | `ForcedIsChecked` | subtracting the smallest time point overflows, and the source is not due |

Further disagreements, each with the configuration that shows it; they are
not among the findings of `PROJECT.json`. Where a second property is named in
brackets, put it in place of the configuration's own:

| configuration | property | what the code says, and what happens |
|---|---|---|
| `OrchestratorNoOutcome.cfg` | `AcceptedGetsOutcome` | agent_orchestrator.hpp:139 "Submit a task for agent processing": a task that is still queued when shutdown sets its flag is dropped, and its callback never called |
| `OrchestratorNoOutcome.cfg` | (`ClearedAgentsAreDown`) | agent_orchestrator.hpp:114 "Shutdown all agents and cleanup resources": one registered during shutdown is dropped without its own shutdown |
| `OrchestratorDegraded.cfg` | `DegradedOnlyWhenBusy` | compliance_agent.hpp:141 "Check if agent is processing too many tasks": exceptions leak the in-progress counter, and an idle agent is reported DEGRADED |
| `BreakerEarlyRecovery.cfg` | `RecoveryWaits` | circuit_breaker.cpp:301 "Recovery timeout elapsed": OPEN is visible before next_attempt_time_ is set |
| `BreakerForcedOpen.cfg` | `RecoveryWaits` | the same: force_open sets no next_attempt_time_, so the next request goes through |
| `BreakerLateHalfOpen.cfg` | `HalfOpenOnlyFromOpen` | circuit_breaker.cpp:145 "Atomically attempt to transition to HALF_OPEN": the second store of HALF_OPEN reopens a recovery that is over |
| `BreakerForcedOpen.cfg` | (`FreshRecovery`) | circuit_breaker.hpp:71 "Successes needed to close circuit": force_open keeps those of the phase before, and they count |
| `BusLostWorker.cfg` | `WorkersServe` | event_bus.cpp:78 "Default to 4 worker threads": one that starts before running_ is set exits at once |
| `BusSilentRetry.cfg` | `RetryIsRouted` | event_bus.cpp:511 "Retry eligible events": a retry is queued without a notification |
| `BusSilentRetry.cfg` | (`ShutdownReturns`) | event_bus.cpp:104 "Wake up all waiting threads": the lost wakeup of `OrchestratorShutdownHang`, in the bus |
| `BusOverflow.cfg` | `QueueBounded` | event_bus.cpp:169 "Check queue size limit": retries are pushed past it |
| `MonitorStoresTwice.cfg` | `StoredOnce` | production_regulatory_monitor.cpp:499 "ON CONFLICT (id) DO NOTHING": the id contains the time of the check, so the next check stores the same item again |
| `OperatorKinds.cfg` | `LifecycleIsManaged` | compliance_agent_controller.hpp:22 "Manages the lifecycle of ComplianceAgent custom resources": watch and listing ask for the plural "generic" (operator_framework.cpp:492, 557, 676), that of a ComplianceAgent is complianceagents (crds/compliance_agent_crd.yaml:269), and its kind would find no controller either (612, 649): it never reaches its controller |
| `OperatorSelfLock.cfg` | `ShutdownReturns` | operator_framework.hpp:320 "Shutdown the operator": configureRegulatorySources locks agents_mutex_, which its caller holds |
| `OperatorSelfLock.cfg` | (`WorkersRun`, an invariant) | operator_framework.hpp:391 "Start worker threads": one that starts before run() sets running_ exits at once |
| `OperatorSelfLock.cfg` | (`ActiveIsDeployed`, an invariant) | compliance_agent_controller.cpp:187 remembers a spec only when its update has succeeded: an update that the API server applies and answers as failed leaves the new deployment and the old memory |
| `OperatorSelfLock.cfg` | (`DeletedIsForgotten`) | a listing from before a deletion is handled after it, and the resource comes back |
| `OperatorSelfLock.cfg` | (`DeletedIsCleanedUp`) | compliance_agent_controller.hpp:143 "Clean up agent resources on deletion": the deployment stays |
| `CollaborationLateSession.cfg` | `NoSessionAfterShutdown` | human_ai_collaboration.cpp:59 "End all active sessions": a call that validated its user before creates one afterwards |
| `CollaborationLateSession.cfg` | (`NotifiedIsAwake`, an invariant) | human_ai_collaboration.cpp:49 "Wake up cleanup thread": the wait has no predicate, and the notification may come before it |
| `CollaborationLateSession.cfg` | (`NoneOverwritten`, an invariant) | human_ai_collaboration.cpp:107 "Create new session": a session of the same user, agent and millisecond replaces the earlier one, which is never completed |
| `CollaborationStaleUser.cfg` | `BeginsAuthorized` | human_ai_collaboration.cpp:76 "Validate user exists and has permissions": they may change before the session begins |
| `FeedKeepsOld.cfg` | (`DefaultFilterHears`) | agent_activity_feed.hpp:57 "Function to call when new activities match the filter": the default filter ends when it is made |
| `FeedKeepsOld.cfg` | (`CountsAll`, an invariant) | agent_activity_feed.cpp:129 "Update statistics": without a mutex, an increment is lost |
| `FeedKeepsOld.cfg` | `CleanupRemovesOld` | agent_activity_feed.cpp:311 "Remove old events": it stops at the first that is new, and an older one may have been stored after it |
| `StreamingErrorReturned.cfg` | `ErrorIsNoSession` | openai_client.hpp:240 "Streaming session or nullopt on error": a session that an error event has failed counts as completed |
| `StreamingErrorReturned.cfg` | (`HearsOwnAnswer`) | openai_client.cpp:828 "Set up streaming callback for real-time processing": the next call overwrites it, and hears the answer |
| `StreamingErrorReturned.cfg` | (`EndedIsRemoved`) | streaming_handler.hpp:327 "Get active session count": nothing removes a session that is complete |
| `StreamingCarriageReturn.cfg` | `StreamsAsSent` | streaming_handler.cpp:34 "Remove trailing \r if present": with CR LF line ends extract_events finds no event at all |
| `StreamingNoReturn.cfg` | `FailureReturns` | as above, "nullopt on error": report_error locks its mutex twice and never returns |

### The bounds, and why they are enough

* Two workers show every interference the orchestrator and the bus have: one worker in
  each of two places, one blocked while the other runs, both blocked. Nothing in the
  code counts workers. The theorems of section 4 hold for any number.
* The agent of `OrchestratorTasks` is registered, disabled, unregistered and shut down
  while workers look for it and use it; a second agent would only be a second such.
* Tasks and events are submitted once each; there are as many as there are kinds of
  them in an instance (plain, health check, throwing callback), plus one to queue
  behind another. `BusLive` has one worker, which keeps its graph small: with two, a
  notification has more takers, never fewer, and `OrchestratorLive` checks the same
  protocol with two workers.
* The breaker needs two callers for a race on the state, and the same two to go over a
  limit of one. A success threshold of 2 tells one success from enough of them; with a
  failure threshold of 1 the circuit opens as soon as it can, which is where the traps
  would be. `HalfOpenLimitHolds` covers every other size.
* The monitor and one other client on at most two connections let the pool run dry,
  create on demand, lose slots and be returned to out of order; the pool's theorems hold
  for any numbers. One source is enough for the monitor: sources only share the thread,
  and `due` is emptied in any order. Failures reach their limit of 2, the clock passes the
  interval twice, and `HalfRange` is large against both, so that only the smallest time
  point overflows. The row count stops at 1 (2 in `MonitorStoresTwice`). `MaxCount`, above the
  limit of failures, bounds the count in a record a caller stores.
* One resource in the operator: events of different resources share only the queue and
  the mutexes. Two changes from outside are a creation and an update or deletion, or
  the controller going and coming back; with two workers, two events of the resource are
  in different hands. `MaxQueue` keeps the listing from filling the queue; the code sleeps
  between listings instead. The resource of `Operator` is one that the operator can find, so
  that its queue is used; the one of `OperatorKinds` is a ComplianceAgent. With
  `GenericPlural` and `GenericKind` both `{r1}`, `LifecycleIsManaged` holds in that instance:
  it is the names that break it; with the kind alone left empty it fails as well.
* Two calls of `create_session` meet each other, the worker and the shutdown; a third
  session lets one begin after a shutdown. `SessionTimeout` and `RequestLife` of 0 make
  everything that is a unit old expire.
* Two agents of the feed let one push the other's events out, three events go over both
  limits of 2. One subscriber calls back, the other does not.
* Two streaming calls for everything the shared client does; two events put an ending
  before a token and after it. One request a window, and a window of one unit, have the
  clock pass the edge.
* No state constraint is used. All instances are finite because tasks, events and
  retries are, `Bump` bounds the breaker's counters, and the bounds named in the constants
  (`MaxNow`, `MaxTime`, `MaxRows`, `MaxChanges`, `MaxCreated`, `MaxEvents`, ...) stand in guards.
* Symmetry (workers, callers) is used in runs without a liveness property.
* Deadlock is checked for the breaker only. The other instances may all end: everything
  submitted, shut down, the clock at its bound, nothing left to do.

### Fairness

`FairSpec` of each module: every thread that can take a step eventually does (weak
fairness), and a thread that waits for a mutex that is free again and again gets it
(strong fairness of the steps that lock) - `std::mutex` makes no promise, but the
critical sections are short and the platform's mutexes do not starve. Agents and
handlers return from their calls; time passes; requests keep reaching the breaker. A
shutdown that has begun goes on, but none is owed. Spurious wakeups are never owed:
counting on them would hide the lost wakeups.

* `MonitorOnPool`: the monitoring thread runs (its requests are answered or time out),
  and a stop that has begun waits for it. No operation of others is owed.
* `Operator`: each worker runs, the thread in `run` and a shutdown that has begun go on, and
  calls of the API server return, if only with an error; that one succeeds is not owed.
  Watch notifications are owed only in `DeliveringSpec`, of `OperatorKinds.cfg` and
  `OperatorSelfLock.cfg`.
* `Collaboration`: the cleanup worker runs. `ActivityFeed`: some thread of those that
  record goes on. `Streaming`: only the refutation `FailureReturns` needs that callers run.

## 4. What TLAPS proves

For every finite set of workers, callers or clients and any tasks, agents, sources and
limits that satisfy the assumptions of the modules (`ConstantsOK` and its like):

| theorem | states | how |
|---|---|---|
| `TypeCorrect` | `Spec => []TypeOK` (orchestrator) | inductive as it stands, action by action |
| `TaskInOnePlaceHolds` | `[]TaskInOnePlace` | `PlaceInv` adds that queued and held tasks are ones `submit_task` has pushed: only so is a task being pushed known to be nowhere yet |
| `OneOutcomeHolds` | `[]OneOutcome` | `OutcomeInv`, on top of `PlaceInv`: a task that is not pushed, is queued, or is with a worker before `finalize_task_execution` has no outcome; in the catch block it has at most the one whose callback threw |
| `AgentsOutliveWorkersHolds` | `[]AgentsOutliveWorkers` | `OutliveInv` adds that a worker outside `process_task` holds no agent and that after the join every worker has exited |
| `NoStrandedTaskHolds` | `[]NoStrandedTask` | `StrandInv` adds that a worker about to block holds the mutex, with the queue empty, and that no worker exits before shutdown |
| `InProgressIsExact` | `[]InProgressExact` | cardinality of the workers inside `process_event`, one lemma per way in and out |
| `OrchestratorRefinesDispatch` | `Spec => DispatchSpec` | every step is Submit, Start, Discard, Settle or a stutter, under `PlaceInv` |
| `HalfOpenLimitHolds` | `[](TypeOK /\ HalfOpenLimit)` (breaker) | types and limit together: that `active_requests_` does not go below zero follows only from its being the number of probes |
| `ExclusiveUseHolds`, `AccountsBalanceHolds`, `IdleConnectedHolds` | of the pool | `PoolInv` bounds idle and borrowed connections by `connections_`, keeps them apart, and holds the two balances |
| `SystemImplementsPool` | `SystemSpec => Spec` of `ConnectionPool`, for the monitor with the pool | every database call is a step of the client `monitor` or leaves the pool alone; `SystemExclusiveUse`, `SystemAccountsBalance` and `SystemIdleConnected` follow |
| `OperatorTypeCorrect` | `[]OperatorTypeOK` | `OperatorInv` adds that a worker in `processResourceEvent` has an event |
| `NoneMissesShutdownHolds` | `[]NoneMissesShutdown` (operator) | with `BlockingOK`, that a worker about to block holds `queue_mutex_`: so `notify_all`, sent under that mutex, leaves no worker waiting - the safety half of `ShutdownReturnsUnlessStuck`, and what the orchestrator and the bus, which notify without the mutex, do not have |
| `OneEndingHolds` | `[]OneEnding` (streaming) | `EndInv` adds that a session is active from its start to its end, so that the two ways to return have ended it |
| `WithinRateHolds` | `[]WithinRate` | `RateInv`: `request_timestamps_` is the end of the history `passed`, all before it is outdated, and of `MaxRequests + 1` consecutive requests the last passed more than a window after the first; a pigeonhole over the places of the requests in one window ends it |
| `TypeOKHolds` | `[]TypeOK` (streaming) | `HttpInv` says whose transfer the callback belongs to, so that every chunk the callback gets comes to some session; `ExtractType` and `ParsedType` follow the parser through any text |
| `StreamsAsSentHolds` | `[](LineEnd = <<LF>> => StreamsAsSent)` | see below |
| `BusInvariant`, and `TypeOKHolds`, `NeverTwiceHolds`, `NeverLostHolds`, `AttemptsMatchRetriesHolds`, `NoRetryAfterClearHolds` | five invariants of the bus, of which the last two are steps of the refinement and no run's property | `BusInv`: `HoldsOK` (a worker has an event exactly while it routes or buries it), `BatchOK`, `ThreadsOK` (the dead-letter thread holds events only between its two halves, and all threads have exited before the queues are cleared), `PlacesOK` and `CountsOK` (where an event is tells how often it was routed); none of the five is inductive alone |
| `NoStrandedEventHolds` | `[]NoStrandedEvent` | on top of `BusInv`: `FlagOK` (`running_` is true while the bus is up, and nothing was accepted before), `BlockOK` (a worker about to block holds the mutex and has found the queue empty) and `RetriedOK` (what `Requeue` pushes without a notification was routed before) |
| `BusRefinesDelivery` | `Spec => DeliverySpec` | every step is Accept, Start, Deliver, Fail, GiveUp, Retry, Clear or a stutter, under `BusInv`: that a retried event has attempts left comes from `CountsOK`, that none is with a worker or the dead-letter thread at the clear from `ThreadsOK` |
| `CollaborationInvariant`, and `TypeOKHolds`, `OneEndHolds`, `ShutdownEndsSessionsHolds` | the three invariants of the collaboration | `CollaborationInv`: sessions are told apart by their numbers, which go up to `created`; the count of ends of a number is 1 exactly if it was given, is not active and was not overwritten; the limits are counted over sets that change by one session, or by any set of those that time out |
| `FeedInvariant`, and `TypeOKHolds`, `KeepsNewestHolds`, `CallsOnlySubscribersHolds` | the three invariants of the feed | `FeedInv`: every queue is `IsNewest` (an agent's last stored events, without a gap), the events stored and those about to be are no more than were made, the events counted and those about to be no more than were stored, and whoever calls subscribers holds `subscriptions_mutex_`; `Total`, which the limits compare, is the number of places in all queues and changes by one with each push and pop |
| `SystemTypeOKHolds` | `[]SystemTypeOK`, for the monitor with the pool | `MonitorInv` adds that a source still to be checked is below the limit of failures, so that the count never passes it, and that no second thread is started; that the thread's connection is the one of its command comes from `PoolInv` |
| `RemovedStaysRemovedHolds` | `SystemSpec => RemovedStaysRemoved` | the action property, step by step: only `Apply` writes `sources` in a step of the thread, and it writes a source that is there |

`StreamsAsSentHolds` is the theorem about data. `StreamAt(c, k, r)` says that of the answer
of `c` exactly `k` events and `r` symbols more have arrived: the rest is on the wire, the
`r` symbols are in `event_buffer`, and the `k` events are those that were heard, then those
in the batch - or an event that is no token has ended the session. `ExtractStream` proves
what `extract_events` makes of a buffer that continues an answer at event `k + 1`, wherever
it is cut, by induction over the symbols (`Found` is the loop's invariant, `ScanStream` one
round); `ParsedEvent` says that each text is the event it came from; and `HttpInv` that a
call not in `crossed` gets all chunks of its own answer, and no others. `LineEnd = <<LF>>` is needed: with CR LF the
property is false (`StreamingCarriageReturn.cfg`). The invariants named here that are no
run's property (`BusInv`, `MonitorInv`, `CollaborationInv`, `RateInv`, `StreamInv`, ...) were
model-checked on the instances of section 3 before they were proved.

The provers cannot instantiate the library's induction theorems, which take an operator.
`SequenceFacts` has the principle with a set in its place (`SetInduction`: a set of natural
numbers with 0 and every successor is `Nat`), proved from the well-foundedness of `<`; from
it follow `Recursion` (a function defined from its value at `n - 1` exists) and, with that,
`SelectLoop` and `ExtractLoop`: the recursive functions of the modules satisfy their
equations.

Every safety property of a run that passes - invariant, action property, refinement - is
the statement of a theorem (`StreamsAsSent` under its hypothesis). Only model-checked are
the others: liveness under fairness (`AcceptedIsSettled`, `PublishedIsAttempted`,
`NotOpenForever`, `NotHalfOpenForever`, `DueIsChecked`, `QueuedIsTaken`,
`ShutdownReturnsUnlessStuck`, `CleanupSettles`, `SubscribersHear`), and anything with
ENABLED, is beyond the prover and stays with TLC, as do the refutations. No module
declares a RECURSIVE operator.

## 5. What is not modelled, and why

* Database statements, JSON, logging, statistics, timing averages: data that no
  property here tells apart.
* The orchestrator's one-off `initialize` wiring and its message-passing calls, which
  delegate to components whose sources are not in the repository.
* Unprotected reads (`is_healthy`, `get_status`, pool statistics): data races that
  change no state of their own.
* The value of the breaker's backoff, its configuration updates and its registry.
* Stream handlers of the bus (they may throw, and the bus ignores it), and the cleanup
  thread, which sleeps up to five minutes and logs; shutdown waits for it as it waits
  for the dead-letter thread.
* `ErrorHandler` by itself: `report_error` locks `error_mutex_` and then calls functions
  that lock it again, so that its first use hangs and little of the rest is reached.
  `StreamingSessions` has the hang where a caller meets it.
* `EventProcessor`: a queue, and a thread that takes nothing from it.
* `RedisClient`: it does not compile (an `else` after an unconditional `throw` in
  `connect`), so it has no behaviour to model.
* Data ingestion: its workers wait for batches, and `queue_batch` has no caller;
  `unregister_data_source` locks a mutex it holds; the sources are stubs.
* The older `regulatory_monitor.cpp`, which polls in the same way, and the parsing of
  pages; the operator's scaling (its metrics are constants), generated specifications,
  status updates; the text a streaming session accumulates.
* What computes over floating-point data or prompts (memory, agentic brain, risk, pattern
  recognition, decision trees, knowledge base), reads its configuration once, or writes
  pages, logs and metrics: little state, and no control that a model would tell apart.
* The components listed as `not_modelled` in `PROJECT.json`, with the reasons there.

## 6. Plan

1. `EventBus` with a `Route` that calls the handlers one by one under `handlers_mutex_`, shown to
   implement the present one: then a handler that publishes or subscribes from its callback
   can be modelled as well.
2. An abstract specification of the operator's queue (events handled in order, one at a time,
   dropped without a controller), and the operator's steps shown to implement it.
3. The tool registry: tool life cycle and rate limits.
4. The life cycle of a memory (`memory_manager`) and of an audit trail
   (`decision_audit_trail`), as far as they have control of their own.

## 7. Running it

    tlc -config OrchestratorTasks.cfg MCAgentOrchestrator
    tlapm AgentOrchestratorProofs.tla

The module of each run is in `PROJECT.json`. The longest runs, `OrchestratorLive` and
`Operator`, take a minute and a half on two cores, the proofs a few minutes together.
