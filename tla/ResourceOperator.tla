-------------------------- MODULE ResourceOperator --------------------------
(***************************************************************************)
(* infrastructure/k8s/operator: KubernetesOperator (operator_framework)    *)
(* with one registered controller.  The three controllers of the           *)
(* repository have the same shape; this is that of ComplianceAgents.       *)
(*                                                                         *)
(* The API server is external, behind KubernetesAPIClient, of which the    *)
(* repository has a stub: a call may fail, or be applied and then fail,    *)
(* and a listing may come back empty, as the stub's always does.           *)
(*                                                                         *)
(* Threads: the workers, the one that initializes and then run()s, the     *)
(* watch callback, and the ones that register controllers and shut down.   *)
(* A step is what the code does under one mutex.  An event is handled in   *)
(* one step under controllers_mutex_, calls of the API server included.    *)
(***************************************************************************)
EXTENDS Naturals, Sequences, FiniteSets

CONSTANTS
  Workers,
  Resources,      \* names
  GenericPlural,  \* those of the plural "generic", by which the API server finds them
  GenericKind,    \* those of the kind "generic", in lower case
  Specs,       \* specs that users write
  Invalid,     \* those that validateResourceSpec rejects
  Listing,     \* those with an array of regulatorySources (endpoints)
  MaxChanges,  \* bound: operations from outside the operator
  MaxQueue,    \* bound: the periodic reconciliation waits at this length
  NoSpec, NoEvent, Free

ASSUME OperatorConstantsOK ==
  /\ IsFiniteSet(Workers)
  /\ GenericPlural \subseteq Resources /\ GenericKind \subseteq Resources
  /\ Invalid \subseteq Specs /\ Listing \subseteq Specs
  /\ MaxChanges \in Nat /\ MaxQueue \in Nat
  /\ NoSpec \notin Specs /\ Free \notin Workers

VARIABLES
  running, initialized,
  work_queue,
  queue_mutex,        \* worker between wait's predicate and blocking, or Free
  controllers_mutex,  \* its holder between two steps, or Free
  registered,         \* controllers_ has the controller
  active_agents,      \* the spec of each resource the controller remembers, or NoSpec
  deployment,         \* the deployment of each resource in the cluster
  cluster,            \* the custom resources in the cluster
  watched,            \* a watch has been started
  wire,               \* watch notifications under way
  changes,            \* how many operations from outside there were
  worker_pc, event,   \* workers
  loop, items,        \* the thread in run(), and what it has listed
  stop                \* the thread in shutdown()

flags == <<running, initialized>>
queueVars == <<work_queue, queue_mutex>>
controllerVars == <<controllers_mutex, registered, active_agents, deployment>>
outside == <<cluster, watched, wire, changes>>
workerVars == <<worker_pc, event>>
loopVars == <<loop, items>>
operator_vars == <<flags, queueVars, controllerVars, outside, workerVars, loopVars, stop>>

\* An addition is handled as a modification is.  "other" is every type but the
\* controllers' key.
Event == [type : {"MODIFIED", "DELETED"}, resource_type : {"generic", "other"},
          name : Resources, spec : Specs]

\* What a watch delivers: events, and notifications of other types.
Bookmark == [type |-> "BOOKMARK"]

\* registerController: the key of every controller.
ControllerKey == "generic"

\* initialize() has started workers, and watches for the controllers there were.
OperatorInit ==
  /\ running = FALSE /\ initialized = FALSE
  /\ work_queue = <<>> /\ queue_mutex = Free /\ controllers_mutex = Free
  /\ registered \in BOOLEAN /\ watched = registered
  /\ active_agents = [r \in Resources |-> NoSpec]
  /\ deployment = active_agents /\ cluster = active_agents
  /\ wire = <<>> /\ changes = 0
  /\ worker_pc = [w \in Workers |-> "lock"] /\ event = [w \in Workers |-> NoEvent]
  /\ loop = "initializing" /\ items = {}
  /\ stop = "no"

Waiting == {w \in Workers : worker_pc[w] = "waiting"}
Goto(w, l) == worker_pc' = [worker_pc EXCEPT ![w] = l]

\* notify_one
WakeOne ==
  \/ Waiting = {} /\ UNCHANGED worker_pc
  \/ \E w \in Waiting : Goto(w, "lock")

\* A push under queue_mutex_, and its notification.
Queue(e) ==
  /\ queue_mutex = Free
  /\ work_queue' = Append(work_queue, e)
  /\ WakeOne

-----------------------------------------------------------------------------
(* Outside: users change resources, the API server notifies in order;      *)
(* registerController and unregisterController.                            *)

ResourceType(r) == IF r \in GenericKind THEN "generic" ELSE "other"

Notification(r, s) ==
  IF s = NoSpec
    THEN [type |-> "DELETED", resource_type |-> ResourceType(r), name |-> r, spec |-> cluster[r]]
    ELSE [type |-> "MODIFIED", resource_type |-> ResourceType(r), name |-> r, spec |-> s]

\* The watch asks for the controllers' key as the plural.
ChangeResource(r, s) ==
  /\ changes < MaxChanges /\ cluster[r] # s
  /\ cluster' = [cluster EXCEPT ![r] = s]
  /\ changes' = changes + 1
  /\ wire' = IF watched /\ r \in GenericPlural THEN Append(wire, Notification(r, s)) ELSE wire
  /\ UNCHANGED <<flags, queueVars, controllerVars, watched, workerVars, loopVars, stop>>

SendBookmark ==
  /\ changes < MaxChanges /\ watched
  /\ changes' = changes + 1
  /\ wire' = Append(wire, Bookmark)
  /\ UNCHANGED <<flags, queueVars, controllerVars, cluster, watched, workerVars, loopVars, stop>>

\* Every controller is stored under the same key and replaces the one before; a
\* new one knows of no resources.
SetController(present) ==
  /\ changes < MaxChanges
  /\ controllers_mutex = Free
  /\ registered' = present
  /\ active_agents' = [r \in Resources |-> NoSpec]
  /\ changes' = changes + 1
  /\ UNCHANGED <<flags, queueVars, controllers_mutex, deployment, cluster, watched, wire,
                 workerVars, loopVars, stop>>

WatchCallbackMutantAny ==
  /\ wire # <<>>
  /\ wire' = Tail(wire)
  /\ Queue(Head(wire))
  /\ UNCHANGED <<flags, queue_mutex, controllerVars, cluster, watched, changes, event,
                 loopVars, stop>>

\* handleWatchCallback returns early for an unknown event type.
WatchCallback ==
  /\ wire # <<>>
  /\ wire' = Tail(wire)
  /\ \/ Head(wire) = Bookmark /\ UNCHANGED <<work_queue, worker_pc>>
     \/ Head(wire) # Bookmark /\ Queue(Head(wire))
  /\ UNCHANGED <<flags, queue_mutex, controllerVars, cluster, watched, changes, event,
                 loopVars, stop>>

-----------------------------------------------------------------------------
(* workerThread                                                            *)

\* Lock queue_mutex_ and evaluate wait's predicate, which makes the loop's test
\* again.
Acquire(w) ==
  /\ worker_pc[w] = "lock"
  /\ queue_mutex = Free
  /\ \/ ~running /\ Goto(w, "exited") /\ UNCHANGED <<event, queueVars>>
     \/ /\ running /\ work_queue # <<>>
        /\ event' = [event EXCEPT ![w] = Head(work_queue)]
        /\ work_queue' = Tail(work_queue)
        /\ Goto(w, "process")
        /\ UNCHANGED queue_mutex
     \/ /\ running /\ work_queue = <<>>
        /\ queue_mutex' = w
        /\ Goto(w, "block")
        /\ UNCHANGED <<event, work_queue>>
  /\ UNCHANGED <<flags, controllerVars, outside, loopVars, stop>>

Block(w) ==
  /\ worker_pc[w] = "block"
  /\ queue_mutex' = Free
  /\ Goto(w, "waiting")
  /\ UNCHANGED <<flags, work_queue, controllerVars, outside, event, loopVars, stop>>

SpuriousWakeup(w) ==
  /\ worker_pc[w] = "waiting"
  /\ Goto(w, "lock")
  /\ UNCHANGED <<flags, queueVars, controllerVars, outside, event, loopVars, stop>>

Handled(w) ==
  /\ event' = [event EXCEPT ![w] = NoEvent]
  /\ Goto(w, "lock")
  /\ UNCHANGED controllers_mutex

Deploy(r, s) == deployment' = [deployment EXCEPT ![r] = s]
Activate(r, s) == active_agents' = [active_agents EXCEPT ![r] = s]

\* controllers_.find(event.resource_type)
Found(e) == registered /\ e.resource_type = ControllerKey

\* An event that no controller is found for is dropped.
Drop(w, e) ==
  /\ ~Found(e)
  /\ Handled(w)
  /\ UNCHANGED <<active_agents, deployment>>

\* A spec that fails validation only changes the status in the cluster.
Reject(w, e) ==
  /\ Found(e) /\ e.type = "MODIFIED" /\ e.spec \in Invalid
  /\ Handled(w)
  /\ UNCHANGED <<active_agents, deployment>>

Valid(e) == Found(e) /\ e.type = "MODIFIED" /\ e.spec \notin Invalid

\* reconcileResource of an unknown resource: deployment, services, sources and
\* configuration are created one after the other until one fails, and only when
\* all are there is the resource remembered.
Create(w, e) ==
  /\ Valid(e) /\ active_agents[e.name] = NoSpec /\ e.spec \notin Listing
  /\ \/ UNCHANGED <<active_agents, deployment>>
     \/ Deploy(e.name, e.spec) /\ UNCHANGED active_agents
     \/ Deploy(e.name, e.spec) /\ Activate(e.name, e.spec)
  /\ Handled(w)

\* The same, for a spec that lists sources.  configureRegulatorySources locks
\* agents_mutex_, which reconcileResource holds: the worker never gets on, and
\* controllers_mutex_ stays with it.
CreateListing(w, e) ==
  /\ Valid(e) /\ active_agents[e.name] = NoSpec /\ e.spec \in Listing
  /\ \/ Handled(w) /\ UNCHANGED <<active_agents, deployment>>
     \/ Handled(w) /\ Deploy(e.name, e.spec) /\ UNCHANGED active_agents
     \/ /\ Deploy(e.name, e.spec)
        /\ controllers_mutex' = w
        /\ Goto(w, "stuck")
        /\ UNCHANGED <<active_agents, event>>

\* reconcileResource of a known one: the update fails, fails although the API server
\* has applied it, or succeeds.  The metrics that scaling looks at are constants
\* between its thresholds, so it changes nothing.
Update(w, e) ==
  /\ Valid(e) /\ active_agents[e.name] # NoSpec
  /\ \/ UNCHANGED <<active_agents, deployment>>
     \/ /\ e.spec # active_agents[e.name]
        /\ Deploy(e.name, e.spec)
        /\ UNCHANGED active_agents \/ Activate(e.name, e.spec)
  /\ Handled(w)

\* handleAgentDeletion; the deployment is left alone.
Delete(w, e) ==
  /\ Found(e) /\ e.type = "DELETED"
  /\ Activate(e.name, NoSpec)
  /\ Handled(w)
  /\ UNCHANGED deployment

\* processResourceEvent
Process(w) ==
  /\ worker_pc[w] = "process"
  /\ controllers_mutex = Free
  /\ LET e == event[w]
     IN  \/ Drop(w, e) \/ Reject(w, e) \/ Create(w, e) \/ CreateListing(w, e)
         \/ Update(w, e) \/ Delete(w, e)
  /\ UNCHANGED <<flags, queueVars, registered, outside, loopVars, stop>>

-----------------------------------------------------------------------------
(* initialize, run, reconcileAllResources                                  *)

Initialized ==
  /\ loop = "initializing"
  /\ initialized' = TRUE
  /\ loop' = "ready"
  /\ UNCHANGED <<running, queueVars, controllerVars, outside, workerVars, items, stop>>

\* run() tests initialized_, then sets running_.
RunCheck ==
  /\ loop = "ready"
  /\ loop' = IF initialized THEN "checked" ELSE "returned"
  /\ UNCHANGED <<flags, queueVars, controllerVars, outside, workerVars, items, stop>>

RunStart ==
  /\ loop = "checked"
  /\ running' = TRUE
  /\ loop' = "test"
  /\ UNCHANGED <<initialized, queueVars, controllerVars, outside, workerVars, items, stop>>

RunTest ==
  /\ loop = "test"
  /\ loop' = IF running THEN "list" ELSE "returned"
  /\ UNCHANGED <<flags, queueVars, controllerVars, outside, workerVars, items, stop>>

\* A listed resource gets the controllers' key for its type, whatever its kind.
ListedEvent(r) ==
  [type |-> "MODIFIED", resource_type |-> ControllerKey, name |-> r, spec |-> cluster[r]]

\* The resources of the plural are listed, if the call answers with them, and then
\* queued one by one, under controllers_mutex_.
List ==
  /\ loop = "list"
  /\ controllers_mutex = Free
  /\ Len(work_queue) < MaxQueue
  /\ controllers_mutex' = "loop"
  /\ \/ items' = {}
     \/ registered /\ items' = {ListedEvent(r) : r \in {x \in GenericPlural : cluster[x] # NoSpec}}
  /\ loop' = "push"
  /\ UNCHANGED <<flags, queueVars, registered, active_agents, deployment, outside,
                 workerVars, stop>>

PushItemMutantSilent ==
  /\ loop = "push"
  /\ queue_mutex = Free
  /\ \E e \in items :
       /\ work_queue' = Append(work_queue, e)
       /\ items' = items \ {e}
  /\ UNCHANGED <<flags, queue_mutex, controllerVars, outside, worker_pc, event, loop, stop>>

PushItem ==
  /\ loop = "push"
  /\ \E e \in items : Queue(e) /\ items' = items \ {e}
  /\ UNCHANGED <<flags, queue_mutex, controllerVars, outside, event, loop, stop>>

\* The health checks that follow only read; then the loop sleeps.
Listed ==
  /\ loop = "push" /\ items = {}
  /\ controllers_mutex' = Free
  /\ loop' = "test"
  /\ UNCHANGED <<flags, queueVars, registered, active_agents, deployment, outside,
                 workerVars, items, stop>>

-----------------------------------------------------------------------------
(* shutdown                                                                *)

ShutdownFlag ==
  /\ stop = "no"
  /\ running \/ initialized
  /\ running' = FALSE
  /\ stop' = "notify"
  /\ UNCHANGED <<initialized, queueVars, controllerVars, outside, workerVars, loopVars>>

WakeAll == worker_pc' = [w \in Workers |-> IF w \in Waiting THEN "lock" ELSE worker_pc[w]]

ShutdownNotifyMutantUnlocked ==
  /\ stop = "notify"
  /\ WakeAll
  /\ stop' = "join"
  /\ UNCHANGED <<flags, queueVars, controllerVars, outside, event, loopVars>>

\* notify_all under queue_mutex_.
ShutdownNotify ==
  /\ stop = "notify"
  /\ queue_mutex = Free
  /\ WakeAll
  /\ stop' = "join"
  /\ UNCHANGED <<flags, queueVars, controllerVars, outside, event, loopVars>>

ShutdownJoin ==
  /\ stop = "join"
  /\ \A w \in Workers : worker_pc[w] = "exited"
  /\ stop' = "controllers"
  /\ UNCHANGED <<flags, queueVars, controllerVars, outside, workerVars, loopVars>>

ShutdownControllers ==
  /\ stop = "controllers"
  /\ controllers_mutex = Free
  /\ registered' = FALSE
  /\ initialized' = FALSE
  /\ stop' = "down"
  /\ UNCHANGED <<running, queueVars, controllers_mutex, active_agents, deployment, outside,
                 workerVars, loopVars>>

-----------------------------------------------------------------------------
OutsideStep ==
  \/ \E r \in Resources, s \in Specs \cup {NoSpec} : ChangeResource(r, s)
  \/ SendBookmark
  \/ \E present \in BOOLEAN : SetController(present)

WorkerStep(w) == Acquire(w) \/ Block(w) \/ Process(w)

RunStep == Initialized \/ RunCheck \/ RunStart \/ RunTest \/ List \/ PushItem \/ Listed

ShutdownStep == ShutdownNotify \/ ShutdownJoin \/ ShutdownControllers

OperatorNext ==
  \/ OutsideStep \/ WatchCallback
  \/ \E w \in Workers : WorkerStep(w) \/ SpuriousWakeup(w)
  \/ RunStep
  \/ ShutdownFlag \/ ShutdownStep

OperatorSpec == OperatorInit /\ [][OperatorNext]_operator_vars

\* Threads are scheduled, mutexes starve nobody, and calls of the API server return,
\* if only with an error.
OperatorFairness ==
  /\ \A w \in Workers : SF_operator_vars(WorkerStep(w))
  /\ SF_operator_vars(RunStep)
  /\ SF_operator_vars(ShutdownStep)

OperatorFairSpec == OperatorSpec /\ OperatorFairness
DeliveringSpec == OperatorFairSpec /\ SF_operator_vars(WatchCallback)

-----------------------------------------------------------------------------
(* Properties                                                              *)

OperatorTypeOK ==
  /\ running \in BOOLEAN /\ initialized \in BOOLEAN
  /\ registered \in BOOLEAN /\ watched \in BOOLEAN
  /\ work_queue \in Seq(Event) /\ wire \in Seq(Event \cup {Bookmark})
  /\ queue_mutex \in Workers \cup {Free}
  /\ controllers_mutex \in Workers \cup {"loop", Free}
  /\ active_agents \in [Resources -> Specs \cup {NoSpec}]
  /\ deployment \in [Resources -> Specs \cup {NoSpec}]
  /\ cluster \in [Resources -> Specs \cup {NoSpec}]
  /\ changes \in 0..MaxChanges
  /\ worker_pc \in [Workers -> {"lock", "block", "waiting", "process", "stuck", "exited"}]
  /\ event \in [Workers -> Event \cup {NoEvent}]
  /\ loop \in {"initializing", "ready", "checked", "test", "list", "push", "returned"}
  /\ items \in SUBSET Event
  /\ stop \in {"no", "notify", "join", "controllers", "down"}

Stuck == \E w \in Workers : worker_pc[w] = "stuck"

Serving ==
  running /\ stop = "no" /\ ~Stuck /\ \E w \in Workers : worker_pc[w] # "exited"

Queued(r) == \E i \in 1..Len(work_queue) : work_queue[i].name = r

InHand(r) == {w \in Workers : worker_pc[w] = "process" /\ event[w].name = r}

\* Two kinds of pushes, by watches and by run(), with one notify_one each, share the
\* queue and its sleeping workers: an event that is queued comes to a worker, as long
\* as one serves.
QueuedIsTaken ==
  \A r \in Resources : Queued(r) /\ Serving ~> InHand(r) # {} \/ ~Serving

ShutdownOfRun ==
  stop = "notify" /\ ~running /\ loop \in {"test", "list", "push", "returned"}

\* "Shutdown the operator": it returns, once run() is in its loop.
ShutdownReturns ==
  ShutdownOfRun ~> stop = "down"

\* Only a worker that locks agents_mutex_ twice keeps shutdown from returning: the
\* flag and the notification cannot fall between a worker's predicate and its
\* blocking.
ShutdownReturnsUnlessStuck ==
  ShutdownOfRun ~> stop = "down" \/ Stuck

\* notify_all under queue_mutex_ misses nobody: once it is sent no worker waits or is
\* about to, unless run() has set the flag again in the meantime.
NoneMissesShutdown ==
  stop \in {"join", "controllers", "down"} /\ ~running =>
    \A w \in Workers : worker_pc[w] \notin {"block", "waiting"}

\* "Manages the lifecycle of ComplianceAgent custom resources": a controller that is
\* registered all the time, and watches, is given an event of each resource that stays.
LifecycleIsManaged ==
  \A r \in Resources :
    /\ watched /\ []registered
    /\ <>[](Serving /\ cluster[r] # NoSpec)
    => <>(\E w \in InHand(r) : Found(event[w]))

\* The workers that startWorkers starts serve as long as the operator runs.
WorkersRun == running => \A w \in Workers : worker_pc[w] # "exited"

\* A resource that the controller remembers has been deployed as it is remembered.
ActiveIsDeployed ==
  \A r \in Resources : active_agents[r] # NoSpec => deployment[r] = active_agents[r]

\* The deletions that reach the controller.
Deleted(r) ==
  /\ watched /\ r \in GenericPlural \cap GenericKind /\ []registered
  /\ <>[](Serving /\ cluster[r] = NoSpec)

\* ResourceEventType::DELETED: the controller forgets a resource that is deleted.
DeletedIsForgotten == \A r \in Resources : Deleted(r) => <>[](active_agents[r] = NoSpec)

\* "Clean up agent resources on deletion"
DeletedIsCleanedUp == \A r \in Resources : Deleted(r) => <>[](deployment[r] = NoSpec)
=============================================================================
