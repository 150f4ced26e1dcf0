------------------------------ MODULE EventBus ------------------------------
(***************************************************************************)
(* shared/event_system/event_bus.cpp: the event queue, its worker threads, *)
(* the dead-letter queue and its thread, initialize and shutdown.          *)
(*                                                                         *)
(* Threads: the workers, one publisher per event and one for a batch, the  *)
(* dead-letter thread, the thread that initializes and shuts down, and     *)
(* those that subscribe handlers.  A step is what the code does under one  *)
(* mutex or with one atomic.  queue_mutex_ is explicit where               *)
(* condition_variable::wait holds it between its predicate and blocking.   *)
(* handlers_mutex_ is held for a whole route_event, so routing is one step *)
(* unless a handler throws; then it is held until the event is buried.     *)
(***************************************************************************)
EXTENDS Naturals, Sequences, FiniteSets, Selection

CONSTANTS
  Workers,     \* worker threads started by set_worker_threads
  Events,      \* events, each published once
  Batch,       \* the events of one publish_batch call, a sequence
  Handlers,    \* handlers that subscribe and unsubscribe
  Takes,       \* Takes[h]: events of h's categories that pass its filter
  Faulty,      \* handlers whose handle_event may throw a std::exception
  Expiring,    \* events with an expiry time
  MaxRetries,  \* 3 in process_dead_letter_queue
  MaxQueue,    \* max_queue_size_
  NoEvent, Free

BatchSet == {Batch[i] : i \in DOMAIN Batch}

ASSUME ConstantsOK ==
  /\ IsFiniteSet(Workers) /\ Workers # {}
  /\ Batch \in Seq(Events)
  /\ \A i, j \in DOMAIN Batch : Batch[i] = Batch[j] => i = j
  /\ Takes \in [Handlers -> SUBSET Events]
  /\ Faulty \subseteq Handlers
  /\ Expiring \subseteq Events
  /\ MaxRetries \in Nat
  /\ MaxQueue \in Nat
  /\ NoEvent \notin Events
  /\ Free \notin Workers

VARIABLES
  running,            \* running_
  event_queue,
  dead_letter_queue,
  mutex,              \* holder of queue_mutex_ between two steps, or Free
  handlers,           \* keys of handlers_
  retry_count,        \* Event::retry_count_
  pc, event,          \* where each worker is, and the event it has
  call,               \* what has become of the publishing of each event
  batch,              \* where the publish_batch call is
  letters, retrying,  \* where the dead-letter thread is; its local retry_events
  main,               \* where the thread that initializes and shuts down is
  attempts,           \* history: how often an event was routed
  settled             \* history: events processed or given up

queueVars   == <<running, event_queue, dead_letter_queue, mutex>>
workerVars  == <<pc, event>>
callVars    == <<call, batch>>
letterVars  == <<letters, retrying>>
historyVars == <<attempts, settled>>
vars == <<queueVars, handlers, retry_count, workerVars, callVars, letterVars, main,
          historyVars>>

WorkerPC == {"loop", "lock", "block", "waiting", "route", "bury", "exited"}

\* initialize has called set_worker_threads: the workers run, running_ is false.
Init ==
  /\ running = FALSE
  /\ event_queue = <<>> /\ dead_letter_queue = <<>>
  /\ mutex = Free
  /\ handlers = {}
  /\ retry_count = [e \in Events |-> 0]
  /\ pc = [w \in Workers |-> "loop"]
  /\ event = [w \in Workers |-> NoEvent]
  /\ call = [e \in Events |-> "idle"] /\ batch = "idle"
  /\ letters = "none" /\ retrying = <<>>
  /\ main = "starting"
  /\ attempts = [e \in Events |-> 0] /\ settled = {}

Goto(w, l) == pc' = [pc EXCEPT ![w] = l]
Waiting == {w \in Workers : pc[w] = "waiting"}
WakeAll == pc' = [w \in Workers |-> IF w \in Waiting THEN "lock" ELSE pc[w]]

-----------------------------------------------------------------------------
(* publish, publish_batch                                                  *)

\* running_ is read without queue_mutex_.
PublishCheck(e) ==
  /\ call[e] = "idle" /\ e \notin BatchSet
  /\ call' = [call EXCEPT ![e] = IF running THEN "checked" ELSE "refused"]
  /\ UNCHANGED <<queueVars, handlers, retry_count, workerVars, batch, letterVars, main,
                 historyVars>>

PublishPush(e) ==
  /\ call[e] = "checked"
  /\ mutex = Free
  /\ IF Len(event_queue) >= MaxQueue
       THEN call' = [call EXCEPT ![e] = "refused"] /\ UNCHANGED event_queue
       ELSE /\ event_queue' = Append(event_queue, e)
            /\ call' = [call EXCEPT ![e] = "pushed"]
  /\ UNCHANGED <<running, dead_letter_queue, mutex, handlers, retry_count, workerVars,
                 batch, letterVars, main, historyVars>>

PublishNotifyMutantNone(e) ==
  /\ call[e] = "pushed" /\ e \notin BatchSet
  /\ call' = [call EXCEPT ![e] = "published"]
  /\ UNCHANGED <<queueVars, handlers, retry_count, workerVars, batch, letterVars, main,
                 historyVars>>

PublishNotify(e) ==
  /\ call[e] = "pushed" /\ e \notin BatchSet
  /\ \/ Waiting = {} /\ UNCHANGED pc
     \/ \E w \in Waiting : Goto(w, "lock")
  /\ call' = [call EXCEPT ![e] = "published"]
  /\ UNCHANGED <<queueVars, handlers, retry_count, event, batch, letterVars, main,
                 historyVars>>

BatchCheck ==
  /\ batch = "idle" /\ Batch # <<>>
  /\ batch' = IF running THEN "checked" ELSE "done"
  /\ UNCHANGED <<queueVars, handlers, retry_count, workerVars, call, letterVars, main,
                 historyVars>>

\* How many events of the batch fit; the others are destroyed with the vector.
Room == IF Len(event_queue) >= MaxQueue THEN 0
        ELSE IF Len(Batch) <= MaxQueue - Len(event_queue) THEN Len(Batch)
        ELSE MaxQueue - Len(event_queue)

BatchPush ==
  /\ batch = "checked"
  /\ mutex = Free
  /\ event_queue' = event_queue \o SubSeq(Batch, 1, Room)
  /\ call' = [e \in Events |->
                IF e \notin BatchSet THEN call[e]
                ELSE IF \E i \in 1..Room : Batch[i] = e THEN "pushed" ELSE "refused"]
  /\ batch' = "pushed"
  /\ UNCHANGED <<running, dead_letter_queue, mutex, handlers, retry_count, workerVars,
                 letterVars, main, historyVars>>

\* notify_all if anything was pushed.
BatchNotify ==
  /\ batch = "pushed"
  /\ batch' = "done"
  /\ call' = [e \in Events |->
                IF e \in BatchSet /\ call[e] = "pushed" THEN "published" ELSE call[e]]
  /\ IF call' = call THEN UNCHANGED pc ELSE WakeAll
  /\ UNCHANGED <<queueVars, handlers, retry_count, event, letterVars, main, historyVars>>

-----------------------------------------------------------------------------
(* subscribe, unsubscribe                                                  *)

HandlersFree == \A w \in Workers : pc[w] # "bury"

Subscribe(h) ==
  /\ HandlersFree /\ h \notin handlers
  /\ handlers' = handlers \cup {h}
  /\ UNCHANGED <<queueVars, retry_count, workerVars, callVars, letterVars, main,
                 historyVars>>

Unsubscribe(h) ==
  /\ HandlersFree /\ h \in handlers
  /\ handlers' = handlers \ {h}
  /\ UNCHANGED <<queueVars, retry_count, workerVars, callVars, letterVars, main,
                 historyVars>>

-----------------------------------------------------------------------------
(* event_processing_loop                                                   *)

LoopTest(w) ==
  /\ pc[w] = "loop"
  /\ Goto(w, IF running THEN "lock" ELSE "exited")
  /\ UNCHANGED <<queueVars, handlers, retry_count, event, callVars, letterVars, main,
                 historyVars>>

TakeMutantNoPop(w) ==
  /\ event_queue # <<>>
  /\ event' = [event EXCEPT ![w] = Head(event_queue)]
  /\ Goto(w, "route")
  /\ UNCHANGED <<event_queue, mutex>>

Take(w) ==
  /\ event_queue # <<>>
  /\ event' = [event EXCEPT ![w] = Head(event_queue)]
  /\ event_queue' = Tail(event_queue)
  /\ Goto(w, "route")
  /\ UNCHANGED mutex

\* Lock the mutex and evaluate wait's predicate.  A bus that is no longer
\* running is left at once, whatever is queued.
Acquire(w) ==
  /\ pc[w] = "lock"
  /\ mutex = Free
  /\ \/ ~running /\ Goto(w, "exited") /\ UNCHANGED <<event, event_queue, mutex>>
     \/ running /\ Take(w)
     \/ /\ running /\ event_queue = <<>>
        /\ Goto(w, "block")
        /\ mutex' = w
        /\ UNCHANGED <<event, event_queue>>
  /\ UNCHANGED <<running, dead_letter_queue, handlers, retry_count, callVars, letterVars,
                 main, historyVars>>

Block(w) ==
  /\ pc[w] = "block"
  /\ mutex' = Free
  /\ Goto(w, "waiting")
  /\ UNCHANGED <<running, event_queue, dead_letter_queue, handlers, retry_count, event,
                 callVars, letterVars, main, historyVars>>

SpuriousWakeup(w) ==
  /\ pc[w] = "waiting"
  /\ Goto(w, "lock")
  /\ UNCHANGED <<queueVars, handlers, retry_count, event, callVars, letterVars, main,
                 historyVars>>

\* route_event.  Every handler that takes the event returns, or one throws and
\* those after it in handlers_ do not get the event.
Reached(e) == {h \in handlers : e \in Takes[h]}

Route(w) ==
  /\ pc[w] = "route"
  /\ HandlersFree
  /\ attempts' = [attempts EXCEPT ![event[w]] = @ + 1]
  /\ \/ /\ settled' = settled \cup {event[w]}
        /\ event' = [event EXCEPT ![w] = NoEvent]
        /\ Goto(w, "loop")
     \/ /\ Reached(event[w]) \cap Faulty # {}
        /\ Goto(w, "bury")
        /\ UNCHANGED <<settled, event>>
  /\ UNCHANGED <<queueVars, handlers, retry_count, callVars, letterVars, main>>

BuryMutantLost(w) ==
  /\ pc[w] = "bury"
  /\ event' = [event EXCEPT ![w] = NoEvent]
  /\ Goto(w, "loop")
  /\ UNCHANGED <<queueVars, handlers, retry_count, callVars, letterVars, main, historyVars>>

\* The catch block, still under handlers_mutex_.
Bury(w) ==
  /\ pc[w] = "bury"
  /\ mutex = Free
  /\ dead_letter_queue' = Append(dead_letter_queue, event[w])
  /\ event' = [event EXCEPT ![w] = NoEvent]
  /\ Goto(w, "loop")
  /\ UNCHANGED <<running, event_queue, mutex, handlers, retry_count, callVars, letterVars,
                 main, historyVars>>

-----------------------------------------------------------------------------
(* dead_letter_processing_loop                                             *)

\* sleep_for(30 s), then the test of running_.
LettersWake ==
  /\ letters = "asleep"
  /\ letters' = IF running THEN "collect" ELSE "exited"
  /\ UNCHANGED <<queueVars, handlers, retry_count, workerVars, callVars, retrying, main,
                 historyVars>>

RetriedMutantOffByOne(expired) ==
  {e \in Events : retry_count[e] <= MaxRetries /\ e \notin expired}

Retried(expired) == {e \in Events : retry_count[e] < MaxRetries /\ e \notin expired}

Counted(again) ==
  [e \in Events |-> IF e \in again THEN retry_count[e] + 1 ELSE retry_count[e]]

\* process_dead_letter_queue, first half: empty the queue.
Collect ==
  /\ letters = "collect"
  /\ mutex = Free
  /\ \E expired \in SUBSET Expiring :
       LET dead == {dead_letter_queue[i] : i \in DOMAIN dead_letter_queue}
           again == Retried(expired)
       IN  /\ retrying' = Select(dead_letter_queue, again)
           /\ retry_count' = Counted(dead \cap again)
           /\ settled' = settled \cup (dead \ again)
  /\ dead_letter_queue' = <<>>
  /\ letters' = "requeue"
  /\ UNCHANGED <<running, event_queue, mutex, handlers, workerVars, callVars, main, attempts>>

\* Second half: no size limit, no notification.
Requeue ==
  /\ letters = "requeue"
  /\ mutex = Free
  /\ event_queue' = event_queue \o retrying
  /\ retrying' = <<>>
  /\ letters' = "asleep"
  /\ UNCHANGED <<running, dead_letter_queue, mutex, handlers, retry_count, workerVars,
                 callVars, main, historyVars>>

-----------------------------------------------------------------------------
(* initialize, shutdown                                                    *)

\* running_ = true, then the dead-letter thread starts.
StartBus ==
  /\ main = "starting"
  /\ running' = TRUE
  /\ main' = "letters"
  /\ UNCHANGED <<event_queue, dead_letter_queue, mutex, handlers, retry_count, workerVars,
                 callVars, letterVars, historyVars>>

StartLetters ==
  /\ main = "letters"
  /\ letters' = "asleep"
  /\ main' = "up"
  /\ UNCHANGED <<queueVars, handlers, retry_count, workerVars, callVars, retrying,
                 historyVars>>

ShutdownFlag ==
  /\ main = "up"
  /\ running' = FALSE
  /\ main' = "notify"
  /\ UNCHANGED <<event_queue, dead_letter_queue, mutex, handlers, retry_count, workerVars,
                 callVars, letterVars, historyVars>>

ShutdownNotify ==
  /\ main = "notify"
  /\ WakeAll
  /\ main' = "join"
  /\ UNCHANGED <<queueVars, handlers, retry_count, event, callVars, letterVars, historyVars>>

JoinMutantWorkersOnly ==
  /\ main = "join"
  /\ \A w \in Workers : pc[w] = "exited"
  /\ main' = "clear"
  /\ UNCHANGED <<queueVars, handlers, retry_count, workerVars, callVars, letterVars,
                 historyVars>>

Join ==
  /\ main = "join"
  /\ \A w \in Workers : pc[w] = "exited"
  /\ letters = "exited"
  /\ main' = "clear"
  /\ UNCHANGED <<queueVars, handlers, retry_count, workerVars, callVars, letterVars,
                 historyVars>>

\* Whatever is still queued is destroyed.
ClearQueues ==
  /\ main = "clear"
  /\ mutex = Free
  /\ event_queue' = <<>> /\ dead_letter_queue' = <<>>
  /\ main' = "down"
  /\ UNCHANGED <<running, mutex, handlers, retry_count, workerVars, callVars, letterVars,
                 historyVars>>

-----------------------------------------------------------------------------
PublishStep ==
  \/ \E e \in Events : PublishCheck(e) \/ PublishPush(e) \/ PublishNotify(e)
  \/ BatchCheck \/ BatchPush \/ BatchNotify

WorkerStep(w) == LoopTest(w) \/ Acquire(w) \/ Block(w) \/ Route(w) \/ Bury(w)

LettersStep == LettersWake \/ Collect \/ Requeue

MainStep ==
  StartBus \/ StartLetters \/ ShutdownFlag \/ ShutdownNotify \/ Join \/ ClearQueues

Next ==
  \/ PublishStep
  \/ \E h \in Handlers : Subscribe(h) \/ Unsubscribe(h)
  \/ \E w \in Workers : WorkerStep(w) \/ SpuriousWakeup(w)
  \/ LettersStep
  \/ MainStep

Spec == Init /\ [][Next]_vars

\* The scheduler runs every thread and std::mutex starves nobody (strong fairness
\* of the steps that lock); handlers return, and shutdown, once called, goes on.
\* No spurious wakeup is owed to anybody.
Fairness ==
  /\ \A e \in Events : /\ WF_vars(PublishCheck(e) \/ PublishNotify(e))
                       /\ SF_vars(PublishPush(e))
  /\ WF_vars(BatchCheck \/ BatchNotify) /\ SF_vars(BatchPush)
  /\ \A w \in Workers : /\ WF_vars(LoopTest(w) \/ Block(w))
                        /\ SF_vars(Acquire(w)) /\ SF_vars(Route(w)) /\ SF_vars(Bury(w))
  /\ WF_vars(LettersWake) /\ SF_vars(Collect) /\ SF_vars(Requeue)
  /\ WF_vars(main # "up" /\ MainStep)

FairSpec == Spec /\ Fairness

-----------------------------------------------------------------------------
(* Properties                                                              *)

Elems(q) == {q[i] : i \in DOMAIN q}
Queued == Elems(event_queue)
Dead == Elems(dead_letter_queue)
Retrying == Elems(retrying)
Held == {event[w] : w \in Workers} \ {NoEvent}
Pushed == {e \in Events : call[e] \in {"pushed", "published"}}

TypeOK ==
  /\ running \in BOOLEAN
  /\ event_queue \in Seq(Events)
  /\ dead_letter_queue \in Seq(Events)
  /\ mutex \in Workers \cup {Free}
  /\ handlers \in SUBSET Handlers
  /\ retry_count \in [Events -> 0..MaxRetries]
  /\ pc \in [Workers -> WorkerPC]
  /\ event \in [Workers -> Events \cup {NoEvent}]
  /\ call \in [Events -> {"idle", "checked", "pushed", "published", "refused"}]
  /\ batch \in {"idle", "checked", "pushed", "done"}
  /\ letters \in {"none", "asleep", "collect", "requeue", "exited"}
  /\ retrying \in Seq(Events)
  /\ main \in {"starting", "letters", "up", "notify", "join", "clear", "down"}
  /\ attempts \in [Events -> Nat]
  /\ settled \in SUBSET Events

NoRepetition(q) == \A i, j \in DOMAIN q : q[i] = q[j] => i = j

\* An event is never in two places: once in event_queue_, in dead_letter_queue_ or
\* in the dead-letter thread's hands, with one worker, or settled for good.
NeverTwice ==
  /\ NoRepetition(event_queue) /\ NoRepetition(dead_letter_queue) /\ NoRepetition(retrying)
  /\ \A v, w \in Workers : event[v] = event[w] /\ event[v] # NoEvent => v = w
  /\ Queued \cap (Dead \cup Retrying \cup Held \cup settled) = {}
  /\ Dead \cap (Retrying \cup Held \cup settled) = {}
  /\ Retrying \cap (Held \cup settled) = {}
  /\ Held \cap settled = {}

\* An accepted event is not lost either, until shutdown clears the queues.
NeverLost ==
  main \notin {"down"} => Pushed = Queued \cup Dead \cup Retrying \cup Held \cup settled

\* Every retry that is granted is one more attempt, and no event is routed more
\* than 1 + MaxRetries times.
AttemptsMatchRetries ==
  \A e \in Pushed :
    /\ e \in Queued \cup Retrying => attempts[e] = retry_count[e]
    /\ e \in Dead \cup settled => attempts[e] = retry_count[e] + 1

\* shutdown joins every thread that touches the queues before it clears them, so
\* no retry comes back to life afterwards.
NoRetryAfterClear == main \in {"clear", "down"} => Retrying = {} /\ Held = {}

\* One notify_one for an event, one notify_all for a batch is enough: while the bus is
\* up, no event that was announced waits for its first delivery with all workers that
\* are left asleep.
NoStrandedEvent ==
  main \in {"letters", "up"} =>
    \A e \in Queued :
      call[e] = "published" /\ attempts[e] = 0 =>
        \/ \E w \in Workers : pc[w] \notin {"waiting", "exited"}
        \/ \A w \in Workers : pc[w] = "exited"

\* While the bus is up and one worker is left, a published event is routed.
PublishedIsAttempted ==
  \A e \in Events :
    call[e] = "published" /\ attempts[e] = 0 ~>
      \/ attempts[e] > 0
      \/ main \notin {"starting", "letters", "up"}
      \/ \A w \in Workers : pc[w] = "exited"

\* initialize: "Default to 4 worker threads".  A bus that is up has them all.
WorkersServe == main \in {"letters", "up"} => \A w \in Workers : pc[w] # "exited"

\* "Retry eligible events": an event put back into the queue is routed again.
RetryIsRouted ==
  \A e \in Events :
    e \in Queued /\ retry_count[e] > 0 ~>
      \/ e \notin Queued
      \/ main \notin {"starting", "letters", "up"}
      \/ \A w \in Workers : pc[w] = "exited"

\* "Check queue size limit": the queue does not outgrow max_queue_size_.
QueueBounded == Len(event_queue) <= MaxQueue

\* "Wake up all waiting threads": shutdown gets past its join().
ShutdownReturns == main = "join" ~> main = "down"

-----------------------------------------------------------------------------
(* Refinement                                                              *)

With(l) == {event[w] : w \in {v \in Workers : pc[v] = l}}

Delivery == INSTANCE EventDelivery WITH
  accepted <- Pushed, queue <- event_queue, delivering <- With("route"),
  failed <- With("bury") \cup Dead \cup Retrying, done <- settled

\* The bus's threads, its two queues and its mutexes deliver events as EventDelivery
\* says: in order, again after a failure, no oftener than the limit, and not after
\* shutdown has cleared the queues.
DeliverySpec == Delivery!Spec
=============================================================================
