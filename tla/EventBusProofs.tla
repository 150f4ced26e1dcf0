--------------------------- MODULE EventBusProofs ---------------------------
(***************************************************************************)
(* Theorems about EventBus, for any number of events, workers and          *)
(* handlers, any batch and any limits.                                     *)
(***************************************************************************)
EXTENDS EventBus, SequenceFacts, TLAPS

\* A worker has an event from the moment it takes it to the end of its routing.
HoldsOK == \A w \in Workers : (event[w] # NoEvent) = (pc[w] \in {"route", "bury"})

\* The events of the batch are published by its call and by nobody else.
BatchOK ==
  \A e \in BatchSet :
    call[e] # "checked" /\ (batch \in {"idle", "checked"} => call[e] = "idle")

\* The dead-letter thread starts late, has events only between its two halves, and
\* like the workers has ended when shutdown clears the queues.
ThreadsOK ==
  /\ letters # "requeue" => Retrying = {}
  /\ main \in {"starting", "letters"} => letters = "none"
  /\ main \in {"clear", "down"} =>
       letters = "exited" /\ \A w \in Workers : pc[w] = "exited"

Places == Queued \cup Dead \cup Retrying \cup Held \cup settled

\* What is somewhere was pushed; what was pushed is somewhere until shutdown.
PlacesOK == Places \subseteq Pushed /\ (main # "down" => Pushed \subseteq Places)

\* Where an event is tells how often it was routed.
CountsOK ==
  /\ \A e \in Events \ Pushed : attempts[e] = 0 /\ retry_count[e] = 0
  /\ \A e \in Queued \cup Retrying : attempts[e] = retry_count[e]
  /\ \A e \in Dead \cup settled : attempts[e] = retry_count[e] + 1
  /\ \A w \in Workers :
       /\ pc[w] = "route" => attempts[event[w]] = retry_count[event[w]]
       /\ pc[w] = "bury" => attempts[event[w]] = retry_count[event[w]] + 1

BusInv ==
  TypeOK /\ HoldsOK /\ BatchOK /\ ThreadsOK /\ NeverTwice /\ PlacesOK /\ CountsOK

-----------------------------------------------------------------------------
(* Helpers                                                                 *)

\* The names of EventBus and of SequenceFacts for the elements of a queue.
LEMMA QueueFacts ==
  \A q : Elems(q) = Elements(q) /\ NoRepetition(q) = Distinct(q)
  BY DEF Elems, Elements, NoRepetition, Distinct

\* A queue that was cleared.
LEMMA EmptyQueue == Elems(<<>>) = {} /\ NoRepetition(<<>>) /\ <<>> \in Seq(Events)
  BY DEF Elems, NoRepetition

\* Events of the batch are events, and its first Room fit.
LEMMA BatchFacts ==
  ASSUME TypeOK
  PROVE  /\ Len(Batch) \in Nat /\ Room \in 0..Len(Batch)
         /\ \A i \in 1..Room : i \in DOMAIN Batch /\ Batch[i] \in BatchSet
         /\ BatchSet \subseteq Events
         /\ SubSeq(Batch, 1, Room) \in Seq(Events)
         /\ Elems(SubSeq(Batch, 1, Room)) = {Batch[i] : i \in 1..Room}
         /\ NoRepetition(SubSeq(Batch, 1, Room))
<1>1. /\ Len(Batch) \in Nat /\ DOMAIN Batch = 1..Len(Batch)
      /\ \A i \in 1..Len(Batch) : Batch[i] \in Events
  BY ConstantsOK, LenProperties, ElementOfSeq
<1>2. Len(event_queue) \in Nat /\ MaxQueue \in Nat
  BY ConstantsOK, LenProperties DEF TypeOK
<1>3. Room \in 0..Len(Batch)
  BY <1>1, <1>2 DEF Room
<1>. HIDE DEF Room
<1>. DEFINE r == SubSeq(Batch, 1, Room)
<1>4. /\ r \in Seq(Events) /\ Len(r) = Room
      /\ \A i \in 1..Room : r[i] = Batch[i]
  BY <1>1, <1>3, ConstantsOK, SubSeqProperties
<1>5. DOMAIN r = 1..Room
  BY <1>3, <1>4, LenProperties
<1>. HIDE DEF r
<1>6. Elems(r) = {Batch[i] : i \in 1..Room}
  BY <1>4, <1>5 DEF Elems
<1>7. NoRepetition(r)
  BY <1>1, <1>3, <1>4, <1>5, ConstantsOK DEF NoRepetition
<1>8. \A i \in 1..Room : i \in DOMAIN Batch
  BY <1>1, <1>3
<1>. QED  BY <1>1, <1>3, <1>4, <1>6, <1>7, <1>8 DEF r, BatchSet

\* What a retry may count up is below the limit.
LEMMA CountedType ==
  ASSUME TypeOK, NEW expired, NEW again \in SUBSET Retried(expired)
  PROVE  Counted(again) \in [Events -> 0..MaxRetries]
  BY ConstantsOK DEF TypeOK, Retried, Counted

-----------------------------------------------------------------------------
(* Types, and where the threads are                                        *)

\* Every step keeps the types.
LEMMA TypeStep == TypeOK /\ HoldsOK /\ [Next]_vars => TypeOK'
<1>. SUFFICES ASSUME TypeOK, HoldsOK, [Next]_vars  PROVE TypeOK'
  OBVIOUS
<1>. USE DEF TypeOK, queueVars, workerVars, callVars, letterVars, historyVars, Goto, WorkerPC
<1>1. ASSUME NEW e \in Events, PublishCheck(e) \/ PublishNotify(e)  PROVE TypeOK'
  <2>1. call' \in [Events -> {"idle", "checked", "pushed", "published", "refused"}]
    BY <1>1 DEF PublishCheck, PublishNotify
  <2>2. pc' \in [Workers -> WorkerPC]
    BY <1>1 DEF PublishCheck, PublishNotify, Waiting
  <2>. QED  BY <1>1, <2>1, <2>2 DEF PublishCheck, PublishNotify
<1>2. ASSUME NEW e \in Events, PublishPush(e)  PROVE TypeOK'
  <2>1. event_queue' \in Seq(Events)
    <3>1. Append(event_queue, e) \in Seq(Events)
      BY AppendProperties
    <3>. QED  BY <1>2, <3>1 DEF PublishPush
  <2>2. call' \in [Events -> {"idle", "checked", "pushed", "published", "refused"}]
    BY <1>2 DEF PublishPush
  <2>. QED  BY <1>2, <2>1, <2>2 DEF PublishPush
<1>3. CASE BatchCheck
  BY <1>3 DEF BatchCheck
<1>4. CASE BatchPush
  <2>1. event_queue' \in Seq(Events)
    BY <1>4, BatchFacts, ConcatElements DEF BatchPush
  <2>2. call' \in [Events -> {"idle", "checked", "pushed", "published", "refused"}]
    BY <1>4 DEF BatchPush
  <2>. QED  BY <1>4, <2>1, <2>2 DEF BatchPush
<1>5. CASE BatchNotify
  BY <1>5 DEF BatchNotify, WakeAll, Waiting
<1>6. ASSUME NEW h \in Handlers, Subscribe(h) \/ Unsubscribe(h)  PROVE TypeOK'
  BY <1>6 DEF Subscribe, Unsubscribe
<1>7. ASSUME NEW w \in Workers, LoopTest(w) \/ Block(w) \/ SpuriousWakeup(w)  PROVE TypeOK'
  <2>1. pc' \in [Workers -> WorkerPC]
    BY <1>7 DEF LoopTest, Block, SpuriousWakeup
  <2>2. mutex' \in Workers \cup {Free}
    BY <1>7 DEF LoopTest, Block, SpuriousWakeup
  <2>. QED  BY <1>7, <2>1, <2>2 DEF LoopTest, Block, SpuriousWakeup
<1>8. ASSUME NEW w \in Workers, Acquire(w)  PROVE TypeOK'
  <2>1. CASE Take(w)
    <3>1. Head(event_queue) \in Events /\ Tail(event_queue) \in Seq(Events)
      BY <2>1, HeadTailProperties DEF Take
    <3>. QED  BY <1>8, <2>1, <3>1 DEF Acquire, Take
  <2>2. CASE ~Take(w)
    BY <1>8, <2>2 DEF Acquire
  <2>. QED  BY <2>1, <2>2
<1>9. ASSUME NEW w \in Workers, Route(w)  PROVE TypeOK'
  <2>1. event[w] \in Events
    BY <1>9 DEF Route, HoldsOK
  <2>2. attempts' \in [Events -> Nat] /\ settled' \in SUBSET Events
    BY <1>9, <2>1 DEF Route
  <2>3. pc' \in [Workers -> WorkerPC] /\ event' \in [Workers -> Events \cup {NoEvent}]
    BY <1>9 DEF Route
  <2>. QED  BY <1>9, <2>2, <2>3 DEF Route
<1>10. ASSUME NEW w \in Workers, Bury(w)  PROVE TypeOK'
  <2>1. event[w] \in Events
    BY <1>10 DEF Bury, HoldsOK
  <2>. QED  BY <1>10, <2>1, AppendProperties DEF Bury
<1>11. CASE LettersWake
  BY <1>11 DEF LettersWake
<1>12. CASE Collect
  <2>. DEFINE dead == {dead_letter_queue[i] : i \in DOMAIN dead_letter_queue}
  <2>1. PICK expired \in SUBSET Expiring :
          /\ retrying' = Select(dead_letter_queue, Retried(expired))
          /\ retry_count' = Counted(dead \cap Retried(expired))
          /\ settled' = settled \cup (dead \ Retried(expired))
    BY <1>12 DEF Collect
  <2>2. dead \subseteq Events
    BY ElementOfSeq, LenProperties
  <2>3. retrying' \in Seq(Events)
    BY <2>1, SelectElements
  <2>4. retry_count' \in [Events -> 0..MaxRetries]
    BY <2>1, CountedType
  <2>5. settled' \in SUBSET Events /\ dead_letter_queue' \in Seq(Events)
    BY <1>12, <2>1, <2>2 DEF Collect
  <2>. QED  BY <1>12, <2>3, <2>4, <2>5 DEF Collect
<1>13. CASE Requeue
  <2>1. event_queue' \in Seq(Events) /\ retrying' \in Seq(Events)
    BY <1>13, ConcatElements DEF Requeue
  <2>. QED  BY <1>13, <2>1 DEF Requeue
<1>14. CASE MainStep
  <2>1. CASE StartBus \/ StartLetters \/ ShutdownFlag \/ Join
    BY <2>1 DEF StartBus, StartLetters, ShutdownFlag, Join
  <2>2. CASE ShutdownNotify
    BY <2>2 DEF ShutdownNotify, WakeAll, Waiting
  <2>3. CASE ClearQueues
    BY <2>3 DEF ClearQueues
  <2>. QED  BY <1>14, <2>1, <2>2, <2>3 DEF MainStep
<1>15. CASE UNCHANGED vars
  BY <1>15 DEF vars
<1>. QED
  BY <1>1, <1>2, <1>3, <1>4, <1>5, <1>6, <1>7, <1>8, <1>9, <1>10, <1>11, <1>12, <1>13,
     <1>14, <1>15
  DEF Next, PublishStep, WorkerStep, LettersStep

\* A worker that goes on from one step to the next, with what it then has.
LEMMA HoldsMove ==
  ASSUME TypeOK, HoldsOK, NEW w \in Workers, NEW l, pc' = [pc EXCEPT ![w] = l],
         \/ UNCHANGED event /\ (pc[w] \in {"route", "bury"} <=> l \in {"route", "bury"})
         \/ \E e \in Events : event' = [event EXCEPT ![w] = e] /\ l \in {"route", "bury"}
         \/ event' = [event EXCEPT ![w] = NoEvent] /\ l \notin {"route", "bury"}
  PROVE  HoldsOK'
<1>. SUFFICES ASSUME NEW v \in Workers
              PROVE  event'[v] # NoEvent <=> pc'[v] \in {"route", "bury"}
  BY DEF HoldsOK
<1>1. event[v] # NoEvent <=> pc[v] \in {"route", "bury"}
  BY DEF HoldsOK
<1>2. CASE v # w
  BY <1>1, <1>2 DEF TypeOK
<1>3. CASE v = w
  BY <1>1, <1>3, ConstantsOK DEF TypeOK
<1>. QED  BY <1>2, <1>3

\* Every step keeps who holds an event.
LEMMA HoldsStep == TypeOK /\ HoldsOK /\ [Next]_vars => HoldsOK'
<1>. SUFFICES ASSUME TypeOK, HoldsOK, [Next]_vars  PROVE HoldsOK'
  OBVIOUS
<1>. USE DEF TypeOK, HoldsOK, Goto, Waiting, workerVars
<1>1. CASE UNCHANGED event /\ WakeAll
  BY <1>1 DEF WakeAll
<1>2. CASE UNCHANGED <<pc, event>>
  BY <1>2
<1>3. CASE \E e \in Events : PublishNotify(e)
  <2>1. UNCHANGED event
    BY <1>3 DEF PublishNotify
  <2>2. CASE \E w \in Workers : pc[w] = "waiting" /\ pc' = [pc EXCEPT ![w] = "lock"]
    BY <2>1, <2>2, HoldsMove
  <2>. QED  BY <1>2, <1>3, <2>1, <2>2 DEF PublishNotify
<1>4. ASSUME NEW w \in Workers, LoopTest(w) \/ Block(w) \/ SpuriousWakeup(w)  PROVE HoldsOK'
  <2>1. PICK l \in WorkerPC \ {"route", "bury"} :
          pc' = [pc EXCEPT ![w] = l] /\ pc[w] \notin {"route", "bury"} /\ UNCHANGED event
    BY <1>4 DEF LoopTest, Block, SpuriousWakeup, WorkerPC
  <2>. QED  BY <2>1, HoldsMove
<1>5. ASSUME NEW w \in Workers, Acquire(w)  PROVE HoldsOK'
  <2>1. CASE Take(w)
    <3>1. Head(event_queue) \in Events
      BY <2>1, HeadTailProperties DEF Take
    <3>. QED  BY <2>1, <3>1, HoldsMove DEF Take
  <2>2. CASE ~Take(w)
    <3>1. PICK l \in {"exited", "block"} :
            pc' = [pc EXCEPT ![w] = l] /\ pc[w] = "lock" /\ UNCHANGED event
      BY <1>5, <2>2 DEF Acquire
    <3>. QED  BY <3>1, HoldsMove
  <2>. QED  BY <2>1, <2>2
<1>6. ASSUME NEW w \in Workers, Route(w) \/ Bury(w)  PROVE HoldsOK'
  <2>1. CASE pc' = [pc EXCEPT ![w] = "loop"] /\ event' = [event EXCEPT ![w] = NoEvent]
    BY <2>1, HoldsMove
  <2>2. CASE pc[w] = "route" /\ pc' = [pc EXCEPT ![w] = "bury"] /\ UNCHANGED event
    BY <2>2, HoldsMove
  <2>. QED  BY <1>6, <2>1, <2>2 DEF Route, Bury
<1>7. CASE BatchNotify \/ ShutdownNotify
  BY <1>1, <1>2, <1>7 DEF BatchNotify, ShutdownNotify
<1>8. ASSUME NEW e \in Events, PublishCheck(e) \/ PublishPush(e)  PROVE HoldsOK'
  BY <1>2, <1>8 DEF PublishCheck, PublishPush
<1>9. ASSUME NEW h \in Handlers, Subscribe(h) \/ Unsubscribe(h)  PROVE HoldsOK'
  BY <1>2, <1>9 DEF Subscribe, Unsubscribe
<1>10. CASE BatchCheck \/ BatchPush \/ LettersStep
  BY <1>2, <1>10 DEF BatchCheck, BatchPush, LettersStep, LettersWake, Collect, Requeue
<1>11. CASE MainStep /\ ~ShutdownNotify
  BY <1>2, <1>11
  DEF MainStep, StartBus, StartLetters, ShutdownFlag, Join, ClearQueues
<1>12. CASE UNCHANGED vars
  BY <1>2, <1>12 DEF vars
<1>. QED
  BY <1>3, <1>4, <1>5, <1>6, <1>7, <1>8, <1>9, <1>10, <1>11, <1>12
  DEF Next, PublishStep, WorkerStep

\* Every step keeps the batch and its events apart from single publishers.
LEMMA BatchStep == TypeOK /\ BatchOK /\ [Next]_vars => BatchOK'
<1>. SUFFICES ASSUME TypeOK, BatchOK, [Next]_vars  PROVE BatchOK'
  OBVIOUS
<1>0. BatchSet \subseteq Events
  BY BatchFacts
<1>. USE DEF TypeOK, BatchOK, callVars
<1>1. ASSUME NEW e \in Events, PublishCheck(e) \/ PublishPush(e) \/ PublishNotify(e)
      PROVE  BatchOK'
  BY <1>0, <1>1 DEF PublishCheck, PublishPush, PublishNotify
<1>2. CASE BatchCheck
  BY <1>2 DEF BatchCheck
<1>3. CASE BatchPush \/ BatchNotify
  BY <1>0, <1>3 DEF BatchPush, BatchNotify
<1>4. CASE UNCHANGED callVars
  BY <1>4
<1>5. ASSUME NEW h \in Handlers, Subscribe(h) \/ Unsubscribe(h)  PROVE UNCHANGED callVars
  BY <1>5 DEF Subscribe, Unsubscribe
<1>6. ASSUME NEW w \in Workers, WorkerStep(w) \/ SpuriousWakeup(w)  PROVE UNCHANGED callVars
  BY <1>6 DEF WorkerStep, LoopTest, Acquire, Block, Route, Bury, SpuriousWakeup
<1>7. ASSUME LettersStep \/ MainStep \/ UNCHANGED vars  PROVE UNCHANGED callVars
  BY <1>7
  DEF LettersStep, LettersWake, Collect, Requeue, MainStep, StartBus, StartLetters,
      ShutdownFlag, ShutdownNotify, Join, ClearQueues, vars
<1>. QED  BY <1>1, <1>2, <1>3, <1>4, <1>5, <1>6, <1>7 DEF Next, PublishStep

\* A thread that has exited stays so.
LEMMA ExitedStays ==
  ASSUME TypeOK, [Next]_vars, NEW w \in Workers, pc[w] = "exited"
  PROVE  pc'[w] = "exited"
<1>. USE DEF TypeOK, Goto, Waiting, workerVars
<1>1. ASSUME NEW e \in Events, PublishCheck(e) \/ PublishPush(e) \/ PublishNotify(e)
      PROVE  pc'[w] = "exited"
  BY <1>1 DEF PublishCheck, PublishPush, PublishNotify
<1>2. CASE BatchCheck \/ BatchPush \/ BatchNotify
  BY <1>2 DEF BatchCheck, BatchPush, BatchNotify, WakeAll
<1>3. ASSUME NEW h \in Handlers, Subscribe(h) \/ Unsubscribe(h)  PROVE pc'[w] = "exited"
  BY <1>3 DEF Subscribe, Unsubscribe
<1>4. ASSUME NEW v \in Workers, WorkerStep(v) \/ SpuriousWakeup(v)  PROVE pc'[w] = "exited"
  BY <1>4 DEF WorkerStep, LoopTest, Acquire, Take, Block, Route, Bury, SpuriousWakeup
<1>5. CASE LettersStep \/ UNCHANGED vars
  BY <1>5 DEF LettersStep, LettersWake, Collect, Requeue, vars
<1>6. CASE MainStep
  BY <1>6
  DEF MainStep, StartBus, StartLetters, ShutdownFlag, ShutdownNotify, WakeAll, Join,
      ClearQueues
<1>. QED  BY <1>1, <1>2, <1>3, <1>4, <1>5, <1>6 DEF Next, PublishStep

\* Every step keeps what the threads are at.
LEMMA ThreadsStep == TypeOK /\ ThreadsOK /\ [Next]_vars => ThreadsOK'
<1>. SUFFICES ASSUME TypeOK, ThreadsOK, [Next]_vars  PROVE ThreadsOK'
  OBVIOUS
<1>0. \A w \in Workers : pc[w] = "exited" => pc'[w] = "exited"
  BY ExitedStays
<1>1. CASE UNCHANGED <<letters, retrying, main>>
  BY <1>0, <1>1 DEF ThreadsOK, Retrying
<1>2. CASE LettersWake
  BY <1>0, <1>2 DEF LettersWake, ThreadsOK, Retrying
<1>3. CASE Collect
  BY <1>3 DEF Collect, ThreadsOK
<1>4. CASE Requeue
  BY <1>0, <1>4, EmptyQueue DEF Requeue, ThreadsOK, Retrying
<1>5. CASE MainStep
  BY <1>0, <1>5
  DEF MainStep, StartBus, StartLetters, ShutdownFlag, ShutdownNotify, Join, ClearQueues,
      letterVars, workerVars, ThreadsOK, Retrying
<1>6. ASSUME NEW e \in Events, PublishCheck(e) \/ PublishPush(e) \/ PublishNotify(e)
      PROVE  UNCHANGED <<letters, retrying, main>>
  BY <1>6 DEF PublishCheck, PublishPush, PublishNotify, letterVars
<1>7. ASSUME BatchCheck \/ BatchPush \/ BatchNotify \/ UNCHANGED vars
      PROVE  UNCHANGED <<letters, retrying, main>>
  BY <1>7 DEF BatchCheck, BatchPush, BatchNotify, vars, letterVars
<1>8. ASSUME NEW h \in Handlers, Subscribe(h) \/ Unsubscribe(h)
      PROVE  UNCHANGED <<letters, retrying, main>>
  BY <1>8 DEF Subscribe, Unsubscribe, letterVars
<1>9. ASSUME NEW w \in Workers, WorkerStep(w) \/ SpuriousWakeup(w)
      PROVE  UNCHANGED <<letters, retrying, main>>
  BY <1>9
  DEF WorkerStep, LoopTest, Acquire, Block, Route, Bury, SpuriousWakeup, letterVars
<1>. QED
  BY <1>1, <1>2, <1>3, <1>4, <1>5, <1>6, <1>7, <1>8, <1>9 DEF Next, PublishStep, LettersStep

-----------------------------------------------------------------------------
(* Where the events are                                                    *)

HeldOnce == \A v, w \in Workers : event[v] = event[w] /\ event[v] # NoEvent => v = w

PlacesInv == NeverTwice /\ PlacesOK /\ CountsOK

\* Places hold events, and a worker that has an event holds it.
LEMMA PlacesTypes ==
  ASSUME TypeOK
  PROVE  /\ Queued \subseteq Events /\ Dead \subseteq Events /\ Retrying \subseteq Events
         /\ Held \subseteq Events /\ settled \subseteq Events /\ Pushed \subseteq Events
         /\ \A w \in Workers : event[w] # NoEvent => event[w] \in Held
<1>1. \A q \in Seq(Events) : Elems(q) \subseteq Events
  BY ElementOfSeq, LenProperties DEF Elems
<1>. QED  BY <1>1 DEF TypeOK, Queued, Dead, Retrying, Held, Pushed

\* A worker without an event gets one that no worker has.
LEMMA HeldGain ==
  ASSUME TypeOK, HeldOnce, NEW w \in Workers, event[w] = NoEvent,
         NEW e \in Events \ Held, event' = [event EXCEPT ![w] = e]
  PROVE  Held' = Held \cup {e} /\ HeldOnce'
<1>1. /\ event'[w] = e /\ e # NoEvent
      /\ \A v \in Workers \ {w} : event'[v] = event[v]
  BY ConstantsOK DEF TypeOK
<1>2. \A v \in Workers : event[v] # e
  BY <1>1 DEF Held
<1>3. Held' = Held \cup {e}
  BY <1>1 DEF Held
<1>4. HeldOnce'
  BY <1>1, <1>2 DEF HeldOnce
<1>. QED  BY <1>3, <1>4

\* A worker lets go of its event.
LEMMA HeldLoss ==
  ASSUME TypeOK, HeldOnce, NEW w \in Workers, event[w] # NoEvent,
         event' = [event EXCEPT ![w] = NoEvent]
  PROVE  Held' = Held \ {event[w]} /\ HeldOnce'
<1>1. /\ event'[w] = NoEvent
      /\ \A v \in Workers \ {w} : event'[v] = event[v]
  BY DEF TypeOK
<1>2. \A v \in Workers \ {w} : event[v] # event[w]
  BY DEF HeldOnce
<1>3. Held' = Held \ {event[w]}
  BY <1>1, <1>2 DEF Held
<1>4. HeldOnce'
  BY <1>1 DEF HeldOnce
<1>. QED  BY <1>3, <1>4

\* Steps that move no event.
LEMMA PlacesMove ==
  ASSUME TypeOK, PlacesInv,
         UNCHANGED <<event_queue, dead_letter_queue, retrying, event, settled, attempts,
                     retry_count>>,
         Pushed' = Pushed, main' # "down" => main # "down",
         \A w \in Workers : pc'[w] \in {"route", "bury"} => pc'[w] = pc[w]
  PROVE  PlacesInv'
<1>1. /\ Queued' = Queued /\ Dead' = Dead /\ Retrying' = Retrying /\ Held' = Held
      /\ Places' = Places
  BY DEF Queued, Dead, Retrying, Held, Places
<1>2. NeverTwice'
  BY <1>1 DEF PlacesInv, NeverTwice
<1>3. PlacesOK'
  BY <1>1 DEF PlacesInv, PlacesOK
<1>4. CountsOK'
  BY <1>1 DEF PlacesInv, CountsOK
<1>. QED  BY <1>2, <1>3, <1>4 DEF PlacesInv

\* Events that were nowhere are pushed.
LEMMA PlacesPush ==
  ASSUME TypeOK, PlacesInv, NEW q \in Seq(Events), Elems(q) \cap Pushed = {},
         NoRepetition(q), event_queue' = event_queue \o q, Pushed' = Pushed \cup Elems(q),
         UNCHANGED <<dead_letter_queue, retrying, pc, event, settled, attempts, retry_count,
                     main>>
  PROVE  PlacesInv'
<1>. DEFINE B == Elems(q)
<1>1. /\ Dead' = Dead /\ Retrying' = Retrying /\ Held' = Held
  BY DEF Dead, Retrying, Held
<1>2. B \cap Queued = {}
  BY DEF PlacesInv, PlacesOK, Places
<1>3. Queued' = Queued \cup B /\ NoRepetition(event_queue')
  BY <1>2, QueueFacts, ConcatElements DEF Queued, TypeOK, PlacesInv, NeverTwice
<1>. HIDE DEF B
<1>4. Places' = Places \cup B
  BY <1>1, <1>3 DEF Places
<1>5. B \cap Places = {} /\ B \cap Pushed = {}
  BY DEF PlacesInv, PlacesOK, B
<1>6. NeverTwice'
  <2>1. B \cap (Dead \cup Retrying \cup Held \cup settled) = {}
    BY <1>5 DEF Places
  <2>. QED  BY <1>1, <1>3, <2>1 DEF PlacesInv, NeverTwice
<1>7. PlacesOK'
  BY <1>4 DEF PlacesInv, PlacesOK, B
<1>8. CountsOK'
  <2>1. B \subseteq Events
    BY ElementOfSeq, LenProperties DEF B, Elems
  <2>. QED  BY <1>1, <1>3, <1>5, <2>1 DEF PlacesInv, CountsOK, B
<1>. QED  BY <1>6, <1>7, <1>8 DEF PlacesInv

\* A worker takes the first event of the queue.
LEMMA PlacesTake ==
  ASSUME TypeOK, HoldsOK, PlacesInv, NEW w \in Workers, pc[w] = "lock", Take(w),
         UNCHANGED <<dead_letter_queue, retrying, settled, attempts, retry_count, call, main>>
  PROVE  PlacesInv'
<1>. DEFINE e == Head(event_queue)
<1>1. /\ event_queue # <<>> /\ event_queue' = Tail(event_queue)
      /\ event' = [event EXCEPT ![w] = e] /\ pc' = [pc EXCEPT ![w] = "route"]
  BY DEF Take, Goto
<1>2. /\ e \in Queued /\ Queued = Queued' \cup {e}
      /\ NoRepetition(event_queue') /\ e \notin Queued'
  BY <1>1, QueueFacts, TailElements DEF Queued, TypeOK, PlacesInv, NeverTwice
<1>. HIDE DEF e
<1>3. Queued' = Queued \ {e}
  BY <1>2
<1>4. e \in Events \ Held /\ event[w] = NoEvent
  BY <1>2, PlacesTypes DEF PlacesInv, NeverTwice, HoldsOK
<1>5. Held' = Held \cup {e} /\ HeldOnce'
  BY <1>1, <1>4, HeldGain DEF PlacesInv, NeverTwice, HeldOnce
<1>6. Dead' = Dead /\ Retrying' = Retrying /\ Pushed' = Pushed
  BY DEF Dead, Retrying, Pushed
<1>7. NeverTwice'
  BY <1>2, <1>3, <1>5, <1>6 DEF PlacesInv, NeverTwice, HeldOnce
<1>8. PlacesOK'
  BY <1>2, <1>3, <1>5, <1>6 DEF PlacesInv, PlacesOK, Places
<1>9. CountsOK'
  <2>1. attempts[e] = retry_count[e]
    BY <1>2 DEF PlacesInv, CountsOK
  <2>2. ASSUME NEW v \in Workers
        PROVE  /\ pc'[v] = "route" => attempts[event'[v]] = retry_count[event'[v]]
               /\ pc'[v] = "bury" => attempts[event'[v]] = retry_count[event'[v]] + 1
    <3>1. CASE v = w
      BY <1>1, <2>1, <3>1 DEF TypeOK
    <3>2. CASE v # w
      BY <1>1, <3>2 DEF TypeOK, PlacesInv, CountsOK
    <3>. QED  BY <3>1, <3>2
  <2>. QED  BY <1>3, <1>6, <2>2 DEF PlacesInv, CountsOK
<1>. QED  BY <1>7, <1>8, <1>9 DEF PlacesInv

\* What a worker holds is in no other place, and with no other worker.
LEMMA HeldAlone ==
  ASSUME TypeOK, HoldsOK, PlacesInv, NEW w \in Workers, pc[w] \in {"route", "bury"}
  PROVE  /\ event[w] \in Events /\ event[w] # NoEvent /\ event[w] \in Held
         /\ event[w] \in Pushed
         /\ event[w] \notin Queued \cup Dead \cup Retrying \cup settled
         /\ \A v \in Workers \ {w} : pc[v] \in {"route", "bury"} => event[v] # event[w]
<1>1. event[w] \in Events /\ event[w] # NoEvent /\ event[w] \in Held
  BY PlacesTypes DEF TypeOK, HoldsOK
<1>2. event[w] \in Pushed
  BY <1>1 DEF PlacesInv, PlacesOK, Places
<1>. QED  BY <1>1, <1>2 DEF PlacesInv, NeverTwice

\* A routed event is settled, or stays with its worker until it is buried.
LEMMA PlacesRoute ==
  ASSUME TypeOK, HoldsOK, PlacesInv, NEW w \in Workers, Route(w)
  PROVE  PlacesInv'
<1>. DEFINE e == event[w]
<1>1. /\ e \in Events /\ e # NoEvent /\ e \in Held /\ e \in Pushed
      /\ e \notin Queued \cup Dead \cup Retrying \cup settled
      /\ \A v \in Workers \ {w} : pc[v] \in {"route", "bury"} => event[v] # e
  BY HeldAlone DEF Route
<1>2. /\ UNCHANGED <<event_queue, dead_letter_queue, retrying, retry_count, call, main>>
      /\ attempts' = [attempts EXCEPT ![e] = @ + 1] /\ pc[w] = "route"
  BY DEF Route, queueVars, callVars, letterVars
<1>3. Queued' = Queued /\ Dead' = Dead /\ Retrying' = Retrying /\ Pushed' = Pushed
  BY <1>2 DEF Queued, Dead, Retrying, Pushed
<1>4. /\ attempts'[e] = retry_count'[e] + 1
      /\ \A x \in Events \ {e} : attempts'[x] = attempts[x]
  BY <1>1, <1>2 DEF TypeOK, PlacesInv, CountsOK
<1>5. \A v \in Workers \ {w} :
        pc[v] \in {"route", "bury"} => event[v] \in Events \ {e}
  BY <1>1 DEF HoldsOK, TypeOK
<1>6. CASE /\ settled' = settled \cup {e} /\ event' = [event EXCEPT ![w] = NoEvent]
           /\ pc' = [pc EXCEPT ![w] = "loop"]
  <2>. HIDE DEF e
  <2>1. Held' = Held \ {e} /\ HeldOnce'
    BY <1>1, <1>6, HeldLoss DEF PlacesInv, NeverTwice, HeldOnce, e
  <2>2. NeverTwice'
    BY <1>1, <1>2, <1>3, <1>6, <2>1 DEF PlacesInv, NeverTwice, HeldOnce
  <2>3. PlacesOK'
    BY <1>1, <1>2, <1>3, <1>6, <2>1 DEF PlacesInv, PlacesOK, Places
  <2>4. CountsOK'
    <3>1. ASSUME NEW v \in Workers
          PROVE  /\ pc'[v] = "route" => attempts'[event'[v]] = retry_count[event'[v]]
                 /\ pc'[v] = "bury" => attempts'[event'[v]] = retry_count[event'[v]] + 1
      <4>1. CASE v = w
        BY <1>6, <4>1 DEF TypeOK
      <4>2. CASE v # w
        BY <1>4, <1>5, <1>6, <4>2 DEF TypeOK, PlacesInv, CountsOK
      <4>. QED  BY <4>1, <4>2
    <3>2. /\ \A x \in Events \ Pushed : attempts'[x] = 0 /\ retry_count'[x] = 0
          /\ \A x \in Queued \cup Retrying : attempts'[x] = retry_count'[x]
          /\ \A x \in Dead \cup settled' : attempts'[x] = retry_count'[x] + 1
      BY <1>1, <1>2, <1>4, <1>6, PlacesTypes DEF PlacesInv, CountsOK
    <3>. QED  BY <1>2, <1>3, <3>1, <3>2 DEF CountsOK
  <2>. QED  BY <2>2, <2>3, <2>4 DEF PlacesInv
<1>7. CASE UNCHANGED <<settled, event>> /\ pc' = [pc EXCEPT ![w] = "bury"]
  <2>. HIDE DEF e
  <2>1. Held' = Held
    BY <1>7 DEF Held
  <2>2. NeverTwice' /\ PlacesOK'
    BY <1>2, <1>3, <1>7, <2>1 DEF PlacesInv, NeverTwice, PlacesOK, Places
  <2>3. CountsOK'
    <3>1. ASSUME NEW v \in Workers
          PROVE  /\ pc'[v] = "route" => attempts'[event'[v]] = retry_count[event'[v]]
                 /\ pc'[v] = "bury" => attempts'[event'[v]] = retry_count[event'[v]] + 1
      <4>1. CASE v = w
        BY <1>2, <1>4, <1>7, <4>1 DEF TypeOK, e
      <4>2. CASE v # w
        BY <1>4, <1>5, <1>7, <4>2 DEF TypeOK, PlacesInv, CountsOK
      <4>. QED  BY <4>1, <4>2
    <3>2. /\ \A x \in Events \ Pushed : attempts'[x] = 0 /\ retry_count'[x] = 0
          /\ \A x \in Queued \cup Retrying : attempts'[x] = retry_count'[x]
          /\ \A x \in Dead \cup settled : attempts'[x] = retry_count'[x] + 1
      BY <1>1, <1>2, <1>4, PlacesTypes DEF PlacesInv, CountsOK
    <3>. QED  BY <1>2, <1>3, <1>7, <3>1, <3>2 DEF CountsOK
  <2>. QED  BY <2>2, <2>3 DEF PlacesInv
<1>. QED  BY <1>6, <1>7 DEF Route, Goto

\* An event whose handler threw goes to the dead-letter queue.
LEMMA PlacesBury ==
  ASSUME TypeOK, HoldsOK, PlacesInv, NEW w \in Workers, Bury(w)
  PROVE  PlacesInv'
<1>. DEFINE e == event[w]
<1>1. /\ e \in Events /\ e # NoEvent /\ e \in Held /\ e \in Pushed
      /\ e \notin Queued \cup Dead \cup Retrying \cup settled
  BY HeldAlone DEF Bury
<1>2. /\ UNCHANGED <<event_queue, retrying, retry_count, call, main, attempts, settled>>
      /\ pc[w] = "bury" /\ dead_letter_queue' = Append(dead_letter_queue, e)
      /\ event' = [event EXCEPT ![w] = NoEvent] /\ pc' = [pc EXCEPT ![w] = "loop"]
  BY DEF Bury, callVars, letterVars, historyVars, Goto
<1>3. Queued' = Queued /\ Retrying' = Retrying /\ Pushed' = Pushed
  BY <1>2 DEF Queued, Retrying, Pushed
<1>4. attempts[e] = retry_count[e] + 1
  BY <1>2 DEF PlacesInv, CountsOK
<1>5. Held' = Held \ {e} /\ HeldOnce'
  BY <1>1, <1>2, HeldLoss DEF PlacesInv, NeverTwice, HeldOnce
<1>. HIDE DEF e
<1>6. Dead' = Dead \cup {e} /\ NoRepetition(dead_letter_queue')
  BY <1>1, <1>2, QueueFacts, AppendElements DEF Dead, TypeOK, PlacesInv, NeverTwice
<1>7. NeverTwice'
  BY <1>1, <1>2, <1>3, <1>5, <1>6 DEF PlacesInv, NeverTwice, HeldOnce
<1>8. PlacesOK'
  BY <1>1, <1>2, <1>3, <1>5, <1>6 DEF PlacesInv, PlacesOK, Places
<1>9. CountsOK'
  <2>1. ASSUME NEW v \in Workers
        PROVE  /\ pc'[v] = "route" => attempts[event'[v]] = retry_count[event'[v]]
               /\ pc'[v] = "bury" => attempts[event'[v]] = retry_count[event'[v]] + 1
    <3>1. CASE v = w
      BY <1>2, <3>1 DEF TypeOK
    <3>2. CASE v # w
      BY <1>2, <3>2 DEF TypeOK, PlacesInv, CountsOK
    <3>. QED  BY <3>1, <3>2
  <2>. QED  BY <1>2, <1>3, <1>4, <1>6, <2>1 DEF PlacesInv, CountsOK
<1>. QED  BY <1>7, <1>8, <1>9 DEF PlacesInv

\* The dead-letter thread sorts the dead letters into those it retries, counting one
\* more retry for each, and those it gives up.
LEMMA PlacesCollect ==
  ASSUME TypeOK, HoldsOK, ThreadsOK, PlacesInv, Collect
  PROVE  PlacesInv'
<1>1. PICK expired \in SUBSET Expiring :
        /\ retrying' = Select(dead_letter_queue, Retried(expired))
        /\ retry_count' = Counted(Dead \cap Retried(expired))
        /\ settled' = settled \cup (Dead \ Retried(expired))
  BY DEF Collect, Dead, Elems
<1>. DEFINE again == Dead \cap Retried(expired)
<1>2. /\ dead_letter_queue' = <<>>
      /\ UNCHANGED <<event_queue, pc, event, call, main, attempts>>
      /\ Retrying = {}
  BY DEF Collect, ThreadsOK, workerVars, callVars
<1>3. Retrying' = again /\ NoRepetition(retrying')
  BY <1>1, QueueFacts, SelectElements DEF Retrying, Dead, TypeOK, PlacesInv, NeverTwice
<1>4. Dead' = {} /\ NoRepetition(dead_letter_queue')
  BY <1>2, EmptyQueue DEF Dead
<1>5. Queued' = Queued /\ Held' = Held /\ Pushed' = Pushed
  BY <1>2 DEF Queued, Held, Pushed
<1>6. again \subseteq Dead /\ settled' = settled \cup (Dead \ again)
  BY <1>1
<1>7. /\ \A x \in again : retry_count'[x] = retry_count[x] + 1
      /\ \A x \in Events \ again : retry_count'[x] = retry_count[x]
  BY <1>1, PlacesTypes DEF Counted
<1>. HIDE DEF again
<1>8. NeverTwice'
  BY <1>2, <1>3, <1>4, <1>5, <1>6 DEF PlacesInv, NeverTwice
<1>9. PlacesOK'
  BY <1>2, <1>3, <1>4, <1>5, <1>6 DEF PlacesInv, PlacesOK, Places
<1>10. CountsOK'
  <2>1. Dead \subseteq Pushed /\ Dead \cap (Queued \cup settled) = {}
    BY DEF PlacesInv, PlacesOK, NeverTwice, Places
  <2>2. ASSUME NEW v \in Workers
        PROVE  /\ pc[v] = "route" => attempts[event[v]] = retry_count'[event[v]]
               /\ pc[v] = "bury" => attempts[event[v]] = retry_count'[event[v]] + 1
    <3>. SUFFICES ASSUME pc[v] \in {"route", "bury"}
                  PROVE  retry_count'[event[v]] = retry_count[event[v]]
      BY DEF PlacesInv, CountsOK
    <3>. QED  BY <1>6, <1>7, HeldAlone
  <2>3. \A x \in Events \ Pushed : attempts[x] = 0 /\ retry_count'[x] = 0
    BY <1>6, <1>7, <2>1 DEF PlacesInv, CountsOK
  <2>4. \A x \in Queued \cup again : attempts[x] = retry_count'[x]
    BY <1>6, <1>7, <2>1, PlacesTypes DEF PlacesInv, CountsOK
  <2>5. \A x \in settled' : attempts[x] = retry_count'[x] + 1
    BY <1>6, <1>7, <2>1, PlacesTypes DEF PlacesInv, CountsOK
  <2>. QED  BY <1>2, <1>3, <1>4, <1>5, <2>2, <2>3, <2>4, <2>5 DEF CountsOK
<1>. QED  BY <1>8, <1>9, <1>10 DEF PlacesInv

\* The retried events go back to the queue.
LEMMA PlacesRequeue ==
  ASSUME TypeOK, PlacesInv, Requeue
  PROVE  PlacesInv'
<1>1. /\ event_queue' = event_queue \o retrying /\ retrying' = <<>>
      /\ UNCHANGED <<dead_letter_queue, retry_count, pc, event, call, main, attempts, settled>>
  BY DEF Requeue, workerVars, callVars, historyVars
<1>2. Queued \cap Retrying = {}
  BY DEF PlacesInv, NeverTwice
<1>3. Queued' = Queued \cup Retrying /\ NoRepetition(event_queue')
  BY <1>1, <1>2, QueueFacts, ConcatElements
  DEF Queued, Retrying, TypeOK, PlacesInv, NeverTwice
<1>4. Retrying' = {} /\ NoRepetition(retrying')
  BY <1>1, EmptyQueue DEF Retrying
<1>5. Dead' = Dead /\ Held' = Held /\ Pushed' = Pushed
  BY <1>1 DEF Dead, Held, Pushed
<1>6. NeverTwice'
  BY <1>1, <1>3, <1>4, <1>5 DEF PlacesInv, NeverTwice
<1>7. PlacesOK'
  BY <1>1, <1>3, <1>4, <1>5 DEF PlacesInv, PlacesOK, Places
<1>8. CountsOK'
  BY <1>1, <1>3, <1>4, <1>5 DEF PlacesInv, CountsOK
<1>. QED  BY <1>6, <1>7, <1>8 DEF PlacesInv

\* shutdown destroys what is queued.
LEMMA PlacesClear ==
  ASSUME TypeOK, PlacesInv, ClearQueues
  PROVE  PlacesInv'
<1>1. /\ event_queue' = <<>> /\ dead_letter_queue' = <<>> /\ main' = "down"
      /\ UNCHANGED <<retrying, retry_count, pc, event, call, attempts, settled>>
  BY DEF ClearQueues, workerVars, callVars, letterVars, historyVars
<1>2. /\ Queued' = {} /\ NoRepetition(event_queue')
      /\ Dead' = {} /\ NoRepetition(dead_letter_queue')
  BY <1>1, EmptyQueue DEF Queued, Dead
<1>3. Retrying' = Retrying /\ Held' = Held /\ Pushed' = Pushed
  BY <1>1 DEF Retrying, Held, Pushed
<1>4. NeverTwice'
  BY <1>1, <1>2, <1>3 DEF PlacesInv, NeverTwice
<1>5. PlacesOK'
  BY <1>1, <1>2, <1>3 DEF PlacesInv, PlacesOK, Places
<1>6. CountsOK'
  BY <1>1, <1>2, <1>3 DEF PlacesInv, CountsOK
<1>. QED  BY <1>4, <1>5, <1>6 DEF PlacesInv

\* The publishers.
LEMMA PlacesPublish ==
  ASSUME TypeOK, HoldsOK, BatchOK, PlacesInv, PublishStep
  PROVE  PlacesInv'
<1>1. ASSUME NEW e \in Events, PublishCheck(e)  PROVE PlacesInv'
  <2>1. /\ UNCHANGED <<event_queue, dead_letter_queue, retrying, event, settled, attempts,
                       retry_count, pc, main>>
        /\ Pushed' = Pushed
    BY <1>1
    DEF PublishCheck, queueVars, workerVars, letterVars, historyVars, TypeOK, Pushed
  <2>. QED  BY <2>1, PlacesMove
<1>2. ASSUME NEW e \in Events, PublishPush(e)  PROVE PlacesInv'
  <2>0. UNCHANGED <<dead_letter_queue, retrying, pc, event, settled, attempts, retry_count,
                    main>>
    BY <1>2 DEF PublishPush, workerVars, letterVars, historyVars
  <2>1. CASE call' = [call EXCEPT ![e] = "refused"] /\ UNCHANGED event_queue
    <3>1. Pushed' = Pushed
      BY <1>2, <2>1 DEF PublishPush, TypeOK, Pushed
    <3>. QED  BY <2>0, <2>1, <3>1, PlacesMove
  <2>2. CASE event_queue' = Append(event_queue, e) /\ call' = [call EXCEPT ![e] = "pushed"]
    <3>. DEFINE q == <<e>>
    <3>1. q \in Seq(Events) /\ NoRepetition(q) /\ Elems(q) = {e}
      BY DEF Elems, NoRepetition
    <3>2. event_queue' = event_queue \o q
      BY <2>2, AppendIsConcat DEF TypeOK
    <3>3. Pushed' = Pushed \cup {e} /\ e \notin Pushed
      BY <1>2, <2>2 DEF PublishPush, TypeOK, Pushed
    <3>. HIDE DEF q
    <3>. QED  BY <2>0, <3>1, <3>2, <3>3, PlacesPush
  <2>. QED  BY <1>2, <2>1, <2>2 DEF PublishPush
<1>3. ASSUME NEW e \in Events, PublishNotify(e)  PROVE PlacesInv'
  <2>1. /\ UNCHANGED <<event_queue, dead_letter_queue, retrying, event, settled, attempts,
                       retry_count, main>>
        /\ Pushed' = Pushed
    BY <1>3
    DEF PublishNotify, queueVars, letterVars, historyVars, TypeOK, Pushed
  <2>2. \A w \in Workers : pc'[w] \in {"route", "bury"} => pc'[w] = pc[w]
    BY <1>3 DEF PublishNotify, Goto, TypeOK
  <2>. QED  BY <2>1, <2>2, PlacesMove
<1>4. CASE BatchCheck
  <2>1. /\ UNCHANGED <<event_queue, dead_letter_queue, retrying, event, settled, attempts,
                       retry_count, pc, main>>
        /\ Pushed' = Pushed
    BY <1>4
    DEF BatchCheck, queueVars, workerVars, letterVars, historyVars, Pushed
  <2>. QED  BY <2>1, PlacesMove
<1>5. CASE BatchPush
  <2>. DEFINE q == SubSeq(Batch, 1, Room)
              B == {Batch[i] : i \in 1..Room}
  <2>1. /\ q \in Seq(Events) /\ Elems(q) = B /\ NoRepetition(q)
        /\ B \subseteq BatchSet /\ BatchSet \subseteq Events
    BY BatchFacts
  <2>2. /\ event_queue' = event_queue \o q /\ batch = "checked"
        /\ call' = [e \in Events |-> IF e \notin BatchSet THEN call[e]
                                     ELSE IF e \in B THEN "pushed" ELSE "refused"]
        /\ UNCHANGED <<dead_letter_queue, retrying, pc, event, settled, attempts,
                       retry_count, main>>
    BY <1>5 DEF BatchPush, workerVars, letterVars, historyVars
  <2>. HIDE DEF q, B
  <2>3. \A e \in BatchSet : call[e] = "idle"
    BY <2>2 DEF BatchOK
  <2>4. Pushed' = Pushed \cup B /\ B \cap Pushed = {}
    BY <2>1, <2>2, <2>3 DEF Pushed
  <2>. QED  BY <2>1, <2>2, <2>4, PlacesPush
<1>6. CASE BatchNotify
  <2>1. /\ UNCHANGED <<event_queue, dead_letter_queue, retrying, event, settled, attempts,
                       retry_count, main>>
        /\ Pushed' = Pushed
    BY <1>6
    DEF BatchNotify, queueVars, letterVars, historyVars, Pushed
  <2>2. \A w \in Workers : pc'[w] \in {"route", "bury"} => pc'[w] = pc[w]
    BY <1>6 DEF BatchNotify, WakeAll, Waiting, TypeOK
  <2>. QED  BY <2>1, <2>2, PlacesMove
<1>. QED  BY <1>1, <1>2, <1>3, <1>4, <1>5, <1>6 DEF PublishStep

\* The workers.
LEMMA PlacesWorker ==
  ASSUME TypeOK, HoldsOK, PlacesInv, NEW w \in Workers, WorkerStep(w) \/ SpuriousWakeup(w)
  PROVE  PlacesInv'
<1>1. CASE LoopTest(w) \/ Block(w) \/ SpuriousWakeup(w) \/ (Acquire(w) /\ ~Take(w))
  <2>1. /\ UNCHANGED <<event_queue, dead_letter_queue, retrying, event, settled, attempts,
                       retry_count, call, main>>
        /\ \A v \in Workers : pc'[v] \in {"route", "bury"} => pc'[v] = pc[v]
    BY <1>1
    DEF LoopTest, Block, SpuriousWakeup, Acquire, Goto, queueVars, callVars, letterVars,
        historyVars, TypeOK
  <2>2. Pushed' = Pushed
    BY <2>1 DEF Pushed
  <2>. QED  BY <2>1, <2>2, PlacesMove
<1>2. CASE Acquire(w) /\ Take(w)
  BY <1>2, PlacesTake DEF Acquire, callVars, letterVars, historyVars
<1>. QED  BY <1>1, <1>2, PlacesRoute, PlacesBury DEF WorkerStep

\* Every step keeps each event in one place, and its counts.
LEMMA PlacesStep == BusInv /\ [Next]_vars => PlacesInv'
<1>. SUFFICES ASSUME BusInv, [Next]_vars  PROVE PlacesInv'
  OBVIOUS
<1>0. TypeOK /\ HoldsOK /\ BatchOK /\ ThreadsOK /\ PlacesInv
  BY DEF BusInv, PlacesInv
<1>1. CASE PublishStep
  BY <1>0, <1>1, PlacesPublish
<1>2. ASSUME NEW w \in Workers, WorkerStep(w) \/ SpuriousWakeup(w)  PROVE PlacesInv'
  BY <1>0, <1>2, PlacesWorker
<1>3. CASE Collect
  BY <1>0, <1>3, PlacesCollect
<1>4. CASE Requeue
  BY <1>0, <1>4, PlacesRequeue
<1>5. CASE ClearQueues
  BY <1>0, <1>5, PlacesClear
<1>6. CASE \/ \E h \in Handlers : Subscribe(h) \/ Unsubscribe(h)
           \/ LettersWake \/ StartBus \/ StartLetters \/ ShutdownFlag \/ ShutdownNotify
           \/ Join \/ UNCHANGED vars
  <2>1. /\ UNCHANGED <<event_queue, dead_letter_queue, retrying, event, settled, attempts,
                       retry_count, call>>
        /\ main' # "down" => main # "down"
    BY <1>6
    DEF Subscribe, Unsubscribe, LettersWake, StartBus, StartLetters, ShutdownFlag,
        ShutdownNotify, Join, vars, queueVars, workerVars, callVars, letterVars, historyVars
  <2>2. \A v \in Workers : pc'[v] \in {"route", "bury"} => pc'[v] = pc[v]
    <3>1. CASE ShutdownNotify
      BY <3>1, <1>0 DEF ShutdownNotify, WakeAll, Waiting, TypeOK
    <3>2. CASE ~ShutdownNotify
      BY <3>2, <1>6
      DEF Subscribe, Unsubscribe, LettersWake, StartBus, StartLetters, ShutdownFlag, Join,
          vars, workerVars
    <3>. QED  BY <3>1, <3>2
  <2>3. Pushed' = Pushed
    BY <2>1 DEF Pushed
  <2>. QED  BY <1>0, <2>1, <2>2, <2>3, PlacesMove
<1>. QED
  BY <1>1, <1>2, <1>3, <1>4, <1>5, <1>6 DEF Next, LettersStep, MainStep

-----------------------------------------------------------------------------
(* The theorems                                                            *)

\* The bus begins with nothing queued and nobody at work.
LEMMA BusInit == Init => BusInv
<1>. SUFFICES ASSUME Init  PROVE BusInv
  OBVIOUS
<1>1. Queued = {} /\ Dead = {} /\ Retrying = {} /\ Held = {} /\ settled = {} /\ Pushed = {}
  BY EmptyQueue DEF Init, Queued, Dead, Retrying, Held, Pushed
<1>2. TypeOK
  <2>1. MaxRetries \in Nat /\ <<>> \in Seq(Events)
    BY ConstantsOK
  <2>2. /\ retry_count \in [Events -> 0..MaxRetries] /\ attempts \in [Events -> Nat]
        /\ call \in [Events -> {"idle", "checked", "pushed", "published", "refused"}]
    BY <2>1 DEF Init
  <2>3. pc \in [Workers -> WorkerPC] /\ event \in [Workers -> Events \cup {NoEvent}]
    BY DEF Init, WorkerPC
  <2>. QED  BY <2>1, <2>2, <2>3 DEF Init, TypeOK
<1>3. HoldsOK /\ ThreadsOK
  BY <1>1 DEF Init, HoldsOK, ThreadsOK
<1>4. BatchOK
  BY BatchFacts, <1>2 DEF Init, BatchOK
<1>5. NeverTwice
  BY <1>1, EmptyQueue DEF Init, NeverTwice
<1>6. PlacesOK /\ CountsOK
  BY <1>1 DEF Init, PlacesOK, Places, CountsOK
<1>. QED  BY <1>2, <1>3, <1>4, <1>5, <1>6 DEF BusInv

\* Every step keeps the inductive invariant.
LEMMA BusStep == BusInv /\ [Next]_vars => BusInv'
  BY TypeStep, HoldsStep, BatchStep, ThreadsStep, PlacesStep DEF BusInv, PlacesInv

\* The inductive invariant: where every event is, and how often it was routed.
THEOREM BusInvariant == Spec => []BusInv
  BY BusInit, BusStep, PTL DEF Spec

\* The types; in particular no event is granted more than MaxRetries retries.
THEOREM TypeOKHolds == Spec => []TypeOK
  BY BusInvariant, PTL DEF BusInv

\* No event is ever in two places, or twice in one: not when a retry meets a
\* publisher, nor when a worker's exception meets the dead-letter thread.
THEOREM NeverTwiceHolds == Spec => []NeverTwice
  BY BusInvariant, PTL DEF BusInv

\* An event that publish accepted is queued, dead, retried, held or settled until
\* shutdown clears the queues.
THEOREM NeverLostHolds == Spec => []NeverLost
<1>1. BusInv => NeverLost
  BY DEF BusInv, PlacesOK, Places, NeverLost
<1>. QED  BY BusInvariant, <1>1, PTL

\* Every granted retry is one more attempt, so that no event is routed more than
\* 1 + MaxRetries times.
THEOREM AttemptsMatchRetriesHolds == Spec => []AttemptsMatchRetries
<1>1. BusInv => AttemptsMatchRetries
  BY DEF BusInv, CountsOK, AttemptsMatchRetries
<1>. QED  BY BusInvariant, <1>1, PTL

\* Once shutdown is about to clear the queues, no thread has an event left to put
\* back into them.
LEMMA NothingLeft == BusInv => NoRetryAfterClear
<1>. SUFFICES ASSUME BusInv, main \in {"clear", "down"}
              PROVE  Retrying = {} /\ Held = {}
  BY DEF NoRetryAfterClear
<1>1. letters = "exited" /\ \A w \in Workers : pc[w] = "exited"
  BY DEF BusInv, ThreadsOK
<1>2. Retrying = {}
  BY <1>1 DEF BusInv, ThreadsOK
<1>3. \A w \in Workers : event[w] = NoEvent
  BY <1>1 DEF BusInv, HoldsOK
<1>. QED  BY <1>2, <1>3 DEF Held

\* So no retry comes back to life after the queues are cleared.
THEOREM NoRetryAfterClearHolds == Spec => []NoRetryAfterClear
  BY BusInvariant, NothingLeft, PTL

-----------------------------------------------------------------------------
(* The bus implements EventDelivery: step by step, from BusInv             *)

\* The events that the workers other than w have at l.
Others(w, l) == {event[v] : v \in {u \in Workers \ {w} : pc[u] = l}}


\* A step of one worker changes only its own share of With(l).
LEMMA WithMove ==
  ASSUME TypeOK, NEW w \in Workers, NEW k \in WorkerPC, pc' = [pc EXCEPT ![w] = k],
         \A v \in Workers \ {w} : event'[v] = event[v]
  PROVE  \A l \in {"route", "bury"} :
           /\ With(l) = IF pc[w] = l THEN Others(w, l) \cup {event[w]} ELSE Others(w, l)
           /\ With(l)' = IF k = l THEN Others(w, l) \cup {event'[w]} ELSE Others(w, l)
<1>1. pc'[w] = k /\ \A v \in Workers \ {w} : pc'[v] = pc[v]
  BY DEF TypeOK
<1>. SUFFICES ASSUME NEW l \in {"route", "bury"}
              PROVE  /\ pc[w] = l => With(l) = Others(w, l) \cup {event[w]}
                     /\ pc[w] # l => With(l) = Others(w, l)
                     /\ k = l => With(l)' = Others(w, l) \cup {event'[w]}
                     /\ k # l => With(l)' = Others(w, l)
  OBVIOUS
<1>2. /\ pc[w] = l => With(l) = Others(w, l) \cup {event[w]}
      /\ pc[w] # l => With(l) = Others(w, l)
  BY DEF With, Others
<1>3. /\ k = l => With(l)' = Others(w, l) \cup {event'[w]}
      /\ k # l => With(l)' = Others(w, l)
  BY <1>1 DEF With, Others
<1>. QED  BY <1>2, <1>3

\* Steps that move no event are stuttering steps of EventDelivery.
LEMMA DeliveryStutter ==
  ASSUME UNCHANGED <<event_queue, dead_letter_queue, retrying, event, settled, attempts>>,
         Pushed' = Pushed,
         \A v \in Workers, l \in {"route", "bury"} : (pc'[v] = l) = (pc[v] = l)
  PROVE  UNCHANGED Delivery!vars
<1>1. With("route")' = With("route") /\ With("bury")' = With("bury")
  BY DEF With
<1>2. Dead' = Dead /\ Retrying' = Retrying
  BY DEF Dead, Retrying
<1>. QED  BY <1>1, <1>2 DEF Delivery!vars

\* What is appended to event_queue_ is what comes to the end of EventDelivery's queue.
LEMMA Enqueued ==
  ASSUME TypeOK, NEW q \in Seq(Events), NoRepetition(q), event_queue' = event_queue \o q
  PROVE  Delivery!Enqueue(Elems(q))
<1>. DEFINE s == SubSeq(event_queue', Len(event_queue) + 1, Len(event_queue'))
<1>1. s = q
  BY ConcatSuffix DEF TypeOK
<1>. HIDE DEF s
<1>2. /\ event_queue' = event_queue \o s
      /\ {s[i] : i \in DOMAIN s} = Elems(q)
      /\ \A i, j \in DOMAIN s : s[i] = s[j] => i = j
  BY <1>1 DEF Elems, NoRepetition
<1>. QED  BY <1>2 DEF Delivery!Enqueue, s

\* publish and publish_batch accept events.
LEMMA DeliveryPush ==
  ASSUME TypeOK, NEW q \in Seq(Events), Elems(q) \cap Pushed = {}, NoRepetition(q),
         event_queue' = event_queue \o q, Pushed' = Pushed \cup Elems(q),
         UNCHANGED <<dead_letter_queue, retrying, pc, event, settled, attempts>>
  PROVE  Delivery!Next
<1>1. Elems(q) \in SUBSET Events
  BY ElementOfSeq, LenProperties DEF Elems
<1>2. UNCHANGED <<With("route"), With("bury") \cup Dead \cup Retrying>>
  BY DEF With, Dead, Retrying
<1>3. Delivery!Enqueue(Elems(q))
  BY Enqueued
<1>4. Delivery!Accept(Elems(q))
  BY <1>2, <1>3 DEF Delivery!Accept
<1>. QED  BY <1>1, <1>4 DEF Delivery!Next

\* A worker that takes an event starts its delivery.
LEMMA DeliveryTake ==
  ASSUME TypeOK, NEW w \in Workers, pc[w] = "lock", Take(w),
         UNCHANGED <<dead_letter_queue, retrying, settled, attempts, call>>
  PROVE  Delivery!Next
<1>1. /\ event_queue # <<>> /\ event_queue' = Tail(event_queue)
      /\ pc' = [pc EXCEPT ![w] = "route"]
      /\ event'[w] = Head(event_queue) /\ \A v \in Workers \ {w} : event'[v] = event[v]
  BY DEF Take, Goto, TypeOK
<1>2. With("route")' = With("route") \cup {Head(event_queue)}
  BY <1>1, WithMove DEF WorkerPC
<1>3. With("bury")' = With("bury")
  BY <1>1, WithMove DEF WorkerPC
<1>4. Dead' = Dead /\ Retrying' = Retrying /\ Pushed' = Pushed
  BY DEF Dead, Retrying, Pushed
<1>. QED  BY <1>1, <1>2, <1>3, <1>4 DEF Delivery!Next, Delivery!Start

\* Routing an event delivers it, or fails to.
LEMMA DeliveryRoute ==
  ASSUME TypeOK, HoldsOK, PlacesInv, NEW w \in Workers, Route(w)
  PROVE  Delivery!Next
<1>. DEFINE e == event[w]
<1>1. /\ e \in Events
      /\ \A v \in Workers \ {w} : pc[v] \in {"route", "bury"} => event[v] # e
      /\ pc[w] = "route"
  BY HeldAlone DEF Route
<1>2. e \notin Others(w, "route")
  BY <1>1 DEF Others
<1>3. /\ UNCHANGED <<event_queue, dead_letter_queue, retrying, call>>
      /\ attempts' = [attempts EXCEPT ![e] = @ + 1]
  BY DEF Route, queueVars, callVars, letterVars
<1>4. Dead' = Dead /\ Retrying' = Retrying /\ Pushed' = Pushed
  BY <1>3 DEF Dead, Retrying, Pushed
<1>5. CASE /\ settled' = settled \cup {e} /\ event' = [event EXCEPT ![w] = NoEvent]
           /\ pc' = [pc EXCEPT ![w] = "loop"]
  <2>1. \A v \in Workers \ {w} : event'[v] = event[v]
    BY <1>5 DEF TypeOK
  <2>2. With("route") = Others(w, "route") \cup {e} /\ With("route")' = Others(w, "route")
    BY <1>1, <1>5, <2>1, WithMove DEF WorkerPC
  <2>3. With("bury")' = With("bury")
    BY <1>1, <1>5, <2>1, WithMove DEF WorkerPC
  <2>4. Delivery!Attempted(e) /\ Delivery!Deliver(e)
    BY <1>2, <1>3, <1>4, <1>5, <2>2, <2>3 DEF Delivery!Attempted, Delivery!Deliver
  <2>. QED  BY <1>1, <2>4 DEF Delivery!Next
<1>6. CASE UNCHANGED <<settled, event>> /\ pc' = [pc EXCEPT ![w] = "bury"]
  <2>1. With("route") = Others(w, "route") \cup {e} /\ With("route")' = Others(w, "route")
    BY <1>1, <1>6, WithMove DEF WorkerPC
  <2>2. With("bury")' = With("bury") \cup {e}
    BY <1>1, <1>6, WithMove DEF WorkerPC
  <2>3. Delivery!Attempted(e) /\ Delivery!Fail(e)
    BY <1>2, <1>3, <1>4, <1>6, <2>1, <2>2 DEF Delivery!Attempted, Delivery!Fail
  <2>. QED  BY <1>1, <2>3 DEF Delivery!Next
<1>. QED  BY <1>5, <1>6 DEF Route, Goto

\* Burying a failed event changes nothing there.
LEMMA DeliveryBury ==
  ASSUME TypeOK, HoldsOK, PlacesInv, NEW w \in Workers, Bury(w)
  PROVE  UNCHANGED Delivery!vars
<1>. DEFINE e == event[w]
<1>1. /\ pc[w] = "bury" /\ pc' = [pc EXCEPT ![w] = "loop"] /\ e \in Events
      /\ dead_letter_queue' = Append(dead_letter_queue, e)
      /\ \A v \in Workers \ {w} : event'[v] = event[v]
      /\ UNCHANGED <<event_queue, retrying, call, settled, attempts>>
  BY HeldAlone DEF Bury, Goto, TypeOK, callVars, letterVars, historyVars
<1>2. With("bury") = With("bury")' \cup {e}
  BY <1>1, WithMove DEF WorkerPC
<1>3. With("route")' = With("route")
  <2>1. With("route")' = Others(w, "route")
    BY <1>1, WithMove DEF WorkerPC
  <2>2. With("route") = Others(w, "route")
    BY <1>1, WithMove DEF WorkerPC
  <2>. QED  BY <2>1, <2>2
<1>4. Dead' = Dead \cup {e}
  BY <1>1, QueueFacts, AppendElements DEF Dead, TypeOK
<1>5. Retrying' = Retrying /\ Pushed' = Pushed
  BY <1>1 DEF Retrying, Pushed
<1>6. (With("bury") \cup Dead \cup Retrying)' = With("bury") \cup Dead \cup Retrying
  BY <1>2, <1>4, <1>5
<1>. QED  BY <1>1, <1>3, <1>5, <1>6 DEF Delivery!vars

\* Dead letters that are not retried have had all their retries or expire.
LEMMA DeliveryCollect ==
  ASSUME TypeOK, ThreadsOK, PlacesInv, HoldsOK, Collect
  PROVE  Delivery!Next
<1>1. PICK expired \in SUBSET Expiring :
        /\ retrying' = Select(dead_letter_queue, Retried(expired))
        /\ settled' = settled \cup (Dead \ Retried(expired))
  BY DEF Collect, Dead, Elems
<1>. DEFINE gone == Dead \ Retried(expired)
<1>2. /\ dead_letter_queue' = <<>> /\ Retrying = {}
      /\ UNCHANGED <<event_queue, pc, event, call, attempts>>
  BY DEF Collect, ThreadsOK, workerVars, callVars
<1>3. Retrying' = Dead \cap Retried(expired) /\ Dead' = {}
  BY <1>1, <1>2, EmptyQueue, QueueFacts, SelectElements
  DEF Retrying, Dead, TypeOK, PlacesInv, NeverTwice
<1>4. With("bury")' = With("bury") /\ With("route")' = With("route") /\ Pushed' = Pushed
  BY <1>2 DEF With, Pushed
<1>5. \A e \in gone : attempts[e] > MaxRetries \/ e \in Expiring
  <2>. SUFFICES ASSUME NEW e \in gone, e \notin Expiring  PROVE attempts[e] > MaxRetries
    OBVIOUS
  <2>1. attempts[e] = retry_count[e] + 1 /\ e \in Events
    BY PlacesTypes DEF PlacesInv, CountsOK
  <2>2. retry_count[e] \in 0..MaxRetries /\ ~(retry_count[e] < MaxRetries)
    BY <2>1 DEF Retried, TypeOK
  <2>. QED  BY <2>1, <2>2, ConstantsOK
<1>6. gone \cap With("bury") = {} /\ gone \in SUBSET Events
  <2>1. With("bury") \subseteq Held
    BY DEF With, Held, HoldsOK
  <2>. QED  BY <2>1, PlacesTypes DEF PlacesInv, NeverTwice
<1>. HIDE DEF gone
<1>7. (With("bury") \cup Dead \cup Retrying)' = (With("bury") \cup Dead \cup Retrying) \ gone
  BY <1>2, <1>3, <1>4, <1>6 DEF gone
<1>8. Delivery!GiveUp(gone)
  BY <1>1, <1>2, <1>4, <1>5, <1>7 DEF Delivery!GiveUp, gone
<1>. QED  BY <1>6, <1>8 DEF Delivery!Next

\* The others are retried.
LEMMA DeliveryRequeue ==
  ASSUME TypeOK, HoldsOK, PlacesInv, Requeue
  PROVE  Delivery!Next
<1>1. /\ event_queue' = event_queue \o retrying /\ retrying' = <<>>
      /\ UNCHANGED <<dead_letter_queue, pc, event, call, settled, attempts>>
  BY DEF Requeue, workerVars, callVars, historyVars
<1>2. Delivery!Enqueue(Retrying)
  BY <1>1, Enqueued DEF Retrying, TypeOK, PlacesInv, NeverTwice
<1>3. /\ With("bury")' = With("bury") /\ With("route")' = With("route")
      /\ Dead' = Dead /\ Retrying' = {} /\ Pushed' = Pushed
  BY <1>1, EmptyQueue DEF With, Dead, Retrying, Pushed
<1>4. Retrying \cap (With("bury") \cup Dead) = {} /\ Retrying \in SUBSET Events
  <2>1. With("bury") \subseteq Held
    BY DEF With, Held, HoldsOK
  <2>. QED  BY <2>1, PlacesTypes DEF PlacesInv, NeverTwice
<1>5. \A e \in Retrying : attempts[e] <= MaxRetries
  <2>. SUFFICES ASSUME NEW e \in Retrying  PROVE attempts[e] <= MaxRetries
    OBVIOUS
  <2>1. attempts[e] = retry_count[e] /\ retry_count[e] \in 0..MaxRetries
    BY <1>4 DEF PlacesInv, CountsOK, TypeOK
  <2>. QED  BY <2>1, ConstantsOK
<1>6. (With("bury") \cup Dead \cup Retrying)' = (With("bury") \cup Dead \cup Retrying) \ Retrying
  BY <1>3, <1>4
<1>7. Delivery!Retry(Retrying)
  BY <1>1, <1>2, <1>3, <1>5, <1>6 DEF Delivery!Retry
<1>. QED  BY <1>4, <1>7 DEF Delivery!Next

\* shutdown clears the queues, and no worker delivers then.
LEMMA DeliveryClear == ASSUME BusInv, ClearQueues  PROVE Delivery!Next
<1>1. /\ event_queue' = <<>> /\ dead_letter_queue' = <<>> /\ main = "clear"
      /\ UNCHANGED <<retrying, pc, event, call, settled, attempts>>
  BY DEF ClearQueues, workerVars, callVars, letterVars, historyVars
<1>2. Retrying = {} /\ \A w \in Workers : pc[w] = "exited"
  BY <1>1, NothingLeft DEF NoRetryAfterClear, BusInv, ThreadsOK
<1>3. With("route") = {} /\ With("bury") = {}
  BY <1>2 DEF With
<1>4. With("route")' = {} /\ (With("bury") \cup Dead \cup Retrying)' = {} /\ Pushed' = Pushed
  BY <1>1, <1>2, EmptyQueue DEF With, Dead, Retrying, Pushed
<1>5. Delivery!Clear
  BY <1>1, <1>3, <1>4 DEF Delivery!Clear
<1>. QED  BY <1>5 DEF Delivery!Next

\* The publishers accept, or move nothing.
LEMMA DeliveryPublish ==
  ASSUME TypeOK, BatchOK, PublishStep
  PROVE  Delivery!Next \/ UNCHANGED Delivery!vars
<1>1. CASE \E e \in Events : PublishPush(e) /\ event_queue' = Append(event_queue, e)
                             /\ call' = [call EXCEPT ![e] = "pushed"]
  <2>1. PICK e \in Events : /\ PublishPush(e) /\ event_queue' = Append(event_queue, e)
                            /\ call' = [call EXCEPT ![e] = "pushed"]
    BY <1>1
  <2>. DEFINE q == <<e>>
  <2>2. q \in Seq(Events) /\ NoRepetition(q) /\ Elems(q) = {e}
    BY DEF Elems, NoRepetition
  <2>3. event_queue' = event_queue \o q
    BY <2>1, AppendIsConcat DEF TypeOK
  <2>4. Pushed' = Pushed \cup {e} /\ e \notin Pushed
    BY <2>1 DEF PublishPush, TypeOK, Pushed
  <2>5. UNCHANGED <<dead_letter_queue, retrying, pc, event, settled, attempts>>
    BY <2>1 DEF PublishPush, workerVars, letterVars, historyVars
  <2>. HIDE DEF q
  <2>. QED  BY <2>2, <2>3, <2>4, <2>5, DeliveryPush
<1>2. CASE BatchPush
  <2>. DEFINE q == SubSeq(Batch, 1, Room)
              B == {Batch[i] : i \in 1..Room}
  <2>1. /\ q \in Seq(Events) /\ Elems(q) = B /\ NoRepetition(q)
        /\ B \subseteq BatchSet /\ BatchSet \subseteq Events
    BY BatchFacts
  <2>2. /\ event_queue' = event_queue \o q /\ batch = "checked"
        /\ call' = [e \in Events |-> IF e \notin BatchSet THEN call[e]
                                     ELSE IF e \in B THEN "pushed" ELSE "refused"]
        /\ UNCHANGED <<dead_letter_queue, retrying, pc, event, settled, attempts>>
    BY <1>2 DEF BatchPush, workerVars, letterVars, historyVars
  <2>. HIDE DEF q, B
  <2>3. \A e \in BatchSet : call[e] = "idle"
    BY <2>2 DEF BatchOK
  <2>4. Pushed' = Pushed \cup B /\ B \cap Pushed = {}
    BY <2>1, <2>2, <2>3 DEF Pushed
  <2>. QED  BY <2>1, <2>2, <2>4, DeliveryPush
<1>3. CASE \/ \E e \in Events : \/ PublishCheck(e) \/ PublishNotify(e)
                                \/ PublishPush(e) /\ call' = [call EXCEPT ![e] = "refused"]
                                   /\ UNCHANGED event_queue
           \/ BatchCheck \/ BatchNotify
  <2>1. UNCHANGED <<event_queue, dead_letter_queue, retrying, event, settled, attempts>>
    BY <1>3
    DEF PublishCheck, PublishNotify, PublishPush, BatchCheck, BatchNotify, queueVars,
        workerVars, letterVars, historyVars
  <2>2. Pushed' = Pushed
    BY <1>3
    DEF PublishCheck, PublishNotify, PublishPush, BatchCheck, BatchNotify, Pushed, TypeOK
  <2>3. \A v \in Workers, l \in {"route", "bury"} : (pc'[v] = l) = (pc[v] = l)
    BY <1>3
    DEF PublishCheck, PublishNotify, PublishPush, BatchCheck, BatchNotify, WakeAll, Waiting,
        Goto, workerVars, TypeOK
  <2>. QED  BY <2>1, <2>2, <2>3, DeliveryStutter
<1>. QED  BY <1>1, <1>2, <1>3 DEF PublishStep, PublishPush

\* The workers start deliveries and end them, or move nothing.
LEMMA DeliveryWorker ==
  ASSUME TypeOK, HoldsOK, PlacesInv, NEW w \in Workers, WorkerStep(w) \/ SpuriousWakeup(w)
  PROVE  Delivery!Next \/ UNCHANGED Delivery!vars
<1>1. CASE LoopTest(w) \/ Block(w) \/ SpuriousWakeup(w) \/ (Acquire(w) /\ ~Take(w))
  <2>1. UNCHANGED <<event_queue, dead_letter_queue, retrying, event, settled, attempts, call>>
    BY <1>1
    DEF LoopTest, Block, SpuriousWakeup, Acquire, queueVars, callVars, letterVars,
        historyVars
  <2>2. \A v \in Workers, l \in {"route", "bury"} : (pc'[v] = l) = (pc[v] = l)
    BY <1>1 DEF LoopTest, Block, SpuriousWakeup, Acquire, Goto, TypeOK
  <2>3. Pushed' = Pushed
    BY <2>1 DEF Pushed
  <2>. QED  BY <2>1, <2>2, <2>3, DeliveryStutter
<1>2. CASE Acquire(w) /\ Take(w)
  BY <1>2, DeliveryTake DEF Acquire, callVars, letterVars, historyVars
<1>. QED  BY <1>1, <1>2, DeliveryRoute, DeliveryBury DEF WorkerStep

\* So does every step.
LEMMA DeliveryStep == BusInv /\ [Next]_vars => [Delivery!Next]_Delivery!vars
<1>. SUFFICES ASSUME BusInv, [Next]_vars  PROVE Delivery!Next \/ UNCHANGED Delivery!vars
  OBVIOUS
<1>0. TypeOK /\ HoldsOK /\ BatchOK /\ ThreadsOK /\ PlacesInv
  BY DEF BusInv, PlacesInv
<1>1. CASE PublishStep
  BY <1>0, <1>1, DeliveryPublish
<1>2. ASSUME NEW w \in Workers, WorkerStep(w) \/ SpuriousWakeup(w)
      PROVE  Delivery!Next \/ UNCHANGED Delivery!vars
  BY <1>0, <1>2, DeliveryWorker
<1>3. CASE Collect
  BY <1>0, <1>3, DeliveryCollect
<1>4. CASE Requeue
  BY <1>0, <1>4, DeliveryRequeue
<1>5. CASE ClearQueues
  BY <1>5, DeliveryClear
<1>6. CASE \/ \E h \in Handlers : Subscribe(h) \/ Unsubscribe(h)
           \/ LettersWake \/ StartBus \/ StartLetters \/ ShutdownFlag \/ ShutdownNotify
           \/ Join \/ UNCHANGED vars
  <2>1. UNCHANGED <<event_queue, dead_letter_queue, retrying, event, settled, attempts, call>>
    BY <1>6
    DEF Subscribe, Unsubscribe, LettersWake, StartBus, StartLetters, ShutdownFlag,
        ShutdownNotify, Join, vars, queueVars, workerVars, callVars, letterVars, historyVars
  <2>2. \A v \in Workers, l \in {"route", "bury"} : (pc'[v] = l) = (pc[v] = l)
    <3>1. CASE ShutdownNotify
      BY <3>1, <1>0 DEF ShutdownNotify, WakeAll, Waiting, TypeOK
    <3>2. CASE ~ShutdownNotify
      BY <3>2, <1>6
      DEF Subscribe, Unsubscribe, LettersWake, StartBus, StartLetters, ShutdownFlag, Join,
          vars, workerVars
    <3>. QED  BY <3>1, <3>2
  <2>3. Pushed' = Pushed
    BY <2>1 DEF Pushed
  <2>. QED  BY <2>1, <2>2, <2>3, DeliveryStutter
<1>. QED
  BY <1>1, <1>2, <1>3, <1>4, <1>5, <1>6 DEF Next, LettersStep, MainStep

\* For any workers, events, handlers, batch and limits the bus implements
\* EventDelivery: its threads, queues and mutexes deliver in order, repeat a failed
\* delivery at most MaxRetries times, give up no sooner, and bring nothing back.
THEOREM BusRefinesDelivery == Spec => DeliverySpec
<1>1. Init => Delivery!Init
  <2>. SUFFICES ASSUME Init  PROVE Delivery!Init
    OBVIOUS
  <2>1. Pushed = {} /\ With("route") = {} /\ With("bury") = {} /\ Dead = {} /\ Retrying = {}
    BY EmptyQueue DEF Init, Pushed, With, Dead, Retrying
  <2>. QED  BY <2>1 DEF Init, Delivery!Init
<1>. QED
  BY <1>1, DeliveryStep, BusInvariant, PTL DEF Spec, DeliverySpec, Delivery!Spec

-----------------------------------------------------------------------------
(* No announced event is stranded                                          *)

\* The bus runs while it is up, and accepts nothing before.
FlagOK ==
  /\ main \in {"letters", "up"} => running
  /\ main = "starting" =>
       ~running /\ batch \in {"idle", "done"} /\ \A e \in Events : call[e] \in {"idle", "refused"}

\* Who is about to block has the mutex, and has found the queue empty.
BlockOK == \A w \in Workers : pc[w] = "block" => mutex = w /\ event_queue = <<>>

\* Who is retried was tried.
RetriedOK == \A e \in Retrying : attempts[e] > 0

StrandInv == BusInv /\ FlagOK /\ BlockOK /\ RetriedOK /\ NoStrandedEvent

\* Every step keeps the flag as it should be.
LEMMA FlagStep == ASSUME TypeOK, BatchOK, FlagOK, [Next]_vars  PROVE FlagOK'
<1>. USE DEF FlagOK, TypeOK
<1>0. BatchSet \subseteq Events
  BY BatchFacts
<1>1. ASSUME NEW e \in Events, PublishCheck(e) \/ PublishPush(e) \/ PublishNotify(e)
      PROVE  FlagOK'
  <2>1. UNCHANGED <<running, main, batch>>
    BY <1>1 DEF PublishCheck, PublishPush, PublishNotify, queueVars
  <2>2. main = "starting" => PublishCheck(e) /\ call' = [call EXCEPT ![e] = "refused"]
    BY <1>1 DEF PublishCheck, PublishPush, PublishNotify
  <2>. QED  BY <2>1, <2>2
<1>2. CASE BatchCheck \/ BatchPush \/ BatchNotify
  BY <1>2 DEF BatchCheck, BatchPush, BatchNotify, queueVars
<1>3. CASE MainStep
  BY <1>3
  DEF MainStep, StartBus, StartLetters, ShutdownFlag, ShutdownNotify, Join, ClearQueues,
      queueVars, callVars
<1>4. CASE UNCHANGED <<running, main, call, batch>>
  BY <1>4
<1>5. ASSUME NEW h \in Handlers, Subscribe(h) \/ Unsubscribe(h)
      PROVE  UNCHANGED <<running, main, call, batch>>
  BY <1>5 DEF Subscribe, Unsubscribe, queueVars, callVars
<1>6. ASSUME NEW w \in Workers, WorkerStep(w) \/ SpuriousWakeup(w)
      PROVE  UNCHANGED <<running, main, call, batch>>
  BY <1>6
  DEF WorkerStep, LoopTest, Acquire, Block, Route, Bury, SpuriousWakeup, queueVars, callVars
<1>7. ASSUME LettersStep \/ UNCHANGED vars  PROVE UNCHANGED <<running, main, call, batch>>
  BY <1>7 DEF LettersStep, LettersWake, Collect, Requeue, vars, queueVars, callVars
<1>. QED  BY <1>1, <1>2, <1>3, <1>4, <1>5, <1>6, <1>7 DEF Next, PublishStep

\* Every step that needs the mutex waits for the one who is about to block.
LEMMA BlockStep == ASSUME TypeOK, BlockOK, [Next]_vars  PROVE BlockOK'
<1>. USE DEF BlockOK, TypeOK, Goto, Waiting, workerVars, queueVars
<1>0. Free \notin Workers
  BY ConstantsOK
<1>1. ASSUME NEW e \in Events, PublishCheck(e) \/ PublishPush(e) \/ PublishNotify(e)
      PROVE  BlockOK'
  BY <1>0, <1>1 DEF PublishCheck, PublishPush, PublishNotify
<1>2. CASE BatchCheck \/ BatchPush \/ BatchNotify
  BY <1>0, <1>2 DEF BatchCheck, BatchPush, BatchNotify, WakeAll
<1>3. ASSUME NEW h \in Handlers, Subscribe(h) \/ Unsubscribe(h)  PROVE BlockOK'
  BY <1>3 DEF Subscribe, Unsubscribe
<1>4. ASSUME NEW w \in Workers, WorkerStep(w) \/ SpuriousWakeup(w)  PROVE BlockOK'
  <2>1. CASE Acquire(w)
    BY <1>0, <2>1 DEF Acquire, Take
  <2>2. CASE Block(w)
    BY <1>0, <2>2 DEF Block
  <2>3. CASE LoopTest(w) \/ Route(w) \/ Bury(w) \/ SpuriousWakeup(w)
    BY <1>0, <2>3 DEF LoopTest, Route, Bury, SpuriousWakeup
  <2>. QED  BY <1>4, <2>1, <2>2, <2>3 DEF WorkerStep
<1>5. CASE LettersStep
  BY <1>0, <1>5 DEF LettersStep, LettersWake, Collect, Requeue
<1>6. CASE MainStep
  BY <1>0, <1>6
  DEF MainStep, StartBus, StartLetters, ShutdownFlag, ShutdownNotify, WakeAll, Join,
      ClearQueues
<1>7. CASE UNCHANGED vars
  BY <1>7 DEF vars
<1>. QED  BY <1>1, <1>2, <1>3, <1>4, <1>5, <1>6, <1>7 DEF Next, PublishStep

\* An event is retried after it was routed.
LEMMA RetriedStep == ASSUME BusInv, RetriedOK, [Next]_vars  PROVE RetriedOK'
<1>0. TypeOK /\ HoldsOK /\ ThreadsOK /\ PlacesInv
  BY DEF BusInv, PlacesInv
<1>1. CASE Collect
  <2>1. PICK expired \in SUBSET Expiring :
          retrying' = Select(dead_letter_queue, Retried(expired))
    BY <1>1 DEF Collect
  <2>2. Retrying' \subseteq Dead /\ attempts' = attempts
    BY <1>0, <1>1, <2>1, QueueFacts, SelectElements
    DEF Collect, Retrying, Dead, TypeOK, PlacesInv, NeverTwice
  <2>3. \A e \in Dead : attempts[e] > 0
    <3>. SUFFICES ASSUME NEW e \in Dead  PROVE attempts[e] > 0
      OBVIOUS
    <3>1. attempts[e] = retry_count[e] + 1 /\ e \in Events
      BY <1>0, PlacesTypes DEF PlacesInv, CountsOK
    <3>. QED  BY <1>0, <3>1, ConstantsOK DEF TypeOK
  <2>. QED  BY <2>2, <2>3 DEF RetriedOK
<1>2. CASE Requeue
  BY <1>2, EmptyQueue DEF Requeue, RetriedOK, Retrying
<1>3. ASSUME NEW w \in Workers, Route(w)  PROVE RetriedOK'
  <2>1. event[w] \in Events /\ event[w] \notin Retrying
    BY <1>0, <1>3, HeldAlone DEF Route
  <2>2. Retrying' = Retrying /\ Retrying \subseteq Events
        /\ attempts' = [attempts EXCEPT ![event[w]] = @ + 1]
    BY <1>0, <1>3, PlacesTypes DEF Route, letterVars, Retrying
  <2>. QED  BY <1>0, <2>1, <2>2 DEF RetriedOK, TypeOK
<1>4. CASE UNCHANGED <<retrying, attempts>>
  BY <1>4 DEF RetriedOK, Retrying
<1>5. ASSUME PublishStep \/ MainStep \/ LettersWake \/ UNCHANGED vars
      PROVE  UNCHANGED <<retrying, attempts>>
  BY <1>5
  DEF PublishStep, PublishCheck, PublishPush, PublishNotify, BatchCheck, BatchPush,
      BatchNotify, MainStep, StartBus, StartLetters, ShutdownFlag, ShutdownNotify, Join,
      ClearQueues, LettersWake, vars, letterVars, historyVars
<1>6. ASSUME NEW h \in Handlers, Subscribe(h) \/ Unsubscribe(h)
      PROVE  UNCHANGED <<retrying, attempts>>
  BY <1>6 DEF Subscribe, Unsubscribe, letterVars, historyVars
<1>7. ASSUME NEW w \in Workers,
             LoopTest(w) \/ Acquire(w) \/ Block(w) \/ Bury(w) \/ SpuriousWakeup(w)
      PROVE  UNCHANGED <<retrying, attempts>>
  BY <1>7 DEF LoopTest, Acquire, Block, Bury, SpuriousWakeup, letterVars, historyVars
<1>. QED
  BY <1>1, <1>2, <1>3, <1>4, <1>5, <1>6, <1>7 DEF Next, WorkerStep, LettersStep

\* A worker that is neither asleep nor gone, or no worker at all.
Attended ==
  \/ \E w \in Workers : pc[w] \notin {"waiting", "exited"}
  \/ \A w \in Workers : pc[w] = "exited"

\* Who publishes wakes a worker if all are asleep.
LEMMA StrandPublish ==
  ASSUME TypeOK, BatchOK, NoStrandedEvent, PublishStep
  PROVE  NoStrandedEvent'
<1>. SUFFICES ASSUME main' \in {"letters", "up"},
                     NEW f \in Queued', call'[f] = "published", attempts'[f] = 0
              PROVE  Attended'
  BY DEF NoStrandedEvent, Attended
<1>. USE DEF TypeOK
<1>0. /\ main' = main /\ attempts' = attempts
      /\ BatchSet \subseteq Events /\ Queued \subseteq Events
  <2>1. main' = main /\ attempts' = attempts
    BY DEF PublishStep, PublishCheck, PublishPush, PublishNotify, BatchCheck, BatchPush,
           BatchNotify, historyVars
  <2>2. Queued \subseteq Events
    BY ElementOfSeq DEF Queued, Elems
  <2>. QED  BY <2>1, <2>2, BatchFacts
<1>1. CASE pc' = pc /\ f \in Queued /\ call[f] = "published"
  BY <1>0, <1>1 DEF NoStrandedEvent, Attended
<1>2. ASSUME NEW e \in Events, PublishCheck(e)  PROVE Attended'
  <2>1. pc' = pc /\ f \in Queued /\ f \in Events
    BY <1>0, <1>2 DEF PublishCheck, queueVars, workerVars, Queued
  <2>2. call[f] = "published"
    BY <1>2, <2>1 DEF PublishCheck
  <2>. QED  BY <1>1, <2>1, <2>2
<1>3. ASSUME NEW e \in Events, PublishPush(e)  PROVE Attended'
  <2>1. pc' = pc /\ Queued' \subseteq Queued \cup {e}
    <3>1. Elems(Append(event_queue, e)) = Elems(event_queue) \cup {e}
      BY QueueFacts, AppendElements
    <3>. QED  BY <1>3, <3>1 DEF PublishPush, workerVars, Queued
  <2>2. f \in Events /\ f # e /\ call[f] = "published"
    BY <1>0, <1>3, <2>1 DEF PublishPush
  <2>. QED  BY <1>1, <2>1, <2>2
<1>4. ASSUME NEW e \in Events, PublishNotify(e)  PROVE Attended'
  <2>1. CASE Waiting = {} /\ pc' = pc
    BY <2>1 DEF Waiting, Attended
  <2>2. ASSUME NEW w \in Waiting, Goto(w, "lock")  PROVE Attended'
    BY <2>2 DEF Waiting, Goto, Attended
  <2>. QED  BY <1>4, <2>1, <2>2 DEF PublishNotify
<1>5. CASE BatchCheck
  BY <1>1, <1>5 DEF BatchCheck, queueVars, workerVars, Queued
<1>6. CASE BatchPush
  <2>1. pc' = pc /\ f \in Events /\ Queued' \subseteq Queued \cup BatchSet
    <3>. DEFINE q == SubSeq(Batch, 1, Room)
    <3>1. q \in Seq(Events) /\ Elems(q) \subseteq BatchSet
      BY BatchFacts
    <3>2. event_queue' = event_queue \o q /\ pc' = pc
      BY <1>6 DEF BatchPush, workerVars
    <3>. HIDE DEF q
    <3>3. Elems(event_queue \o q) = Elems(event_queue) \cup Elems(q)
      BY <3>1, QueueFacts, ConcatElements
    <3>. QED  BY <1>0, <3>1, <3>2, <3>3 DEF Queued
  <2>2. f \notin BatchSet /\ call[f] = "published"
    BY <1>6, <2>1 DEF BatchPush
  <2>. QED  BY <1>1, <2>1, <2>2
<1>7. CASE BatchNotify
  <2>1. CASE call' = call
    BY <1>1, <1>7, <2>1 DEF BatchNotify, queueVars, Queued
  <2>2. CASE call' # call
    <3>1. pc' = [w \in Workers |-> IF pc[w] = "waiting" THEN "lock" ELSE pc[w]]
      BY <1>7, <2>2 DEF BatchNotify, WakeAll, Waiting
    <3>. QED  BY <3>1 DEF Attended
  <2>. QED  BY <2>1, <2>2
<1>. QED  BY <1>2, <1>3, <1>4, <1>5, <1>6, <1>7 DEF PublishStep

\* A worker blocks only on an empty queue, and none leaves a bus that runs.
LEMMA StrandWorker ==
  ASSUME TypeOK, FlagOK, BlockOK, NoStrandedEvent,
         NEW w \in Workers, WorkerStep(w) \/ SpuriousWakeup(w)
  PROVE  NoStrandedEvent'
<1>. SUFFICES ASSUME main' \in {"letters", "up"},
                     NEW f \in Queued', call'[f] = "published", attempts'[f] = 0
              PROVE  Attended'
  BY DEF NoStrandedEvent, Attended
<1>. USE DEF TypeOK, Goto, Attended
<1>1. CASE Block(w)
  BY <1>1 DEF Block, BlockOK, Queued, Elems
<1>2. CASE ~Block(w)
  <2>1. main' = main /\ running
    BY DEF WorkerStep, LoopTest, Acquire, Block, Route, Bury, SpuriousWakeup, FlagOK
  <2>2. pc'[w] \notin {"waiting", "exited"}
    BY <1>2, <2>1
    DEF WorkerStep, LoopTest, Acquire, Take, Route, Bury, SpuriousWakeup
  <2>. QED  BY <2>2
<1>. QED  BY <1>1, <1>2

\* Of the other steps only those of the dead-letter thread and of shutdown touch the
\* queue: what they add was routed before, what they clear is gone.
LEMMA StrandStep == ASSUME StrandInv, [Next]_vars  PROVE NoStrandedEvent'
<1>0. TypeOK /\ BatchOK /\ FlagOK /\ BlockOK /\ RetriedOK /\ NoStrandedEvent /\ PlacesOK
  BY DEF StrandInv, BusInv
<1>1. CASE PublishStep
  BY <1>0, <1>1, StrandPublish
<1>2. ASSUME NEW w \in Workers, WorkerStep(w) \/ SpuriousWakeup(w)  PROVE NoStrandedEvent'
  BY <1>0, <1>2, StrandWorker
<1>3. CASE Requeue
  <2>1. Queued' = Queued \cup Retrying
    BY <1>0, <1>3, QueueFacts, ConcatElements DEF Requeue, TypeOK, Queued, Retrying
  <2>2. UNCHANGED <<main, call, attempts, pc>>
    BY <1>3 DEF Requeue, callVars, historyVars, workerVars
  <2>. QED  BY <1>0, <2>1, <2>2 DEF NoStrandedEvent, RetriedOK
<1>4. CASE StartBus
  <2>1. Queued = {}
    BY <1>0, <1>4 DEF StartBus, FlagOK, PlacesOK, Places, Pushed
  <2>. QED  BY <1>4, <2>1 DEF StartBus, NoStrandedEvent, Queued
<1>5. CASE ShutdownFlag \/ ShutdownNotify \/ Join \/ ClearQueues
  BY <1>5 DEF ShutdownFlag, ShutdownNotify, Join, ClearQueues, NoStrandedEvent
<1>6. CASE \/ \E h \in Handlers : Subscribe(h) \/ Unsubscribe(h)
           \/ LettersWake \/ Collect \/ StartLetters \/ UNCHANGED vars
  <2>1. /\ UNCHANGED <<event_queue, call, attempts, pc>>
        /\ main' \in {"letters", "up"} => main \in {"letters", "up"}
    <3>1. CASE Collect
      BY <3>1 DEF Collect, callVars, workerVars
    <3>2. CASE StartLetters
      BY <3>2 DEF StartLetters, queueVars, workerVars, callVars, historyVars
    <3>3. CASE ~Collect /\ ~StartLetters
      BY <1>6, <3>3
      DEF Subscribe, Unsubscribe, LettersWake, vars, queueVars, workerVars, callVars,
          historyVars
    <3>. QED  BY <3>1, <3>2, <3>3
  <2>. QED  BY <1>0, <2>1 DEF NoStrandedEvent, Queued
<1>. QED
  BY <1>1, <1>2, <1>3, <1>4, <1>5, <1>6 DEF Next, LettersStep, MainStep

\* For any workers, events and batch: while the bus is up, an announced event that was
\* never routed does not wait with every worker that is left asleep, although
\* initialize raises running_ outside the mutex and a retry notifies nobody.
THEOREM NoStrandedEventHolds == Spec => []NoStrandedEvent
<1>1. Init => StrandInv
  <2>. SUFFICES ASSUME Init  PROVE StrandInv
    OBVIOUS
  <2>1. Retrying = {} /\ BusInv
    BY BusInit, EmptyQueue DEF Init, Retrying
  <2>. QED
    BY <2>1 DEF Init, StrandInv, FlagOK, BlockOK, RetriedOK, NoStrandedEvent
<1>2. StrandInv /\ [Next]_vars => StrandInv'
  <2>. SUFFICES ASSUME StrandInv, [Next]_vars  PROVE StrandInv'
    OBVIOUS
  <2>1. BusInv /\ TypeOK /\ BatchOK
    BY DEF StrandInv, BusInv
  <2>2. BusInv'
    BY <2>1, BusStep
  <2>. QED  BY <2>1, <2>2, FlagStep, BlockStep, RetriedStep, StrandStep DEF StrandInv
<1>3. StrandInv => NoStrandedEvent
  BY DEF StrandInv
<1>. QED  BY <1>1, <1>2, <1>3, PTL DEF Spec
=============================================================================
