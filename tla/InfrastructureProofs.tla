------------------------ MODULE InfrastructureProofs ------------------------
(***************************************************************************)
(* Theorems about the infrastructure the agents run on: CircuitBreaker,    *)
(* for any number of callers and any thresholds, and ResourceOperator, for *)
(* any workers, resources and specs.  The two do not interact.             *)
(***************************************************************************)
EXTENDS CircuitBreaker, ResourceOperator, FiniteSetTheorems, TLAPS

\* The steps of execute, of on_success and of on_failure.
ExecuteStep(c) ==
  Load(c) \/ CompareExchange(c) \/ StoreHalfOpen(c) \/ Limit(c) \/ Operation(c)
SuccessStep(c) ==
  \/ Success(c) \/ Forgive(c) \/ Prove(c)
  \/ Close(c) \/ ClearFailures(c) \/ ClearSuccesses(c)
FailureStep(c) ==
  Failure(c) \/ Judge(c) \/ Reopen(c) \/ Unprove(c) \/ Trip(c) \/ Postpone(c)

\* The steps of a call, grouped by the function that takes them.
LEMMA CallerSteps ==
  Next <=> \/ \E c \in Callers : ExecuteStep(c) \/ SuccessStep(c) \/ FailureStep(c)
           \/ OperatorStep
           \/ TimePasses
  BY DEF Next, CallStep, ExecuteStep, SuccessStep, FailureStep

-----------------------------------------------------------------------------
(* Types                                                                   *)

\* Every variable but active, whose type depends on the half-open limit: a
\* caller that gives back a slot it never took would count below zero.
Types ==
  /\ state \in States
  /\ failures \in 0..FailureThreshold
  /\ successes \in 0..SuccessThreshold
  /\ elapsed \in BOOLEAN
  /\ pc \in [Callers -> CallerPC]
  /\ seen \in [Callers -> States]
  /\ count \in [Callers -> 0..FailureThreshold]
  /\ op \in {"idle", "clear failures", "clear successes"}
  /\ waited \in BOOLEAN

\* A counter stops at its threshold.
LEMMA BumpType ==
  ASSUME NEW threshold \in Nat, NEW n \in 0..threshold
  PROVE  Bump(n, threshold) \in 0..threshold
  BY DEF Bump

\* Zero is a value of both counters.
LEMMA ZeroCounts == 0 \in 0..FailureThreshold /\ 0 \in 0..SuccessThreshold
  BY ConstantsOK

\* transition_to_state keeps the state and `waited` typed.
LEMMA EnterType ==
  ASSUME Types, NEW s \in States, Enter(s)
  PROVE  state' \in States /\ waited' \in BOOLEAN
  BY DEF Types, Enter

\* A caller goes to one of the places of CallerPC.
LEMMA StepType ==
  ASSUME Types, NEW c \in Callers, NEW from, NEW to \in CallerPC, Step(c, from, to)
  PROVE  pc' \in [Callers -> CallerPC]
  BY DEF Types, Step

\* The steps of execute keep everything but active_requests_ typed.
LEMMA ExecuteTypes ==
  ASSUME Types, NEW c \in Callers, ExecuteStep(c)
  PROVE  Types'
<1>. USE DEF Types, counters
<1>1. CASE Load(c)
  <2>1. pc' \in [Callers -> CallerPC]
    BY <1>1 DEF Load, Step, States, CallerPC
  <2>. QED  BY <1>1, <2>1 DEF Load
<1>2. CASE CompareExchange(c)
  <2>1. CASE state = "OPEN"
    BY <1>2, <2>1, EnterType DEF CompareExchange, Step, CallerPC, States
  <2>2. CASE state # "OPEN"
    BY <1>2, <2>2 DEF CompareExchange, Step, CallerPC
  <2>. QED  BY <2>1, <2>2
<1>3. CASE StoreHalfOpen(c)
  BY <1>3, EnterType DEF StoreHalfOpen, Step, CallerPC, States
<1>4. CASE Limit(c)
  BY <1>4 DEF Limit, Admit, Step, CallerPC
<1>5. CASE Operation(c)
  BY <1>5 DEF Operation, Step, CallerPC
<1>. QED  BY <1>1, <1>2, <1>3, <1>4, <1>5 DEF ExecuteStep

\* So do those of on_success,
LEMMA SuccessTypes ==
  ASSUME Types, NEW c \in Callers, SuccessStep(c)
  PROVE  Types'
<1>. USE ConstantsOK DEF Types, counters
<1>1. CASE Success(c)
  <2>1. pc' \in [Callers -> CallerPC]
    BY <1>1 DEF Success, Step, States, CallerPC
  <2>. QED  BY <1>1, <2>1 DEF Success
<1>2. CASE Forgive(c)
  BY <1>2, ZeroCounts DEF Forgive, Step, CallerPC
<1>3. CASE Prove(c)
  <2>1. successes' \in 0..SuccessThreshold
    BY <1>3, BumpType DEF Prove
  <2>2. pc' \in [Callers -> CallerPC]
    BY <1>3 DEF Prove, Step, CallerPC
  <2>. QED  BY <1>3, <2>1, <2>2 DEF Prove
<1>4. CASE Close(c)
  BY <1>4, EnterType DEF Close, Step, CallerPC, States
<1>5. CASE ClearFailures(c)
  BY <1>5, ZeroCounts DEF ClearFailures, Step, CallerPC
<1>6. CASE ClearSuccesses(c)
  BY <1>6, ZeroCounts DEF ClearSuccesses, Step, CallerPC
<1>. QED  BY <1>1, <1>2, <1>3, <1>4, <1>5, <1>6 DEF SuccessStep

\* those of on_failure,
LEMMA FailureTypes ==
  ASSUME Types, NEW c \in Callers, FailureStep(c)
  PROVE  Types'
<1>. USE ConstantsOK DEF Types, counters
<1>1. CASE Failure(c)
  <2>1. failures' \in 0..FailureThreshold
    BY <1>1, BumpType DEF Failure
  <2>2. count' \in [Callers -> 0..FailureThreshold]
    BY <1>1, <2>1 DEF Failure
  <2>. QED  BY <1>1, <2>1, <2>2 DEF Failure, Step, CallerPC
<1>2. CASE Judge(c)
  <2>1. pc' \in [Callers -> CallerPC]
    BY <1>2 DEF Judge, Step, CallerPC
  <2>. QED  BY <1>2, <2>1 DEF Judge
<1>3. CASE Reopen(c)
  BY <1>3, EnterType DEF Reopen, Step, CallerPC, States
<1>4. CASE Unprove(c)
  BY <1>4, ZeroCounts DEF Unprove, Step, CallerPC
<1>5. CASE Trip(c)
  BY <1>5, EnterType DEF Trip, Step, CallerPC, States
<1>6. CASE Postpone(c)
  BY <1>6 DEF Postpone, Step, CallerPC
<1>. QED  BY <1>1, <1>2, <1>3, <1>4, <1>5, <1>6 DEF FailureStep

\* and force_open, force_close and time.
LEMMA OperatorTypes ==
  ASSUME Types, OperatorStep \/ TimePasses
  PROVE  Types'
<1>. USE ConstantsOK DEF Types, counters
<1>1. CASE ForceOpen
  BY <1>1, EnterType DEF ForceOpen, States
<1>2. CASE ForceClose
  BY <1>2, EnterType DEF ForceClose, States
<1>3. CASE ForceCloseFailures \/ ForceCloseSuccesses
  BY <1>3, ZeroCounts DEF ForceCloseFailures, ForceCloseSuccesses
<1>4. CASE TimePasses
  BY <1>4 DEF TimePasses
<1>. QED  BY <1>1, <1>2, <1>3, <1>4 DEF OperatorStep

\* Types is inductive.
LEMMA TypesPreserved == Types /\ [Next]_vars => Types'
<1>. SUFFICES ASSUME Types, [Next]_vars  PROVE Types'
  OBVIOUS
<1>1. CASE Next
  BY <1>1, CallerSteps, ExecuteTypes, SuccessTypes, FailureTypes, OperatorTypes
<1>2. CASE UNCHANGED vars
  BY <1>2 DEF vars, counters, Types
<1>. QED  BY <1>1, <1>2

-----------------------------------------------------------------------------
(* The half-open limit                                                     *)

\* What a caller that is about to be limited has read, and what the limit counts.
LimitInv ==
  /\ active \in Nat
  /\ HalfOpenLimit
  /\ \A c \in Callers : pc[c] \in {"opening", "limit"} => seen[c] = "HALF_OPEN"

\* The half-open operations under way are finitely many.
LEMMA ProbesFinite == IsFiniteSet(Probes) /\ Cardinality(Probes) \in Nat
<1>1. Probes \in SUBSET Callers
  BY DEF Probes
<1>. QED  BY <1>1, ConstantsOK, FS_Subset, FS_CardinalityType

\* A step of one caller that is neither let in nor finishes an operation.
LEMMA LimitUnmoved ==
  ASSUME Types, LimitInv, active' = active,
         Probes' = Probes,
         \A c \in Callers : pc'[c] \in {"opening", "limit"} => seen'[c] = "HALF_OPEN"
  PROVE  LimitInv'
  BY DEF LimitInv, HalfOpenLimit

\* Admission under concurrent_mutex_: one probe more, one request more.
LEMMA LimitAdmit ==
  ASSUME Types, LimitInv, NEW c \in Callers, Limit(c), Admit(c)
  PROVE  LimitInv'
<1>1. /\ pc[c] = "limit" /\ pc' = [pc EXCEPT ![c] = "running"] /\ seen' = seen
      /\ active < MaxConcurrent /\ active' = active + 1
  BY DEF Limit, Admit, Step
<1>2. pc \in [Callers -> CallerPC] /\ pc' \in [Callers -> CallerPC]
  BY <1>1 DEF Types, CallerPC
<1>3. Probes' = Probes \cup {c} /\ c \notin Probes
  BY <1>1, <1>2 DEF Probes, LimitInv
<1>4. Cardinality(Probes') = Cardinality(Probes) + 1
  BY <1>3, ProbesFinite, FS_AddElement
<1>5. HalfOpenLimit'
  BY <1>1, <1>4, ConstantsOK DEF LimitInv, HalfOpenLimit
<1>6. \A d \in Callers : pc'[d] \in {"opening", "limit"} => seen'[d] = "HALF_OPEN"
  BY <1>1, <1>2 DEF LimitInv
<1>. QED  BY <1>1, <1>2, <1>5, <1>6 DEF LimitInv

\* The end of an operation releases exactly what its admission took.
LEMMA LimitOperation ==
  ASSUME Types, LimitInv, NEW c \in Callers, Operation(c)
  PROVE  LimitInv'
<1>1. /\ pc[c] = "running" /\ seen' = seen
      /\ pc' = [pc EXCEPT ![c] = "success"] \/ pc' = [pc EXCEPT ![c] = "failure"]
      /\ active' = IF seen[c] = "HALF_OPEN" THEN active - 1 ELSE active
  BY DEF Operation, Step, Release
<1>2. pc \in [Callers -> CallerPC] /\ pc' \in [Callers -> CallerPC]
  BY <1>1 DEF Types, CallerPC
<1>3. \A d \in Callers : pc'[d] \in {"opening", "limit"} => seen'[d] = "HALF_OPEN"
  BY <1>1, <1>2 DEF LimitInv
<1>4. CASE seen[c] = "HALF_OPEN"
  <2>1. Probes' = Probes \ {c} /\ c \in Probes
    BY <1>1, <1>2, <1>4 DEF Probes
  <2>2. Cardinality(Probes') = Cardinality(Probes) - 1 /\ Cardinality(Probes') \in Nat
    BY <2>1, ProbesFinite, FS_RemoveElement, FS_CardinalityType
  <2>3. active' = Cardinality(Probes') /\ active' <= MaxConcurrent
    BY <1>1, <1>4, <2>2, ConstantsOK DEF LimitInv, HalfOpenLimit
  <2>. QED  BY <1>1, <1>2, <1>3, <2>2, <2>3 DEF LimitInv, HalfOpenLimit
<1>5. CASE seen[c] # "HALF_OPEN"
  <2>1. Probes' = Probes
    BY <1>1, <1>2, <1>5 DEF Probes
  <2>. QED  BY <1>1, <1>2, <1>3, <1>5, <2>1, LimitUnmoved DEF LimitInv
<1>. QED  BY <1>4, <1>5

\* Every step of execute keeps active_requests_ exact and within the limit.
LEMMA LimitExecute ==
  ASSUME Types, LimitInv, NEW c \in Callers, ExecuteStep(c)
  PROVE  LimitInv'
<1>1. pc \in [Callers -> CallerPC] /\ seen \in [Callers -> States]
  BY DEF Types
<1>2. CASE Load(c)
  <2>1. /\ pc[c] = "idle" /\ active' = active
        /\ seen' = [seen EXCEPT ![c] = state]
        /\ \/ state = "CLOSED" /\ pc' = [pc EXCEPT ![c] = "running"]
           \/ state = "HALF_OPEN" /\ pc' = [pc EXCEPT ![c] = "limit"]
           \/ state = "OPEN" /\ pc' = [pc EXCEPT ![c] = "cas"]
    BY <1>2 DEF Load, Step, counters, Types, States
  <2>2. Probes' = Probes
    BY <1>1, <2>1 DEF Probes
  <2>3. \A d \in Callers : pc'[d] \in {"opening", "limit"} => seen'[d] = "HALF_OPEN"
    BY <1>1, <2>1 DEF LimitInv
  <2>. QED  BY <2>1, <2>2, <2>3, LimitUnmoved
<1>3. CASE CompareExchange(c) \/ StoreHalfOpen(c)
  <2>1. /\ pc[c] \in {"cas", "opening"} /\ active' = active
        /\ \/ pc' = [pc EXCEPT ![c] = "idle"] /\ seen' = seen
           \/ /\ pc' = [pc EXCEPT ![c] = "opening"]
              /\ seen' = [seen EXCEPT ![c] = "HALF_OPEN"]
           \/ pc[c] = "opening" /\ pc' = [pc EXCEPT ![c] = "limit"] /\ seen' = seen
    BY <1>3 DEF CompareExchange, StoreHalfOpen, Step, counters
  <2>2. Probes' = Probes
    BY <1>1, <2>1 DEF Probes
  <2>3. \A d \in Callers : pc'[d] \in {"opening", "limit"} => seen'[d] = "HALF_OPEN"
    BY <1>1, <2>1 DEF LimitInv
  <2>. QED  BY <2>1, <2>2, <2>3, LimitUnmoved
<1>4. CASE Limit(c)
  <2>1. CASE Admit(c)
    BY <1>4, <2>1, LimitAdmit
  <2>2. CASE ~Admit(c)
    <3>1. /\ pc[c] = "limit" /\ active' = active /\ seen' = seen
          /\ pc' = [pc EXCEPT ![c] = "idle"]
      BY <1>4, <2>2 DEF Limit, Step
    <3>2. Probes' = Probes
      BY <1>1, <3>1 DEF Probes
    <3>. QED  BY <1>1, <3>1, <3>2, LimitUnmoved DEF LimitInv, CallerPC
  <2>. QED  BY <2>1, <2>2
<1>5. CASE Operation(c)
  BY <1>5, LimitOperation
<1>. QED  BY <1>2, <1>3, <1>4, <1>5 DEF ExecuteStep

\* What callers do after the operation, and what everybody else does.
LEMMA LimitOther ==
  ASSUME Types, LimitInv,
         \/ \E c \in Callers : SuccessStep(c) \/ FailureStep(c)
         \/ OperatorStep
         \/ TimePasses
  PROVE  LimitInv'
<1>1. active' = active /\ seen' = seen
  BY DEF SuccessStep, Success, Forgive, Prove, Close, ClearFailures, ClearSuccesses,
         FailureStep, Failure, Judge, Reopen, Unprove, Trip, Postpone,
         OperatorStep, ForceOpen, ForceClose, ForceCloseFailures, ForceCloseSuccesses,
         TimePasses, counters
<1>. DEFINE After == CallerPC \ {"cas", "opening", "limit", "running"}
<1>2. \/ pc' = pc
      \/ \E c \in Callers, to \in After : pc[c] # "running" /\ pc' = [pc EXCEPT ![c] = to]
  <2>1. CASE \E c \in Callers : SuccessStep(c)
    BY <2>1 DEF SuccessStep, Success, Forgive, Prove, Close, ClearFailures, ClearSuccesses,
                Step, CallerPC, Types, States
  <2>2. CASE \E c \in Callers : FailureStep(c)
    BY <2>2 DEF FailureStep, Failure, Judge, Reopen, Unprove, Trip, Postpone, Step, CallerPC
  <2>3. CASE OperatorStep \/ TimePasses
    BY <2>3 DEF OperatorStep, ForceOpen, ForceClose, ForceCloseFailures,
                ForceCloseSuccesses, TimePasses
  <2>. QED  BY <2>1, <2>2, <2>3
<1>3. pc \in [Callers -> CallerPC] /\ pc' \in [Callers -> CallerPC]
  BY <1>2 DEF Types
<1>4. Probes' = Probes
  BY <1>1, <1>2, <1>3 DEF Probes
<1>5. \A d \in Callers : pc'[d] \in {"opening", "limit"} => seen'[d] = "HALF_OPEN"
  BY <1>1, <1>2, <1>3 DEF LimitInv
<1>. QED  BY <1>1, <1>3, <1>4, <1>5, LimitUnmoved DEF LimitInv

\* active_requests_ counts the half-open operations that are running, and there
\* are never more than max_concurrent_requests of them.
THEOREM HalfOpenLimitHolds == Spec => [](TypeOK /\ HalfOpenLimit)
<1>1. Init => Types /\ LimitInv
  <2>. SUFFICES ASSUME Init  PROVE Types /\ LimitInv
    OBVIOUS
  <2>1. Probes = {}
    BY DEF Init, Probes
  <2>2. LimitInv
    BY <2>1, FS_EmptySet, ConstantsOK DEF Init, LimitInv, HalfOpenLimit
  <2>3. Types
    BY ConstantsOK DEF Init, Types, CallerPC, States
  <2>. QED  BY <2>2, <2>3
<1>2. Types /\ LimitInv /\ [Next]_vars => Types' /\ LimitInv'
  <2>. SUFFICES ASSUME Types, LimitInv, [Next]_vars  PROVE LimitInv'
    BY TypesPreserved
  <2>1. CASE Next
    BY <2>1, CallerSteps, LimitExecute, LimitOther
  <2>2. CASE UNCHANGED vars
    BY <2>2 DEF vars, counters, LimitInv, HalfOpenLimit, Probes
  <2>. QED  BY <2>1, <2>2
<1>3. Types /\ LimitInv => TypeOK /\ HalfOpenLimit
  BY DEF Types, LimitInv, TypeOK
<1>. QED  BY <1>1, <1>2, <1>3, PTL DEF Spec

-----------------------------------------------------------------------------
(* The Kubernetes operator                                                 *)

USE DEF flags, queueVars, controllerVars, outside, workerVars, loopVars

\* The types are inductive with this: a worker in processResourceEvent has an event.
OperatorInv ==
  /\ OperatorTypeOK
  /\ \A w \in Workers : worker_pc[w] = "process" => event[w] \in Event

\* What a watch delivers of a change is an event.
LEMMA NotificationIsEvent ==
  ASSUME OperatorTypeOK, NEW r \in Resources, NEW s \in Specs \cup {NoSpec}, cluster[r] # s
  PROVE  Notification(r, s) \in Event
  BY DEF OperatorTypeOK, Event, Notification, ResourceType

\* Neither the users nor those who register controllers disturb the types.
LEMMA TypeOutside ==
  ASSUME OperatorInv, OutsideStep  PROVE OperatorInv'
<1>1. ASSUME NEW r \in Resources, NEW s \in Specs \cup {NoSpec}, ChangeResource(r, s)
      PROVE  OperatorInv'
  <2>1. cluster[r] # s
    BY <1>1 DEF ChangeResource
  <2>2. wire' = wire \/ \E e \in Event : wire' = Append(wire, e)
    BY <1>1, <2>1, NotificationIsEvent DEF ChangeResource, OperatorInv
  <2>3. wire' \in Seq(Event \cup {Bookmark})
    <3>. DEFINE N == Event \cup {Bookmark}
    <3>1. wire \in Seq(N) /\ \A e \in Event : e \in N
      BY DEF OperatorInv, OperatorTypeOK
    <3>. HIDE DEF N
    <3>2. \A e \in Event : Append(wire, e) \in Seq(N)
      BY <3>1
    <3>3. wire' \in Seq(N)
      BY <2>2, <3>1, <3>2
    <3>. QED  BY <3>3 DEF N
  <2>4. changes' \in 0..MaxChanges
    BY <1>1, OperatorConstantsOK DEF ChangeResource, OperatorInv, OperatorTypeOK
  <2>5. cluster' \in [Resources -> Specs \cup {NoSpec}]
    BY <1>1 DEF ChangeResource, OperatorInv, OperatorTypeOK
  <2>. QED
    BY <1>1, <2>3, <2>4, <2>5 DEF ChangeResource, OperatorInv, OperatorTypeOK
<1>2. ASSUME NEW present \in BOOLEAN, SetController(present)  PROVE OperatorInv'
  <2>1. changes' \in 0..MaxChanges
    BY <1>2, OperatorConstantsOK DEF SetController, OperatorInv, OperatorTypeOK
  <2>. QED
    BY <1>2, <2>1 DEF SetController, OperatorInv, OperatorTypeOK
<1>3. CASE SendBookmark
  <2>1. wire' \in Seq(Event \cup {Bookmark})
    BY <1>3 DEF SendBookmark, OperatorInv, OperatorTypeOK
  <2>2. changes' \in 0..MaxChanges
    BY <1>3, OperatorConstantsOK DEF SendBookmark, OperatorInv, OperatorTypeOK
  <2>. QED
    BY <1>3, <2>1, <2>2 DEF SendBookmark, OperatorInv, OperatorTypeOK
<1>. QED  BY <1>1, <1>2, <1>3 DEF OutsideStep

\* notify_one wakes a worker that waits, and no other.
LEMMA WakeOneTypes ==
  ASSUME OperatorInv, WakeOne
  PROVE  /\ worker_pc' \in
              [Workers -> {"lock", "block", "waiting", "process", "stuck", "exited"}]
         /\ \A w \in Workers : worker_pc'[w] = "process" => worker_pc[w] = "process"
  BY DEF OperatorInv, OperatorTypeOK, WakeOne, Waiting, Goto

\* A push keeps the types.
LEMMA TypeQueue ==
  ASSUME OperatorInv, NEW e \in Event, Queue(e)
  PROVE  /\ work_queue' \in Seq(Event)
         /\ WakeOne
  BY DEF Queue, OperatorInv, OperatorTypeOK

\* A notification keeps the types: what is not an event is not queued.
LEMMA TypeWatch == ASSUME OperatorInv, WatchCallback  PROVE OperatorInv'
<1>1. Head(wire) \in Event \cup {Bookmark} /\ wire' \in Seq(Event \cup {Bookmark})
  BY DEF WatchCallback, OperatorInv, OperatorTypeOK
<1>2. CASE Head(wire) = Bookmark
  BY <1>1, <1>2 DEF WatchCallback, OperatorInv, OperatorTypeOK
<1>3. CASE Head(wire) # Bookmark
  <2>1. work_queue' \in Seq(Event) /\ WakeOne
    BY <1>1, <1>3, TypeQueue DEF WatchCallback
  <2>. QED
    BY <1>1, <1>3, <2>1, WakeOneTypes DEF WatchCallback, OperatorInv, OperatorTypeOK
<1>. QED  BY <1>2, <1>3

\* A worker that goes anywhere but to an event's handling, perhaps taking or leaving
\* the queue's mutex, keeps the types.
LEMMA TypeMove ==
  ASSUME OperatorInv, NEW w \in Workers,
         NEW l \in {"lock", "block", "waiting", "exited"}, Goto(w, l),
         queue_mutex' \in {queue_mutex, w, Free},
         UNCHANGED <<flags, work_queue, controllerVars, outside, event, loopVars, stop>>
  PROVE  OperatorInv'
<1>1. worker_pc' \in [Workers -> {"lock", "block", "waiting", "process", "stuck", "exited"}]
  BY DEF Goto, OperatorInv, OperatorTypeOK
<1>2. \A x \in Workers : worker_pc'[x] = "process" => event'[x] \in Event
  BY DEF Goto, OperatorInv, OperatorTypeOK
<1>3. queue_mutex' \in Workers \cup {Free}
  BY DEF OperatorInv, OperatorTypeOK
<1>4. OperatorTypeOK'
  BY <1>1, <1>3 DEF OperatorInv, OperatorTypeOK
<1>. QED  BY <1>2, <1>4 DEF OperatorInv

\* A worker takes an event of the queue, blocks, or wakes up.
LEMMA TypeAcquire ==
  ASSUME OperatorInv, NEW w \in Workers, Acquire(w) \/ Block(w) \/ SpuriousWakeup(w)
  PROVE  OperatorInv'
<1>1. CASE Acquire(w) /\ work_queue # <<>>
  <2>1. Head(work_queue) \in Event /\ Tail(work_queue) \in Seq(Event)
    BY <1>1 DEF OperatorInv, OperatorTypeOK
  <2>2. CASE running
    <3>1. /\ event' = [event EXCEPT ![w] = Head(work_queue)] /\ work_queue' = Tail(work_queue)
          /\ worker_pc' = [worker_pc EXCEPT ![w] = "process"]
          /\ UNCHANGED <<flags, queue_mutex, controllerVars, outside, loopVars, stop>>
      BY <1>1, <2>2 DEF Acquire, Goto
    <3>2. event' \in [Workers -> Event \cup {NoEvent}] /\ event'[w] \in Event
          /\ \A x \in Workers \ {w} : event'[x] = event[x] /\ worker_pc'[x] = worker_pc[x]
      BY <2>1, <3>1 DEF OperatorInv, OperatorTypeOK
    <3>3. worker_pc' \in [Workers -> {"lock", "block", "waiting", "process", "stuck", "exited"}]
      BY <3>1 DEF OperatorInv, OperatorTypeOK
    <3>. QED  BY <2>1, <3>1, <3>2, <3>3 DEF OperatorInv, OperatorTypeOK
  <2>3. CASE ~running
    BY <1>1, <2>3, TypeMove DEF Acquire
  <2>. QED  BY <2>2, <2>3
<1>2. CASE Acquire(w) /\ work_queue = <<>>
  BY <1>2, TypeMove DEF Acquire
<1>3. CASE Block(w) \/ SpuriousWakeup(w)
  BY <1>3, TypeMove DEF Block, SpuriousWakeup
<1>. QED  BY <1>1, <1>2, <1>3

\* What a worker can do to the controller's memory and to the cluster, and where it
\* goes from there.
LEMMA ProcessEffect ==
  ASSUME OperatorInv, NEW w \in Workers, Process(w)
  PROVE  /\ worker_pc[w] = "process"
         /\ \E r \in Resources, s \in Specs :
              /\ UNCHANGED active_agents \/ Activate(r, s) \/ Activate(r, NoSpec)
              /\ UNCHANGED deployment \/ Deploy(r, s)
         /\ \/ Handled(w)
            \/ controllers_mutex' = w /\ Goto(w, "stuck") /\ UNCHANGED event
         /\ UNCHANGED <<flags, queueVars, registered, outside>>
         /\ UNCHANGED <<loopVars, stop>>
<1>1. worker_pc[w] = "process" /\ event[w] \in Event
  BY DEF Process, OperatorInv
<1>2. event[w].name \in Resources /\ event[w].spec \in Specs
  BY <1>1 DEF Event
<1>3. CASE Drop(w, event[w]) \/ Reject(w, event[w])
  BY <1>1, <1>2, <1>3 DEF Process, Drop, Reject
<1>4. CASE Create(w, event[w])
  BY <1>1, <1>2, <1>4 DEF Process, Create
<1>5. CASE CreateListing(w, event[w])
  BY <1>1, <1>2, <1>5 DEF Process, CreateListing
<1>6. CASE Update(w, event[w])
  BY <1>1, <1>2, <1>6 DEF Process, Update
<1>7. CASE Delete(w, event[w])
  BY <1>1, <1>2, <1>7 DEF Process, Delete
<1>. QED  BY <1>3, <1>4, <1>5, <1>6, <1>7 DEF Process

\* Handling an event keeps the types.
LEMMA TypeProcess == ASSUME OperatorInv, NEW w \in Workers, Process(w)  PROVE OperatorInv'
<1>1. active_agents' \in [Resources -> Specs \cup {NoSpec}]
      /\ deployment' \in [Resources -> Specs \cup {NoSpec}]
  BY ProcessEffect DEF Deploy, Activate, OperatorInv, OperatorTypeOK
<1>2. /\ worker_pc' \in
              [Workers -> {"lock", "block", "waiting", "process", "stuck", "exited"}]
      /\ event' \in [Workers -> Event \cup {NoEvent}]
      /\ controllers_mutex' \in Workers \cup {"loop", Free}
      /\ \A v \in Workers : worker_pc'[v] = "process" =>
            worker_pc[v] = "process" /\ event'[v] = event[v]
  BY ProcessEffect DEF Handled, Goto, OperatorInv, OperatorTypeOK
<1>. QED
  BY <1>1, <1>2, ProcessEffect DEF OperatorInv, OperatorTypeOK

\* The thread in run() lists what is in the cluster, as events.
LEMMA TypeRun == ASSUME OperatorInv, RunStep  PROVE OperatorInv'
<1>1. CASE List
  <2>1. items' \in SUBSET Event
    BY <1>1, OperatorConstantsOK
    DEF List, ListedEvent, ControllerKey, Event, OperatorInv, OperatorTypeOK
  <2>. QED
    BY <1>1, <2>1 DEF List, OperatorInv, OperatorTypeOK
<1>2. CASE PushItem
  <2>1. PICK e \in items : Queue(e) /\ items' = items \ {e}
    BY <1>2 DEF PushItem
  <2>2. e \in Event /\ items' \in SUBSET Event
    BY <2>1 DEF OperatorInv, OperatorTypeOK
  <2>3. work_queue' \in Seq(Event) /\ WakeOne
    BY <2>1, <2>2, TypeQueue
  <2>. QED
    BY <1>2, <2>2, <2>3, WakeOneTypes DEF PushItem, OperatorInv, OperatorTypeOK
<1>3. CASE Initialized \/ RunCheck \/ RunStart \/ RunTest \/ Listed
  BY <1>3 DEF Initialized, RunCheck, RunStart, RunTest, Listed,
     OperatorInv, OperatorTypeOK
<1>. QED  BY <1>1, <1>2, <1>3 DEF RunStep

\* Shutting down keeps the types.
LEMMA TypeShutdown == ASSUME OperatorInv, ShutdownFlag \/ ShutdownStep  PROVE OperatorInv'
<1>1. CASE ShutdownNotify
  BY <1>1 DEF ShutdownNotify, WakeAll, Waiting, OperatorInv, OperatorTypeOK
<1>2. CASE ShutdownFlag \/ ShutdownJoin \/ ShutdownControllers
  BY <1>2 DEF ShutdownFlag, ShutdownJoin, ShutdownControllers,
     OperatorInv, OperatorTypeOK
<1>. QED  BY <1>1, <1>2 DEF ShutdownStep

\* It is inductive.
LEMMA OperatorTypeStep ==
  OperatorInv /\ [OperatorNext]_operator_vars => OperatorInv'
<1>. SUFFICES ASSUME OperatorInv, [OperatorNext]_operator_vars  PROVE OperatorInv'
  OBVIOUS
<1>1. CASE UNCHANGED operator_vars
  BY <1>1 DEF operator_vars, OperatorInv, OperatorTypeOK
<1>2. CASE \/ OutsideStep \/ WatchCallback
           \/ RunStep \/ ShutdownFlag \/ ShutdownStep
  BY <1>2, TypeOutside, TypeWatch, TypeRun, TypeShutdown
<1>3. CASE \E w \in Workers : WorkerStep(w) \/ SpuriousWakeup(w)
  BY <1>3, TypeAcquire, TypeProcess DEF WorkerStep
<1>. QED  BY <1>1, <1>2, <1>3 DEF OperatorNext

\* At the beginning nothing is queued.
LEMMA OperatorTypeInit == OperatorInit => OperatorInv
<1>. SUFFICES ASSUME OperatorInit  PROVE OperatorInv
  OBVIOUS
<1>1. /\ work_queue \in Seq(Event) /\ wire \in Seq(Event \cup {Bookmark})
      /\ items \in SUBSET Event
  BY DEF OperatorInit
<1>2. /\ active_agents \in [Resources -> Specs \cup {NoSpec}]
      /\ deployment = active_agents /\ cluster = active_agents
  BY DEF OperatorInit
<1>3. /\ worker_pc \in
              [Workers -> {"lock", "block", "waiting", "process", "stuck", "exited"}]
      /\ event \in [Workers -> Event \cup {NoEvent}]
      /\ \A w \in Workers : worker_pc[w] # "process"
  BY DEF OperatorInit
<1>4. changes \in 0..MaxChanges
  BY OperatorConstantsOK DEF OperatorInit
<1>. QED  BY <1>1, <1>2, <1>3, <1>4 DEF OperatorInit, OperatorInv, OperatorTypeOK

\* The operator's state keeps its types, for any workers, resources and specs.
THEOREM OperatorTypeCorrect ==
  OperatorSpec => []OperatorTypeOK
<1>1. OperatorInv => OperatorTypeOK
  BY DEF OperatorInv
<1>. QED  BY <1>1, OperatorTypeInit, OperatorTypeStep, PTL DEF OperatorSpec

\* Who is about to block has the mutex.
BlockingOK == \A w \in Workers : worker_pc[w] = "block" => queue_mutex = w

\* notify_one makes nobody block or wait.
LEMMA WakeOneWakes ==
  ASSUME OperatorInv, WakeOne
  PROVE  \A w \in Workers, l \in {"block", "waiting"} : worker_pc'[w] = l => worker_pc[w] = l
  BY DEF OperatorInv, OperatorTypeOK, WakeOne, Waiting, Goto

\* A worker blocks with the mutex, and while the operator runs.
LEMMA WorkerBlocking ==
  ASSUME OperatorInv, BlockingOK, NoneMissesShutdown,
         NEW w \in Workers, WorkerStep(w) \/ SpuriousWakeup(w)
  PROVE  BlockingOK' /\ NoneMissesShutdown'
<1>. USE DEF BlockingOK, NoneMissesShutdown, Goto, OperatorInv, OperatorTypeOK
<1>0. Free \notin Workers
  BY OperatorConstantsOK
<1>1. CASE Acquire(w)
  BY <1>0, <1>1 DEF Acquire, queueVars, flags
<1>2. CASE Block(w)
  BY <1>0, <1>2 DEF Block, flags
<1>3. CASE SpuriousWakeup(w)
  BY <1>3 DEF SpuriousWakeup, queueVars, flags
<1>4. CASE Process(w)
  <2>1. \E l \in {"lock", "stuck"} : worker_pc' = [worker_pc EXCEPT ![w] = l]
    BY <1>4
    DEF Process, Drop, Reject, Create, CreateListing, Update, Delete, Handled
  <2>2. UNCHANGED <<queue_mutex, running, stop>>
    BY <1>4 DEF Process, queueVars, flags
  <2>. QED  BY <2>1, <2>2
<1>. QED  BY <1>1, <1>2, <1>3, <1>4 DEF WorkerStep

\* Every step keeps it so.
LEMMA BlockingStep ==
  ASSUME OperatorInv, BlockingOK, NoneMissesShutdown, [OperatorNext]_operator_vars
  PROVE  BlockingOK' /\ NoneMissesShutdown'
<1>. USE DEF BlockingOK, NoneMissesShutdown, OperatorInv, OperatorTypeOK
<1>0. Free \notin Workers
  BY OperatorConstantsOK
<1>1. CASE \E w \in Workers : WorkerStep(w) \/ SpuriousWakeup(w)
  BY <1>1, WorkerBlocking
<1>2. CASE WatchCallback \/ PushItem
  <2>1. /\ WakeOne \/ UNCHANGED worker_pc
        /\ UNCHANGED <<queue_mutex, running, stop>>
    BY <1>2 DEF WatchCallback, PushItem, Queue, flags
  <2>. QED  BY <2>1, WakeOneWakes
<1>3. CASE ShutdownNotify
  BY <1>0, <1>3
  DEF ShutdownNotify, WakeAll, Waiting, queueVars, flags
<1>4. CASE ShutdownFlag \/ RunStart
  BY <1>4 DEF ShutdownFlag, RunStart, queueVars, workerVars
<1>5. CASE ShutdownJoin \/ ShutdownControllers
  BY <1>5
  DEF ShutdownJoin, ShutdownControllers, queueVars, workerVars, flags
<1>6. CASE \/ UNCHANGED operator_vars \/ OutsideStep
           \/ Initialized \/ RunCheck \/ RunTest \/ List \/ Listed
  <2>1. UNCHANGED <<worker_pc, queue_mutex, running, stop>>
    BY <1>6
    DEF operator_vars, OutsideStep, ChangeResource, SendBookmark, SetController, Initialized,
        RunCheck, RunTest, List, Listed, queueVars, workerVars, flags
  <2>. QED  BY <2>1
<1>. QED
  BY <1>1, <1>2, <1>3, <1>4, <1>5, <1>6 DEF OperatorNext, RunStep, ShutdownStep

\* For any workers: the notification of shutdown, sent under queue_mutex_, misses no
\* worker between the predicate of its wait and blocking, as those of the orchestrator
\* and of the bus may.
THEOREM NoneMissesShutdownHolds == OperatorSpec => []NoneMissesShutdown
<1>1. OperatorInit => BlockingOK /\ NoneMissesShutdown
  BY DEF OperatorInit, BlockingOK, NoneMissesShutdown
<1>2. /\ OperatorInv /\ BlockingOK /\ NoneMissesShutdown /\ [OperatorNext]_operator_vars
      => BlockingOK' /\ NoneMissesShutdown'
  BY BlockingStep
<1>. QED  BY <1>1, <1>2, OperatorTypeInit, OperatorTypeStep, PTL DEF OperatorSpec
=============================================================================
