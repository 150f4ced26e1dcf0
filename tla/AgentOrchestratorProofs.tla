---------------------- MODULE AgentOrchestratorProofs ----------------------
(***************************************************************************)
(* Theorems about AgentOrchestrator, for any number of workers, tasks and  *)
(* agents.                                                                 *)
(***************************************************************************)
EXTENDS AgentOrchestrator, SequenceFacts, FiniteSetTheorems, TLAPS

-----------------------------------------------------------------------------
(* Updates at a key that may lie outside the domain                        *)

\* A counter per agent stays a counter when one agent's is incremented.
LEMMA IncrementType ==
  ASSUME NEW S, NEW a, NEW f \in [S -> Nat]
  PROVE  [f EXCEPT ![a] = @ + 1] \in [S -> Nat]
<1>1. CASE a \in S
  BY <1>1
<1>2. CASE a \notin S
  BY <1>2
<1>. QED  BY <1>1, <1>2

\* decrement_tasks_in_progress stops at zero, so the counters stay natural numbers.
LEMMA DecrementType ==
  ASSUME NEW S, NEW a, NEW f \in [S -> Nat]
  PROVE  [f EXCEPT ![a] = Decremented(@)] \in [S -> Nat]
<1>1. CASE a \in S
  BY <1>1 DEF Decremented
<1>2. CASE a \notin S
  BY <1>2
<1>. QED  BY <1>1, <1>2

\* Counting one more outcome keeps results a history per task.
LEMMA AppendType ==
  ASSUME NEW S, NEW T, NEW a, NEW e \in T, NEW f \in [S -> Seq(T)]
  PROVE  [f EXCEPT ![a] = Append(@, e)] \in [S -> Seq(T)]
<1>1. CASE a \in S
  <2>1. Append(f[a], e) \in Seq(T)
    BY <1>1, AppendProperties
  <2>. QED  BY <1>1, <2>1
<1>2. CASE a \notin S
  BY <1>2
<1>. QED  BY <1>1, <1>2

-----------------------------------------------------------------------------
(* Every variable keeps its type                                           *)

\* The state start_worker_threads leaves has the right types.
LEMMA InitTypeOK == Init => TypeOK
<1>. SUFFICES ASSUME Init  PROVE TypeOK
  OBVIOUS
<1>. USE DEF Init
<1>1. task_queue \in Seq(Tasks)
  OBVIOUS
<1>2. results \in [Tasks -> Seq(BOOLEAN)]
  OBVIOUS
<1>3. pc \in [Workers -> WorkerPC]
  BY DEF WorkerPC
<1>. QED  BY <1>1, <1>2, <1>3 DEF TypeOK

\* Steps of submit_task.
LEMMA SubmitTypeOK ==
  ASSUME TypeOK, NEW t \in Tasks, SubmitStep(t)
  PROVE  TypeOK'
<1> USE DEF TypeOK, queueVars, workerVars, agentVars, historyVars
<1>1. CASE SubmitCheck(t)
  BY <1>1 DEF SubmitCheck
<1>2. CASE SubmitPush(t)
  <2>1. task_queue' \in Seq(Tasks)
    BY <1>2, AppendProperties DEF SubmitPush
  <2>. QED  BY <1>2, <2>1 DEF SubmitPush
<1>3. CASE SubmitNotify(t)
  BY <1>3 DEF SubmitNotify, Waiting, Goto, WorkerPC
<1>. QED  BY <1>1, <1>2, <1>3 DEF SubmitStep

\* Popping the head of the queue.
LEMMA TakeTypeOK ==
  ASSUME TypeOK, NEW w \in Workers, Take(w)
  PROVE  /\ task_queue' \in Seq(Tasks)
         /\ task' \in [Workers -> Tasks \cup {NoTask}]
         /\ pc' \in [Workers -> WorkerPC]
<1>1. /\ Head(task_queue) \in Tasks
      /\ Tail(task_queue) \in Seq(Tasks)
  BY HeadTailProperties DEF TypeOK, Take
<1>2. task_queue' \in Seq(Tasks)
  BY <1>1 DEF Take
<1>3. task' \in [Workers -> Tasks \cup {NoTask}]
  BY <1>1 DEF TypeOK, Take
<1>4. pc' \in [Workers -> WorkerPC]
  BY DEF TypeOK, Take, Goto, WorkerPC
<1>. QED  BY <1>2, <1>3, <1>4

\* Steps of a worker thread.
LEMMA WorkerTypeOK ==
  ASSUME TypeOK, NEW w \in Workers, WorkerStep(w) \/ SpuriousWakeup(w)
  PROVE  TypeOK'
<1> USE DEF TypeOK, queueVars, workerVars, agentVars, historyVars, Goto
<1>1. CASE LoopTest(w)
  BY <1>1 DEF LoopTest, WorkerPC
<1>2. CASE Acquire(w)
  <2>1. CASE Take(w)
    <3>1. mutex' = mutex
      BY <2>1 DEF Take
    <3>. QED  BY <1>2, <2>1, <3>1, TakeTypeOK DEF Acquire
  <2>2. CASE ~Take(w)
    BY <1>2, <2>2 DEF Acquire, WorkerPC
  <2>. QED  BY <2>1, <2>2
<1>3. CASE Block(w)
  BY <1>3 DEF Block, WorkerPC
<1>4. CASE FindAgent(w)
  <2>1. Candidates(task[w]) \subseteq Agents
    BY DEF Candidates
  <2>. QED  BY <1>4, <2>1 DEF FindAgent, WorkerPC
<1>5. CASE CheckAvailable(w)
  BY <1>5 DEF CheckAvailable, WorkerPC
<1>6. CASE Start(w)
  <2>1. inProgress' \in [Agents -> Nat]
    BY <1>6, IncrementType DEF Start
  <2>. QED  BY <1>6, <2>1 DEF Start, WorkerPC
<1>7. CASE Returned(w)
  <2>1. inProgress' \in [Agents -> Nat]
    BY <1>7, DecrementType DEF Returned
  <2>. QED  BY <1>7, <2>1 DEF Returned, WorkerPC
<1>8. CASE Threw(w)
  <2>1. leaked' \in [Agents -> Nat]
    BY <1>8, IncrementType DEF Threw
  <2>. QED  BY <1>8, <2>1 DEF Threw, WorkerPC
<1>9. CASE Finalize(w)
  <2>1. results' \in [Tasks -> Seq(BOOLEAN)]
    <3>1. ok[w] \in BOOLEAN /\ results \in [Tasks -> Seq(BOOLEAN)]
      OBVIOUS
    <3>2. results' = [results EXCEPT ![task[w]] = Append(@, ok[w])]
      BY <1>9 DEF Finalize, Count
    <3>. QED  BY <3>1, <3>2, AppendType, Zenon
  <2>. QED  BY <1>9, <2>1 DEF Finalize, Forget, WorkerPC
<1>10. CASE Recover(w)
  <2>1. results' \in [Tasks -> Seq(BOOLEAN)]
    <3>1. ok[w] \in BOOLEAN /\ results \in [Tasks -> Seq(BOOLEAN)]
      OBVIOUS
    <3>2. results' = [results EXCEPT ![task[w]] = Append(@, ok[w])]
      BY <1>10 DEF Recover, Count
    <3>. QED  BY <3>1, <3>2, AppendType, Zenon
  <2>. QED  BY <1>10, <2>1 DEF Recover, Forget, WorkerPC
<1>11. CASE SpuriousWakeup(w)
  BY <1>11 DEF SpuriousWakeup, WorkerPC
<1>. QED
  BY <1>1, <1>2, <1>3, <1>4, <1>5, <1>6, <1>7, <1>8, <1>9, <1>10, <1>11
  DEF WorkerStep

\* Steps of the registry and of shutdown.
LEMMA OtherTypeOK ==
  ASSUME TypeOK, (\E a \in Agents : RegistryStep(a)) \/ ShutdownStep
  PROVE  TypeOK'
<1> USE DEF TypeOK, queueVars, workerVars, agentVars, historyVars
<1>1. ASSUME NEW a \in Agents, RegisterAgent(a)  PROVE TypeOK'
  BY <1>1 DEF RegisterAgent
<1>2. ASSUME NEW a \in Agents, UnregisterAgent(a)  PROVE TypeOK'
  BY <1>2 DEF UnregisterAgent
<1>3. ASSUME NEW a \in Agents, HealthCheck(a)  PROVE TypeOK'
  BY <1>3 DEF HealthCheck
<1>4. ASSUME NEW a \in Agents, NEW on \in BOOLEAN, SetAgentEnabled(a, on)  PROVE TypeOK'
  BY <1>4 DEF SetAgentEnabled
<1>5. CASE ShutdownFlag
  BY <1>5 DEF ShutdownFlag
<1>6. CASE ShutdownNotify
  BY <1>6 DEF ShutdownNotify, Waiting, WorkerPC
<1>7. CASE Join
  BY <1>7 DEF Join
<1>8. ASSUME NEW a \in Agents, ShutdownAgent(a)  PROVE TypeOK'
  BY <1>8 DEF ShutdownAgent
<1>9. CASE EndOfAgents
  BY <1>9 DEF EndOfAgents
<1>10. CASE ClearAgents
  BY <1>10 DEF ClearAgents
<1>. QED
  BY <1>1, <1>2, <1>3, <1>4, <1>5, <1>6, <1>7, <1>8, <1>9, <1>10
  DEF RegistryStep, ShutdownStep

\* The type invariant: no step of any thread stores a value of another kind.
THEOREM TypeCorrect == Spec => []TypeOK
<1>1. TypeOK /\ [Next]_vars => TypeOK'
  <2> SUFFICES ASSUME TypeOK, [Next]_vars  PROVE TypeOK'
    OBVIOUS
  <2>1. CASE Next
    BY <2>1, SubmitTypeOK, WorkerTypeOK, OtherTypeOK DEF Next
  <2>2. CASE UNCHANGED vars
    BY <2>2 DEF TypeOK, vars, queueVars, workerVars, agentVars, historyVars
  <2>. QED  BY <2>1, <2>2
<1>. QED  BY InitTypeOK, <1>1, PTL DEF Spec

-----------------------------------------------------------------------------
(* A task is in one place                                                  *)

Pushed(t) == call[t] \in {"pushed", "accepted"}

\* Why a task cannot be queued twice: what is queued or held was pushed, and
\* submit_task pushes a task whose call has only passed the shutdown check.
PlaceInv ==
  /\ TypeOK
  /\ TaskInOnePlace
  /\ \A t \in Queued : Pushed(t)
  /\ \A w \in Workers : pc[w] \in Holding => task[w] \in Tasks /\ Pushed(task[w])

\* Queued and NoDuplicateInQueue in the vocabulary of SequenceFacts.
LEMMA QueueIsItsElements ==
  /\ Queued = Elements(task_queue)
  /\ NoDuplicateInQueue <=> Distinct(task_queue)
  /\ TypeOK => Queued \subseteq Tasks
<1>1. Queued = Elements(task_queue) /\ (NoDuplicateInQueue <=> Distinct(task_queue))
  BY DEF Queued, Elements, NoDuplicateInQueue, Distinct
<1>2. task_queue \in Seq(Tasks) => Queued \subseteq Tasks
  BY LenProperties DEF Queued
<1>. QED  BY <1>1, <1>2 DEF TypeOK

\* push adds one task to the queued ones, and repeats nothing when it was not there.
LEMMA QueuedAfterAppend ==
  ASSUME TypeOK, NEW t \in Tasks, task_queue' = Append(task_queue, t)
  PROVE  /\ Queued' = Queued \cup {t}
         /\ NoDuplicateInQueue /\ t \notin Queued => NoDuplicateInQueue'
<1>1. task_queue \in Seq(Tasks)
  BY DEF TypeOK
<1>2. Queued' = Elements(task_queue') /\ (NoDuplicateInQueue' <=> Distinct(task_queue'))
  BY DEF Queued, Elements, NoDuplicateInQueue, Distinct
<1>. QED  BY <1>1, <1>2, AppendElements, QueueIsItsElements

\* front and pop take one task out of the queued ones, all of it.
LEMMA QueuedAfterTail ==
  ASSUME TypeOK, task_queue # <<>>, task_queue' = Tail(task_queue)
  PROVE  /\ Head(task_queue) \in Queued
         /\ Queued = Queued' \cup {Head(task_queue)}
         /\ NoDuplicateInQueue => NoDuplicateInQueue' /\ Head(task_queue) \notin Queued'
<1>1. task_queue \in Seq(Tasks)
  BY DEF TypeOK
<1>2. Queued' = Elements(task_queue') /\ (NoDuplicateInQueue' <=> Distinct(task_queue'))
  BY DEF Queued, Elements, NoDuplicateInQueue, Distinct
<1>. QED  BY <1>1, <1>2, TailElements, QueueIsItsElements

\* A step that neither pushes nor pops.
LEMMA PlaceUnmoved ==
  ASSUME PlaceInv, TypeOK', task_queue' = task_queue,
         \A t \in Tasks : Pushed(t) => Pushed(t)',
         \A w \in Workers : pc'[w] \in Holding => pc[w] \in Holding /\ task'[w] = task[w]
  PROVE  PlaceInv'
<1>1. Queued' = Queued /\ Queued \subseteq Tasks
  BY QueueIsItsElements DEF Queued, PlaceInv
<1>2. NoDuplicateInQueue'
  BY DEF NoDuplicateInQueue, PlaceInv, TaskInOnePlace
<1>3. \A t : Holders(t)' \subseteq Holders(t)
  BY DEF Holders
<1>. QED
  BY <1>1, <1>2, <1>3
  DEF PlaceInv, TaskInOnePlace, NotQueuedAndHeld, OneHolder

\* submit_task pushes a task that nobody has.
LEMMA PlacePushed ==
  ASSUME PlaceInv, TypeOK', NEW t \in Tasks, SubmitPush(t)
  PROVE  PlaceInv'
<1>1. /\ task_queue' = Append(task_queue, t)
      /\ call[t] = "checked"
      /\ call' = [call EXCEPT ![t] = "pushed"]
      /\ pc' = pc /\ task' = task
  BY DEF SubmitPush, workerVars
<1>2. \A u \in Tasks : Pushed(u)' <=> Pushed(u) \/ u = t
  BY <1>1 DEF Pushed, PlaceInv, TypeOK
<1>3. t \notin Queued /\ Holders(t) = {}
  BY <1>1 DEF PlaceInv, Pushed, Holders
<1>4. Queued' = Queued \cup {t} /\ NoDuplicateInQueue'
  BY <1>1, <1>3, QueuedAfterAppend DEF PlaceInv, TaskInOnePlace
<1>5. Queued \subseteq Tasks
  BY QueueIsItsElements DEF PlaceInv
<1>6. \A u : Holders(u)' = Holders(u)
  BY <1>1 DEF Holders
<1>. QED
  BY <1>1, <1>2, <1>3, <1>4, <1>5, <1>6
  DEF PlaceInv, TaskInOnePlace, NotQueuedAndHeld, OneHolder

\* A worker pops a task: it leaves the queue and is in this worker's hands only.
LEMMA PlaceTaken ==
  ASSUME PlaceInv, TypeOK', NEW w \in Workers, pc[w] = "lock", Take(w), call' = call
  PROVE  PlaceInv'
<1>. DEFINE t == Head(task_queue)
<1>1. /\ t \in Queued /\ t \notin Queued' /\ Queued' \subseteq Queued
      /\ NoDuplicateInQueue'
  BY QueuedAfterTail DEF Take, PlaceInv, TaskInOnePlace
<1>2. t \in Tasks /\ Pushed(t) /\ Holders(t) = {}
  BY <1>1, QueueIsItsElements DEF PlaceInv, TaskInOnePlace, NotQueuedAndHeld
<1>a. DOMAIN pc = Workers /\ DOMAIN task = Workers
  BY DEF PlaceInv, TypeOK
<1>b. \/ pc' = [pc EXCEPT ![w] = "loop"] /\ task' = task
      \/ pc' = [pc EXCEPT ![w] = "find"] /\ task' = [task EXCEPT ![w] = t]
  BY DEF Take, Goto
<1>3. \A v \in Workers \ {w} : pc'[v] = pc[v] /\ task'[v] = task[v]
  BY <1>a, <1>b
<1>4. pc'[w] \in Holding => task'[w] = t
  BY <1>a, <1>b DEF Holding
<1>5. \A u : Holders(u)' \subseteq Holders(u) \cup (IF u = t THEN {w} ELSE {})
  BY <1>3, <1>4 DEF Holders
<1>6. OneHolder'
  BY <1>2, <1>3, <1>4 DEF OneHolder, Holders, PlaceInv, TaskInOnePlace
<1>7. NotQueuedAndHeld'
  BY <1>1, <1>5 DEF NotQueuedAndHeld, PlaceInv, TaskInOnePlace
<1>8. \A u \in Queued' : Pushed(u)'
  BY <1>1 DEF PlaceInv, Pushed
<1>9. \A v \in Workers : pc'[v] \in Holding => task'[v] \in Tasks /\ Pushed(task[v])'
  BY <1>2, <1>3, <1>4 DEF PlaceInv, Pushed
<1>. QED  BY <1>1, <1>6, <1>7, <1>8, <1>9 DEF PlaceInv, TaskInOnePlace

\* Every step of a worker leaves each task in one place.
LEMMA PlaceWorker ==
  ASSUME PlaceInv, TypeOK', NEW w \in Workers, WorkerStep(w) \/ SpuriousWakeup(w)
  PROVE  PlaceInv'
<1>1. CASE Acquire(w) /\ Take(w)
  BY <1>1, PlaceTaken DEF Acquire
<1>2. CASE ~(Acquire(w) /\ Take(w))
  <2>1. task_queue' = task_queue /\ call' = call
    BY <1>2 DEF queueVars, WorkerStep, LoopTest, Acquire, Block, FindAgent, CheckAvailable, Start,
                Returned, Threw, Finalize, Recover, SpuriousWakeup
  <2>2. \A v \in Workers : pc'[v] \in Holding => pc[v] \in Holding /\ task'[v] = task[v]
    <3>1. pc \in [Workers -> WorkerPC] /\ task \in [Workers -> Tasks \cup {NoTask}]
      BY DEF PlaceInv, TypeOK
    <3>2. CASE LoopTest(w) \/ Block(w) \/ SpuriousWakeup(w)
      BY <3>1, <3>2 DEF LoopTest, Block, SpuriousWakeup, Goto, Holding
    <3>3. CASE Acquire(w)
      BY <1>2, <3>1, <3>3 DEF Acquire, Goto, Holding
    <3>4. CASE FindAgent(w) \/ CheckAvailable(w) \/ Start(w) \/ Returned(w) \/ Threw(w)
      BY <3>1, <3>4 DEF FindAgent, CheckAvailable, Start, Returned, Threw, Goto, Holding
    <3>5. CASE Finalize(w) \/ Recover(w)
      BY <3>1, <3>5 DEF Finalize, Recover, Forget, Goto, Holding
    <3>. QED  BY <1>2, <3>2, <3>3, <3>4, <3>5 DEF WorkerStep
  <2>. QED  BY <2>1, <2>2, PlaceUnmoved DEF Pushed
<1>. QED  BY <1>1, <1>2

\* The registry and shutdown do not touch the queue or a worker's task.
LEMMA PlaceOther ==
  ASSUME PlaceInv, TypeOK', (\E a \in Agents : RegistryStep(a)) \/ ShutdownStep
  PROVE  PlaceInv'
<1>1. task_queue' = task_queue /\ call' = call /\ task' = task
  BY DEF RegistryStep, RegisterAgent, UnregisterAgent, HealthCheck, SetAgentEnabled,
         ShutdownStep, ShutdownFlag, ShutdownNotify, Join, ShutdownAgent, EndOfAgents,
         ClearAgents, queueVars, workerVars
<1>2. \A w \in Workers : pc'[w] \in Holding => pc[w] \in Holding
  BY DEF RegistryStep, RegisterAgent, UnregisterAgent, HealthCheck, SetAgentEnabled,
         ShutdownStep, ShutdownFlag, ShutdownNotify, Join, ShutdownAgent, EndOfAgents,
         ClearAgents, workerVars, Holding
<1>. QED  BY <1>1, <1>2, PlaceUnmoved DEF Pushed

\* Every step of submit_task leaves each task in one place.
LEMMA PlaceSubmit ==
  ASSUME PlaceInv, TypeOK', NEW t \in Tasks, SubmitStep(t)
  PROVE  PlaceInv'
<1>1. CASE SubmitPush(t)
  BY <1>1, PlacePushed
<1>2. CASE SubmitCheck(t) \/ SubmitNotify(t)
  <2>1. task_queue' = task_queue /\ task' = task
    BY <1>2 DEF SubmitCheck, SubmitNotify, queueVars, workerVars
  <2>2. \A u \in Tasks : Pushed(u) => Pushed(u)'
    <3>1. call \in [Tasks -> {"idle", "checked", "pushed", "accepted", "rejected"}]
      BY DEF PlaceInv, TypeOK
    <3>. QED  BY <1>2, <3>1 DEF SubmitCheck, SubmitNotify, Pushed
  <2>3. \A w \in Workers : pc'[w] \in Holding => pc[w] \in Holding
    <3>1. pc \in [Workers -> WorkerPC]
      BY DEF PlaceInv, TypeOK
    <3>. QED  BY <1>2, <3>1 DEF SubmitCheck, SubmitNotify, Goto, Waiting, workerVars, Holding
  <2>. QED  BY <2>1, <2>2, <2>3, PlaceUnmoved
<1>. QED  BY <1>1, <1>2 DEF SubmitStep

\* The inductive invariant: the type invariant, one place per task, and the tasks
\* of the queue and of the workers are those submit_task has pushed.
THEOREM PlaceInvariant == Spec => []PlaceInv
<1>1. Init => PlaceInv
  <2>. SUFFICES ASSUME Init  PROVE PlaceInv
    OBVIOUS
  <2>1. Queued = {}
    BY DEF Init, Queued
  <2>2. \A w \in Workers : pc[w] \notin Holding
    BY DEF Init, Holding
  <2>. QED
    BY <2>1, <2>2, InitTypeOK
    DEF PlaceInv, TaskInOnePlace, NoDuplicateInQueue, NotQueuedAndHeld, OneHolder, Holders,
        Queued, Init
<1>2. PlaceInv /\ TypeOK' /\ [Next]_vars => PlaceInv'
  <2>. SUFFICES ASSUME PlaceInv, TypeOK', [Next]_vars  PROVE PlaceInv'
    OBVIOUS
  <2>1. CASE Next
    BY <2>1, PlaceSubmit, PlaceWorker, PlaceOther DEF Next
  <2>2. CASE UNCHANGED vars
    BY <2>2, PlaceUnmoved DEF vars, queueVars, workerVars, Pushed
  <2>. QED  BY <2>1, <2>2
<1>. QED  BY <1>1, <1>2, TypeCorrect, PTL DEF Spec

\* A task is once in task_queue_ or with one worker, never both.
THEOREM TaskInOnePlaceHolds == Spec => []TaskInOnePlace
  BY PlaceInvariant, PTL DEF PlaceInv

-----------------------------------------------------------------------------
(* A task has one outcome                                                  *)

\* Where a worker is before it has counted an outcome of its task.
Before == {"find", "check", "start", "running", "finalize"}

\* Why nothing is counted twice: a task that is not yet pushed, is queued, or is
\* with a worker that has not reached finalize_task_execution has no outcome; in
\* the catch block it has none, or the one whose callback threw, and the outcome
\* to come is a failure.
OutcomeInv ==
  /\ PlaceInv
  /\ OneOutcome
  /\ \A t \in Tasks : ~Pushed(t) => results[t] = <<>>
  /\ \A w \in Workers : pc[w] \in Before => results[task[w]] = <<>>
  /\ \A w \in Workers : pc[w] = "recover" /\ ~terminated =>
       /\ ~ok[w]
       /\ \/ results[task[w]] = <<>>
          \/ task[w] \in Throwing /\ Len(results[task[w]]) = 1

\* A step that counts no outcome: what enters the queue had not been pushed, what
\* a worker takes was queued, and who enters the catch block had counted nothing.
LEMMA OutcomeUncounted ==
  ASSUME OutcomeInv, PlaceInv', results' = results, terminated' = terminated,
         \A t \in Tasks : Pushed(t) => Pushed(t)',
         \A t \in Queued' : t \in Queued \/ ~Pushed(t),
         \A w \in Workers : pc'[w] \in Before =>
           task'[w] \in Queued \/ (pc[w] \in Before /\ task'[w] = task[w]),
         \A w \in Workers : pc'[w] = "recover" =>
           /\ task'[w] = task[w]
           /\ \/ pc[w] = "recover" /\ ok'[w] = ok[w]
              \/ pc[w] \in Before /\ ~ok'[w]
  PROVE  OutcomeInv'
<1>1. Queued \subseteq Tasks /\ Queued' \subseteq Tasks
  <2>1. Queued \subseteq Tasks
    BY QueueIsItsElements DEF OutcomeInv, PlaceInv
  <2>2. task_queue' \in Seq(Tasks)
    <3>1. TypeOK'
      BY DEF PlaceInv
    <3>. QED  BY <3>1 DEF TypeOK
  <2>3. Queued' \subseteq Tasks
    BY <2>2, LenProperties DEF Queued
  <2>. QED  BY <2>1, <2>3
<1>2. \A t \in Queued : results[t] = <<>>
  BY <1>1 DEF OutcomeInv, OneOutcome
<1>3. \A t \in Queued' : results[t] = <<>>
  BY <1>1, <1>2 DEF OutcomeInv
<1>4. OneOutcome'
  BY <1>1, <1>3 DEF OutcomeInv, OneOutcome
<1>5. \A t \in Tasks : ~Pushed(t)' => results'[t] = <<>>
  BY DEF OutcomeInv
<1>6. \A w \in Workers : pc'[w] \in Before => results'[task'[w]] = <<>>
  BY <1>2 DEF OutcomeInv
<1>7. \A w \in Workers : pc'[w] = "recover" /\ ~terminated' =>
        /\ ~ok'[w]
        /\ \/ results'[task'[w]] = <<>>
           \/ task'[w] \in Throwing /\ Len(results'[task'[w]]) = 1
  BY DEF OutcomeInv
<1>. QED  BY <1>4, <1>5, <1>6, <1>7 DEF OutcomeInv

\* finalize_task_execution, called by process_task or by its catch block.
LEMMA OutcomeCounted ==
  ASSUME OutcomeInv, PlaceInv', ~terminated, NEW w \in Workers, Finalize(w) \/ Recover(w)
  PROVE  OutcomeInv'
<1>. DEFINE t == task[w]
<1>. DEFINE r == results[t]
<1>1. /\ pc[w] \in {"finalize", "recover"}
      /\ results' = [results EXCEPT ![t] = Append(@, ok[w])]
      /\ task_queue' = task_queue /\ call' = call
  BY DEF Finalize, Recover, Count, queueVars
<1>2. /\ pc \in [Workers -> WorkerPC] /\ ok \in [Workers -> BOOLEAN]
      /\ task \in [Workers -> Tasks \cup {NoTask}]
      /\ results \in [Tasks -> Seq(BOOLEAN)]
  <2>1. TypeOK
    BY DEF OutcomeInv, PlaceInv
  <2>. QED  BY <2>1 DEF TypeOK
<1>3. t \in Tasks /\ Pushed(t)
  BY <1>1 DEF OutcomeInv, PlaceInv, Holding
<1>4. \A v \in Workers \ {w} : pc[v] \in Holding => task[v] # t
  BY <1>1 DEF OutcomeInv, PlaceInv, TaskInOnePlace, OneHolder, Holding
<1>5. t \notin Queued
  <2>1. w \in Holders(t)
    BY <1>1 DEF Holders, Holding
  <2>. QED  BY <2>1 DEF OutcomeInv, PlaceInv, TaskInOnePlace, NotQueuedAndHeld
<1>6. \A v \in Workers \ {w} :
        pc'[v] = pc[v] /\ task'[v] = task[v] /\ ok'[v] = ok[v]
  BY <1>2 DEF Finalize, Recover, Forget, Goto
<1>7. \/ r = <<>>
      \/ pc[w] = "recover" /\ t \in Throwing /\ Len(r) = 1 /\ ~ok[w]
  BY <1>1 DEF OutcomeInv, Before
<1>8. /\ results'[t] = Append(r, ok[w])
      /\ \A u \in Tasks \ {t} : results'[u] = results[u]
  BY <1>1, <1>2, <1>3
<1>9. /\ Len(results'[t]) = Len(r) + 1
      /\ Len(results'[t]) = 2 => ~results'[t][2]
  <2>1. r \in Seq(BOOLEAN) /\ ok[w] \in BOOLEAN
    BY <1>2, <1>3
  <2>2. /\ Len(Append(r, ok[w])) = Len(r) + 1
        /\ Append(r, ok[w])[Len(r) + 1] = ok[w]
    BY <2>1, AppendProperties
  <2>3. r = <<>> => Len(r) = 0
    OBVIOUS
  <2>. QED  BY <1>7, <1>8, <2>2, <2>3
<1>10. OneOutcome'
  <2>1. Queued' = Queued
    BY <1>1 DEF Queued
  <2>2. Len(results'[t]) <= (IF t \in Throwing THEN 2 ELSE 1)
    <3>1. CASE r = <<>>
      <4>1. Len(results'[t]) = 1
        BY <1>9, <3>1
      <4>. QED  BY <4>1
    <3>2. CASE r # <<>>
      <4>1. t \in Throwing /\ Len(r) = 1
        BY <1>7, <3>2
      <4>2. Len(results'[t]) = 2
        BY <1>9, <4>1
      <4>. QED  BY <4>1, <4>2
    <3>. QED  BY <3>1, <3>2
  <2>3. ASSUME NEW u \in Tasks
        PROVE  /\ Len(results'[u]) <= (IF u \in Throwing THEN 2 ELSE 1)
               /\ Len(results'[u]) = 2 => ~results'[u][2]
               /\ u \in Queued => results'[u] = <<>>
    <3>1. CASE u = t
      BY <1>5, <1>9, <2>2, <3>1
    <3>2. CASE u # t
      BY <1>8, <3>2 DEF OutcomeInv, OneOutcome
    <3>. QED  BY <3>1, <3>2
  <2>. QED  BY <2>1, <2>3 DEF OneOutcome
<1>11. \A u \in Tasks : ~Pushed(u)' => results'[u] = <<>>
  BY <1>1, <1>3, <1>8 DEF OutcomeInv, Pushed
<1>12. \A v \in Workers : pc'[v] \in Before => results'[task'[v]] = <<>>
  <2>1. pc'[w] \notin Before
    BY <1>1, <1>2 DEF Finalize, Recover, Forget, Goto, Before
  <2>2. \A v \in Workers \ {w} : pc[v] \in Before => task[v] \in Tasks \ {t}
    BY <1>4 DEF OutcomeInv, PlaceInv, Before, Holding
  <2>. QED  BY <1>6, <1>8, <2>1, <2>2 DEF OutcomeInv
<1>13. \A v \in Workers : pc'[v] = "recover" /\ ~terminated' =>
         /\ ~ok'[v]
         /\ \/ results'[task'[v]] = <<>>
            \/ task'[v] \in Throwing /\ Len(results'[task'[v]]) = 1
  <2>1. pc'[w] = "recover" /\ ~terminated' =>
          /\ ~ok'[w] /\ task'[w] = t
          /\ t \in Throwing /\ Len(results'[t]) = 1
    <3>1. CASE Finalize(w)
      <4>1. r = <<>>
        BY <1>7, <3>1 DEF Finalize
      <4>2. Len(results'[t]) = 1
        BY <1>9, <4>1
      <4>3. pc'[w] = "recover" => ~ok'[w] /\ task'[w] = t /\ t \in Throwing
        BY <1>2, <3>1 DEF Finalize, Forget, Goto
      <4>. QED  BY <4>2, <4>3
    <3>2. CASE Recover(w)
      BY <1>2, <3>2 DEF Recover, Forget, Goto
    <3>. QED  BY <3>1, <3>2
  <2>2. ASSUME NEW v \in Workers \ {w}, pc'[v] = "recover"
        PROVE  /\ ~ok'[v]
               /\ \/ results'[task'[v]] = <<>>
                  \/ task'[v] \in Throwing /\ Len(results'[task'[v]]) = 1
    <3>1. pc[v] = "recover" /\ task'[v] = task[v] /\ ok'[v] = ok[v]
      BY <1>6, <2>2
    <3>2. task[v] \in Tasks \ {t}
      BY <1>4, <3>1 DEF OutcomeInv, PlaceInv, Holding
    <3>. QED  BY <1>8, <3>1, <3>2 DEF OutcomeInv
  <2>. QED  BY <2>1, <2>2
<1>. QED  BY <1>10, <1>11, <1>12, <1>13 DEF OutcomeInv

\* Every step of a worker.
LEMMA OutcomeWorker ==
  ASSUME OutcomeInv, PlaceInv', ~terminated, NEW w \in Workers,
         WorkerStep(w) \/ SpuriousWakeup(w)
  PROVE  OutcomeInv'
<1>1. CASE Finalize(w) \/ Recover(w)
  BY <1>1, OutcomeCounted
<1>2. CASE ~(Finalize(w) \/ Recover(w))
  <2>1. /\ pc \in [Workers -> WorkerPC] /\ ok \in [Workers -> BOOLEAN]
        /\ task \in [Workers -> Tasks \cup {NoTask}]
    <3>1. TypeOK
      BY DEF OutcomeInv, PlaceInv
    <3>. QED  BY <3>1 DEF TypeOK
  <2>2. results' = results /\ terminated' = terminated /\ call' = call
    BY <1>2
    DEF WorkerStep, LoopTest, Acquire, Block, FindAgent, CheckAvailable, Start,
        Returned, Threw, SpuriousWakeup, historyVars
  <2>3. Queued' \subseteq Queued /\ (Acquire(w) /\ Take(w) => Head(task_queue) \in Queued)
    <3>1. CASE Acquire(w) /\ Take(w)
      <4>1. TypeOK /\ task_queue # <<>> /\ task_queue' = Tail(task_queue)
        BY <3>1 DEF Take, OutcomeInv, PlaceInv
      <4>. QED  BY <4>1, QueuedAfterTail
    <3>2. CASE ~(Acquire(w) /\ Take(w))
      <4>1. task_queue' = task_queue
        BY <1>2, <3>2
        DEF WorkerStep, LoopTest, Acquire, Block, FindAgent, CheckAvailable, Start,
            Returned, Threw, SpuriousWakeup, queueVars
      <4>. QED  BY <3>2, <4>1 DEF Queued
    <3>. QED  BY <3>1, <3>2
  <2>4. \A v \in Workers : pc'[v] \in Before =>
          task'[v] \in Queued \/ (pc[v] \in Before /\ task'[v] = task[v])
    <3>1. CASE LoopTest(w) \/ Block(w) \/ SpuriousWakeup(w)
      BY <2>1, <3>1 DEF LoopTest, Block, SpuriousWakeup, Goto, Before
    <3>2. CASE Acquire(w)
      BY <2>1, <2>3, <3>2 DEF Acquire, Take, Goto, Before
    <3>3. CASE FindAgent(w) \/ CheckAvailable(w) \/ Start(w) \/ Returned(w) \/ Threw(w)
      BY <2>1, <3>3 DEF FindAgent, CheckAvailable, Start, Returned, Threw, Goto, Before
    <3>. QED  BY <1>2, <3>1, <3>2, <3>3 DEF WorkerStep
  <2>5. \A v \in Workers : pc'[v] = "recover" =>
          /\ task'[v] = task[v]
          /\ \/ pc[v] = "recover" /\ ok'[v] = ok[v]
             \/ pc[v] \in Before /\ ~ok'[v]
    <3>1. CASE LoopTest(w) \/ Block(w) \/ SpuriousWakeup(w)
      BY <2>1, <3>1 DEF LoopTest, Block, SpuriousWakeup, Goto
    <3>2. CASE Acquire(w)
      BY <2>1, <3>2 DEF Acquire, Take, Goto
    <3>3. CASE FindAgent(w) \/ CheckAvailable(w) \/ Start(w) \/ Returned(w)
      BY <2>1, <3>3 DEF FindAgent, CheckAvailable, Start, Returned, Goto
    <3>4. CASE Threw(w)
      BY <2>1, <3>4 DEF Threw, Goto, Before
    <3>. QED  BY <1>2, <3>1, <3>2, <3>3, <3>4 DEF WorkerStep
  <2>. QED  BY <2>2, <2>3, <2>4, <2>5, OutcomeUncounted DEF Pushed
<1>. QED  BY <1>1, <1>2

\* submit_task, the registry and shutdown count nothing.
LEMMA OutcomeOther ==
  ASSUME OutcomeInv, PlaceInv',
         \/ \E t \in Tasks : SubmitStep(t)
         \/ \E a \in Agents : RegistryStep(a)
         \/ ShutdownStep
  PROVE  OutcomeInv'
<1>1. /\ TypeOK /\ pc \in [Workers -> WorkerPC]
      /\ call \in [Tasks -> {"idle", "checked", "pushed", "accepted", "rejected"}]
  <2>1. TypeOK
    BY DEF OutcomeInv, PlaceInv
  <2>. QED  BY <2>1 DEF TypeOK
<1>2. ASSUME NEW t \in Tasks, SubmitStep(t)  PROVE OutcomeInv'
  <2>1. /\ results' = results /\ terminated' = terminated
        /\ task' = task /\ ok' = ok
    BY <1>2 DEF SubmitStep, SubmitCheck, SubmitPush, SubmitNotify, workerVars, historyVars
  <2>2. \A u \in Tasks : Pushed(u) => Pushed(u)'
    BY <1>1, <1>2 DEF SubmitStep, SubmitCheck, SubmitPush, SubmitNotify, Pushed
  <2>3. \A u \in Queued' : u \in Queued \/ ~Pushed(u)
    <3>1. CASE SubmitPush(t)
      <4>1. task_queue' = Append(task_queue, t) /\ ~Pushed(t)
        BY <3>1 DEF SubmitPush, Pushed
      <4>. QED  BY <1>1, <4>1, QueuedAfterAppend
    <3>2. CASE ~SubmitPush(t)
      BY <1>2, <3>2 DEF SubmitStep, SubmitCheck, SubmitNotify, queueVars, Queued
    <3>. QED  BY <3>1, <3>2
  <2>4. \A w \in Workers : pc'[w] \in Before \cup {"recover"} => pc'[w] = pc[w]
    BY <1>1, <1>2
    DEF SubmitStep, SubmitCheck, SubmitPush, SubmitNotify, Goto, Waiting, workerVars, Before
  <2>. QED  BY <2>1, <2>2, <2>3, <2>4, OutcomeUncounted
<1>3. ASSUME (\E a \in Agents : RegistryStep(a)) \/ ShutdownStep  PROVE OutcomeInv'
  <2>1. /\ results' = results /\ terminated' = terminated /\ call' = call
        /\ task' = task /\ ok' = ok /\ task_queue' = task_queue
    BY <1>3
    DEF RegistryStep, RegisterAgent, UnregisterAgent, HealthCheck, SetAgentEnabled,
        ShutdownStep, ShutdownFlag, ShutdownNotify, Join, ShutdownAgent, EndOfAgents,
        ClearAgents, queueVars, workerVars, historyVars
  <2>2. \A w \in Workers : pc'[w] \in Before \cup {"recover"} => pc'[w] = pc[w]
    BY <1>1, <1>3
    DEF RegistryStep, RegisterAgent, UnregisterAgent, HealthCheck, SetAgentEnabled,
        ShutdownStep, ShutdownFlag, ShutdownNotify, Join, ShutdownAgent, EndOfAgents,
        ClearAgents, workerVars, Before
  <2>3. Queued' = Queued
    BY <2>1 DEF Queued
  <2>. QED  BY <2>1, <2>2, <2>3, OutcomeUncounted DEF Pushed
<1>. QED  BY <1>2, <1>3

\* A task gets one outcome, and a second one, a failure, only when its callback threw.
THEOREM OneOutcomeHolds == Spec => []OneOutcome
<1>1. Init /\ PlaceInv => OutcomeInv
  <2>. SUFFICES ASSUME Init, PlaceInv  PROVE OutcomeInv
    OBVIOUS
  <2>1. \A t \in Tasks : results[t] = <<>> /\ Len(results[t]) = 0
    BY DEF Init
  <2>2. \A w \in Workers : pc[w] = "loop"
    BY DEF Init
  <2>. QED  BY <2>1, <2>2 DEF OutcomeInv, OneOutcome, Before
<1>2. OutcomeInv /\ PlaceInv' /\ [Next]_vars => OutcomeInv'
  <2>. SUFFICES ASSUME OutcomeInv, PlaceInv', [Next]_vars  PROVE OutcomeInv'
    OBVIOUS
  <2>1. CASE Next
    BY <2>1, OutcomeWorker, OutcomeOther DEF Next
  <2>2. CASE UNCHANGED vars
    <3>1. /\ results' = results /\ terminated' = terminated /\ call' = call
          /\ task' = task /\ ok' = ok /\ pc' = pc /\ task_queue' = task_queue
      BY <2>2 DEF vars, queueVars, workerVars, historyVars
    <3>2. Queued' = Queued
      BY <3>1 DEF Queued
    <3>. QED  BY <3>1, <3>2, OutcomeUncounted DEF Pushed
  <2>. QED  BY <2>1, <2>2
<1>3. OutcomeInv => OneOutcome
  BY DEF OutcomeInv
<1>. QED  BY <1>1, <1>2, <1>3, PlaceInvariant, PTL DEF Spec

-----------------------------------------------------------------------------
(* The agents outlive the workers                                          *)

\* A worker that is between two tasks, or gone, has dropped its shared_ptr; from
\* the end of join() on, every worker is gone.
UsesAgent == {"check", "start", "running", "finalize", "recover"}

OutliveInv ==
  /\ TypeOK
  /\ \A w \in Workers : pc[w] \notin UsesAgent => agent[w] = NoAgent
  /\ main \in {"agents", "clear", "done"} => \A w \in Workers : pc[w] = "exited"

\* A worker that is past its join holds no agent, and no other worker step breaks that.
LEMMA OutliveWorker ==
  ASSUME OutliveInv, TypeOK', NEW w \in Workers, WorkerStep(w) \/ SpuriousWakeup(w)
  PROVE  OutliveInv'
<1>1. /\ pc \in [Workers -> WorkerPC]
      /\ agent \in [Workers -> Agents \cup {NoAgent}]
  BY DEF OutliveInv, TypeOK
<1>2. pc[w] # "exited" /\ main' = main
  BY DEF WorkerStep, LoopTest, Acquire, Block, FindAgent, CheckAvailable, Start, Returned,
         Threw, Finalize, Recover, SpuriousWakeup
<1>3. \A v \in Workers : pc'[v] \notin UsesAgent => agent'[v] = NoAgent
  <2>. USE <1>1 DEF OutliveInv, UsesAgent, Goto
  <2>1. CASE LoopTest(w) \/ Block(w) \/ SpuriousWakeup(w)
    BY <2>1 DEF LoopTest, Block, SpuriousWakeup
  <2>2. CASE Acquire(w)
    BY <2>2 DEF Acquire, Take
  <2>3. CASE FindAgent(w) \/ CheckAvailable(w)
    BY <2>3 DEF FindAgent, CheckAvailable
  <2>4. CASE Start(w) \/ Returned(w) \/ Threw(w)
    BY <2>4 DEF Start, Returned, Threw
  <2>5. CASE Finalize(w) \/ Recover(w)
    BY <2>5 DEF Finalize, Recover, Forget
  <2>. QED  BY <2>1, <2>2, <2>3, <2>4, <2>5 DEF WorkerStep
<1>. QED  BY <1>2, <1>3 DEF OutliveInv

\* submit_task only moves a worker that waits, and that worker holds no agent.
LEMMA OutliveSubmit ==
  ASSUME OutliveInv, TypeOK', NEW t \in Tasks, SubmitStep(t)
  PROVE  OutliveInv'
<1>1. pc \in [Workers -> WorkerPC]
  BY DEF OutliveInv, TypeOK
<1>2. main' = main /\ agent' = agent
  BY DEF SubmitStep, SubmitCheck, SubmitPush, SubmitNotify, workerVars
<1>3. \A w \in Workers : pc'[w] = pc[w] \/ (pc[w] = "waiting" /\ pc'[w] = "lock")
  <2>1. CASE SubmitCheck(t) \/ SubmitPush(t)
    BY <2>1 DEF SubmitCheck, SubmitPush, workerVars
  <2>2. CASE SubmitNotify(t)
    BY <1>1, <2>2 DEF SubmitNotify, Waiting, Goto
  <2>. QED  BY <2>1, <2>2 DEF SubmitStep
<1>. QED  BY <1>2, <1>3 DEF OutliveInv, UsesAgent

\* shutdown passes its join only when every worker has left.
LEMMA OutliveOther ==
  ASSUME OutliveInv, TypeOK', (\E a \in Agents : RegistryStep(a)) \/ ShutdownStep
  PROVE  OutliveInv'
<1>1. CASE ShutdownNotify
  <2>1. /\ main' \notin {"agents", "clear", "done"} /\ agent' = agent
        /\ \A w \in Workers : pc'[w] = pc[w] \/ pc[w] = "waiting"
    BY <1>1 DEF ShutdownNotify, Waiting
  <2>. QED  BY <2>1 DEF OutliveInv, UsesAgent
<1>2. CASE ~ShutdownNotify
  <2>1. pc' = pc /\ agent' = agent
    BY <1>2 DEF RegistryStep, RegisterAgent, UnregisterAgent, HealthCheck, SetAgentEnabled,
           ShutdownStep, ShutdownFlag, Join, ShutdownAgent, EndOfAgents, ClearAgents,
           workerVars
  <2>2. main' \in {"agents", "clear", "done"} =>
          main \in {"agents", "clear", "done"} \/ Join
    BY <1>2 DEF RegistryStep, RegisterAgent, UnregisterAgent, HealthCheck, SetAgentEnabled,
           ShutdownStep, ShutdownFlag, ShutdownAgent, EndOfAgents, ClearAgents
  <2>. QED  BY <2>1, <2>2 DEF OutliveInv, Join
<1>. QED  BY <1>1, <1>2

\* shutdown() reaches an agent only when no worker still holds a pointer to it.
THEOREM AgentsOutliveWorkersHolds == Spec => []AgentsOutliveWorkers
<1>1. Init => OutliveInv
  BY InitTypeOK DEF Init, OutliveInv
<1>2. OutliveInv /\ TypeOK' /\ [Next]_vars => OutliveInv'
  <2>. SUFFICES ASSUME OutliveInv, TypeOK', [Next]_vars  PROVE OutliveInv'
    OBVIOUS
  <2>1. CASE Next
    BY <2>1, OutliveSubmit, OutliveWorker, OutliveOther DEF Next
  <2>2. CASE UNCHANGED vars
    BY <2>2 DEF vars, workerVars, OutliveInv
  <2>. QED  BY <2>1, <2>2
<1>3. OutliveInv => AgentsOutliveWorkers
  BY ConstantsOK DEF OutliveInv, AgentsOutliveWorkers, UsesAgent
<1>. QED  BY <1>1, <1>2, <1>3, TypeCorrect, PTL DEF Spec

-----------------------------------------------------------------------------
(* No task is stranded                                                     *)

\* A worker that has found the queue empty holds task_queue_mutex_ until it
\* sleeps, so nothing is pushed in between; and no worker leaves before the
\* shutdown flag is set.
StrandInv ==
  /\ TypeOK
  /\ NoStrandedTask
  /\ \A w \in Workers : pc[w] = "block" => mutex = w /\ task_queue = <<>>
  /\ (\E w \in Workers : pc[w] = "exited") => shutdown_requested

\* A push is followed by a notify_one, which wakes a worker that waits if there is one.
LEMMA StrandSubmit ==
  ASSUME StrandInv, TypeOK', NEW t \in Tasks, SubmitStep(t)
  PROVE  StrandInv'
<1>1. /\ pc \in [Workers -> WorkerPC]
      /\ call \in [Tasks -> {"idle", "checked", "pushed", "accepted", "rejected"}]
  BY DEF StrandInv, TypeOK
<1>2. shutdown_requested' = shutdown_requested /\ mutex' = mutex
  BY DEF SubmitStep, SubmitCheck, SubmitPush, SubmitNotify, queueVars
<1>3. CASE SubmitCheck(t)
  BY <1>1, <1>2, <1>3
  DEF SubmitCheck, StrandInv, NoStrandedTask, queueVars, workerVars
<1>4. CASE SubmitPush(t)
  <2>1. \A w \in Workers : pc[w] # "block"
    BY <1>4, ConstantsOK DEF SubmitPush, StrandInv
  <2>. QED  BY <1>1, <1>2, <1>4, <2>1 DEF SubmitPush, StrandInv, NoStrandedTask, workerVars
<1>5. CASE SubmitNotify(t)
  <2>1. task_queue' = task_queue
    BY <1>5 DEF SubmitNotify, queueVars
  <2>2. CASE Waiting = {} /\ UNCHANGED pc
    <3>1. \A w \in Workers : pc[w] # "waiting"
      BY <2>2 DEF Waiting
    <3>. QED
      BY <1>2, <2>1, <2>2, <3>1, ConstantsOK DEF StrandInv, NoStrandedTask
  <2>3. CASE \E w \in Waiting : Goto(w, "lock")
    <3>1. PICK w \in Workers : pc[w] = "waiting" /\ pc' = [pc EXCEPT ![w] = "lock"]
      BY <2>3 DEF Waiting, Goto
    <3>. QED  BY <1>1, <1>2, <2>1, <3>1 DEF StrandInv, NoStrandedTask
  <2>. QED  BY <1>5, <2>2, <2>3 DEF SubmitNotify
<1>. QED  BY <1>3, <1>4, <1>5 DEF SubmitStep

\* A worker blocks only after an evaluation of wait's predicate under the mutex it
\* still holds, and exits only after shutdown was requested.
LEMMA StrandWorker ==
  ASSUME StrandInv, TypeOK', NEW w \in Workers, WorkerStep(w) \/ SpuriousWakeup(w)
  PROVE  StrandInv'
<1>1. pc \in [Workers -> WorkerPC] /\ pc' \in [Workers -> WorkerPC]
  BY DEF StrandInv, TypeOK
<1>2. call' = call /\ shutdown_requested' = shutdown_requested
  BY DEF WorkerStep, LoopTest, Acquire, Block, FindAgent, CheckAvailable, Start, Returned,
         Threw, Finalize, Recover, SpuriousWakeup, queueVars
<1>3. CASE Acquire(w)
  <2>1. \A v \in Workers : pc[v] # "block"
    BY <1>3, ConstantsOK DEF Acquire, StrandInv
  <2>2. CASE Take(w)
    <3>1. pc' = [pc EXCEPT ![w] = "loop"] \/ pc' = [pc EXCEPT ![w] = "find"]
      BY <2>2 DEF Take, Goto
    <3>. QED  BY <1>1, <1>2, <2>1, <3>1 DEF StrandInv, NoStrandedTask
  <2>3. CASE ~Take(w)
    BY <1>1, <1>2, <1>3, <2>1, <2>3 DEF Acquire, Goto, StrandInv, NoStrandedTask
  <2>. QED  BY <2>2, <2>3
<1>4. CASE Block(w)
  <2>1. task_queue = <<>> /\ task_queue' = <<>> /\ pc' = [pc EXCEPT ![w] = "waiting"]
    BY <1>4 DEF Block, StrandInv, Goto
  <2>2. \A v \in Workers : pc'[v] = "block" => v = w
    BY <1>1, <1>4, <2>1 DEF Block, StrandInv
  <2>. QED  BY <1>1, <1>2, <2>1, <2>2 DEF StrandInv, NoStrandedTask
<1>5. CASE ~Acquire(w) /\ ~Block(w)
  <2>1. task_queue' = task_queue /\ mutex' = mutex
    BY <1>5 DEF WorkerStep, LoopTest, FindAgent, CheckAvailable, Start, Returned, Threw,
                Finalize, Recover, SpuriousWakeup, queueVars
  <2>2. /\ \A v \in Workers \ {w} : pc'[v] = pc[v]
        /\ pc'[w] \notin {"waiting", "block"}
        /\ pc'[w] = "exited" => shutdown_requested
    <3>. USE <1>1, <1>5 DEF Goto
    <3>1. CASE LoopTest(w) \/ SpuriousWakeup(w)
      BY <3>1 DEF LoopTest, SpuriousWakeup
    <3>2. CASE FindAgent(w) \/ CheckAvailable(w) \/ Start(w) \/ Returned(w) \/ Threw(w)
      BY <3>2 DEF FindAgent, CheckAvailable, Start, Returned, Threw
    <3>3. CASE Finalize(w) \/ Recover(w)
      BY <3>3 DEF Finalize, Recover, Forget
    <3>. QED  BY <3>1, <3>2, <3>3 DEF WorkerStep
  <2>. QED  BY <1>2, <2>1, <2>2 DEF StrandInv, NoStrandedTask
<1>. QED  BY <1>3, <1>4, <1>5

\* The registry and shutdown put no worker to sleep.
LEMMA StrandOther ==
  ASSUME StrandInv, TypeOK', (\E a \in Agents : RegistryStep(a)) \/ ShutdownStep
  PROVE  StrandInv'
<1>1. /\ task_queue' = task_queue /\ mutex' = mutex /\ call' = call
      /\ shutdown_requested' = shutdown_requested \/ shutdown_requested' = TRUE
  BY DEF RegistryStep, RegisterAgent, UnregisterAgent, HealthCheck, SetAgentEnabled,
         ShutdownStep, ShutdownFlag, ShutdownNotify, Join, ShutdownAgent, EndOfAgents,
         ClearAgents, queueVars
<1>2. \A w \in Workers : pc'[w] = pc[w] \/ pc'[w] = "lock"
  BY DEF RegistryStep, RegisterAgent, UnregisterAgent, HealthCheck, SetAgentEnabled,
         ShutdownStep, ShutdownFlag, ShutdownNotify, Join, ShutdownAgent, EndOfAgents,
         ClearAgents, workerVars
<1>. QED  BY <1>1, <1>2 DEF StrandInv, NoStrandedTask

\* While the orchestrator is up, queued work with no notification still to come
\* never finds every worker asleep.
THEOREM NoStrandedTaskHolds == Spec => []NoStrandedTask
<1>1. Init => StrandInv
  BY InitTypeOK DEF Init, StrandInv, NoStrandedTask
<1>2. StrandInv /\ TypeOK' /\ [Next]_vars => StrandInv'
  <2>. SUFFICES ASSUME StrandInv, TypeOK', [Next]_vars  PROVE StrandInv'
    OBVIOUS
  <2>1. CASE Next
    BY <2>1, StrandSubmit, StrandWorker, StrandOther DEF Next
  <2>2. CASE UNCHANGED vars
    BY <2>2 DEF vars, queueVars, workerVars, StrandInv, NoStrandedTask
  <2>. QED  BY <2>1, <2>2
<1>. QED  BY <1>1, <1>2, TypeCorrect, PTL DEF Spec, StrandInv

-----------------------------------------------------------------------------
(* tasks_in_progress is exact                                              *)

\* A worker on its way into or out of process_event has an agent.
CountInv ==
  /\ TypeOK
  /\ InProgressExact
  /\ \A w \in Workers : pc[w] \in {"check", "start", "running"} => agent[w] \in Agents

\* The workers inside process_event of one agent are finitely many.
LEMMA RunningFinite ==
  ASSUME NEW a
  PROVE  IsFiniteSet(Running(a)) /\ Cardinality(Running(a)) \in Nat
<1>1. Running(a) \in SUBSET Workers
  BY DEF Running
<1>. QED  BY <1>1, ConstantsOK, FS_Subset, FS_CardinalityType

\* A step that moves nobody into or out of process_event.
LEMMA CountUnmoved ==
  ASSUME CountInv, TypeOK', inProgress' = inProgress, leaked' = leaked,
         \A w \in Workers : pc'[w] = "running" <=> pc[w] = "running",
         \A w \in Workers : pc'[w] = "running" => agent'[w] = agent[w],
         \A w \in Workers :
           pc'[w] \in {"check", "start"} => agent'[w] \in Agents
  PROVE  CountInv'
<1>1. \A a \in Agents : Running(a)' = Running(a)
  BY DEF Running
<1>. QED  BY <1>1 DEF CountInv, InProgressExact

\* increment_tasks_in_progress: one more worker inside, one more counted.
LEMMA CountStart ==
  ASSUME CountInv, TypeOK', NEW w \in Workers, Start(w)
  PROVE  CountInv'
<1>. DEFINE b == agent[w]
<1>1. /\ pc \in [Workers -> WorkerPC] /\ inProgress \in [Agents -> Nat] /\ b \in Agents
      /\ leaked \in [Agents -> Nat]
  BY DEF CountInv, TypeOK, Start
<1>2. /\ pc' = [pc EXCEPT ![w] = "running"] /\ pc[w] = "start"
      /\ inProgress' = [inProgress EXCEPT ![b] = @ + 1]
      /\ agent' = agent /\ leaked' = leaked
  BY DEF Start, Goto, historyVars
<1>3. /\ Running(b)' = Running(b) \cup {w} /\ w \notin Running(b)
      /\ \A a \in Agents \ {b} : Running(a)' = Running(a)
  BY <1>1, <1>2 DEF Running
<1>4. Cardinality(Running(b)') = Cardinality(Running(b)) + 1
  BY <1>3, RunningFinite, FS_AddElement
<1>5. InProgressExact'
  <2>. SUFFICES ASSUME NEW a \in Agents
                PROVE  inProgress'[a] = Cardinality(Running(a)') + leaked'[a]
    BY DEF InProgressExact
  <2>1. inProgress[a] = Cardinality(Running(a)) + leaked[a]
    BY DEF CountInv, InProgressExact
  <2>2. CASE a = b
    BY <1>1, <1>2, <1>4, <2>1, <2>2, RunningFinite
  <2>3. CASE a # b
    BY <1>1, <1>2, <1>3, <2>1, <2>3
  <2>. QED  BY <2>2, <2>3
<1>6. \A v \in Workers : pc'[v] \in {"check", "start", "running"} => agent'[v] \in Agents
  BY <1>1, <1>2 DEF CountInv
<1>. QED  BY <1>5, <1>6 DEF CountInv

\* process_event returned or threw.
LEMMA CountEnd ==
  ASSUME CountInv, TypeOK', NEW w \in Workers, Returned(w) \/ Threw(w)
  PROVE  CountInv'
<1>. DEFINE b == agent[w]
<1>1. /\ pc \in [Workers -> WorkerPC] /\ inProgress \in [Agents -> Nat] /\ b \in Agents
      /\ leaked \in [Agents -> Nat]
  BY DEF CountInv, TypeOK, Returned, Threw
<1>2. /\ pc[w] = "running" /\ agent' = agent
      /\ pc' = [pc EXCEPT ![w] = "finalize"] \/ pc' = [pc EXCEPT ![w] = "recover"]
  BY DEF Returned, Threw, Goto
<1>3. /\ Running(b)' = Running(b) \ {w} /\ w \in Running(b)
      /\ \A a \in Agents \ {b} : Running(a)' = Running(a)
  BY <1>1, <1>2 DEF Running
<1>4. /\ Cardinality(Running(b)') = Cardinality(Running(b)) - 1
      /\ Cardinality(Running(b)) \in Nat /\ Cardinality(Running(b)') \in Nat
  BY <1>3, RunningFinite, FS_RemoveElement, FS_CardinalityType
<1>5. inProgress[b] = Cardinality(Running(b)) + leaked[b]
  BY <1>1 DEF CountInv, InProgressExact
<1>6. inProgress'[b] = Cardinality(Running(b)') + leaked'[b]
  <2>1. CASE Returned(w)
    <3>1. leaked' = leaked /\ inProgress' = [inProgress EXCEPT ![b] = Decremented(@)]
      BY <2>1 DEF Returned, historyVars
    <3>2. inProgress'[b] = Decremented(inProgress[b])
      BY <1>1, <3>1
    <3>3. inProgress[b] > 0
      BY <1>1, <1>4, <1>5
    <3>4. inProgress'[b] = inProgress[b] - 1
      BY <3>2, <3>3 DEF Decremented
    <3>. QED  BY <1>1, <1>4, <1>5, <3>1, <3>4
  <2>2. CASE Threw(w)
    <3>1. inProgress' = inProgress /\ leaked' = [leaked EXCEPT ![b] = @ + 1]
      BY <2>2 DEF Threw, agentVars
    <3>. QED  BY <1>1, <1>4, <1>5, <3>1
  <2>. QED  BY <2>1, <2>2
<1>7. \A a \in Agents \ {b} : inProgress'[a] = inProgress[a] /\ leaked'[a] = leaked[a]
  BY <1>1 DEF Returned, Threw, agentVars, historyVars
<1>8. InProgressExact'
  <2>. SUFFICES ASSUME NEW a \in Agents
                PROVE  inProgress'[a] = Cardinality(Running(a)') + leaked'[a]
    BY DEF InProgressExact
  <2>1. CASE a = b
    BY <1>2, <1>6, <2>1
  <2>2. CASE a # b
    <3>1. inProgress[a] = Cardinality(Running(a)) + leaked[a]
      BY DEF CountInv, InProgressExact
    <3>. QED  BY <1>3, <1>7, <2>2, <3>1
  <2>. QED  BY <2>1, <2>2
<1>9. \A v \in Workers : pc'[v] \in {"check", "start", "running"} => agent'[v] \in Agents
  BY <1>1, <1>2 DEF CountInv
<1>. QED  BY <1>8, <1>9 DEF CountInv

\* Every step of a worker keeps the counters exact.
LEMMA CountWorker ==
  ASSUME CountInv, TypeOK', NEW w \in Workers, WorkerStep(w) \/ SpuriousWakeup(w)
  PROVE  CountInv'
<1>1. CASE Start(w)
  BY <1>1, CountStart
<1>2. CASE Returned(w) \/ Threw(w)
  BY <1>2, CountEnd
<1>3. CASE ~(Start(w) \/ Returned(w) \/ Threw(w))
  <2>1. inProgress' = inProgress /\ leaked' = leaked
    BY <1>3 DEF WorkerStep, LoopTest, Acquire, Block, FindAgent, CheckAvailable, Finalize,
                Recover, SpuriousWakeup, agentVars, historyVars
  <2>2. /\ pc \in [Workers -> WorkerPC] /\ pc' \in [Workers -> WorkerPC]
        /\ agent \in [Workers -> Agents \cup {NoAgent}]
    BY DEF CountInv, TypeOK
  <2>3. Candidates(task[w]) \subseteq Agents
    BY DEF Candidates
  <2>4. /\ pc[w] # "running" /\ pc'[w] # "running"
        /\ \A v \in Workers \ {w} : pc'[v] = pc[v] /\ agent'[v] = agent[v]
        /\ pc'[w] \in {"check", "start"} => agent'[w] \in Agents
    <3>. USE <2>2 DEF Goto
    <3>1. CASE LoopTest(w) \/ Block(w) \/ SpuriousWakeup(w)
      BY <3>1 DEF LoopTest, Block, SpuriousWakeup
    <3>2. CASE Acquire(w)
      BY <3>2 DEF Acquire, Take
    <3>3. CASE FindAgent(w) \/ CheckAvailable(w)
      BY <2>3, <3>3 DEF FindAgent, CheckAvailable, CountInv
    <3>4. CASE Finalize(w) \/ Recover(w)
      BY <3>4 DEF Finalize, Recover, Forget
    <3>. QED  BY <1>3, <3>1, <3>2, <3>3, <3>4 DEF WorkerStep
  <2>. QED  BY <2>1, <2>4, CountUnmoved DEF CountInv
<1>. QED  BY <1>1, <1>2, <1>3

\* No other step touches the counters or moves a worker into process_event.
LEMMA CountOther ==
  ASSUME CountInv, TypeOK',
         (\E t \in Tasks : SubmitStep(t)) \/ (\E a \in Agents : RegistryStep(a)) \/ ShutdownStep
  PROVE  CountInv'
<1>1. inProgress' = inProgress /\ leaked' = leaked /\ agent' = agent
  BY DEF SubmitStep, SubmitCheck, SubmitPush, SubmitNotify,
         RegistryStep, RegisterAgent, UnregisterAgent, HealthCheck, SetAgentEnabled,
         ShutdownStep, ShutdownFlag, ShutdownNotify, Join, ShutdownAgent, EndOfAgents,
         ClearAgents, workerVars, agentVars, historyVars
<1>2. \A w \in Workers : pc'[w] = pc[w] \/ (pc[w] = "waiting" /\ pc'[w] = "lock")
  <2>1. CASE \E t \in Tasks : SubmitNotify(t)
    BY <2>1 DEF SubmitNotify, Waiting, Goto, CountInv, TypeOK
  <2>2. CASE ShutdownNotify
    BY <2>2 DEF ShutdownNotify, Waiting
  <2>3. CASE ~(ShutdownNotify \/ \E t \in Tasks : SubmitNotify(t))
    BY <2>3 DEF SubmitStep, SubmitCheck, SubmitPush,
         RegistryStep, RegisterAgent, UnregisterAgent, HealthCheck, SetAgentEnabled,
         ShutdownStep, ShutdownFlag, Join, ShutdownAgent, EndOfAgents, ClearAgents, workerVars
  <2>. QED  BY <2>1, <2>2, <2>3
<1>. QED  BY <1>1, <1>2, CountUnmoved DEF CountInv

\* tasks_in_progress counts the workers inside process_event, and the exceptions.
THEOREM InProgressIsExact == Spec => []InProgressExact
<1>1. Init => CountInv
  <2>. SUFFICES ASSUME Init  PROVE CountInv
    OBVIOUS
  <2>1. \A a : Running(a) = {}
    BY DEF Init, Running
  <2>2. \A a \in Agents : inProgress[a] = Cardinality(Running(a)) + leaked[a]
    <3>. SUFFICES ASSUME NEW a \in Agents
                  PROVE  inProgress[a] = Cardinality(Running(a)) + leaked[a]
      OBVIOUS
    <3>1. Cardinality(Running(a)) = 0
      BY <2>1, FS_EmptySet
    <3>2. inProgress[a] = 0 /\ leaked[a] = 0
      BY DEF Init
    <3>. QED  BY <3>1, <3>2
  <2>3. \A w \in Workers : pc[w] \notin {"check", "start", "running"}
    BY DEF Init
  <2>. QED  BY <2>2, <2>3, InitTypeOK DEF CountInv, InProgressExact
<1>2. CountInv /\ TypeOK' /\ [Next]_vars => CountInv'
  <2>. SUFFICES ASSUME CountInv, TypeOK', [Next]_vars  PROVE CountInv'
    OBVIOUS
  <2>1. CASE Next
    BY <2>1, CountWorker, CountOther DEF Next
  <2>2. CASE UNCHANGED vars
    BY <2>2, CountUnmoved DEF vars, workerVars, agentVars, historyVars, CountInv
  <2>. QED  BY <2>1, <2>2
<1>. QED  BY <1>1, <1>2, TypeCorrect, PTL DEF Spec, CountInv

-----------------------------------------------------------------------------
(* The queue is a first-in first-out dispatch                              *)

\* A step after which the same tasks are queued, held and pushed.
LEMMA DispatchStutter ==
  ASSUME task_queue' = task_queue, Held' = Held,
         \A t \in Tasks : Pushed(t)' <=> Pushed(t)
  PROVE  UNCHANGED Dispatch!vars
<1>1. Settled' = Settled
  BY DEF Settled, Queued, Pushed
<1>. QED  BY <1>1 DEF Dispatch!vars

\* A step that leaves every worker's task where it is.
LEMMA HeldUnmoved ==
  ASSUME \A w \in Workers : (pc'[w] \in Holding <=> pc[w] \in Holding),
         \A w \in Workers : pc[w] \in Holding => task'[w] = task[w]
  PROVE  Held' = Held
  BY DEF Held

\* submit_task's push is the abstract Submit.
LEMMA DispatchPush ==
  ASSUME PlaceInv, NEW t \in Tasks, SubmitPush(t)
  PROVE  Dispatch!Next
<1>1. /\ task_queue' = Append(task_queue, t)
      /\ call[t] = "checked" /\ call' = [call EXCEPT ![t] = "pushed"]
      /\ pc' = pc /\ task' = task
  BY DEF SubmitPush, workerVars
<1>2. Held' = Held
  BY <1>1, HeldUnmoved
<1>3. Queued' = Queued \cup {t}
  BY <1>1, QueuedAfterAppend DEF PlaceInv
<1>4. t \notin Queued \cup Held \cup Settled
  BY <1>1 DEF PlaceInv, Pushed, Held, Settled
<1>5. \A u \in Tasks : Pushed(u)' <=> Pushed(u) \/ u = t
  BY <1>1 DEF Pushed, PlaceInv, TypeOK
<1>6. Settled' = Settled
  BY <1>2, <1>3, <1>4, <1>5 DEF Settled, Pushed
<1>7. Dispatch!Queued = Queued
  BY DEF Dispatch!Queued, Queued
<1>. QED  BY <1>1, <1>2, <1>4, <1>6, <1>7 DEF Dispatch!Next, Dispatch!Submit

\* A worker's pop is the abstract Start, or Discard for a health check.
LEMMA DispatchTake ==
  ASSUME PlaceInv, NEW w \in Workers, pc[w] = "lock", Take(w), call' = call
  PROVE  Dispatch!Next
<1>. DEFINE t == Head(task_queue)
<1>1. /\ task_queue # <<>> /\ task_queue' = Tail(task_queue)
      /\ t \in Queued /\ Queued = Queued' \cup {t} /\ t \notin Queued'
  BY QueuedAfterTail DEF Take, PlaceInv, TaskInOnePlace
<1>2. t \in Tasks /\ Pushed(t) /\ Holders(t) = {}
  BY <1>1, QueueIsItsElements DEF PlaceInv, TaskInOnePlace, NotQueuedAndHeld
<1>3. t \notin Held
  BY <1>2 DEF Held, Holders
<1>4. \A v \in Workers \ {w} : pc'[v] = pc[v] /\ task'[v] = task[v]
  BY DEF Take, Goto, PlaceInv, TypeOK
<1>5. pc[w] \notin Holding
  BY DEF Holding
<1>6. CASE t \in HealthChecks
  <2>1. pc'[w] \notin Holding
    BY <1>6 DEF Take, Goto, Holding, PlaceInv, TypeOK
  <2>2. Held' = Held
    BY <1>4, <1>5, <2>1 DEF Held
  <2>3. Settled' = Settled \cup {t}
    BY <1>1, <1>2, <1>3, <2>2 DEF Settled, Pushed
  <2>. QED  BY <1>1, <2>2, <2>3 DEF Dispatch!Next, Dispatch!Discard
<1>7. CASE t \notin HealthChecks
  <2>1. pc'[w] \in Holding /\ task'[w] = t
    BY <1>7 DEF Take, Goto, Holding, PlaceInv, TypeOK
  <2>2. Held' = Held \cup {t}
    BY <1>4, <1>5, <2>1 DEF Held
  <2>3. Settled' = Settled
    BY <1>1, <2>2 DEF Settled
  <2>. QED  BY <1>1, <2>2, <2>3 DEF Dispatch!Next, Dispatch!Start
<1>. QED  BY <1>6, <1>7

\* A worker has finished with its task.
LEMMA DispatchForget ==
  ASSUME PlaceInv, NEW w \in Workers, pc[w] \in Holding, Forget(w),
         task_queue' = task_queue, call' = call
  PROVE  Dispatch!Next
<1>. DEFINE t == task[w]
<1>1. t \in Tasks /\ Pushed(t) /\ t \in Held
  BY DEF PlaceInv, Held
<1>2. t \notin Queued /\ Queued' = Queued
  BY DEF PlaceInv, TaskInOnePlace, NotQueuedAndHeld, Holders, Queued
<1>3. /\ \A v \in Workers \ {w} : pc'[v] = pc[v] /\ task'[v] = task[v]
      /\ pc'[w] \notin Holding
  BY DEF Forget, Goto, Holding, PlaceInv, TypeOK
<1>4. \A v \in Workers \ {w} : pc[v] \in Holding => task[v] # t
  BY DEF PlaceInv, TaskInOnePlace, OneHolder
<1>5. Held' = Held \ {t}
  BY <1>3, <1>4 DEF Held
<1>6. Settled' = Settled \cup {t}
  BY <1>1, <1>2, <1>5 DEF Settled, Pushed
<1>. QED  BY <1>1, <1>5, <1>6 DEF Dispatch!Next, Dispatch!Settle

\* Every step of a worker is a step of TaskDispatch or changes nothing there.
LEMMA DispatchWorker ==
  ASSUME PlaceInv, NEW w \in Workers, WorkerStep(w) \/ SpuriousWakeup(w)
  PROVE  [Dispatch!Next]_Dispatch!vars
<1>1. /\ pc \in [Workers -> WorkerPC] /\ task \in [Workers -> Tasks \cup {NoTask}]
  BY DEF PlaceInv, TypeOK
<1>2. call' = call
  BY DEF WorkerStep, LoopTest, Acquire, Block, FindAgent, CheckAvailable, Start, Returned,
         Threw, Finalize, Recover, SpuriousWakeup
<1>3. CASE Acquire(w) /\ Take(w)
  BY <1>2, <1>3, DispatchTake DEF Acquire
<1>4. CASE (Finalize(w) \/ Recover(w)) /\ Forget(w)
  <2>1. pc[w] \in Holding /\ task_queue' = task_queue
    BY <1>4 DEF Finalize, Recover, Holding, queueVars
  <2>. QED  BY <1>2, <1>4, <2>1, DispatchForget
<1>5. CASE ~(Acquire(w) /\ Take(w)) /\ ~((Finalize(w) \/ Recover(w)) /\ Forget(w))
  <2>1. task_queue' = task_queue
    BY <1>5 DEF WorkerStep, LoopTest, Acquire, Block, FindAgent, CheckAvailable, Start,
                Returned, Threw, Finalize, Recover, SpuriousWakeup, queueVars
  <2>2. /\ \A v \in Workers : (pc'[v] \in Holding <=> pc[v] \in Holding)
        /\ task' = task
    <3>. USE <1>1 DEF Goto, Holding
    <3>1. CASE LoopTest(w) \/ Block(w) \/ SpuriousWakeup(w)
      BY <3>1 DEF LoopTest, Block, SpuriousWakeup
    <3>2. CASE Acquire(w)
      BY <1>5, <3>2 DEF Acquire
    <3>3. CASE FindAgent(w) \/ CheckAvailable(w) \/ Start(w) \/ Returned(w) \/ Threw(w)
      BY <3>3 DEF FindAgent, CheckAvailable, Start, Returned, Threw
    <3>4. CASE Finalize(w) \/ Recover(w)
      BY <1>5, <3>4 DEF Finalize, Recover
    <3>. QED  BY <1>5, <3>1, <3>2, <3>3, <3>4 DEF WorkerStep
  <2>. QED  BY <1>2, <2>1, <2>2, HeldUnmoved, DispatchStutter DEF Pushed
<1>. QED  BY <1>3, <1>4, <1>5

\* Every step of submit_task, the registry and shutdown is one too.
LEMMA DispatchOther ==
  ASSUME PlaceInv,
         (\E t \in Tasks : SubmitStep(t)) \/ (\E a \in Agents : RegistryStep(a)) \/ ShutdownStep
  PROVE  [Dispatch!Next]_Dispatch!vars
<1>1. CASE \E t \in Tasks : SubmitPush(t)
  BY <1>1, DispatchPush
<1>2. CASE ~\E t \in Tasks : SubmitPush(t)
  <2>1. task_queue' = task_queue /\ task' = task
    BY <1>2 DEF SubmitStep, SubmitCheck, SubmitNotify,
         RegistryStep, RegisterAgent, UnregisterAgent, HealthCheck, SetAgentEnabled,
         ShutdownStep, ShutdownFlag, ShutdownNotify, Join, ShutdownAgent, EndOfAgents,
         ClearAgents, queueVars, workerVars
  <2>2. \A w \in Workers : pc'[w] = pc[w] \/ (pc[w] = "waiting" /\ pc'[w] = "lock")
    <3>1. CASE \E t \in Tasks : SubmitNotify(t)
      BY <3>1 DEF SubmitNotify, Waiting, Goto, PlaceInv, TypeOK
    <3>2. CASE ShutdownNotify
      BY <3>2 DEF ShutdownNotify, Waiting
    <3>3. CASE ~(ShutdownNotify \/ \E t \in Tasks : SubmitNotify(t))
      BY <1>2, <3>3 DEF SubmitStep, SubmitCheck,
         RegistryStep, RegisterAgent, UnregisterAgent, HealthCheck, SetAgentEnabled,
         ShutdownStep, ShutdownFlag, Join, ShutdownAgent, EndOfAgents, ClearAgents, workerVars
    <3>. QED  BY <3>1, <3>2, <3>3
  <2>3. \A u \in Tasks : Pushed(u)' <=> Pushed(u)
    <3>1. CASE \E t \in Tasks : SubmitStep(t)
      BY <1>2, <3>1 DEF SubmitStep, SubmitCheck, SubmitNotify, Pushed, PlaceInv, TypeOK
    <3>2. CASE (\E a \in Agents : RegistryStep(a)) \/ ShutdownStep
      <4>1. call' = call
        BY <3>2 DEF RegistryStep, RegisterAgent, UnregisterAgent, HealthCheck,
           SetAgentEnabled, ShutdownStep, ShutdownFlag, ShutdownNotify, Join, ShutdownAgent,
           EndOfAgents, ClearAgents
      <4>. QED  BY <4>1 DEF Pushed
    <3>. QED  BY <3>1, <3>2
  <2>4. Held' = Held
    BY <2>1, <2>2, HeldUnmoved DEF Holding
  <2>. QED  BY <2>1, <2>3, <2>4, DispatchStutter
<1>. QED  BY <1>1, <1>2

\* The orchestrator's threads, queue and mutex implement TaskDispatch.
THEOREM OrchestratorRefinesDispatch == Spec => DispatchSpec
<1>1. Init => Dispatch!Init
  <2>. SUFFICES ASSUME Init  PROVE Dispatch!Init
    OBVIOUS
  <2>1. task_queue = <<>> /\ Held = {} /\ Settled = {}
    BY DEF Init, Held, Settled, Holding
  <2>. QED  BY <2>1 DEF Dispatch!Init
<1>2. PlaceInv /\ [Next]_vars => [Dispatch!Next]_Dispatch!vars
  <2>. SUFFICES ASSUME PlaceInv, [Next]_vars  PROVE [Dispatch!Next]_Dispatch!vars
    OBVIOUS
  <2>1. CASE Next
    BY <2>1, DispatchWorker, DispatchOther DEF Next
  <2>2. CASE UNCHANGED vars
    BY <2>2, HeldUnmoved, DispatchStutter DEF vars, queueVars, workerVars, Pushed
  <2>. QED  BY <2>1, <2>2
<1>. QED  BY <1>1, <1>2, PlaceInvariant, PTL DEF Spec, DispatchSpec, Dispatch!Spec
=============================================================================
