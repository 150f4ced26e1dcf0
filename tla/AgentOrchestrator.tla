------------------------- MODULE AgentOrchestrator -------------------------
(***************************************************************************)
(* core/agent/agent_orchestrator.cpp: the task queue, its worker threads,  *)
(* the agent registry and shutdown.                                        *)
(*                                                                         *)
(* Threads: one per worker (worker_thread_loop), one per submit_task call, *)
(* the thread that calls shutdown, and any thread that registers,          *)
(* unregisters, enables or health-checks an agent.  A step is what the     *)
(* code does under one mutex or with one atomic.  task_queue_mutex_ is     *)
(* explicit because condition_variable::wait evaluates its predicate with  *)
(* the mutex held and blocks in a second step, while shutdown sets the     *)
(* flag and notifies without the mutex.                                    *)
(***************************************************************************)
EXTENDS Naturals, Sequences, FiniteSets

CONSTANTS
  Workers,       \* worker threads started by start_worker_threads
  Tasks,         \* tasks, each submitted by one call of submit_task
  Agents,        \* agent types; each has one agent instance
  NoTask, NoAgent, Free,
  Requested,     \* AgentTask::agent_type, NoAgent when it is empty
  Handles,       \* Handles[a]: the tasks for which can_handle_event holds
  HealthChecks,  \* tasks whose event is AGENT_HEALTH_CHECK
  Throwing,      \* tasks whose callback may throw a std::exception
  MaxConcurrent  \* AgentCapabilities::max_concurrent_tasks

ASSUME ConstantsOK ==
  /\ IsFiniteSet(Workers) /\ Workers # {}
  /\ Requested \in [Tasks -> Agents \cup {NoAgent}]
  /\ Handles \in [Agents -> SUBSET Tasks]
  /\ HealthChecks \subseteq Tasks
  /\ Throwing \subseteq Tasks
  /\ MaxConcurrent \in Nat
  /\ NoTask \notin Tasks
  /\ NoAgent \notin Agents
  /\ Free \notin Workers

VARIABLES
  shutdown_requested,
  task_queue,
  mutex,            \* holder of task_queue_mutex_ between two steps, or Free
  pc,               \* where each worker is
  task, agent, ok,  \* a worker's locals: AgentTask, shared_ptr, TaskResult::success
  call,             \* where the submit_task call of each task is
  main,             \* where the thread calling shutdown is
  registered,       \* keys of registered_agents_
  active,           \* AgentRegistration::active
  enabled,          \* ComplianceAgent::enabled_
  life,             \* agent instance: not initialized, initialized, shut down
  inProgress,       \* AgentMetrics::tasks_in_progress
  health,           \* ComplianceAgent::health_
  terminated,       \* std::terminate was called
  results,          \* history: the outcomes finalize_task_execution gave a task
  leaked            \* history: calls of process_event that threw, per agent

queueVars   == <<shutdown_requested, task_queue, mutex>>
workerVars  == <<pc, task, agent, ok>>
agentVars   == <<registered, active, enabled, life, inProgress, health>>
historyVars == <<results, leaked>>
vars == <<queueVars, workerVars, call, main, agentVars, terminated, historyVars>>

WorkerPC == {"loop", "lock", "block", "waiting", "find", "check", "start",
             "running", "finalize", "recover", "exited"}
\* Places where a worker has popped a task it has not finished with.
Holding == {"find", "check", "start", "running", "finalize", "recover"}

Init ==
  /\ shutdown_requested = FALSE
  /\ task_queue = <<>>
  /\ mutex = Free
  /\ pc = [w \in Workers |-> "loop"]
  /\ task = [w \in Workers |-> NoTask]
  /\ agent = [w \in Workers |-> NoAgent]
  /\ ok = [w \in Workers |-> FALSE]
  /\ call = [t \in Tasks |-> "idle"]
  /\ main = "up"
  /\ registered = {}
  /\ active = [a \in Agents |-> FALSE]
  /\ enabled = [a \in Agents |-> TRUE]
  /\ life = [a \in Agents |-> "new"]
  /\ inProgress = [a \in Agents |-> 0]
  /\ health = [a \in Agents |-> "HEALTHY"]
  /\ terminated = FALSE
  /\ results = [t \in Tasks |-> <<>>]
  /\ leaked = [a \in Agents |-> 0]

Goto(w, l) == pc' = [pc EXCEPT ![w] = l]

-----------------------------------------------------------------------------
(* submit_task                                                             *)

\* The flag is read without task_queue_mutex_.
SubmitCheck(t) ==
  /\ call[t] = "idle"
  /\ call' = [call EXCEPT ![t] = IF shutdown_requested THEN "rejected" ELSE "checked"]
  /\ UNCHANGED <<queueVars, workerVars, main, agentVars, terminated, historyVars>>

SubmitPush(t) ==
  /\ call[t] = "checked"
  /\ mutex = Free
  /\ task_queue' = Append(task_queue, t)
  /\ call' = [call EXCEPT ![t] = "pushed"]
  /\ UNCHANGED <<shutdown_requested, mutex, workerVars, main, agentVars, terminated,
                 historyVars>>

SubmitNotifyMutantNone(t) ==
  /\ call[t] = "pushed"
  /\ call' = [call EXCEPT ![t] = "accepted"]
  /\ UNCHANGED <<queueVars, workerVars, main, agentVars, terminated, historyVars>>

Waiting == {w \in Workers : pc[w] = "waiting"}

\* notify_one wakes one of the blocked workers, or nobody when none is blocked.
SubmitNotify(t) ==
  /\ call[t] = "pushed"
  /\ \/ Waiting = {} /\ UNCHANGED pc
     \/ \E w \in Waiting : Goto(w, "lock")
  /\ call' = [call EXCEPT ![t] = "accepted"]
  /\ UNCHANGED <<queueVars, task, agent, ok, main, agentVars, terminated, historyVars>>

-----------------------------------------------------------------------------
(* worker_thread_loop                                                      *)

LoopTest(w) ==
  /\ pc[w] = "loop"
  /\ Goto(w, IF shutdown_requested THEN "exited" ELSE "lock")
  /\ UNCHANGED <<queueVars, task, agent, ok, call, main, agentVars, terminated,
                 historyVars>>

\* task = front(); pop().  A health-check event is dropped: no agent, no callback.
TakeMutantNoPop(w) ==
  /\ task_queue # <<>>
  /\ IF Head(task_queue) \in HealthChecks
       THEN Goto(w, "loop") /\ UNCHANGED task
       ELSE Goto(w, "find") /\ task' = [task EXCEPT ![w] = Head(task_queue)]
  /\ UNCHANGED <<task_queue, mutex>>

TakeMutantLast(w) ==
  /\ task_queue # <<>>
  /\ LET t == task_queue[Len(task_queue)]
     IN IF t \in HealthChecks
          THEN Goto(w, "loop") /\ UNCHANGED task
          ELSE Goto(w, "find") /\ task' = [task EXCEPT ![w] = t]
  /\ task_queue' = SubSeq(task_queue, 1, Len(task_queue) - 1)
  /\ UNCHANGED mutex

Take(w) ==
  /\ task_queue # <<>>
  /\ IF Head(task_queue) \in HealthChecks
       THEN Goto(w, "loop") /\ UNCHANGED task
       ELSE Goto(w, "find") /\ task' = [task EXCEPT ![w] = Head(task_queue)]
  /\ task_queue' = Tail(task_queue)
  /\ UNCHANGED mutex

\* Lock the mutex and evaluate wait's predicate: pop, leave, or keep the mutex
\* for the step that blocks.
Acquire(w) ==
  /\ pc[w] = "lock"
  /\ mutex = Free
  /\ \/ Take(w)
     \/ /\ task_queue = <<>> /\ shutdown_requested
        /\ Goto(w, "exited")
        /\ UNCHANGED <<task, task_queue, mutex>>
     \/ /\ task_queue = <<>> /\ ~shutdown_requested
        /\ Goto(w, "block")
        /\ mutex' = w
        /\ UNCHANGED <<task, task_queue>>
  /\ UNCHANGED <<shutdown_requested, agent, ok, call, main, agentVars, terminated,
                 historyVars>>

Block(w) ==
  /\ pc[w] = "block"
  /\ mutex' = Free
  /\ Goto(w, "waiting")
  /\ UNCHANGED <<shutdown_requested, task_queue, task, agent, ok, call, main, agentVars,
                 terminated, historyVars>>

SpuriousWakeup(w) ==
  /\ pc[w] = "waiting"
  /\ Goto(w, "lock")
  /\ UNCHANGED <<queueVars, task, agent, ok, call, main, agentVars, terminated,
                 historyVars>>

-----------------------------------------------------------------------------
(* process_task                                                            *)

Serves(a, t) == a \in registered /\ active[a] /\ t \in Handles[a]

\* find_agent_for_task: the requested type if it qualifies, else any that does.
Candidates(t) ==
  IF Requested[t] \in Agents /\ Serves(Requested[t], t)
    THEN {Requested[t]}
    ELSE {a \in Agents : Serves(a, t)}

\* prepare_task_execution, first half: under agents_mutex_.
FindAgent(w) ==
  /\ pc[w] = "find"
  /\ \/ /\ Candidates(task[w]) = {}
        /\ ok' = [ok EXCEPT ![w] = FALSE]
        /\ Goto(w, "finalize")
        /\ UNCHANGED agent
     \/ \E a \in Candidates(task[w]) :
          /\ agent' = [agent EXCEPT ![w] = a]
          /\ Goto(w, "check")
          /\ UNCHANGED ok
  /\ UNCHANGED <<queueVars, task, call, main, agentVars, terminated, historyVars>>

\* Second half: is_enabled() and health, read after agents_mutex_ was released.
\* No agent of the repository ever has CRITICAL health.
CheckAvailable(w) ==
  /\ pc[w] = "check"
  /\ IF enabled[agent[w]]
       THEN Goto(w, "start") /\ UNCHANGED ok
       ELSE Goto(w, "finalize") /\ ok' = [ok EXCEPT ![w] = FALSE]
  /\ UNCHANGED <<queueVars, task, agent, call, main, agentVars, terminated, historyVars>>

Start(w) ==
  /\ pc[w] = "start"
  /\ inProgress' = [inProgress EXCEPT ![agent[w]] = @ + 1]
  /\ Goto(w, "running")
  /\ UNCHANGED <<queueVars, task, agent, ok, call, main, registered, active, enabled, life,
                 health, terminated, historyVars>>

DecrementedMutantTwice(n) == n - 2

Decremented(n) == IF n > 0 THEN n - 1 ELSE n

ReturnedMutantNoDecrement(w) ==
  /\ pc[w] = "running"
  /\ ok' = [ok EXCEPT ![w] = TRUE]
  /\ Goto(w, "finalize")
  /\ UNCHANGED <<queueVars, task, agent, call, main, agentVars, terminated, historyVars>>

\* process_event returned: update_metrics, decrement_tasks_in_progress.
Returned(w) ==
  /\ pc[w] = "running"
  /\ inProgress' = [inProgress EXCEPT ![agent[w]] = Decremented(@)]
  /\ ok' = [ok EXCEPT ![w] = TRUE]
  /\ Goto(w, "finalize")
  /\ UNCHANGED <<queueVars, task, agent, call, main, registered, active, enabled, life,
                 health, terminated, historyVars>>

\* process_event threw: control goes to the catch block of process_task, past
\* the decrement.
Threw(w) ==
  /\ pc[w] = "running"
  /\ ok' = [ok EXCEPT ![w] = FALSE]
  /\ leaked' = [leaked EXCEPT ![agent[w]] = @ + 1]
  /\ Goto(w, "recover")
  /\ UNCHANGED <<queueVars, task, agent, call, main, agentVars, terminated, results>>

\* What a worker does once process_task has returned.
Forget(w) ==
  /\ task' = [task EXCEPT ![w] = NoTask]
  /\ agent' = [agent EXCEPT ![w] = NoAgent]
  /\ Goto(w, "loop")

\* finalize_task_execution counts the outcome (tasks_processed_, tasks_failed_)
\* and then calls the callback, which returns or throws.
Count(w) == results' = [results EXCEPT ![task[w]] = Append(@, ok[w])]

Finalize(w) ==
  /\ pc[w] = "finalize"
  /\ Count(w)
  /\ \/ Forget(w) /\ UNCHANGED ok
     \/ /\ task[w] \in Throwing
        /\ ok' = [ok EXCEPT ![w] = FALSE]
        /\ Goto(w, "recover")
        /\ UNCHANGED <<task, agent>>
  /\ UNCHANGED <<queueVars, call, main, agentVars, terminated, leaked>>

RecoverMutantLoop(w) ==
  /\ pc[w] = "recover"
  /\ Count(w)
  /\ \/ Forget(w)
     \/ task[w] \in Throwing /\ UNCHANGED <<pc, task, agent>>
  /\ UNCHANGED <<queueVars, ok, call, main, agentVars, terminated, leaked>>

\* The catch block finalizes again, as a failure.  A callback that throws here
\* leaves the thread function: std::terminate.
Recover(w) ==
  /\ pc[w] = "recover"
  /\ Count(w)
  /\ \/ Forget(w) /\ UNCHANGED terminated
     \/ /\ task[w] \in Throwing
        /\ terminated' = TRUE
        /\ UNCHANGED <<pc, task, agent>>
  /\ UNCHANGED <<queueVars, ok, call, main, agentVars, leaked>>

-----------------------------------------------------------------------------
(* The agent registry                                                      *)

\* register_agent: insert and initialize() under agents_mutex_.  A call that
\* fails validation or whose initialize() fails leaves no trace.
RegisterAgent(a) ==
  /\ life[a] = "new"
  /\ registered' = registered \cup {a}
  /\ active' = [active EXCEPT ![a] = TRUE]
  /\ life' = [life EXCEPT ![a] = "up"]
  /\ UNCHANGED <<queueVars, workerVars, call, main, enabled, inProgress, health,
                 terminated, historyVars>>

UnregisterAgent(a) ==
  /\ a \in registered
  /\ registered' = registered \ {a}
  /\ life' = [life EXCEPT ![a] = "down"]
  /\ UNCHANGED <<queueVars, workerVars, call, main, active, enabled, inProgress, health,
                 terminated, historyVars>>

SetAgentEnabled(a, on) ==
  /\ a \in registered
  /\ active' = [active EXCEPT ![a] = on]
  /\ enabled' = [enabled EXCEPT ![a] = on]
  /\ UNCHANGED <<queueVars, workerVars, call, main, registered, life, inProgress, health,
                 terminated, historyVars>>

\* perform_health_checks, one agent of the loop.
HealthCheck(a) ==
  /\ a \in registered
  /\ health' = [health EXCEPT ![a] =
                  IF inProgress[a] > MaxConcurrent THEN "DEGRADED" ELSE "HEALTHY"]
  /\ UNCHANGED <<queueVars, workerVars, call, main, registered, active, enabled, life,
                 inProgress, terminated, historyVars>>

-----------------------------------------------------------------------------
(* shutdown                                                                *)

ShutdownFlag ==
  /\ main = "up"
  /\ shutdown_requested' = TRUE
  /\ main' = "notify"
  /\ UNCHANGED <<task_queue, mutex, workerVars, call, agentVars, terminated, historyVars>>

\* notify_all, by shutdown and once more by stop_worker_threads.
ShutdownNotify ==
  /\ main \in {"notify", "notify again"}
  /\ main' = IF main = "notify" THEN "notify again" ELSE "join"
  /\ pc' = [w \in Workers |-> IF w \in Waiting THEN "lock" ELSE pc[w]]
  /\ UNCHANGED <<queueVars, task, agent, ok, call, agentVars, terminated, historyVars>>

JoinMutantDetach ==
  /\ main = "join"
  /\ main' = "agents"
  /\ UNCHANGED <<queueVars, workerVars, call, agentVars, terminated, historyVars>>

Join ==
  /\ main = "join"
  /\ \A w \in Workers : pc[w] = "exited"
  /\ main' = "agents"
  /\ UNCHANGED <<queueVars, workerVars, call, agentVars, terminated, historyVars>>

\* The loop over registered_agents_ and the clear() take no mutex.
ShutdownAgent(a) ==
  /\ main = "agents"
  /\ a \in registered
  /\ life[a] = "up"
  /\ life' = [life EXCEPT ![a] = "down"]
  /\ UNCHANGED <<queueVars, workerVars, call, main, registered, active, enabled, inProgress,
                 health, terminated, historyVars>>

EndOfAgents ==
  /\ main = "agents"
  /\ \A a \in registered : life[a] = "down"
  /\ main' = "clear"
  /\ UNCHANGED <<queueVars, workerVars, call, agentVars, terminated, historyVars>>

ClearAgents ==
  /\ main = "clear"
  /\ registered' = {}
  /\ main' = "done"
  /\ UNCHANGED <<queueVars, workerVars, call, active, enabled, life, inProgress, health,
                 terminated, historyVars>>

-----------------------------------------------------------------------------
SubmitStep(t) == SubmitCheck(t) \/ SubmitPush(t) \/ SubmitNotify(t)

WorkerStep(w) ==
  \/ LoopTest(w) \/ Acquire(w) \/ Block(w)
  \/ FindAgent(w) \/ CheckAvailable(w) \/ Start(w) \/ Returned(w) \/ Threw(w)
  \/ Finalize(w) \/ Recover(w)

RegistryStep(a) ==
  \/ RegisterAgent(a) \/ UnregisterAgent(a) \/ HealthCheck(a)
  \/ \E on \in BOOLEAN : SetAgentEnabled(a, on)

ShutdownStep ==
  \/ ShutdownFlag \/ ShutdownNotify \/ Join
  \/ \E a \in Agents : ShutdownAgent(a)
  \/ EndOfAgents \/ ClearAgents

Next ==
  /\ ~terminated
  /\ \/ \E t \in Tasks : SubmitStep(t)
     \/ \E w \in Workers : WorkerStep(w)
     \/ \E w \in Workers : SpuriousWakeup(w)
     \/ \E a \in Agents : RegistryStep(a)
     \/ ShutdownStep

Spec == Init /\ [][Next]_vars

-----------------------------------------------------------------------------
(* Fairness: the scheduler runs every thread, std::mutex starves nobody    *)
(* (strong fairness of the steps that lock task_queue_mutex_), agents      *)
(* return from process_event, and shutdown goes on once it was called.     *)

Fairness ==
  /\ \A t \in Tasks : /\ WF_vars(~terminated /\ (SubmitCheck(t) \/ SubmitNotify(t)))
                      /\ SF_vars(~terminated /\ SubmitPush(t))
  /\ \A w \in Workers : /\ WF_vars(~terminated /\ WorkerStep(w))
                        /\ SF_vars(~terminated /\ Acquire(w))
  /\ WF_vars(~terminated /\ main # "up" /\ ShutdownStep)

FairSpec == Spec /\ Fairness

-----------------------------------------------------------------------------
(* Properties                                                              *)

TypeOK ==
  /\ shutdown_requested \in BOOLEAN
  /\ task_queue \in Seq(Tasks)
  /\ mutex \in Workers \cup {Free}
  /\ pc \in [Workers -> WorkerPC]
  /\ task \in [Workers -> Tasks \cup {NoTask}]
  /\ agent \in [Workers -> Agents \cup {NoAgent}]
  /\ ok \in [Workers -> BOOLEAN]
  /\ call \in [Tasks -> {"idle", "checked", "pushed", "accepted", "rejected"}]
  /\ main \in {"up", "notify", "notify again", "join", "agents", "clear", "done"}
  /\ registered \in SUBSET Agents
  /\ active \in [Agents -> BOOLEAN]
  /\ enabled \in [Agents -> BOOLEAN]
  /\ life \in [Agents -> {"new", "up", "down"}]
  /\ inProgress \in [Agents -> Nat]
  /\ health \in [Agents -> {"HEALTHY", "DEGRADED"}]
  /\ terminated \in BOOLEAN
  /\ results \in [Tasks -> Seq(BOOLEAN)]
  /\ leaked \in [Agents -> Nat]

Queued == {task_queue[i] : i \in DOMAIN task_queue}
Holders(t) == {w \in Workers : pc[w] \in Holding /\ task[w] = t}
Running(a) == {w \in Workers : pc[w] = "running" /\ agent[w] = a}

NoDuplicateInQueue ==
  \A i, j \in DOMAIN task_queue : task_queue[i] = task_queue[j] => i = j

NotQueuedAndHeld == \A t \in Queued : Holders(t) = {}

OneHolder ==
  \A v, w \in Workers :
    pc[v] \in Holding /\ pc[w] \in Holding /\ task[v] = task[w] => v = w

\* A task is in one place: once in task_queue_, or with one worker, never both,
\* whatever pushes, pops, exceptions and shutdown interleave.
TaskInOnePlace == NoDuplicateInQueue /\ NotQueuedAndHeld /\ OneHolder

\* A task gets one outcome; a second one, always a failure, only when its own
\* callback threw.  Nothing is finalized before a worker has taken it.
OneOutcome ==
  \A t \in Tasks :
    /\ Len(results[t]) <= (IF t \in Throwing THEN 2 ELSE 1)
    /\ Len(results[t]) = 2 => ~results[t][2]
    /\ t \in Queued => results[t] = <<>>

\* tasks_in_progress of an agent is the number of workers inside its
\* process_event plus one for every process_event that ever threw.
InProgressExact ==
  \A a \in Agents : inProgress[a] = Cardinality(Running(a)) + leaked[a]

\* submit_task's notify_one is enough: while the orchestrator is up, queued
\* work with no notification still to come never finds every worker asleep.
NoStrandedTask ==
  /\ task_queue # <<>>
  /\ \A t \in Tasks : call[t] # "pushed"
  /\ ~shutdown_requested
  => \E w \in Workers : pc[w] \notin {"waiting", "exited"}

\* shutdown() reaches the agents only when no worker can still be using one.
AgentsOutliveWorkers ==
  main \in {"agents", "clear", "done"} => \A a \in Agents : \A w \in Workers : agent[w] # a

\* An accepted task is settled by a worker unless shutdown gets in between.
AcceptedIsSettled ==
  \A t \in Tasks :
    call[t] = "accepted" ~>
      (t \notin Queued /\ Holders(t) = {}) \/ shutdown_requested \/ terminated

\* What submit_task documents ("true if task submitted successfully", "Submit a
\* task for agent processing"): an accepted task gets an outcome.
AcceptedGetsOutcome ==
  \A t \in Tasks : call[t] = "accepted" ~> (results[t] # <<>> \/ terminated)

\* What shutdown documents ("Shutdown all agents and cleanup resources"): the
\* call gets to its end.
ShutdownCompletes == (main = "notify") ~> (main = "done" \/ terminated)

\* The same sentence, of the registry: no agent is dropped without shutdown().
ClearedAgentsAreDown ==
  [][main = "clear" /\ main' = "done" => \A a \in registered : life[a] # "up"]_vars

\* perform_health_check: an agent becomes DEGRADED when it "is processing too
\* many tasks".
DegradedOnlyWhenBusy ==
  [][\A a \in Agents : health[a] = "HEALTHY" /\ health'[a] = "DEGRADED" =>
       Cardinality(Running(a)) > MaxConcurrent]_vars

-----------------------------------------------------------------------------
(* Refinement                                                              *)

Held == {task[w] : w \in {v \in Workers : pc[v] \in Holding}}

\* Tasks whose submit_task call has pushed them and that were taken and dropped.
Settled ==
  {t \in Tasks : call[t] \in {"pushed", "accepted"}} \ (Queued \cup Held)

Dispatch == INSTANCE TaskDispatch WITH
  pending <- task_queue, running <- Held, settled <- Settled

\* The orchestrator's queue is the first-in first-out dispatch of TaskDispatch.
DispatchSpec == Dispatch!Spec
=============================================================================
