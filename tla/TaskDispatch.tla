---------------------------- MODULE TaskDispatch ----------------------------
(***************************************************************************)
(* What the orchestrator promises about its task queue, without threads,   *)
(* locks, agents or exceptions: tasks are taken in the order they were     *)
(* submitted, each by one worker, and a task that has left the queue is    *)
(* settled once and never comes back.  AgentOrchestrator implements it.    *)
(***************************************************************************)
EXTENDS Sequences

CONSTANT Tasks

VARIABLES
  pending,  \* accepted tasks nobody has taken yet, oldest first
  running,  \* tasks a worker has taken and not settled
  settled   \* tasks that were completed, failed or discarded

vars == <<pending, running, settled>>

Queued == {pending[i] : i \in DOMAIN pending}

Init ==
  /\ pending = <<>>
  /\ running = {}
  /\ settled = {}

Submit(t) ==
  /\ t \notin Queued \cup running \cup settled
  /\ pending' = Append(pending, t)
  /\ UNCHANGED <<running, settled>>

Start ==
  /\ pending # <<>>
  /\ pending' = Tail(pending)
  /\ running' = running \cup {Head(pending)}
  /\ UNCHANGED settled

\* A task a worker takes and drops at once, without giving it to an agent.
Discard ==
  /\ pending # <<>>
  /\ pending' = Tail(pending)
  /\ settled' = settled \cup {Head(pending)}
  /\ UNCHANGED running

Settle(t) ==
  /\ t \in running
  /\ running' = running \ {t}
  /\ settled' = settled \cup {t}
  /\ UNCHANGED pending

Next ==
  \/ \E t \in Tasks : Submit(t) \/ Settle(t)
  \/ Start
  \/ Discard

Spec == Init /\ [][Next]_vars
=============================================================================
