--------------------------- MODULE EventDelivery ---------------------------
(***************************************************************************)
(* What the event bus promises about the events it has accepted, without   *)
(* threads, mutexes, handlers or a dead-letter queue: they are delivered   *)
(* in the order of the queue, each by one worker at a time; one whose      *)
(* delivery fails goes back to the end of the queue at most MaxRetries     *)
(* times and is given up only after these or when it expires; and what is  *)
(* done or was cleared never comes back.  EventBus implements it.          *)
(***************************************************************************)
EXTENDS Naturals, Sequences

CONSTANTS Events, Expiring, MaxRetries

VARIABLES
  accepted,    \* events that publish has accepted so far
  queue,       \* those to deliver, oldest first
  delivering,  \* those with a worker
  failed,      \* those whose delivery failed, neither retried nor given up yet
  done,        \* delivered or given up
  attempts     \* how often each was delivered, with or without success

vars == <<accepted, queue, delivering, failed, done, attempts>>

Init ==
  /\ accepted = {}
  /\ queue = <<>>
  /\ delivering = {} /\ failed = {} /\ done = {}
  /\ attempts = [e \in Events |-> 0]

\* The events E come to the end of the queue, once each, in some order.
Enqueue(E) ==
  LET s == SubSeq(queue', Len(queue) + 1, Len(queue'))
  IN  /\ queue' = queue \o s
      /\ {s[i] : i \in DOMAIN s} = E
      /\ \A i, j \in DOMAIN s : s[i] = s[j] => i = j

\* One event, or as many of a batch as there is room for.
Accept(E) ==
  /\ E \cap accepted = {}
  /\ accepted' = accepted \cup E
  /\ Enqueue(E)
  /\ UNCHANGED <<delivering, failed, done, attempts>>

Start ==
  /\ queue # <<>>
  /\ queue' = Tail(queue)
  /\ delivering' = delivering \cup {Head(queue)}
  /\ UNCHANGED <<accepted, failed, done, attempts>>

Attempted(e) ==
  /\ e \in delivering
  /\ delivering' = delivering \ {e}
  /\ attempts' = [attempts EXCEPT ![e] = @ + 1]
  /\ UNCHANGED <<accepted, queue>>

Deliver(e) == Attempted(e) /\ done' = done \cup {e} /\ UNCHANGED failed

Fail(e) == Attempted(e) /\ failed' = failed \cup {e} /\ UNCHANGED done

GiveUp(E) ==
  /\ E \subseteq failed
  /\ \A e \in E : attempts[e] > MaxRetries \/ e \in Expiring
  /\ failed' = failed \ E
  /\ done' = done \cup E
  /\ UNCHANGED <<accepted, queue, delivering, attempts>>

Retry(E) ==
  /\ E \subseteq failed
  /\ \A e \in E : attempts[e] <= MaxRetries
  /\ failed' = failed \ E
  /\ Enqueue(E)
  /\ UNCHANGED <<accepted, delivering, done, attempts>>

\* Not while a worker could still fail.
Clear ==
  /\ delivering = {}
  /\ queue' = <<>> /\ failed' = {}
  /\ UNCHANGED <<accepted, delivering, done, attempts>>

Next ==
  \/ \E E \in SUBSET Events : Accept(E) \/ GiveUp(E) \/ Retry(E)
  \/ Start
  \/ \E e \in Events : Deliver(e) \/ Fail(e)
  \/ Clear

Spec == Init /\ [][Next]_vars
=============================================================================
