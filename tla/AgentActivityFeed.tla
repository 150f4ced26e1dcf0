------------------------- MODULE AgentActivityFeed -------------------------
(***************************************************************************)
(* src/shared/agent_activity_feed: threads record events of agents, the    *)
(* feed keeps a bounded number of them, counts them and calls those who    *)
(* subscribed; a worker removes what is too old.  A step is what the code  *)
(* does under one mutex, or the update of the statistics, which no mutex   *)
(* protects.  Persistence is a stub in the code.                           *)
(***************************************************************************)
EXTENDS Naturals, FiniteSets, Sequences

CONSTANTS
  Recorders,           \* threads
  Agents, Subscribers,
  Reentrant,           \* subscribers whose callback subscribes or unsubscribes
  MaxEventsPerAgent, MaxEventsBuffer, MaxSubscriptions, Retention,
  MaxTime, MaxEvents,  \* bounds: the clock, events ever made
  NoEvent, Free

ASSUME FeedConstantsOK ==
  /\ Reentrant \subseteq Subscribers
  /\ {MaxEventsPerAgent, MaxEventsBuffer} \subseteq Nat \ {0}
  /\ {MaxSubscriptions, Retention, MaxTime, MaxEvents} \subseteq Nat
  /\ IsFiniteSet(Recorders) /\ IsFiniteSet(Agents) /\ IsFiniteSet(Subscribers)
  /\ Free \notin Recorders

VARIABLES
  now, made,
  activities,           \* agent_activities_
  stats,                \* agent_stats_: total_activities
  stored,               \* history: how many events were stored for each agent
  subscribed, until,    \* subscriptions_ and the end_time of their filters
  subscriptions_mutex,  \* its holder between two steps, or Free
  pc, event,            \* recorders,
  todo, called,         \* and the subscribers they still have to call, and have called
  running, cleaner, stop

feed == <<activities, stats, stored>>
subscriptions == <<subscribed, until, subscriptions_mutex>>
recorderVars == <<pc, event, todo, called>>
workerVars == <<running, cleaner, stop>>
vars == <<now, made, feed, subscriptions, recorderVars, workerVars>>

Event == [agent : Agents, stamp : 0..MaxTime]
Entry == [number : 1..MaxEvents, stamp : 0..MaxTime]

Init ==
  /\ now = 0 /\ made = 0
  /\ activities = [a \in Agents |-> <<>>]
  /\ stats = [a \in Agents |-> 0] /\ stored = stats
  /\ subscribed = {} /\ until = [s \in Subscribers |-> 0]
  /\ subscriptions_mutex = Free
  /\ pc = [r \in Recorders |-> "idle"] /\ event = [r \in Recorders |-> NoEvent]
  /\ todo = [r \in Recorders |-> {}] /\ called = todo
  /\ running = FALSE /\ cleaner = "none" /\ stop = "off"

Tick ==
  /\ now < MaxTime
  /\ now' = now + 1
  /\ UNCHANGED <<made, feed, subscriptions, recorderVars, workerVars>>

Goto(r, from, to) == pc[r] = from /\ pc' = [pc EXCEPT ![r] = to]

-----------------------------------------------------------------------------
(* record_activity                                                         *)

\* An event has the time at which it was made, not stored.
Make(r, a) ==
  /\ Goto(r, "idle", "made")
  /\ made < MaxEvents
  /\ made' = made + 1
  /\ event' = [event EXCEPT ![r] = [agent |-> a, stamp |-> now]]
  /\ UNCHANGED <<now, feed, subscriptions, todo, called, workerVars>>

\* Where the feed keeps its events; there are as many of them as places.
Places(queues) == UNION {{a} \X DOMAIN queues[a] : a \in Agents}
Total(queues) == Cardinality(Places(queues))
Longest(queues) == {a \in Agents : \A b \in Agents : Len(queues[b]) <= Len(queues[a])}

PushedMutantRefuses(a, e) ==
  [activities EXCEPT ![a] = IF Len(@) >= MaxEventsPerAgent THEN @ ELSE Append(@, e)]

\* The oldest event of the agent makes room for the new one.
Pushed(a, e) ==
  [activities EXCEPT ![a] =
     Append(IF Len(@) >= MaxEventsPerAgent THEN Tail(@) ELSE @, e)]

TrimmedMutantOffByOne(queues) ==
  IF Total(queues) <= MaxEventsBuffer + 1 THEN {queues}
  ELSE {[queues EXCEPT ![a] = Tail(@)] : a \in Longest(queues)}

\* The loop runs at most once, for the feed was within its limit before.
Trimmed(queues) ==
  IF Total(queues) <= MaxEventsBuffer THEN {queues}
  ELSE {[queues EXCEPT ![a] = Tail(@)] : a \in Longest(queues)}

Store(r) ==
  /\ Goto(r, "made", "stored")
  /\ LET a == event[r].agent
     IN  /\ stored' = [stored EXCEPT ![a] = @ + 1]
         /\ activities' \in
              Trimmed(Pushed(a, [number |-> stored'[a], stamp |-> event[r].stamp]))
  /\ UNCHANGED <<now, made, stats, subscriptions, event, todo, called, workerVars>>

\* update_agent_stats increments plain members without a mutex: when two threads do
\* so for one agent at the same time, one increment may be lost.
UpdateStats(r) ==
  /\ Goto(r, "stored", "notify")
  /\ LET a == event[r].agent
     IN  \/ stats' = [stats EXCEPT ![a] = @ + 1]
         \/ /\ \E q \in Recorders \ {r} : pc[q] = "stored" /\ event[q].agent = a
            /\ UNCHANGED stats
  /\ UNCHANGED <<now, made, activities, stored, subscriptions, event, todo, called,
                 workerVars>>

MatchingMutantStrict(e) == {s \in subscribed : e.stamp < until[s]}

\* matches_filter looks at the time, not at the agents.
Matching(e) == {s \in subscribed : e.stamp <= until[s]}

\* notify_subscribers, which holds subscriptions_mutex_ while it calls.
Lock(r) ==
  /\ Goto(r, "notify", "calling")
  /\ subscriptions_mutex = Free
  /\ subscriptions_mutex' = r
  /\ todo' = [todo EXCEPT ![r] = Matching(event[r])]
  /\ UNCHANGED <<now, made, feed, subscribed, until, event, called, workerVars>>

Call(r) ==
  /\ pc[r] = "calling"
  /\ \E s \in todo[r] :
       /\ called' = [called EXCEPT ![r] = @ \cup {s}]
       /\ todo' = [todo EXCEPT ![r] = @ \ {s}]
       /\ Goto(r, "calling", IF s \in Reentrant THEN "stuck" ELSE "calling")
  /\ UNCHANGED <<now, made, feed, subscribed, until, subscriptions_mutex, event, workerVars>>

Unlock(r) ==
  /\ todo[r] = {}
  /\ Goto(r, "calling", "idle")
  /\ subscriptions_mutex' = Free
  /\ event' = [event EXCEPT ![r] = NoEvent]
  /\ called' = [called EXCEPT ![r] = {}]
  /\ UNCHANGED <<now, made, feed, subscribed, until, todo, workerVars>>

-----------------------------------------------------------------------------
(* subscribe, unsubscribe                                                  *)

\* The filter's default end_time is the moment at which it is made.
Subscribe(s, t) ==
  /\ subscriptions_mutex = Free
  /\ Cardinality(subscribed) < MaxSubscriptions
  /\ subscribed' = subscribed \cup {s}
  /\ until' = [until EXCEPT ![s] = t]
  /\ UNCHANGED <<now, made, feed, subscriptions_mutex, recorderVars, workerVars>>

UnsubscribeMutantUnlocked(s) ==
  /\ subscribed' = subscribed \ {s}
  /\ until' = [until EXCEPT ![s] = 0]
  /\ UNCHANGED <<now, made, feed, subscriptions_mutex, recorderVars, workerVars>>

Unsubscribe(s) ==
  /\ subscriptions_mutex = Free
  /\ subscribed' = subscribed \ {s}
  /\ until' = [until EXCEPT ![s] = 0]
  /\ UNCHANGED <<now, made, feed, subscriptions_mutex, recorderVars, workerVars>>

-----------------------------------------------------------------------------
(* cleanup_worker: cleanup_mutex_ is held at "blocking" and "cleaning".    *)

Expired(e) == e.stamp + Retention < now

\* Old events are removed from the front, up to the first that is not old.
Fresh(q) ==
  LET n == CHOOSE n \in 0..Len(q) :
             /\ \A i \in 1..n : Expired(q[i])
             /\ n < Len(q) => ~Expired(q[n + 1])
  IN  SubSeq(q, n + 1, Len(q))

CleanUp ==
  /\ activities' = [a \in Agents |-> Fresh(activities[a])]
  /\ UNCHANGED <<now, made, stats, stored, subscriptions, recorderVars, running, stop>>

\* cleanup_old_activities, called by somebody.
ForceCleanup == CleanUp /\ UNCHANGED cleaner

CleanerGoes(from, to) ==
  /\ cleaner = from /\ cleaner' = to
  /\ UNCHANGED <<now, made, feed, subscriptions, recorderVars, running, stop>>

\* The predicate of wait_for makes the test of the loop again.
CleanerPredicate == CleanerGoes("lock", IF running THEN "blocking" ELSE "exited")

CleanerBlock == CleanerGoes("blocking", "waiting")

\* wait_for ends when the interval has passed.
CleanerWake == CleanerGoes("waiting", IF running THEN "cleaning" ELSE "exited")

CleanerCleans == cleaner = "cleaning" /\ cleaner' = "lock" /\ CleanUp

-----------------------------------------------------------------------------
(* initialize and shutdown                                                 *)

Initialize ==
  /\ stop = "off"
  /\ stop' = "no" /\ running' = TRUE /\ cleaner' = "lock"
  /\ UNCHANGED <<now, made, feed, subscriptions, recorderVars>>

ShutdownFlag ==
  /\ stop = "no"
  /\ stop' = "notify" /\ running' = FALSE
  /\ UNCHANGED <<now, made, feed, subscriptions, recorderVars, cleaner>>

ShutdownNotify ==
  /\ stop = "notify"
  /\ cleaner \notin {"blocking", "cleaning"}
  /\ stop' = "join"
  /\ cleaner' = IF cleaner = "waiting" THEN "exited" ELSE cleaner
  /\ UNCHANGED <<now, made, feed, subscriptions, recorderVars, running>>

ShutdownJoin ==
  /\ stop = "join"
  /\ cleaner = "exited"
  /\ stop' = "subscriptions" /\ cleaner' = "none"
  /\ UNCHANGED <<now, made, feed, subscriptions, recorderVars, running>>

ClearSubscriptions ==
  /\ stop = "subscriptions"
  /\ subscriptions_mutex = Free
  /\ subscribed' = {} /\ until' = [s \in Subscribers |-> 0]
  /\ stop' = "off"
  /\ UNCHANGED <<now, made, feed, subscriptions_mutex, recorderVars, running, cleaner>>

-----------------------------------------------------------------------------
RecorderStep(r) ==
  Store(r) \/ UpdateStats(r) \/ Lock(r) \/ Call(r) \/ Unlock(r)

ClientStep ==
  \/ \E r \in Recorders, a \in Agents : Make(r, a)
  \/ \E s \in Subscribers, t \in {now, MaxTime} : Subscribe(s, t)
  \/ \E s \in Subscribers : Unsubscribe(s)
  \/ ForceCleanup

CleanerStep == CleanerPredicate \/ CleanerBlock \/ CleanerWake \/ CleanerCleans

ShutdownStep == ShutdownNotify \/ ShutdownJoin \/ ClearSubscriptions

Next ==
  \/ Tick \/ ClientStep
  \/ \E r \in Recorders : RecorderStep(r)
  \/ CleanerStep \/ Initialize \/ ShutdownFlag \/ ShutdownStep

Spec == Init /\ [][Next]_vars

\* As long as a recorder can go on again and again, one of them does: they are
\* scheduled, and one of those that wait for a mutex gets it.  Which one is left
\* open; the calls of record_activity are finitely many.
FairSpec == Spec /\ SF_vars(\E r \in Recorders : RecorderStep(r))

-----------------------------------------------------------------------------
(* Properties                                                              *)

TypeOK ==
  /\ now \in 0..MaxTime /\ made \in 0..MaxEvents
  /\ activities \in [Agents -> Seq(Entry)]
  /\ \A a \in Agents : Len(activities[a]) <= MaxEventsPerAgent
  /\ Total(activities) <= MaxEventsBuffer
  /\ stats \in [Agents -> 0..MaxEvents] /\ stored \in [Agents -> 0..MaxEvents]
  /\ subscribed \in SUBSET Subscribers /\ until \in [Subscribers -> 0..MaxTime]
  /\ Cardinality(subscribed) <= MaxSubscriptions
  /\ subscriptions_mutex \in Recorders \cup {Free}
  /\ pc \in [Recorders -> {"idle", "made", "stored", "notify", "calling", "stuck"}]
  /\ event \in [Recorders -> Event \cup {NoEvent}]
  /\ todo \in [Recorders -> SUBSET Subscribers]
  /\ called \in [Recorders -> SUBSET Subscribers]
  /\ running \in BOOLEAN
  /\ cleaner \in {"none", "lock", "blocking", "waiting", "cleaning", "exited"}
  /\ stop \in {"off", "no", "notify", "join", "subscriptions"}

\* Both limits and the cleanup take the oldest: what a query finds of an agent are
\* its last events, without a gap.
KeepsNewest ==
  \A a \in Agents : \A i \in 1..Len(activities[a]) :
    activities[a][i].number = stored[a] - Len(activities[a]) + i

\* A callback is only called while its subscription is in place: nobody hears from
\* the feed after unsubscribe has returned.
CallsOnlySubscribers == \A r \in Recorders : todo[r] \subseteq subscribed

Stuck == \E r \in Recorders : pc[r] = "stuck"

\* Who subscribed with an end_time that is still to come hears of an event that is
\* recorded after that, unless the subscription ends or a callback came back.
SubscribersHear ==
  \A r \in Recorders, s \in Subscribers \ Reentrant :
    pc[r] = "made" /\ s \in subscribed /\ until[s] = MaxTime
      ~> s \in called[r] \/ s \notin subscribed \/ until[s] # MaxTime \/ Stuck

\* "Subscribe to activities": a subscriber hears of an event that is recorded after
\* that, with the default filter too.
DefaultFilterHears ==
  \A r \in Recorders, s \in Subscribers :
    pc[r] = "made" /\ s \in subscribed
      ~> s \in called[r] \/ s \notin subscribed \/ Stuck

\* "Update statistics": every activity is counted.
CountsAll ==
  (\A r \in Recorders : pc[r] = "idle") => \A a \in Agents : stats[a] = stored[a]

\* "Remove old events"
CleanupRemovesOld ==
  [][cleaner = "cleaning" /\ cleaner' = "lock" =>
       \A a \in Agents, i \in 1..MaxEventsPerAgent :
         i <= Len(activities'[a]) => ~Expired(activities'[a][i])]_vars
=============================================================================
