----------------------- MODULE AgentActivityFeedProofs -----------------------
(***************************************************************************)
(* Theorems about AgentActivityFeed, for any threads, agents, subscribers  *)
(* and limits.                                                             *)
(***************************************************************************)
EXTENDS AgentActivityFeed, SequenceFacts, FiniteSetTheorems, TLAPS

-----------------------------------------------------------------------------
(* One queue                                                               *)

\* What the queue of an agent is when n events were stored for it: the last of them,
\* without a gap.
IsNewest(q, n) ==
  /\ q \in Seq(Entry)
  /\ Len(q) <= MaxEventsPerAgent
  /\ Len(q) <= n
  /\ \A i \in 1..Len(q) : q[i].number = n - Len(q) + i

\* Without its oldest event a queue has the newest still.
LEMMA TailIsNewest ==
  ASSUME NEW n \in Nat, NEW q, IsNewest(q, n), Len(q) # 0
  PROVE  IsNewest(Tail(q), n) /\ Len(Tail(q)) = Len(q) - 1
<1>1. q # <<>> /\ Len(q) \in Nat \ {0}
  BY LenProperties DEF IsNewest
<1>2. /\ Tail(q) \in Seq(Entry) /\ Len(Tail(q)) = Len(q) - 1
      /\ \A i \in 1..Len(Tail(q)) : Tail(q)[i] = q[i + 1]
  BY <1>1, HeadTailProperties DEF IsNewest
<1>3. MaxEventsPerAgent \in Nat
  BY FeedConstantsOK
<1>. DEFINE r == Tail(q)
<1>. HIDE DEF r
<1>4. \A i \in 1..Len(r) : r[i].number = n - Len(r) + i
  <2>. SUFFICES ASSUME NEW i \in 1..Len(r)  PROVE r[i].number = n - Len(r) + i
    OBVIOUS
  <2>1. i + 1 \in 1..Len(q) /\ r[i] = q[i + 1] /\ Len(r) = Len(q) - 1
    BY <1>1, <1>2 DEF r
  <2>2. q[i + 1].number = n - Len(q) + (i + 1)
    BY <2>1 DEF IsNewest
  <2>. QED  BY <2>1, <2>2, <1>1
<1>. QED  BY <1>1, <1>2, <1>3, <1>4 DEF IsNewest, r

\* The next event at the end of a queue that has room for it.
LEMMA AppendIsNewest ==
  ASSUME NEW n \in Nat, NEW q, IsNewest(q, n), Len(q) < MaxEventsPerAgent,
         NEW e \in Entry, e.number = n + 1
  PROVE  IsNewest(Append(q, e), n + 1) /\ Len(Append(q, e)) = Len(q) + 1
<1>. DEFINE r == Append(q, e)
<1>1. /\ r \in Seq(Entry) /\ Len(r) = Len(q) + 1
      /\ \A i \in 1..Len(q) : r[i] = q[i]
      /\ r[Len(q) + 1] = e
  BY AppendProperties DEF IsNewest
<1>2. Len(q) \in Nat /\ MaxEventsPerAgent \in Nat
  BY FeedConstantsOK, LenProperties DEF IsNewest
<1>. HIDE DEF r
<1>3. \A i \in 1..Len(r) : r[i].number = (n + 1) - Len(r) + i
  <2>. SUFFICES ASSUME NEW i \in 1..Len(r)  PROVE r[i].number = (n + 1) - Len(r) + i
    OBVIOUS
  <2>1. CASE i \in 1..Len(q)
    <3>1. q[i].number = n - Len(q) + i
      BY <2>1 DEF IsNewest
    <3>. QED  BY <2>1, <3>1, <1>1, <1>2
  <2>2. CASE i = Len(q) + 1
    BY <2>2, <1>1, <1>2
  <2>. QED  BY <2>1, <2>2, <1>1, <1>2
<1>. QED  BY <1>1, <1>2, <1>3 DEF IsNewest, r

\* Pushed: one event more, or as many as before when the queue was full.
LEMMA PushedIsNewest ==
  ASSUME NEW n \in Nat, NEW q, IsNewest(q, n), NEW e \in Entry, e.number = n + 1
  PROVE  LET r == Append(IF Len(q) >= MaxEventsPerAgent THEN Tail(q) ELSE q, e)
         IN  IsNewest(r, n + 1) /\ (Len(r) = Len(q) \/ Len(r) = Len(q) + 1)
<1>1. Len(q) \in Nat /\ MaxEventsPerAgent \in Nat \ {0} /\ Len(q) <= MaxEventsPerAgent
  BY FeedConstantsOK, LenProperties DEF IsNewest
<1>2. CASE Len(q) >= MaxEventsPerAgent
  <2>1. IsNewest(Tail(q), n) /\ Len(Tail(q)) = Len(q) - 1
    BY <1>1, <1>2, TailIsNewest
  <2>2. Len(Tail(q)) < MaxEventsPerAgent /\ Len(Tail(q)) + 1 = Len(q)
    BY <2>1, <1>1
  <2>3. IsNewest(Append(Tail(q), e), n + 1) /\ Len(Append(Tail(q), e)) = Len(Tail(q)) + 1
    BY <2>1, <2>2, AppendIsNewest
  <2>. QED  BY <1>2, <2>2, <2>3
<1>3. CASE ~(Len(q) >= MaxEventsPerAgent)
  BY <1>1, <1>3, AppendIsNewest
<1>. QED  BY <1>2, <1>3

\* The cleanup leaves the end of a queue.
LEMMA FreshIsNewest ==
  ASSUME NEW n \in Nat, NEW q, IsNewest(q, n)
  PROVE  IsNewest(Fresh(q), n) /\ Len(Fresh(q)) <= Len(q)
<1>. DEFINE N == Len(q)
            Stops(k) == /\ \A i \in 1..k : Expired(q[i])
                        /\ k < N => ~Expired(q[k + 1])
            k == CHOOSE k \in 0..N : Stops(k)
            Old == {i \in 1..N : Expired(q[i])}
<1>1. N \in Nat /\ \A i \in 1..N : q[i] \in Entry
  BY LenProperties, ElementOfSeq DEF IsNewest
<1>2. \E j \in 0..N : (\A i \in 1..j : i \in Old) /\ (j < N => j + 1 \notin Old)
  <2>. HIDE DEF Old
  <2>. QED  BY <1>1, FirstNot
<1>3. \E j \in 0..N : Stops(j)
  BY <1>1, <1>2
<1>4. k \in 0..N
  <2>. HIDE DEF Stops
  <2>. QED  BY <1>3
<1>5. Fresh(q) = SubSeq(q, k + 1, N)
  BY DEF Fresh
<1>. HIDE DEF k, Stops
<1>. DEFINE r == SubSeq(q, k + 1, N)
<1>6. /\ r \in Seq(Entry)
      /\ Len(r) = N - k
      /\ \A i \in 1..(N - k) : r[i] = q[k + i]
  <2>1. \A i \in (k + 1)..N : q[i] \in Entry
    BY <1>1, <1>4
  <2>2. /\ r \in Seq(Entry)
        /\ Len(r) = IF k + 1 <= N THEN N - (k + 1) + 1 ELSE 0
        /\ \A i \in 1..(N - (k + 1) + 1) : r[i] = q[(k + 1) + i - 1]
    BY <2>1, <1>1, <1>4, SubSeqProperties
  <2>3. \A i \in Int : (k + 1) + i - 1 = k + i
    BY <1>4
  <2>. HIDE DEF r
  <2>. QED  BY <2>2, <2>3, <1>1, <1>4
<1>. HIDE DEF r
<1>7. MaxEventsPerAgent \in Nat
  BY FeedConstantsOK
<1>8. \A i \in 1..Len(r) : r[i].number = n - Len(r) + i
  <2>. SUFFICES ASSUME NEW i \in 1..Len(r)  PROVE r[i].number = n - Len(r) + i
    OBVIOUS
  <2>1. k + i \in 1..N /\ r[i] = q[k + i] /\ i \in Nat
    BY <1>1, <1>4, <1>6
  <2>2. q[k + i].number = n - N + (k + i)
    BY <2>1 DEF IsNewest
  <2>. QED  BY <2>1, <2>2, <1>1, <1>4, <1>6
<1>9. Len(r) <= N /\ N <= MaxEventsPerAgent /\ N <= n
  BY <1>1, <1>4, <1>6 DEF IsNewest
<1>10. IsNewest(r, n)
  <2>1. Len(r) \in Nat /\ N \in Nat
    BY <1>1, <1>4, <1>6
  <2>. HIDE DEF N
  <2>2. Len(r) <= MaxEventsPerAgent /\ Len(r) <= n
    BY <1>7, <1>9, <2>1
  <2>. QED  BY <1>6, <1>8, <2>2 DEF IsNewest
<1>. QED  BY <1>5, <1>9, <1>10 DEF r

-----------------------------------------------------------------------------
(* All queues                                                              *)

Queues == [Agents -> Seq(Entry)]

\* The places in use, one by one.
LEMMA InPlaces ==
  ASSUME NEW queues \in Queues, NEW p
  PROVE  p \in Places(queues) <=>
           \E a \in Agents, i \in Nat : i \in 1..Len(queues[a]) /\ p = <<a, i>>
<1>1. \A a \in Agents : DOMAIN queues[a] = 1..Len(queues[a])
  BY LenProperties DEF Queues
<1>. QED  BY <1>1 DEF Places

\* They are finitely many.
LEMMA PlacesFinite ==
  ASSUME NEW queues \in Queues, \A a \in Agents : Len(queues[a]) <= MaxEventsPerAgent
  PROVE  IsFiniteSet(Places(queues)) /\ Total(queues) \in Nat
<1>1. IsFiniteSet(1..MaxEventsPerAgent)
  BY FeedConstantsOK, FS_Interval
<1>2. IsFiniteSet(Agents \X (1..MaxEventsPerAgent))
  BY <1>1, FeedConstantsOK, FS_Product
<1>3. Places(queues) \subseteq Agents \X (1..MaxEventsPerAgent)
  <2>. SUFFICES ASSUME NEW p \in Places(queues)
                PROVE  p \in Agents \X (1..MaxEventsPerAgent)
    OBVIOUS
  <2>1. PICK a \in Agents, i \in Nat : i \in 1..Len(queues[a]) /\ p = <<a, i>>
    BY InPlaces
  <2>2. Len(queues[a]) \in Nat /\ MaxEventsPerAgent \in Nat /\ Len(queues[a]) <= MaxEventsPerAgent
    BY FeedConstantsOK, LenProperties DEF Queues
  <2>3. i \in 1..MaxEventsPerAgent
    BY <2>1, <2>2
  <2>. QED  BY <2>1, <2>3
<1>4. IsFiniteSet(Places(queues))
  BY <1>2, <1>3, FS_Subset
<1>. QED  BY <1>4, FS_CardinalityType DEF Total

\* No queue longer than before: not more events than before.
LEMMA TotalShrinks ==
  ASSUME NEW queues \in Queues, NEW fewer \in Queues,
         \A a \in Agents : Len(queues[a]) <= MaxEventsPerAgent,
         \A a \in Agents : Len(fewer[a]) <= Len(queues[a])
  PROVE  Total(fewer) <= Total(queues)
<1>1. Places(fewer) \subseteq Places(queues)
  <2>. SUFFICES ASSUME NEW p \in Places(fewer)  PROVE p \in Places(queues)
    OBVIOUS
  <2>1. PICK a \in Agents, i \in Nat : i \in 1..Len(fewer[a]) /\ p = <<a, i>>
    BY InPlaces
  <2>2. Len(queues[a]) \in Nat /\ Len(fewer[a]) \in Nat /\ Len(fewer[a]) <= Len(queues[a])
    BY LenProperties DEF Queues
  <2>3. i \in 1..Len(queues[a])
    BY <2>1, <2>2
  <2>. QED  BY <2>1, <2>3, InPlaces
<1>. QED  BY <1>1, PlacesFinite, FS_Subset DEF Total

\* One event more in one queue, and one more in all.
LEMMA TotalGrows ==
  ASSUME NEW queues \in Queues, NEW more \in Queues, NEW a \in Agents,
         \A b \in Agents : Len(queues[b]) <= MaxEventsPerAgent,
         \A b \in Agents \ {a} : more[b] = queues[b],
         Len(more[a]) = Len(queues[a]) + 1
  PROVE  Total(more) = Total(queues) + 1
<1>. DEFINE new == <<a, Len(queues[a]) + 1>>
<1>1. Len(queues[a]) \in Nat
  BY LenProperties DEF Queues
<1>2. Places(more) = Places(queues) \cup {new}
  <2>1. ASSUME NEW p \in Places(more)  PROVE p \in Places(queues) \cup {new}
    <3>1. PICK b \in Agents, i \in Nat : i \in 1..Len(more[b]) /\ p = <<b, i>>
      BY InPlaces
    <3>2. CASE b = a /\ i = Len(queues[a]) + 1
      BY <3>1, <3>2
    <3>3. CASE ~(b = a /\ i = Len(queues[a]) + 1)
      <4>1. i \in 1..Len(queues[b])
        BY <3>1, <3>3, <1>1
      <4>. QED  BY <3>1, <4>1, InPlaces
    <3>. QED  BY <3>2, <3>3
  <2>2. ASSUME NEW p \in Places(queues)  PROVE p \in Places(more)
    <3>1. PICK b \in Agents, i \in Nat : i \in 1..Len(queues[b]) /\ p = <<b, i>>
      BY InPlaces
    <3>2. i \in 1..Len(more[b])
      BY <3>1, <1>1
    <3>. QED  BY <3>1, <3>2, InPlaces
  <2>3. new \in Places(more)
    <3>1. Len(queues[a]) + 1 \in 1..Len(more[a])
      BY <1>1
    <3>. QED  BY <3>1, InPlaces
  <2>. QED  BY <2>1, <2>2, <2>3
<1>3. new \notin Places(queues)
  <2>. SUFFICES ASSUME new \in Places(queues)  PROVE FALSE
    OBVIOUS
  <2>1. PICK b \in Agents, i \in Nat : i \in 1..Len(queues[b]) /\ new = <<b, i>>
    BY InPlaces
  <2>. QED  BY <2>1, <1>1
<1>. HIDE DEF new
<1>. QED  BY <1>2, <1>3, PlacesFinite, FS_AddElement DEF Total

\* If an event is kept, the longest queues are not empty.
LEMMA LongestNotEmpty ==
  ASSUME NEW queues \in Queues, \A b \in Agents : Len(queues[b]) <= MaxEventsPerAgent,
         Total(queues) > 0, NEW a \in Longest(queues)
  PROVE  Len(queues[a]) \in Nat \ {0}
<1>1. Places(queues) # {}
  <2>1. Total(queues) # 0
    BY PlacesFinite
  <2>. QED  BY <2>1, FS_EmptySet DEF Total
<1>2. PICK p \in Places(queues) : TRUE
  BY <1>1
<1>3. PICK b \in Agents, i \in Nat : i \in 1..Len(queues[b]) /\ p = <<b, i>>
  BY InPlaces
<1>4. a \in Agents /\ Len(queues[b]) <= Len(queues[a])
  BY DEF Longest
<1>5. Len(queues[a]) \in Nat /\ Len(queues[b]) \in Nat
  BY <1>4, LenProperties DEF Queues
<1>. QED  BY <1>3, <1>4, <1>5

-----------------------------------------------------------------------------
(* The invariant                                                           *)

\* The types of all but the queues and the counts.  Who records an event has it.
ThreadsOK ==
  /\ now \in 0..MaxTime /\ made \in 0..MaxEvents
  /\ subscribed \in SUBSET Subscribers /\ until \in [Subscribers -> 0..MaxTime]
  /\ Cardinality(subscribed) <= MaxSubscriptions
  /\ subscriptions_mutex \in Recorders \cup {Free}
  /\ pc \in [Recorders -> {"idle", "made", "stored", "notify", "calling", "stuck"}]
  /\ event \in [Recorders -> Event \cup {NoEvent}]
  /\ \A r \in Recorders : pc[r] # "idle" => event[r] \in Event
  /\ todo \in [Recorders -> SUBSET Subscribers]
  /\ called \in [Recorders -> SUBSET Subscribers]
  /\ running \in BOOLEAN
  /\ cleaner \in {"none", "lock", "blocking", "waiting", "cleaning", "exited"}
  /\ stop \in {"off", "no", "notify", "join", "subscriptions"}

\* The threads that have an event of an agent still to be stored, or to be counted.
Making(a) == {r \in Recorders : pc[r] = "made" /\ event[r].agent = a}
Counting(a) == {r \in Recorders : pc[r] = "stored" /\ event[r].agent = a}

\* No event is stored or counted that was not made, and none twice.
CountsOK ==
  /\ stored \in [Agents -> Nat] /\ stats \in [Agents -> Nat]
  /\ \A a \in Agents : stored[a] + Cardinality(Making(a)) <= made
  /\ \A a \in Agents : stats[a] + Cardinality(Counting(a)) <= stored[a]

QueuesOK ==
  /\ activities \in Queues
  /\ \A a \in Agents : IsNewest(activities[a], stored[a])
  /\ Total(activities) <= MaxEventsBuffer

\* Who calls subscribers has the mutex, and only who calls has a list of them.
LockOK ==
  \A r \in Recorders :
    /\ pc[r] \in {"calling", "stuck"} => subscriptions_mutex = r
    /\ pc[r] \notin {"calling", "stuck"} => todo[r] = {}
    /\ todo[r] \subseteq subscribed

FeedInv == ThreadsOK /\ CountsOK /\ QueuesOK /\ LockOK

\* The sets of threads are finite.
LEMMA ThreadsFinite ==
  ASSUME NEW a
  PROVE  /\ IsFiniteSet(Making(a)) /\ Cardinality(Making(a)) \in Nat
         /\ IsFiniteSet(Counting(a)) /\ Cardinality(Counting(a)) \in Nat
<1>1. Making(a) \in SUBSET Recorders /\ Counting(a) \in SUBSET Recorders
  BY DEF Making, Counting
<1>2. IsFiniteSet(Making(a)) /\ IsFiniteSet(Counting(a))
  BY <1>1, FeedConstantsOK, FS_Subset
<1>. QED  BY <1>2, FS_CardinalityType

\* What the feed keeps is within all limits.
LEMMA QueuesBounded ==
  ASSUME QueuesOK
  PROVE  \A a \in Agents : Len(activities[a]) <= MaxEventsPerAgent
  BY DEF QueuesOK, IsNewest

-----------------------------------------------------------------------------
(* Initially                                                               *)

\* The feed begins empty, with nobody at work.
LEMMA FeedInit == Init => FeedInv
<1>. SUFFICES ASSUME Init  PROVE FeedInv
  OBVIOUS
<1>. USE FeedConstantsOK
<1>1. ThreadsOK
  <2>1. Cardinality(subscribed) = 0
    BY FS_EmptySet DEF Init
  <2>2. 0 \in 0..MaxTime /\ 0 \in 0..MaxEvents /\ 0 <= MaxSubscriptions
    OBVIOUS
  <2>. QED  BY <2>1, <2>2 DEF Init, ThreadsOK
<1>2. CountsOK
  <2>1. \A a \in Agents : Making(a) = {} /\ Counting(a) = {}
    BY DEF Init, Making, Counting
  <2>2. \A a \in Agents : Cardinality(Making(a)) = 0 /\ Cardinality(Counting(a)) = 0
    BY <2>1, FS_EmptySet
  <2>. QED  BY <2>2 DEF Init, CountsOK
<1>3. QueuesOK
  <2>1. activities \in Queues
    BY DEF Init, Queues
  <2>2. \A a \in Agents : IsNewest(activities[a], stored[a])
    BY DEF Init, IsNewest
  <2>3. Places(activities) = {}
    <3>1. \A p : p \notin Places(activities)
      BY <2>1, InPlaces DEF Init
    <3>. QED  BY <3>1
  <2>4. Total(activities) = 0
    BY <2>3, FS_EmptySet DEF Total
  <2>. QED  BY <2>1, <2>2, <2>4 DEF QueuesOK
<1>4. LockOK
  BY DEF Init, LockOK
<1>. QED  BY <1>1, <1>2, <1>3, <1>4 DEF FeedInv

-----------------------------------------------------------------------------
(* The threads                                                             *)

\* A recorder's step goes from one place to another and leaves the rest.
LEMMA ThreadsRecorder ==
  ASSUME ThreadsOK, NEW r \in Recorders, RecorderStep(r)
  PROVE  ThreadsOK'
<1>1. CASE Store(r)
  BY <1>1 DEF Store, ThreadsOK, Goto, subscriptions, workerVars
<1>2. CASE UpdateStats(r)
  BY <1>2 DEF UpdateStats, ThreadsOK, Goto, subscriptions, workerVars
<1>3. CASE Lock(r)
  BY <1>3 DEF Lock, ThreadsOK, Goto, Matching, feed, workerVars
<1>4. CASE Call(r)
  <2>1. PICK s \in todo[r] :
          /\ called' = [called EXCEPT ![r] = @ \cup {s}]
          /\ todo' = [todo EXCEPT ![r] = @ \ {s}]
          /\ Goto(r, "calling", IF s \in Reentrant THEN "stuck" ELSE "calling")
    BY <1>4 DEF Call
  <2>. QED  BY <2>1, <1>4 DEF Call, ThreadsOK, Goto, feed, workerVars
<1>5. CASE Unlock(r)
  BY <1>5 DEF Unlock, ThreadsOK, Goto, feed, workerVars
<1>. QED  BY <1>1, <1>2, <1>3, <1>4, <1>5 DEF RecorderStep

\* Neither those who make events, subscribe and unsubscribe, nor a cleanup disturb them.
LEMMA ThreadsClient ==
  ASSUME ThreadsOK, ClientStep
  PROVE  ThreadsOK'
<1>. USE FeedConstantsOK
<1>1. ASSUME NEW r \in Recorders, NEW a \in Agents, Make(r, a)  PROVE ThreadsOK'
  <2>1. [agent |-> a, stamp |-> now] \in Event
    BY DEF ThreadsOK, Event
  <2>. QED  BY <1>1, <2>1 DEF Make, ThreadsOK, Goto, feed, subscriptions, workerVars
<1>2. ASSUME NEW s \in Subscribers, NEW t \in {now, MaxTime}, Subscribe(s, t)
      PROVE  ThreadsOK'
  <2>1. IsFiniteSet(subscribed)
    BY FS_Subset DEF ThreadsOK
  <2>2. Cardinality(subscribed) \in Nat
    BY <2>1, FS_CardinalityType
  <2>3. Cardinality(subscribed') <= MaxSubscriptions
    <3>1. Cardinality(subscribed \cup {s}) =
            IF s \in subscribed THEN Cardinality(subscribed) ELSE Cardinality(subscribed) + 1
      BY <2>1, FS_AddElement, Zenon
    <3>2. subscribed' = subscribed \cup {s} /\ Cardinality(subscribed) < MaxSubscriptions
      BY <1>2 DEF Subscribe
    <3>3. Cardinality(subscribed \cup {s}) \in Nat
      BY <2>1, FS_AddElement, FS_CardinalityType
    <3>. QED  BY <2>2, <3>1, <3>2, <3>3
  <2>4. t \in 0..MaxTime
    BY DEF ThreadsOK
  <2>. QED  BY <1>2, <2>3, <2>4 DEF Subscribe, ThreadsOK, feed, recorderVars, workerVars
<1>3. ASSUME NEW s \in Subscribers, Unsubscribe(s)  PROVE ThreadsOK'
  <2>1. IsFiniteSet(subscribed)
    BY FS_Subset DEF ThreadsOK
  <2>2. Cardinality(subscribed) \in Nat
    BY <2>1, FS_CardinalityType
  <2>3. Cardinality(subscribed') <= MaxSubscriptions
    <3>1. subscribed' = subscribed \ {s} /\ Cardinality(subscribed) <= MaxSubscriptions
      BY <1>3 DEF Unsubscribe, ThreadsOK
    <3>2. Cardinality(subscribed \ {s}) =
            IF s \in subscribed THEN Cardinality(subscribed) - 1 ELSE Cardinality(subscribed)
      BY <2>1, FS_RemoveElement, Zenon
    <3>3. Cardinality(subscribed \ {s}) \in Nat
      BY <2>1, FS_RemoveElement, FS_CardinalityType
    <3>. QED  BY <2>2, <3>1, <3>2, <3>3
  <2>. QED  BY <1>3, <2>3 DEF Unsubscribe, ThreadsOK, feed, recorderVars, workerVars
<1>4. CASE ForceCleanup
  BY <1>4 DEF ForceCleanup, CleanUp, ThreadsOK, subscriptions, recorderVars
<1>. QED  BY <1>1, <1>2, <1>3, <1>4 DEF ClientStep

\* The cleanup worker, and the thread that initializes and shuts down.
LEMMA ThreadsWorker ==
  ASSUME ThreadsOK, CleanerStep \/ Initialize \/ ShutdownFlag \/ ShutdownStep
  PROVE  ThreadsOK'
<1>. USE DEF ThreadsOK, feed, subscriptions, recorderVars
<1>1. CASE CleanerPredicate \/ CleanerBlock \/ CleanerWake
  BY <1>1 DEF CleanerPredicate, CleanerBlock, CleanerWake, CleanerGoes
<1>2. CASE CleanerCleans
  BY <1>2 DEF CleanerCleans, CleanUp
<1>3. CASE Initialize
  BY <1>3 DEF Initialize
<1>4. CASE ShutdownFlag
  BY <1>4 DEF ShutdownFlag
<1>5. CASE ShutdownNotify
  BY <1>5 DEF ShutdownNotify
<1>6. CASE ShutdownJoin
  BY <1>6 DEF ShutdownJoin
<1>7. CASE ClearSubscriptions
  BY <1>7, FeedConstantsOK, FS_EmptySet DEF ClearSubscriptions
<1>. QED  BY <1>1, <1>2, <1>3, <1>4, <1>5, <1>6, <1>7 DEF CleanerStep, ShutdownStep

\* Every step keeps the types of the threads.
LEMMA ThreadsStep == ASSUME ThreadsOK, [Next]_vars  PROVE ThreadsOK'
<1>1. CASE Tick
  BY <1>1, FeedConstantsOK
     DEF Tick, ThreadsOK, feed, subscriptions, recorderVars, workerVars
<1>2. CASE UNCHANGED vars
  BY <1>2 DEF vars, ThreadsOK, feed, subscriptions, recorderVars, workerVars
<1>. QED  BY <1>1, <1>2, ThreadsClient, ThreadsRecorder, ThreadsWorker DEF Next

-----------------------------------------------------------------------------
(* subscriptions_mutex                                                     *)

\* While the mutex is free nobody has subscribers to call.
LEMMA FreeMeansNoCalls ==
  ASSUME ThreadsOK, LockOK, subscriptions_mutex = Free
  PROVE  \A r \in Recorders : pc[r] \notin {"calling", "stuck"} /\ todo[r] = {}
  BY FeedConstantsOK DEF LockOK

\* One thread goes on where the mutex is not its own, and calls nobody.
LEMMA LockElsewhere ==
  ASSUME ThreadsOK, LockOK, NEW r \in Recorders, NEW from, NEW to, Goto(r, from, to),
         {from, to} \cap {"calling", "stuck"} = {},
         UNCHANGED <<subscribed, subscriptions_mutex, todo>>
  PROVE  LockOK'
  BY DEF ThreadsOK, LockOK, Goto

\* A recorder takes the mutex, calls subscribers that are still subscribed, and gives
\* it back when none is left.
LEMMA LockRecorder ==
  ASSUME ThreadsOK, LockOK, NEW r \in Recorders, RecorderStep(r)
  PROVE  LockOK'
<1>1. CASE Store(r)
  BY <1>1, LockElsewhere DEF Store, subscriptions
<1>2. CASE UpdateStats(r)
  BY <1>2, LockElsewhere DEF UpdateStats, subscriptions
<1>3. CASE Lock(r)
  <2>1. \A q \in Recorders : pc[q] \notin {"calling", "stuck"} /\ todo[q] = {}
    BY <1>3, FreeMeansNoCalls DEF Lock
  <2>2. Matching(event[r]) \subseteq subscribed
    BY DEF Matching
  <2>. QED  BY <1>3, <2>1, <2>2 DEF Lock, ThreadsOK, LockOK, Goto
<1>4. CASE Call(r)
  <2>1. PICK s \in todo[r] :
          /\ todo' = [todo EXCEPT ![r] = @ \ {s}]
          /\ Goto(r, "calling", IF s \in Reentrant THEN "stuck" ELSE "calling")
    BY <1>4 DEF Call
  <2>. QED  BY <2>1, <1>4 DEF Call, ThreadsOK, LockOK, Goto
<1>5. CASE Unlock(r)
  <2>1. \A q \in Recorders \ {r} : pc[q] \notin {"calling", "stuck"}
    BY <1>5 DEF Unlock, Goto, LockOK
  <2>. QED  BY <1>5, <2>1 DEF Unlock, ThreadsOK, LockOK, Goto
<1>. QED  BY <1>1, <1>2, <1>3, <1>4, <1>5 DEF RecorderStep

\* Subscriptions only change while the mutex is free.
LEMMA LockStep == ASSUME ThreadsOK, LockOK, [Next]_vars  PROVE LockOK'
<1>1. ASSUME NEW r \in Recorders, NEW a \in Agents, Make(r, a)  PROVE LockOK'
  BY <1>1, LockElsewhere DEF Make, subscriptions
<1>2. ASSUME NEW s \in Subscribers, NEW t, Subscribe(s, t)  PROVE LockOK'
  BY <1>2 DEF Subscribe, LockOK, recorderVars
<1>3. ASSUME NEW s \in Subscribers, Unsubscribe(s)  PROVE LockOK'
  BY <1>3, FreeMeansNoCalls DEF Unsubscribe, LockOK, recorderVars
<1>4. CASE ClearSubscriptions
  BY <1>4, FreeMeansNoCalls DEF ClearSubscriptions, LockOK, recorderVars
<1>5. CASE \/ Tick \/ ForceCleanup \/ CleanerStep \/ Initialize \/ ShutdownFlag
           \/ ShutdownNotify \/ ShutdownJoin \/ UNCHANGED vars
  <2>1. UNCHANGED <<subscribed, subscriptions_mutex, pc, todo>>
    BY <1>5 DEF Tick, ForceCleanup, CleanUp, CleanerStep, CleanerPredicate, CleanerBlock,
       CleanerWake, CleanerGoes, CleanerCleans, Initialize, ShutdownFlag, ShutdownNotify,
       ShutdownJoin, vars, subscriptions, recorderVars
  <2>. QED  BY <2>1 DEF LockOK
<1>. QED
  BY <1>1, <1>2, <1>3, <1>4, <1>5, LockRecorder DEF Next, ClientStep, ShutdownStep

-----------------------------------------------------------------------------
(* The counts                                                              *)

\* A thread that is neither before the queues nor before the statistics may go on, and
\* so may everybody else: nothing is counted.
LEMMA CountsElsewhere ==
  ASSUME CountsOK, UNCHANGED <<made, stored, stats>>,
         \A a \in Agents : Making(a)' = Making(a) /\ Counting(a)' = Counting(a)
  PROVE  CountsOK'
  BY DEF CountsOK

\* An event that is made is one more to be stored.
LEMMA CountsMake ==
  ASSUME ThreadsOK, CountsOK, NEW r \in Recorders, NEW a \in Agents, Make(r, a)
  PROVE  CountsOK'
<1>1. pc[r] = "idle" /\ pc' = [pc EXCEPT ![r] = "made"]
      /\ event' = [event EXCEPT ![r] = [agent |-> a, stamp |-> now]]
      /\ made' = made + 1 /\ UNCHANGED <<stats, stored>>
  BY DEF Make, Goto, feed
<1>2. \A b \in Agents : Making(b)' = IF b = a THEN Making(b) \cup {r} ELSE Making(b)
  BY <1>1 DEF Making, ThreadsOK
<1>3. \A b \in Agents : Counting(b)' = Counting(b)
  BY <1>1 DEF Counting, ThreadsOK
<1>4. ASSUME NEW b \in Agents  PROVE stored[b] + Cardinality(Making(b)') <= made + 1
  <2>1. Cardinality(Making(b) \cup {r}) = IF r \in Making(b) THEN Cardinality(Making(b))
                                          ELSE Cardinality(Making(b)) + 1
    BY ThreadsFinite, FS_AddElement, Zenon
  <2>2. stored[b] + Cardinality(Making(b)) <= made
    BY DEF CountsOK
  <2>3. stored[b] \in Nat /\ made \in Nat /\ Cardinality(Making(b)) \in Nat
    BY ThreadsFinite DEF CountsOK, ThreadsOK
  <2>4. Making(b)' = Making(b) \/ Making(b)' = Making(b) \cup {r}
    BY <1>2
  <2>. QED  BY <2>1, <2>2, <2>3, <2>4
<1>. QED  BY <1>1, <1>3, <1>4 DEF CountsOK

\* An event that is stored is one less to be stored and one more to be counted.
LEMMA CountsStore ==
  ASSUME ThreadsOK, CountsOK, NEW r \in Recorders, Store(r)
  PROVE  CountsOK'
<1>. DEFINE a == event[r].agent
<1>1. pc[r] = "made" /\ pc' = [pc EXCEPT ![r] = "stored"]
      /\ stored' = [stored EXCEPT ![a] = @ + 1]
      /\ UNCHANGED <<made, stats, event>>
  BY DEF Store, Goto
<1>2. a \in Agents
  BY <1>1 DEF ThreadsOK, Event
<1>. HIDE DEF a
<1>3. \A b \in Agents : /\ Making(b)' = IF b = a THEN Making(b) \ {r} ELSE Making(b)
                        /\ Counting(b)' = IF b = a THEN Counting(b) \cup {r} ELSE Counting(b)
  BY <1>1 DEF Making, Counting, ThreadsOK, a
<1>4. stored' \in [Agents -> Nat]
  BY <1>1, <1>2 DEF CountsOK
<1>5. ASSUME NEW b \in Agents
      PROVE  /\ stored'[b] + Cardinality(Making(b)') <= made
             /\ stats[b] + Cardinality(Counting(b)') <= stored'[b]
  <2>1. /\ stored[b] \in Nat /\ stats[b] \in Nat /\ made \in Nat
        /\ stored[b] + Cardinality(Making(b)) <= made
        /\ stats[b] + Cardinality(Counting(b)) <= stored[b]
        /\ Cardinality(Making(b)) \in Nat /\ Cardinality(Counting(b)) \in Nat
    BY ThreadsFinite DEF CountsOK, ThreadsOK
  <2>2. CASE b # a
    BY <2>1, <2>2, <1>1, <1>2, <1>3 DEF CountsOK
  <2>3. CASE b = a
    <3>1. r \in Making(b) /\ r \notin Counting(b)
      BY <2>3, <1>1 DEF Making, Counting, a
    <3>2. Cardinality(Making(b) \ {r}) = Cardinality(Making(b)) - 1
      BY <3>1, ThreadsFinite, FS_RemoveElement, Zenon
    <3>3. Cardinality(Counting(b) \cup {r}) = Cardinality(Counting(b)) + 1
      BY <3>1, ThreadsFinite, FS_AddElement, Zenon
    <3>4. stored'[b] = stored[b] + 1
      BY <2>3, <1>1, <1>2 DEF CountsOK
    <3>5. Making(b)' = Making(b) \ {r} /\ Counting(b)' = Counting(b) \cup {r}
      BY <2>3, <1>3
    <3>. QED  BY <2>1, <3>2, <3>3, <3>4, <3>5
  <2>. QED  BY <2>2, <2>3
<1>. QED  BY <1>1, <1>4, <1>5 DEF CountsOK

\* An event that is counted, or whose count is lost, is one less to be counted.
LEMMA CountsUpdate ==
  ASSUME ThreadsOK, CountsOK, NEW r \in Recorders, UpdateStats(r)
  PROVE  CountsOK'
<1>. DEFINE a == event[r].agent
<1>1. /\ pc[r] = "stored" /\ pc' = [pc EXCEPT ![r] = "notify"]
      /\ stats' = [stats EXCEPT ![a] = @ + 1] \/ stats' = stats
      /\ UNCHANGED <<made, stored, event>>
  BY DEF UpdateStats, Goto
<1>2. a \in Agents
  BY <1>1 DEF ThreadsOK, Event
<1>. HIDE DEF a
<1>3. \A b \in Agents : /\ Making(b)' = Making(b)
                        /\ Counting(b)' = IF b = a THEN Counting(b) \ {r} ELSE Counting(b)
  BY <1>1 DEF Making, Counting, ThreadsOK, a
<1>4. stats' \in [Agents -> Nat]
  BY <1>1, <1>2 DEF CountsOK
<1>5. ASSUME NEW b \in Agents  PROVE stats'[b] + Cardinality(Counting(b)') <= stored[b]
  <2>1. /\ stored[b] \in Nat /\ stats[b] \in Nat
        /\ stats[b] + Cardinality(Counting(b)) <= stored[b]
        /\ Cardinality(Counting(b)) \in Nat
    BY ThreadsFinite DEF CountsOK
  <2>2. CASE b # a
    BY <2>1, <2>2, <1>1, <1>2, <1>3 DEF CountsOK
  <2>3. CASE b = a
    <3>1. r \in Counting(b)
      BY <2>3, <1>1 DEF Counting, a
    <3>2. Cardinality(Counting(b) \ {r}) = Cardinality(Counting(b)) - 1
      BY <3>1, ThreadsFinite, FS_RemoveElement, Zenon
    <3>3. stats'[b] <= stats[b] + 1 /\ stats'[b] \in Nat
      BY <2>1, <2>3, <1>1, <1>2, <1>4 DEF CountsOK
    <3>4. Counting(b)' = Counting(b) \ {r}
      BY <2>3, <1>3
    <3>. QED  BY <2>1, <3>2, <3>3, <3>4
  <2>. QED  BY <2>2, <2>3
<1>. QED  BY <1>1, <1>3, <1>4, <1>5 DEF CountsOK

\* Every step keeps the counts below each other.
LEMMA CountsStep == ASSUME ThreadsOK, CountsOK, [Next]_vars  PROVE CountsOK'
<1>1. ASSUME NEW r \in Recorders, Lock(r) \/ Call(r) \/ Unlock(r)  PROVE CountsOK'
  <2>1. PICK from \in {"notify", "calling"}, to \in {"idle", "calling", "stuck"} :
          Goto(r, from, to)
    BY <1>1 DEF Lock, Call, Unlock
  <2>2. event' = event \/ event' = [event EXCEPT ![r] = NoEvent]
    BY <1>1 DEF Lock, Call, Unlock
  <2>3. \A a \in Agents : Making(a)' = Making(a) /\ Counting(a)' = Counting(a)
    BY <2>1, <2>2 DEF Goto, Making, Counting, ThreadsOK
  <2>4. UNCHANGED <<made, stored, stats>>
    BY <1>1 DEF Lock, Call, Unlock, feed
  <2>. QED  BY <2>3, <2>4, CountsElsewhere
<1>2. CASE \/ Tick \/ ForceCleanup \/ CleanerStep \/ Initialize \/ ShutdownFlag
           \/ ShutdownStep \/ UNCHANGED vars
           \/ \E s \in Subscribers, t \in {now, MaxTime} : Subscribe(s, t)
           \/ \E s \in Subscribers : Unsubscribe(s)
  <2>1. UNCHANGED <<made, stored, stats, pc, event>>
    BY <1>2 DEF Tick, ForceCleanup, CleanUp, CleanerStep, CleanerPredicate, CleanerBlock,
       CleanerWake, CleanerGoes, CleanerCleans, Initialize, ShutdownFlag, ShutdownStep,
       ShutdownNotify, ShutdownJoin, ClearSubscriptions, Subscribe, Unsubscribe, vars, feed,
       recorderVars
  <2>2. \A a \in Agents : Making(a)' = Making(a) /\ Counting(a)' = Counting(a)
    BY <2>1 DEF Making, Counting
  <2>. QED  BY <2>1, <2>2, CountsElsewhere
<1>. QED
  BY <1>1, <1>2, CountsMake, CountsStore, CountsUpdate DEF Next, ClientStep, RecorderStep

-----------------------------------------------------------------------------
(* The queues                                                              *)

\* A new event in the queue of an agent: at most one event more, and all within the limit
\* for an agent.
LEMMA PushQueues ==
  ASSUME ThreadsOK, CountsOK, QueuesOK, NEW a \in Agents, NEW e \in Entry,
         e.number = stored[a] + 1
  PROVE  LET p == Pushed(a, e)
         IN  /\ p \in Queues
             /\ IsNewest(p[a], stored[a] + 1)
             /\ \A b \in Agents \ {a} : p[b] = activities[b]
             /\ Total(p) \in Nat /\ Total(p) <= MaxEventsBuffer + 1
<1>. DEFINE p == Pushed(a, e)
            q == activities[a]
            r == Append(IF Len(q) >= MaxEventsPerAgent THEN Tail(q) ELSE q, e)
<1>1. /\ activities \in Queues /\ IsNewest(q, stored[a]) /\ stored[a] \in Nat
      /\ \A b \in Agents : Len(activities[b]) <= MaxEventsPerAgent
      /\ Total(activities) <= MaxEventsBuffer
  BY QueuesBounded DEF QueuesOK, CountsOK
<1>2. IsNewest(r, stored[a] + 1) /\ (Len(r) = Len(q) \/ Len(r) = Len(q) + 1)
  BY <1>1, PushedIsNewest
<1>3. p = [activities EXCEPT ![a] = r]
  BY DEF Pushed
<1>4. r \in Seq(Entry) /\ Len(r) <= MaxEventsPerAgent
  BY <1>2 DEF IsNewest
<1>. HIDE DEF p, r
<1>5. /\ p \in Queues /\ p[a] = r
      /\ \A b \in Agents \ {a} : p[b] = activities[b]
  BY <1>1, <1>3, <1>4 DEF Queues
<1>6. \A b \in Agents : Len(p[b]) <= MaxEventsPerAgent
  BY <1>1, <1>4, <1>5
<1>7. Total(p) \in Nat /\ Total(activities) \in Nat /\ MaxEventsBuffer \in Nat
  BY <1>1, <1>5, <1>6, PlacesFinite, FeedConstantsOK
<1>8. CASE Len(r) = Len(q)
  <2>1. \A b \in Agents : Len(p[b]) <= Len(activities[b])
    <3>1. \A b \in Agents : Len(activities[b]) \in Nat
      BY <1>1, LenProperties DEF Queues
    <3>. QED  BY <3>1, <1>5, <1>8
  <2>2. Total(p) <= Total(activities)
    BY <2>1, <1>1, <1>5, TotalShrinks
  <2>. QED  BY <2>2, <1>1, <1>2, <1>5, <1>7 DEF p
<1>9. CASE Len(r) = Len(q) + 1
  <2>1. Total(p) = Total(activities) + 1
    BY <1>1, <1>5, <1>9, TotalGrows
  <2>. QED  BY <2>1, <1>1, <1>2, <1>5, <1>7 DEF p
<1>. QED  BY <1>2, <1>8, <1>9

\* One round of the loop brings the feed back within its limit: the longest queue has an
\* event to give.
LEMMA TrimQueues ==
  ASSUME NEW n \in [Agents -> Nat], NEW p \in Queues,
         \A a \in Agents : IsNewest(p[a], n[a]),
         Total(p) <= MaxEventsBuffer + 1,
         NEW t \in Trimmed(p)
  PROVE  /\ t \in Queues
         /\ \A a \in Agents : IsNewest(t[a], n[a])
         /\ Total(t) <= MaxEventsBuffer
<1>1. /\ \A a \in Agents : Len(p[a]) <= MaxEventsPerAgent
      /\ MaxEventsBuffer \in Nat \ {0}
  BY FeedConstantsOK DEF IsNewest
<1>2. Total(p) \in Nat
  BY <1>1, PlacesFinite
<1>3. CASE Total(p) <= MaxEventsBuffer
  BY <1>3 DEF Trimmed
<1>4. CASE ~(Total(p) <= MaxEventsBuffer)
  <2>1. PICK a \in Longest(p) : t = [p EXCEPT ![a] = Tail(@)]
    BY <1>4 DEF Trimmed
  <2>2. a \in Agents
    BY DEF Longest
  <2>3. Len(p[a]) \in Nat \ {0}
    <3>1. Total(p) > 0
      BY <1>1, <1>2, <1>4
    <3>. QED  BY <3>1, <1>1, LongestNotEmpty
  <2>4. IsNewest(Tail(p[a]), n[a]) /\ Len(Tail(p[a])) = Len(p[a]) - 1
    BY <2>2, <2>3, TailIsNewest
  <2>5. /\ t \in Queues /\ t[a] = Tail(p[a])
        /\ \A b \in Agents \ {a} : p[b] = t[b]
    BY <2>1, <2>2, <2>4 DEF Queues, IsNewest
  <2>6. \A b \in Agents : IsNewest(t[b], n[b])
    BY <2>4, <2>5
  <2>7. \A b \in Agents : Len(t[b]) <= MaxEventsPerAgent
    BY <2>6 DEF IsNewest
  <2>8. Total(p) = Total(t) + 1
    <3>1. Len(p[a]) = Len(t[a]) + 1
      BY <2>3, <2>4, <2>5
    <3>. QED  BY <3>1, <2>2, <2>5, <2>7, TotalGrows
  <2>9. Total(t) \in Nat
    BY <2>5, <2>7, PlacesFinite
  <2>. QED  BY <2>5, <2>6, <2>8, <2>9, <1>1, <1>2
<1>. QED  BY <1>3, <1>4

\* Storing an event pushes it and trims the queues to the limits.
LEMMA QueuesStore ==
  ASSUME ThreadsOK, CountsOK, QueuesOK, NEW r \in Recorders, Store(r), ThreadsOK', CountsOK'
  PROVE  QueuesOK'
<1>1. event[r] \in Event
  BY DEF Store, Goto, ThreadsOK
<1>2. PICK a \in Agents : a = event[r].agent
  BY <1>1 DEF Event
<1>. DEFINE e == [number |-> stored'[a], stamp |-> event[r].stamp]
            p == Pushed(a, e)
<1>3. stored' = [stored EXCEPT ![a] = @ + 1] /\ activities' \in Trimmed(p)
  BY <1>2 DEF Store
<1>4. stored'[a] = stored[a] + 1 /\ stored[a] \in Nat
  BY <1>2, <1>3 DEF CountsOK
<1>5. stored'[a] \in 1..MaxEvents
  <2>1. stored'[a] \in Nat /\ stored'[a] + Cardinality(Making(a))' <= made'
    BY <1>2 DEF CountsOK
  <2>2. Cardinality(Making(a))' \in Nat
    <3>1. Making(a)' \in SUBSET Recorders
      BY DEF Making
    <3>. QED  BY <3>1, FeedConstantsOK, FS_Subset, FS_CardinalityType
  <2>3. made' \in 0..MaxEvents /\ MaxEvents \in Nat
    BY FeedConstantsOK DEF ThreadsOK
  <2>. QED  BY <2>1, <2>2, <2>3, <1>4
<1>6. e \in Entry /\ e.number = stored[a] + 1
  BY <1>1, <1>4, <1>5 DEF Entry, Event
<1>. HIDE DEF e
<1>7. /\ p \in Queues
      /\ IsNewest(p[a], stored[a] + 1)
      /\ \A b \in Agents \ {a} : p[b] = activities[b]
      /\ Total(p) <= MaxEventsBuffer + 1
  BY <1>2, <1>6, PushQueues
<1>. HIDE DEF p
<1>8. \A b \in Agents : IsNewest(p[b], stored'[b])
  BY <1>2, <1>3, <1>4, <1>7 DEF QueuesOK, CountsOK
<1>9. stored' \in [Agents -> Nat]
  BY DEF CountsOK
<1>10. /\ activities' \in Queues
       /\ \A b \in Agents : IsNewest(activities'[b], stored'[b])
       /\ Total(activities') <= MaxEventsBuffer
  BY <1>3, <1>7, <1>8, <1>9, TrimQueues
<1>. QED  BY <1>10 DEF QueuesOK, IsNewest, Total, Places

\* A cleanup removes expired events from the old ends.
LEMMA QueuesCleanUp ==
  ASSUME CountsOK, QueuesOK, CleanUp
  PROVE  QueuesOK'
<1>. DEFINE f == [a \in Agents |-> Fresh(activities[a])]
<1>1. activities' = f /\ stored' = stored
  BY DEF CleanUp
<1>2. ASSUME NEW a \in Agents
      PROVE  IsNewest(Fresh(activities[a]), stored[a])
             /\ Len(Fresh(activities[a])) <= Len(activities[a])
  BY FreshIsNewest DEF QueuesOK, CountsOK
<1>3. f \in Queues
  BY <1>2 DEF Queues, IsNewest
<1>4. \A a \in Agents : f[a] = Fresh(activities[a])
  OBVIOUS
<1>. HIDE DEF f
<1>5. Total(f) <= Total(activities)
  BY <1>2, <1>3, <1>4, QueuesBounded, TotalShrinks DEF QueuesOK
<1>6. /\ \A a \in Agents : Len(f[a]) <= MaxEventsPerAgent
      /\ \A a \in Agents : Len(activities[a]) <= MaxEventsPerAgent
  BY <1>2, <1>4, QueuesBounded DEF IsNewest
<1>7. Total(f) \in Nat /\ Total(activities) \in Nat /\ MaxEventsBuffer \in Nat
  BY <1>3, <1>6, PlacesFinite, FeedConstantsOK DEF QueuesOK
<1>8. Total(f) <= MaxEventsBuffer
  BY <1>5, <1>7 DEF QueuesOK
<1>. QED  BY <1>1, <1>2, <1>3, <1>4, <1>8 DEF QueuesOK, IsNewest, Total, Places

\* Every step keeps the queues gapless and within the limits.
LEMMA QueuesStep ==
  ASSUME ThreadsOK, CountsOK, QueuesOK, [Next]_vars, ThreadsOK', CountsOK'
  PROVE  QueuesOK'
<1>1. CASE ForceCleanup \/ CleanerCleans
  BY <1>1, QueuesCleanUp DEF ForceCleanup, CleanerCleans
<1>2. CASE \/ Tick \/ CleanerPredicate \/ CleanerBlock \/ CleanerWake \/ Initialize
           \/ ShutdownFlag \/ ShutdownStep \/ UNCHANGED vars
           \/ \E r \in Recorders, a \in Agents : Make(r, a)
           \/ \E s \in Subscribers, t \in {now, MaxTime} : Subscribe(s, t)
           \/ \E s \in Subscribers : Unsubscribe(s)
           \/ \E r \in Recorders : UpdateStats(r) \/ Lock(r) \/ Call(r) \/ Unlock(r)
  <2>1. UNCHANGED <<activities, stored>>
    BY <1>2 DEF Tick, CleanerPredicate, CleanerBlock, CleanerWake, CleanerGoes, Initialize,
       ShutdownFlag, ShutdownStep, ShutdownNotify, ShutdownJoin, ClearSubscriptions, Make,
       Subscribe, Unsubscribe, UpdateStats, Lock, Call, Unlock, vars, feed
  <2>. QED  BY <2>1 DEF QueuesOK, IsNewest, Total, Places
<1>. QED  BY <1>1, <1>2, QueuesStore DEF Next, ClientStep, RecorderStep, CleanerStep

-----------------------------------------------------------------------------
(* The theorems                                                            *)

\* What is true of the feed in every state.
THEOREM FeedInvariant == Spec => []FeedInv
<1>1. FeedInv /\ [Next]_vars => FeedInv'
  <2>. SUFFICES ASSUME FeedInv, [Next]_vars  PROVE FeedInv'
    OBVIOUS
  <2>1. ThreadsOK' /\ CountsOK' /\ LockOK'
    BY ThreadsStep, CountsStep, LockStep DEF FeedInv
  <2>2. QueuesOK'
    BY <2>1, QueuesStep DEF FeedInv
  <2>. QED  BY <2>1, <2>2 DEF FeedInv
<1>. QED  BY FeedInit, <1>1, PTL DEF Spec

\* The types and the limits: an agent has at most MaxEventsPerAgent events in the feed
\* and the feed at most MaxEventsBuffer (record_activity), there are at most
\* MaxSubscriptions (subscribe), and no event is counted that was not made.
THEOREM TypeOKHolds == Spec => []TypeOK
<1>1. FeedInv => TypeOK
  <2>. SUFFICES ASSUME FeedInv  PROVE TypeOK
    OBVIOUS
  <2>1. ASSUME NEW a \in Agents  PROVE stored[a] \in 0..MaxEvents /\ stats[a] \in 0..MaxEvents
    <3>1. /\ stored[a] \in Nat /\ stats[a] \in Nat
          /\ stored[a] + Cardinality(Making(a)) <= made
          /\ stats[a] + Cardinality(Counting(a)) <= stored[a]
      BY DEF FeedInv, CountsOK
    <3>2. made \in 0..MaxEvents /\ MaxEvents \in Nat
      BY FeedConstantsOK DEF FeedInv, ThreadsOK
    <3>. QED  BY <3>1, <3>2, ThreadsFinite
  <2>2. stored \in [Agents -> 0..MaxEvents] /\ stats \in [Agents -> 0..MaxEvents]
    BY <2>1 DEF FeedInv, CountsOK
  <2>3. /\ activities \in [Agents -> Seq(Entry)]
        /\ \A a \in Agents : Len(activities[a]) <= MaxEventsPerAgent
        /\ Total(activities) <= MaxEventsBuffer
    BY QueuesBounded DEF FeedInv, QueuesOK, Queues
  <2>. QED  BY <2>2, <2>3 DEF FeedInv, ThreadsOK, TypeOK
<1>. QED  BY FeedInvariant, <1>1, PTL

\* Whatever the limits and the cleanup take from a queue, what is left of it are the last
\* events stored for the agent, without a gap.
THEOREM KeepsNewestHolds == Spec => []KeepsNewest
<1>1. FeedInv => KeepsNewest
  BY DEF FeedInv, QueuesOK, IsNewest, KeepsNewest
<1>. QED  BY FeedInvariant, <1>1, PTL

\* notify_subscribers calls nobody whose unsubscribe has returned.
THEOREM CallsOnlySubscribersHolds == Spec => []CallsOnlySubscribers
<1>1. FeedInv => CallsOnlySubscribers
  BY DEF FeedInv, LockOK, CallsOnlySubscribers
<1>. QED  BY FeedInvariant, <1>1, PTL
==============================================================================
