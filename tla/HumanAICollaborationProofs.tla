--------------------- MODULE HumanAICollaborationProofs ---------------------
(***************************************************************************)
(* What holds of the sessions and requests of HumanAICollaboration for any *)
(* users, agents, limits and timeouts.  TypeOK and OneEnd are not          *)
(* inductive: that a session is completed once, unless it is overwritten,  *)
(* rests on the sessions being told apart by their numbers, all of which   *)
(* are at most the number of sessions created, and on the counts of the    *)
(* numbers not yet given being zero.                                       *)
(***************************************************************************)
EXTENDS HumanAICollaboration, FiniteSetTheorems, TLAPS

SessionsOK ==
  /\ sessions \in SUBSET Session
  /\ IsFiniteSet(sessions)
  /\ created \in 0..MaxCreated
  /\ \A s \in sessions : s.number <= created
  /\ \A s, t \in sessions : s.number = t.number => s = t

WithinLimit == \A u \in Users : Cardinality(SessionsOf(u)) <= MaxSessionsPerUser

Completed(n) == ~Active(n) /\ n \notin overwritten

EndsOK ==
  /\ ends \in [1..MaxCreated -> Nat]
  /\ \A n \in 1..MaxCreated : ends[n] = IF n <= created /\ Completed(n) THEN 1 ELSE 0
  /\ overwritten \subseteq 1..created
  /\ \A n \in overwritten : ~Active(n)

RequestsOK ==
  /\ pending \in SUBSET [number : Nat, agent : Agents, at : Time, expires : Nat]
  /\ IsFiniteSet(pending)
  /\ Cardinality(pending) <= MaxActiveRequests

ThreadsOK ==
  /\ now \in Time
  /\ users \in SUBSET Users /\ assigned \in [Users -> SUBSET Agents]
  /\ calls \in [Users \X Agents -> 0..MaxCalls]
  /\ running \in BOOLEAN
  /\ cleaner \in {"none", "test", "lock", "waiting", "sessions", "requests", "exited"}
  /\ stop \in {"off", "no", "notify", "join", "sessions"}

ShutdownOK == before \in 0..created /\ ShutdownEndsSessions

CollaborationInv ==
  SessionsOK /\ WithinLimit /\ EndsOK /\ RequestsOK /\ ThreadsOK /\ ShutdownOK

-----------------------------------------------------------------------------
(* Counting                                                                *)

\* Of the sessions that are taken off the list at most one has a given number.
LEMMA GoneOnce ==
  ASSUME SessionsOK, NEW gone \in SUBSET sessions, NEW n \in 1..MaxCreated
  PROVE  Cardinality({s \in gone : s.number = n}) =
           IF \E s \in gone : s.number = n THEN 1 ELSE 0
<1>1. CASE \E s \in gone : s.number = n
  <2>1. PICK s \in gone : s.number = n
    BY <1>1
  <2>2. {x \in gone : x.number = n} = {s}
    BY <2>1 DEF SessionsOK
  <2> QED
    BY <1>1, <2>2, FS_Singleton
<1>2. CASE ~ \E s \in gone : s.number = n
  <2>1. {x \in gone : x.number = n} = {}
    BY <1>2
  <2> QED
    BY <1>2, <2>1, FS_EmptySet
<1> QED
  BY <1>1, <1>2

\* A part of a finite set is finite and not larger.
LEMMA PartSize ==
  ASSUME NEW S, IsFiniteSet(S), NEW T \in SUBSET S, NEW k \in Nat, Cardinality(S) <= k
  PROVE  IsFiniteSet(T) /\ Cardinality(T) <= k
<1>1. IsFiniteSet(T) /\ Cardinality(T) <= Cardinality(S)
  BY FS_Subset
<1>2. Cardinality(T) \in Nat /\ Cardinality(S) \in Nat
  BY <1>1, FS_CardinalityType
<1> QED
  BY <1>1, <1>2

\* One more element adds at most one.
LEMMA OneMore ==
  ASSUME NEW S, IsFiniteSet(S), NEW e, NEW k \in Nat, Cardinality(S) < k
  PROVE  IsFiniteSet(S \cup {e}) /\ Cardinality(S \cup {e}) <= k
<1>1. /\ IsFiniteSet(S \cup {e})
      /\ Cardinality(S \cup {e}) = IF e \in S THEN Cardinality(S) ELSE Cardinality(S) + 1
  BY FS_AddElement
<1>2. Cardinality(S) \in Nat
  BY FS_CardinalityType
<1> QED
  BY <1>1, <1>2

\* Replacing an element does not make a set larger.
LEMMA OneReplaced ==
  ASSUME NEW S, IsFiniteSet(S), NEW s \in S, NEW e
  PROVE  /\ IsFiniteSet((S \ {s}) \cup {e})
         /\ Cardinality((S \ {s}) \cup {e}) <= Cardinality(S)
<1>1. IsFiniteSet(S \ {s}) /\ Cardinality(S \ {s}) = Cardinality(S) - 1
  BY FS_RemoveElement
<1>2. Cardinality(S) \in Nat /\ Cardinality(S \ {s}) \in Nat
  BY <1>1, FS_CardinalityType
<1>3. Cardinality(S \ {s}) < Cardinality(S)
  BY <1>1, <1>2
<1>4. IsFiniteSet(S \ {s})
  BY FS_RemoveElement
<1> QED
  BY <1>2, <1>3, <1>4, OneMore

-----------------------------------------------------------------------------
(* What happens to sessions                                                *)

\* However sessions come to an end (end_session, the timeout, the shutdown), those
\* that are left keep what holds of all, and those that are gone have one end.
LEMMA EndKeeps ==
  ASSUME CollaborationInv, NEW gone \in SUBSET sessions, End(gone),
         UNCHANGED <<created, overwritten>>
  PROVE  SessionsOK' /\ WithinLimit' /\ EndsOK'
<1> USE CollaborationConstantsOK DEF CollaborationInv
<1>1. sessions' = sessions \ gone /\ ends' = Ended(gone)
  BY DEF End
<1>2. SessionsOK'
  <2>1. IsFiniteSet(sessions')
    BY <1>1, FS_Subset DEF SessionsOK
  <2> QED
    BY <1>1, <2>1 DEF SessionsOK
<1>3. WithinLimit'
  <2> SUFFICES ASSUME NEW u \in Users
               PROVE  Cardinality(SessionsOf(u)') <= MaxSessionsPerUser
    BY DEF WithinLimit
  <2>1. SessionsOf(u)' \in SUBSET SessionsOf(u)
    BY <1>1 DEF SessionsOf
  <2>2. IsFiniteSet(SessionsOf(u))
    BY FS_Subset DEF SessionsOf, SessionsOK
  <2>3. Cardinality(SessionsOf(u)) <= MaxSessionsPerUser
    BY DEF WithinLimit
  <2> QED
    BY <2>1, <2>2, <2>3, PartSize
<1>4. EndsOK'
  <2>1. ASSUME NEW n \in 1..MaxCreated
        PROVE  ends'[n] = IF n <= created /\ Completed(n)' THEN 1 ELSE 0
    <3>1. ends'[n] = ends[n] + IF \E s \in gone : s.number = n THEN 1 ELSE 0
      BY <1>1, GoneOnce DEF Ended
    <3>2. ends[n] = IF n <= created /\ Completed(n) THEN 1 ELSE 0
      BY DEF EndsOK
    <3>3. CASE \E s \in gone : s.number = n
      <4>1. PICK s \in gone : s.number = n
        BY <3>3
      <4>2. Active(n) /\ n <= created /\ n \notin overwritten
        BY <4>1 DEF Active, SessionsOK, EndsOK
      <4>3. ~Active(n)'
        BY <1>1, <4>1 DEF Active, SessionsOK
      <4> QED
        BY <3>1, <3>2, <3>3, <4>2, <4>3 DEF Completed
    <3>4. CASE ~ \E s \in gone : s.number = n
      <4>1. Active(n)' <=> Active(n)
        BY <1>1, <3>4 DEF Active
      <4> QED
        BY <3>1, <3>2, <3>4, <4>1 DEF Completed
    <3> QED
      BY <3>3, <3>4
  <2>2. ends' \in [1..MaxCreated -> Nat]
    <3>1. ends' = [n \in 1..MaxCreated |-> ends'[n]]
      BY <1>1 DEF Ended
    <3>2. ASSUME NEW n \in 1..MaxCreated
          PROVE  ends'[n] \in Nat
      BY <2>1
    <3> QED
      BY <3>1, <3>2
  <2>3. \A n \in overwritten : ~Active(n)'
    BY <1>1 DEF Active, EndsOK
  <2> QED
    BY <2>1, <2>2, <2>3 DEF EndsOK
<1> QED
  BY <1>2, <1>3, <1>4

\* create_session adds a session with a number of its own, and overwrites the one of
\* the same id.
LEMMA CreateKeeps ==
  ASSUME CollaborationInv, NEW u \in Users, NEW a \in Agents,
         Cardinality(SessionsOf(u)) < MaxSessionsPerUser, Create(u, a)
  PROVE  /\ SessionsOK' /\ WithinLimit' /\ EndsOK'
         /\ created' = created + 1
         /\ \A s \in sessions' : s \in sessions \/ s.number = created'
<1> USE CollaborationConstantsOK DEF CollaborationInv
<1> DEFINE s0 == [user |-> u, agent |-> a, at |-> now, number |-> created', last |-> now,
                  messages |-> 0]
<1>1. created < MaxCreated /\ created' = created + 1
  BY DEF Create
<1>2. PICK same \in {{}} \cup {{s} : s \in {x \in SessionsOf(u) : x.agent = a /\ x.at = now}} :
        /\ sessions' = (sessions \ same) \cup {s0}
        /\ overwritten' = overwritten \cup {s.number : s \in same}
  BY DEF Create
<1>e. ends' = ends
  BY DEF Create
<1>3. same \in SUBSET sessions
  BY <1>2 DEF SessionsOf
<1>4. created \in Nat /\ created + 1 \in 1..MaxCreated
  BY <1>1 DEF SessionsOK
<1>5. s0 \in Session /\ s0.number = created + 1 /\ s0.user = u
  BY <1>1, <1>4 DEF Session, ThreadsOK, Time
<1> HIDE DEF s0
<1>6. SessionsOK'
  <2>1. IsFiniteSet(sessions \ same)
    BY FS_Subset DEF SessionsOK
  <2>2. IsFiniteSet(sessions')
    BY <1>2, <2>1, FS_AddElement
  <2>3. sessions' \in SUBSET Session
    BY <1>2, <1>5 DEF SessionsOK
  <2>4. ASSUME NEW s \in sessions
        PROVE  s.number \in Nat /\ s.number <= created
    BY DEF SessionsOK, Session
  <2>5. ASSUME NEW s \in sessions'
        PROVE  s.number <= created'
    <3>1. CASE s = s0
      BY <3>1, <1>1, <1>4, <1>5
    <3>2. CASE s # s0
      BY <3>2, <1>1, <1>2, <1>4, <2>4
    <3> QED
      BY <3>1, <3>2
  <2>6. ASSUME NEW s \in sessions', NEW t \in sessions', s.number = t.number
        PROVE  s = t
    <3>1. CASE s \in sessions /\ t \in sessions
      BY <3>1, <2>6 DEF SessionsOK
    <3>2. CASE s \notin sessions
      <4>1. s = s0
        BY <3>2, <1>2
      <4>2. t \notin sessions
        BY <4>1, <1>4, <1>5, <2>4, <2>6
      <4> QED
        BY <4>1, <4>2, <1>2
    <3>3. CASE t \notin sessions
      <4>1. t = s0
        BY <3>3, <1>2
      <4>2. s \notin sessions
        BY <4>1, <1>4, <1>5, <2>4, <2>6
      <4> QED
        BY <4>1, <4>2, <1>2
    <3> QED
      BY <3>1, <3>2, <3>3
  <2>7. created' \in 0..MaxCreated
    BY <1>1, <1>4
  <2> QED
    BY <2>2, <2>3, <2>5, <2>6, <2>7 DEF SessionsOK
<1>7. WithinLimit'
  <2> SUFFICES ASSUME NEW v \in Users
               PROVE  Cardinality(SessionsOf(v)') <= MaxSessionsPerUser
    BY DEF WithinLimit
  <2>1. IsFiniteSet(SessionsOf(v))
    BY FS_Subset DEF SessionsOf, SessionsOK
  <2>2. CASE v = u
    <3>1. IsFiniteSet(SessionsOf(u) \cup {s0})
          /\ Cardinality(SessionsOf(u) \cup {s0}) <= MaxSessionsPerUser
      BY <2>1, <2>2, OneMore
    <3>2. SessionsOf(v)' \in SUBSET (SessionsOf(u) \cup {s0})
      BY <1>2, <2>2 DEF SessionsOf
    <3> QED
      BY <3>1, <3>2, PartSize
  <2>3. CASE v # u
    <3>1. SessionsOf(v)' \in SUBSET SessionsOf(v)
      BY <1>2, <1>5, <2>3 DEF SessionsOf
    <3>2. Cardinality(SessionsOf(v)) <= MaxSessionsPerUser
      BY DEF WithinLimit
    <3> QED
      BY <3>1, <3>2, <2>1, PartSize
  <2> QED
    BY <2>2, <2>3
<1>8. EndsOK'
  <2>1. ASSUME NEW n \in 1..MaxCreated
        PROVE  ends'[n] = IF n <= created' /\ Completed(n)' THEN 1 ELSE 0
    <3>2. ends[n] = IF n <= created /\ Completed(n) THEN 1 ELSE 0
      BY DEF EndsOK
    <3>3. CASE \E s \in same : s.number = n
      <4>1. n \in overwritten'
        BY <3>3, <1>2
      <4>2. Active(n)
        BY <3>3, <1>3 DEF Active
      <4> QED
        BY <1>e, <3>2, <4>1, <4>2 DEF Completed
    <3>4. CASE n = created + 1
      <4>1. Active(n)'
        BY <3>4, <1>2, <1>5 DEF Active
      <4>2. ends[n] = 0
        BY <3>2, <3>4, <1>4
      <4> QED
        BY <1>e, <4>1, <4>2 DEF Completed
    <3>5. CASE n # created + 1 /\ ~ \E s \in same : s.number = n
      <4>1. Completed(n)' <=> Completed(n)
        BY <1>2, <1>5, <3>5 DEF Active, Completed
      <4>2. n <= created' <=> n <= created
        BY <3>5, <1>1, <1>4
      <4> QED
        BY <1>e, <3>2, <4>1, <4>2
    <3> QED
      BY <3>3, <3>4, <3>5
  <2>2. ends' \in [1..MaxCreated -> Nat]
    BY <1>e DEF EndsOK
  <2>3. ASSUME NEW n \in overwritten'
        PROVE  n \in 1..created' /\ ~Active(n)'
    <3>1. CASE n \in overwritten
      <4>1. n \in 1..created /\ ~Active(n)
        BY <3>1 DEF EndsOK
      <4>2. n \in 1..created' /\ n # s0.number
        BY <4>1, <1>1, <1>4, <1>5
      <4> QED
        BY <4>1, <4>2, <1>2 DEF Active
    <3>2. CASE n \notin overwritten
      <4>1. PICK s \in same : s.number = n
        BY <2>3, <3>2, <1>2
      <4>2. n \in 1..created
        BY <4>1, <1>3, <1>4 DEF SessionsOK, Session
      <4>3. n \in 1..created' /\ n # s0.number
        BY <4>2, <1>1, <1>4, <1>5
      <4> QED
        BY <4>1, <4>3, <1>2, <1>3 DEF Active, SessionsOK
    <3> QED
      BY <3>1, <3>2
  <2> QED
    BY <2>1, <2>2, <2>3 DEF EndsOK
<1>9. ASSUME NEW s \in sessions'
      PROVE  s \in sessions \/ s.number = created'
  BY <1>1, <1>2, <1>5
<1> QED
  BY <1>1, <1>6, <1>7, <1>8, <1>9

\* A message, feedback or intervention replaces a session by one of the same user and
\* number.
LEMMA InteractKeeps ==
  ASSUME CollaborationInv, NEW s \in sessions, NEW isMessage \in BOOLEAN,
         Interact(s, isMessage)
  PROVE  /\ SessionsOK' /\ WithinLimit' /\ EndsOK'
         /\ \A t \in sessions' : \E r \in sessions : t.number = r.number
<1> USE CollaborationConstantsOK DEF CollaborationInv
<1> DEFINE s1 == [s EXCEPT !.last = now, !.messages = IF isMessage THEN @ + 1 ELSE @]
<1>1. /\ sessions' = (sessions \ {s}) \cup {s1}
      /\ isMessage => s.messages < MaxMessages
      /\ UNCHANGED <<created, ends, overwritten>>
  BY DEF Interact, history
<1>2. s \in Session /\ s.number <= created
  BY DEF SessionsOK
<1>3. s1 \in Session /\ s1.number = s.number /\ s1.user = s.user
  <2>1. /\ s.last \in Time /\ s.messages \in 0..MaxMessages /\ now \in Time
        /\ (IF isMessage THEN s.messages + 1 ELSE s.messages) \in 0..MaxMessages
    BY <1>1, <1>2 DEF Session, ThreadsOK
  <2> DEFINE r == [s EXCEPT !.last = now]
             m == IF isMessage THEN s.messages + 1 ELSE s.messages
  <2>2. r \in Session /\ r.number = s.number /\ r.user = s.user /\ r.messages = s.messages
    BY <1>2, <2>1 DEF Session
  <2>3. s1 = [r EXCEPT !.messages = m]
    BY <1>2, <2>2 DEF Session
  <2> HIDE DEF s1, r, m
  <2>4. s1 \in Session /\ s1.number = r.number /\ s1.user = r.user
    BY <2>1, <2>2, <2>3 DEF Session, m
  <2> QED
    BY <2>2, <2>4
<1> HIDE DEF s1
<1>4. SessionsOK'
  <2>1. IsFiniteSet(sessions')
    BY <1>1, OneReplaced DEF SessionsOK
  <2>2. sessions' \in SUBSET Session
    BY <1>1, <1>3 DEF SessionsOK
  <2>3. ASSUME NEW t \in sessions'
        PROVE  t.number <= created
    BY <1>1, <1>2, <1>3 DEF SessionsOK
  <2>4. ASSUME NEW t \in sessions', NEW r \in sessions', t.number = r.number
        PROVE  t = r
    <3>1. CASE t = s1 /\ r = s1
      BY <3>1
    <3>2. CASE t # s1 /\ r # s1
      BY <3>2, <2>4, <1>1 DEF SessionsOK
    <3>3. CASE t = s1 /\ r # s1
      <4>1. r \in sessions /\ r # s
        BY <3>3, <1>1
      <4> QED
        BY <3>3, <4>1, <2>4, <1>3 DEF SessionsOK
    <3>4. CASE t # s1 /\ r = s1
      <4>1. t \in sessions /\ t # s
        BY <3>4, <1>1
      <4> QED
        BY <3>4, <4>1, <2>4, <1>3 DEF SessionsOK
    <3> QED
      BY <3>1, <3>2, <3>3, <3>4
  <2> QED
    BY <1>1, <2>1, <2>2, <2>3, <2>4 DEF SessionsOK
<1>5. WithinLimit'
  <2> SUFFICES ASSUME NEW u \in Users
               PROVE  Cardinality(SessionsOf(u)') <= MaxSessionsPerUser
    BY DEF WithinLimit
  <2>1. IsFiniteSet(SessionsOf(u)) /\ Cardinality(SessionsOf(u)) <= MaxSessionsPerUser
    BY FS_Subset DEF SessionsOf, SessionsOK, WithinLimit
  <2>2. CASE u = s.user
    <3>1. s \in SessionsOf(u)
      BY <2>2 DEF SessionsOf
    <3>2. SessionsOf(u)' = (SessionsOf(u) \ {s}) \cup {s1}
      BY <1>1, <1>3, <2>2 DEF SessionsOf
    <3> DEFINE S == SessionsOf(u)
    <3> HIDE DEF S
    <3>a. S = SessionsOf(u)
      BY DEF S
    <3>b. /\ IsFiniteSet((S \ {s}) \cup {s1})
          /\ Cardinality((S \ {s}) \cup {s1}) <= Cardinality(S)
      BY <2>1, <3>1, <3>a, OneReplaced
    <3>3. /\ IsFiniteSet(SessionsOf(u)')
          /\ Cardinality(SessionsOf(u)') <= Cardinality(SessionsOf(u))
      BY <3>2, <3>a, <3>b
    <3>4. Cardinality(SessionsOf(u)') \in Nat /\ Cardinality(SessionsOf(u)) \in Nat
      BY <2>1, <3>3, FS_CardinalityType
    <3> QED
      BY <2>1, <3>3, <3>4
  <2>3. CASE u # s.user
    <3>1. SessionsOf(u)' = SessionsOf(u)
      BY <1>1, <1>3, <2>3 DEF SessionsOf
    <3> QED
      BY <2>1, <3>1
  <2> QED
    BY <2>2, <2>3
<1>6. EndsOK'
  <2>1. ASSUME NEW n \in 1..MaxCreated
        PROVE  Active(n)' <=> Active(n)
    BY <1>1, <1>3 DEF Active
  <2>2. \A n \in overwritten : ~Active(n)'
    BY <1>1, <1>3 DEF EndsOK, Active
  <2> QED
    BY <1>1, <2>1, <2>2 DEF EndsOK, Completed
<1>7. ASSUME NEW t \in sessions'
      PROVE  \E r \in sessions : t.number = r.number
  BY <1>1, <1>3
<1> QED
  BY <1>4, <1>5, <1>6, <1>7

-----------------------------------------------------------------------------
(* The steps                                                               *)

\* The invariant of the sessions is about four variables only.
LEMMA SessionsUntouched ==
  ASSUME CollaborationInv, UNCHANGED <<sessions, created, ends, overwritten>>
  PROVE  SessionsOK' /\ WithinLimit' /\ EndsOK'
BY DEF CollaborationInv, SessionsOK, WithinLimit, EndsOK, SessionsOf, Active, Completed

\* At the beginning there are no sessions and no requests.
LEMMA CollaborationInit == Init => CollaborationInv
<1> SUFFICES ASSUME Init PROVE CollaborationInv
  OBVIOUS
<1> USE CollaborationConstantsOK DEF Init
<1>1. SessionsOK
  BY FS_EmptySet DEF SessionsOK
<1>2. WithinLimit
  <2>1. \A u \in Users : SessionsOf(u) = {}
    BY DEF SessionsOf
  <2>2. Cardinality({}) = 0 /\ 0 <= MaxSessionsPerUser
    BY FS_EmptySet
  <2> QED
    BY <2>1, <2>2 DEF WithinLimit
<1>3. EndsOK
  BY DEF EndsOK, Active
<1>4. RequestsOK
  BY FS_EmptySet DEF RequestsOK
<1>5. ThreadsOK
  <2>1. now \in Time
    BY DEF Time
  <2>2. assigned \in [Users -> SUBSET Agents]
    OBVIOUS
  <2>3. calls \in [Users \X Agents -> 0..MaxCalls]
    OBVIOUS
  <2> QED
    BY <2>1, <2>2, <2>3 DEF ThreadsOK
<1>6. ShutdownOK
  BY DEF ShutdownOK, ShutdownEndsSessions
<1> QED
  BY <1>1, <1>2, <1>3, <1>4, <1>5, <1>6 DEF CollaborationInv

\* What users do: sessions, requests and responses.
LEMMA UserKeeps ==
  ASSUME CollaborationInv, UserStep
  PROVE  CollaborationInv'
<1> USE CollaborationConstantsOK
<1>a. SessionsOK /\ RequestsOK /\ ThreadsOK /\ ShutdownOK /\ created \in Nat
  BY DEF CollaborationInv, SessionsOK
<1>1. ASSUME NEW u \in Users, NEW agents \in SUBSET Agents, SetUser(u, agents)
      PROVE  CollaborationInv'
  <2> USE <1>1 DEF SetUser, threads, history
  <2>1. SessionsOK' /\ WithinLimit' /\ EndsOK'
    BY SessionsUntouched
  <2>2. RequestsOK' /\ ThreadsOK' /\ ShutdownOK'
    BY <1>a DEF RequestsOK, ThreadsOK, ShutdownOK, ShutdownEndsSessions
  <2> QED
    BY <2>1, <2>2 DEF CollaborationInv
<1>2. ASSUME NEW u \in Users, NEW a \in Agents, ValidateUser(u, a)
      PROVE  CollaborationInv'
  <2> USE <1>2 DEF ValidateUser, store, history
  <2>1. SessionsOK' /\ WithinLimit' /\ EndsOK'
    BY SessionsUntouched
  <2>2. calls' \in [Users \X Agents -> 0..MaxCalls]
    BY <1>a DEF ThreadsOK
  <2>3. RequestsOK' /\ ThreadsOK' /\ ShutdownOK'
    BY <1>a, <2>2 DEF RequestsOK, ThreadsOK, ShutdownOK, ShutdownEndsSessions
  <2> QED
    BY <2>1, <2>3 DEF CollaborationInv
<1>3. ASSUME NEW u \in Users, NEW a \in Agents, CreateSession(u, a)
      PROVE  CollaborationInv'
  <2> USE <1>3
  <2>1. calls' \in [Users \X Agents -> 0..MaxCalls]
    BY <1>a DEF CreateSession, ThreadsOK
  <2>2. RequestsOK' /\ ThreadsOK'
    BY <1>a, <2>1 DEF CreateSession, RequestsOK, ThreadsOK
  <2>3. CASE Cardinality(SessionsOf(u)) < MaxSessionsPerUser /\ Create(u, a)
    <3>1. /\ SessionsOK' /\ WithinLimit' /\ EndsOK'
          /\ created' = created + 1
          /\ \A s \in sessions' : s \in sessions \/ s.number = created'
      BY <2>3, CreateKeeps
    <3>2. ShutdownOK'
      BY <1>a, <3>1 DEF CreateSession, ShutdownOK, ShutdownEndsSessions
    <3> QED
      BY <2>2, <3>1, <3>2 DEF CollaborationInv
  <2>4. CASE UNCHANGED <<sessions, created, ends, overwritten>>
    <3>1. ShutdownOK'
      BY <1>a, <2>4 DEF CreateSession, ShutdownOK, ShutdownEndsSessions
    <3> QED
      BY <2>2, <2>4, <3>1, SessionsUntouched DEF CollaborationInv
  <2> QED
    BY <2>3, <2>4 DEF CreateSession
<1>4. ASSUME NEW s \in sessions, EndSession(s)
      PROVE  CollaborationInv'
  <2> USE <1>4 DEF EndSession, threads
  <2>1. SessionsOK' /\ WithinLimit' /\ EndsOK'
    BY EndKeeps
  <2>2. RequestsOK' /\ ThreadsOK' /\ ShutdownOK'
    BY <1>a DEF RequestsOK, ThreadsOK, ShutdownOK, ShutdownEndsSessions, End
  <2> QED
    BY <2>1, <2>2 DEF CollaborationInv
<1>5. ASSUME NEW s \in sessions, NEW isMessage \in BOOLEAN, Interact(s, isMessage)
      PROVE  CollaborationInv'
  <2>1. /\ SessionsOK' /\ WithinLimit' /\ EndsOK'
        /\ \A t \in sessions' : \E r \in sessions : t.number = r.number
    BY <1>5, InteractKeeps
  <2>2. UNCHANGED <<now, users, assigned, pending, calls, running, cleaner, stop, created,
                    overwritten, before>>
    BY <1>5 DEF Interact, threads, history
  <2>3. RequestsOK' /\ ThreadsOK'
    BY <1>a, <2>2 DEF RequestsOK, ThreadsOK
  <2>4. ShutdownOK'
    BY <1>a, <2>1, <2>2 DEF ShutdownOK, ShutdownEndsSessions
  <2> QED
    BY <2>1, <2>3, <2>4 DEF CollaborationInv
<1>6. ASSUME NEW a \in Agents, CreateRequest(a)
      PROVE  CollaborationInv'
  <2> USE <1>6 DEF CreateRequest, threads, history
  <2>1. SessionsOK' /\ WithinLimit' /\ EndsOK'
    BY SessionsUntouched
  <2>2. ThreadsOK' /\ ShutdownOK'
    BY <1>a DEF ThreadsOK, ShutdownOK, ShutdownEndsSessions
  <2>3. PICK n \in (1..MaxActiveRequests) \ Numbers : pending' = pending \cup {Request(n, a)}
    OBVIOUS
  <2>4. Request(n, a) \in [number : Nat, agent : Agents, at : Time, expires : Nat]
    BY <1>a DEF Request, ThreadsOK, Time
  <2>5. RequestsOK'
    BY <1>a, <2>3, <2>4, OneMore DEF RequestsOK
  <2> QED
    BY <2>1, <2>2, <2>5 DEF CollaborationInv
<1>7. ASSUME pending' \in SUBSET pending,
             UNCHANGED <<now, users, assigned, sessions, threads, history>>
      PROVE  CollaborationInv'
  <2> USE <1>7 DEF threads, history
  <2>1. SessionsOK' /\ WithinLimit' /\ EndsOK'
    BY SessionsUntouched
  <2>2. ThreadsOK' /\ ShutdownOK'
    BY <1>a DEF ThreadsOK, ShutdownOK, ShutdownEndsSessions
  <2>3. RequestsOK'
    BY <1>a, PartSize DEF RequestsOK
  <2> QED
    BY <2>1, <2>2, <2>3 DEF CollaborationInv
<1>8. ASSUME NEW a \in Agents, ListRequests(a)
      PROVE  CollaborationInv'
  BY <1>7, <1>8 DEF ListRequests
<1>9. ASSUME NEW r \in pending, Respond(r)
      PROVE  CollaborationInv'
  BY <1>7, <1>9 DEF Respond
<1> QED
  BY <1>1, <1>2, <1>3, <1>4, <1>5, <1>6, <1>8, <1>9 DEF UserStep

\* What the cleanup worker does.
LEMMA CleanerKeeps ==
  ASSUME CollaborationInv, CleanerStep
  PROVE  CollaborationInv'
<1> USE CollaborationConstantsOK
<1>a. SessionsOK /\ RequestsOK /\ ThreadsOK /\ ShutdownOK
  BY DEF CollaborationInv
<1>1. CASE CleanerTest \/ CleanerWait \/ CleanerWake
  <2> USE <1>1 DEF CleanerTest, CleanerWait, CleanerWake, CleanerAt, store, history
  <2>1. SessionsOK' /\ WithinLimit' /\ EndsOK'
    BY SessionsUntouched
  <2>2. RequestsOK' /\ ThreadsOK' /\ ShutdownOK'
    BY <1>a DEF RequestsOK, ThreadsOK, ShutdownOK, ShutdownEndsSessions
  <2> QED
    BY <2>1, <2>2 DEF CollaborationInv
<1>2. CASE CleanSessions
  <2> USE <1>2 DEF CleanSessions, CleanerAt
  <2>1. IdleSessions \in SUBSET sessions
    BY DEF IdleSessions
  <2>2. SessionsOK' /\ WithinLimit' /\ EndsOK'
    BY <2>1, EndKeeps
  <2>3. RequestsOK' /\ ThreadsOK' /\ ShutdownOK'
    BY <1>a DEF RequestsOK, ThreadsOK, ShutdownOK, ShutdownEndsSessions, End
  <2> QED
    BY <2>2, <2>3 DEF CollaborationInv
<1>3. CASE CleanRequests
  <2> USE <1>3 DEF CleanRequests, CleanerAt, history
  <2>1. SessionsOK' /\ WithinLimit' /\ EndsOK'
    BY SessionsUntouched
  <2>2. ThreadsOK' /\ ShutdownOK'
    BY <1>a DEF ThreadsOK, ShutdownOK, ShutdownEndsSessions
  <2>3. RequestsOK'
    BY <1>a, PartSize DEF RequestsOK
  <2> QED
    BY <2>1, <2>2, <2>3 DEF CollaborationInv
<1> QED
  BY <1>1, <1>2, <1>3 DEF CleanerStep

\* What initialize and shutdown do.
LEMMA ControlKeeps ==
  ASSUME CollaborationInv, Initialize \/ ShutdownFlag \/ ShutdownStep
  PROVE  CollaborationInv'
<1> USE CollaborationConstantsOK
<1>a. SessionsOK /\ RequestsOK /\ ThreadsOK /\ ShutdownOK /\ created \in Nat
  BY DEF CollaborationInv, SessionsOK
<1>1. CASE Initialize \/ ShutdownFlag \/ ShutdownNotify \/ ShutdownJoin
  <2> USE <1>1 DEF Initialize, ShutdownFlag, ShutdownNotify, ShutdownJoin, store, history
  <2>1. SessionsOK' /\ WithinLimit' /\ EndsOK'
    BY SessionsUntouched
  <2>2. RequestsOK'
    BY <1>a DEF RequestsOK
  <2>3. ThreadsOK'
    BY <1>a DEF ThreadsOK
  <2>4. before' \in 0..created'
    BY <1>a DEF ShutdownOK
  <2>5. ShutdownEndsSessions'
    BY <1>a DEF ShutdownOK, ShutdownEndsSessions
  <2> QED
    BY <2>1, <2>2, <2>3, <2>4, <2>5 DEF CollaborationInv, ShutdownOK
<1>2. CASE CancelSessions
  <2> USE <1>2 DEF CancelSessions
  <2>1. SessionsOK' /\ WithinLimit' /\ EndsOK'
    BY EndKeeps
  <2>2. sessions' = {}
    BY DEF End
  <2>3. RequestsOK' /\ ThreadsOK' /\ ShutdownOK'
    BY <1>a, <2>2 DEF RequestsOK, ThreadsOK, ShutdownOK, ShutdownEndsSessions
  <2> QED
    BY <2>1, <2>3 DEF CollaborationInv
<1> QED
  BY <1>1, <1>2 DEF ShutdownStep

-----------------------------------------------------------------------------
(* The theorems                                                            *)

\* Every step of the collaboration keeps the inductive invariant: sessions have
\* distinct numbers within the number created, each is active, overwritten or completed
\* once, the limits hold, and after a shutdown only sessions begun since are left.
THEOREM CollaborationInvariant == Spec => []CollaborationInv
<1>1. ASSUME CollaborationInv, [Next]_vars
      PROVE  CollaborationInv'
  <2>1. CASE Tick
    <3> USE <2>1, CollaborationConstantsOK DEF Tick, store, threads, history
    <3>1. SessionsOK' /\ WithinLimit' /\ EndsOK'
      BY <1>1, SessionsUntouched
    <3>2. RequestsOK' /\ ThreadsOK' /\ ShutdownOK'
      BY <1>1
      DEF CollaborationInv, RequestsOK, ThreadsOK, ShutdownOK, ShutdownEndsSessions, Time
    <3> QED
      BY <3>1, <3>2 DEF CollaborationInv
  <2>2. CASE UserStep
    BY <1>1, <2>2, UserKeeps
  <2>3. CASE CleanerStep
    BY <1>1, <2>3, CleanerKeeps
  <2>4. CASE Initialize \/ ShutdownFlag \/ ShutdownStep
    BY <1>1, <2>4, ControlKeeps
  <2>5. CASE UNCHANGED vars
    <3> USE <2>5 DEF vars, store, threads, history
    <3>1. SessionsOK' /\ WithinLimit' /\ EndsOK'
      BY <1>1, SessionsUntouched
    <3>2. RequestsOK' /\ ThreadsOK' /\ ShutdownOK'
      BY <1>1 DEF CollaborationInv, RequestsOK, ThreadsOK, ShutdownOK, ShutdownEndsSessions
    <3> QED
      BY <3>1, <3>2 DEF CollaborationInv
  <2> QED
    BY <1>1, <2>1, <2>2, <2>3, <2>4, <2>5 DEF Next
<1> QED
  BY <1>1, CollaborationInit, PTL DEF Spec

\* Types, and the two limits of the code: no user has more than
\* max_concurrent_sessions_per_user sessions however many threads are in
\* create_session, and the requests for assistance stay within theirs.
THEOREM TypeOKHolds == Spec => []TypeOK
<1>1. CollaborationInv => TypeOK
  BY DEF CollaborationInv, SessionsOK, WithinLimit, EndsOK, RequestsOK, ThreadsOK,
         ShutdownOK, TypeOK
<1> QED
  BY <1>1, CollaborationInvariant, PTL

\* A session created is active, was overwritten by one of the same id, or was completed
\* once: end_session, the timeout and the shutdown never complete a session twice, and
\* none but an overwritten one goes without.
THEOREM OneEndHolds == Spec => []OneEnd
<1>1. CollaborationInv => OneEnd
  <2> SUFFICES ASSUME CollaborationInv
               PROVE  OneEnd
    OBVIOUS
  <2>1. ASSUME NEW n \in 1..created
        PROVE  ends[n] = IF Active(n) \/ n \in overwritten THEN 0 ELSE 1
    <3>1. n \in 1..MaxCreated /\ n <= created
      BY CollaborationConstantsOK DEF CollaborationInv, SessionsOK
    <3> QED
      BY <3>1 DEF CollaborationInv, EndsOK, Completed
  <2>2. \A n \in overwritten : ~Active(n)
    BY DEF CollaborationInv, EndsOK
  <2> QED
    BY <2>1, <2>2 DEF OneEnd
<1> QED
  BY <1>1, CollaborationInvariant, PTL

\* When shutdown returns, no session created before it began is still active.
THEOREM ShutdownEndsSessionsHolds == Spec => []ShutdownEndsSessions
<1>1. CollaborationInv => ShutdownEndsSessions
  BY DEF CollaborationInv, ShutdownOK
<1> QED
  BY <1>1, CollaborationInvariant, PTL
=============================================================================
