------------------------ MODULE HumanAICollaboration ------------------------
(***************************************************************************)
(* src/shared/human_ai_collaboration: sessions between human users and     *)
(* agents, requests of agents for assistance, the cleanup worker and the   *)
(* shutdown.  A step is what the code does under one mutex; the worker     *)
(* holds cleanup_mutex_ from before its wait until after it has cleaned.   *)
(*                                                                         *)
(* Time is a clock of whole units.  Ids are made of names and milliseconds, *)
(* so that two made in one unit may be equal.                              *)
(* Persistence and the notification of agents are stubs in the code.       *)
(***************************************************************************)
EXTENDS Naturals, FiniteSets

CONSTANTS
  MaxCalls,             \* bound: threads in create_session
  Users, Agents,
  MaxSessionsPerUser, MaxMessages, MaxActiveRequests,
  SessionTimeout,
  RequestLife,          \* AgentAssistanceRequest: always an hour
  RequireUser,          \* require_user_authentication
  MaxTime, MaxCreated   \* bounds: the clock, sessions ever created

ASSUME CollaborationConstantsOK ==
  /\ {MaxSessionsPerUser, MaxMessages, MaxActiveRequests, SessionTimeout, RequestLife,
      MaxTime, MaxCreated, MaxCalls} \subseteq Nat
  /\ IsFiniteSet(Users) /\ IsFiniteSet(Agents)
  /\ RequireUser \in BOOLEAN

VARIABLES
  now,
  users,       \* registered_users_
  assigned,    \* and the agents assigned to each
  sessions,    \* active_sessions_
  pending,     \* pending_requests_
  calls,       \* how many threads are between the parts of create_session, for whom
  running,
  cleaner,     \* the cleanup worker
  stop,        \* the thread that shuts down and initializes
  created,     \* how many sessions were created,
  ends,        \* how often each was completed,
  overwritten, \* those that another of the same id replaced,
  before       \* and how many there were when the last shutdown began

store == <<users, assigned, sessions, pending>>
threads == <<calls, running, cleaner, stop>>
history == <<created, ends, overwritten, before>>
vars == <<now, store, threads, history>>

Time == 0..MaxTime

Init ==
  /\ now = 0
  /\ users = {} /\ assigned = [u \in Users |-> {}]
  /\ sessions = {} /\ pending = {}
  /\ calls = [x \in Users \X Agents |-> 0]
  /\ running = FALSE /\ cleaner = "none" /\ stop = "off"
  /\ created = 0 /\ before = 0
  /\ ends = [n \in 1..MaxCreated |-> 0] /\ overwritten = {}

Tick ==
  /\ now < MaxTime
  /\ now' = now + 1
  /\ UNCHANGED <<store, threads, history>>

Ended(gone) ==
  [n \in 1..MaxCreated |-> ends[n] + Cardinality({s \in gone : s.number = n})]

\* complete and erase
End(gone) == sessions' = sessions \ gone /\ ends' = Ended(gone)

-----------------------------------------------------------------------------
(* Users                                                                   *)

\* register_user, update_user; a user without assigned agents may talk to all.
SetUser(u, agents) ==
  /\ users' = users \cup {u}
  /\ assigned' = [assigned EXCEPT ![u] = agents]
  /\ UNCHANGED <<now, sessions, pending, threads, history>>

CanInteract(u, a) == u \in users /\ (assigned[u] = {} \/ a \in assigned[u])

-----------------------------------------------------------------------------
(* Sessions                                                                *)

\* The first part of create_session, under users_mutex_.
ValidateUser(u, a) ==
  /\ calls[<<u, a>>] < MaxCalls
  /\ RequireUser => CanInteract(u, a)
  /\ calls' = [calls EXCEPT ![<<u, a>>] = @ + 1]
  /\ UNCHANGED <<now, store, running, cleaner, stop, history>>

SessionsOf(u) == {s \in sessions : s.user = u}

\* active_sessions_[session_id] = session: one of the same user and agent and of the
\* same millisecond is overwritten, and never completed.
Create(u, a) ==
  /\ created < MaxCreated
  /\ created' = created + 1
  /\ \E same \in {{}} \cup {{s} : s \in {x \in SessionsOf(u) : x.agent = a /\ x.at = now}} :
       /\ sessions' = (sessions \ same) \cup
            {[user |-> u, agent |-> a, at |-> now, number |-> created', last |-> now,
              messages |-> 0]}
       /\ overwritten' = overwritten \cup {s.number : s \in same}
  /\ UNCHANGED ends

\* The second, under sessions_mutex_.
CreateSession(u, a) ==
  /\ calls[<<u, a>>] > 0
  /\ calls' = [calls EXCEPT ![<<u, a>>] = @ - 1]
  /\ \/ /\ Cardinality(SessionsOf(u)) < MaxSessionsPerUser
        /\ Create(u, a)
     \/ /\ Cardinality(SessionsOf(u)) >= MaxSessionsPerUser
        /\ UNCHANGED <<sessions, created, ends, overwritten>>
  /\ UNCHANGED <<now, users, assigned, pending, running, cleaner, stop, before>>

EndSessionMutantKeeps(s) ==
  /\ ends' = Ended({s})
  /\ UNCHANGED <<now, users, assigned, sessions, pending, threads, created,
                 overwritten, before>>

EndSession(s) ==
  /\ End({s})
  /\ UNCHANGED <<now, users, assigned, pending, threads, created,
                 overwritten, before>>

\* send_message; submit_feedback and perform_intervention, whose lists have no limit.
Interact(s, isMessage) ==
  /\ isMessage => s.messages < MaxMessages
  /\ sessions' = (sessions \ {s}) \cup
       {[s EXCEPT !.last = now, !.messages = IF isMessage THEN @ + 1 ELSE @]}
  /\ UNCHANGED <<now, users, assigned, pending, threads, history>>

-----------------------------------------------------------------------------
(* Requests for assistance                                                 *)

Request(n, a) == [number |-> n, agent |-> a, at |-> now, expires |-> now + RequestLife]
Numbers == {r.number : r \in pending}

CreateRequestMutantUnlimited(a) ==
  /\ \E n \in (1..MaxActiveRequests + 1) \ Numbers : pending' = pending \cup {Request(n, a)}
  /\ UNCHANGED <<now, users, assigned, sessions, threads, history>>

\* One that replaces a request of the same agent and millisecond is like it, and no
\* step.
CreateRequest(a) ==
  /\ Cardinality(pending) < MaxActiveRequests
  /\ \E n \in (1..MaxActiveRequests) \ Numbers : pending' = pending \cup {Request(n, a)}
  /\ UNCHANGED <<now, users, assigned, sessions, threads, history>>

\* get_pending_requests
ListRequests(a) ==
  /\ pending' = {r \in pending : r.agent = a => r.expires > now}
  /\ UNCHANGED <<now, users, assigned, sessions, threads, history>>

\* respond_to_request: taken off the list, answered unless it has expired.
Respond(r) ==
  /\ pending' = pending \ {r}
  /\ UNCHANGED <<now, users, assigned, sessions, threads, history>>

-----------------------------------------------------------------------------
(* cleanup_worker                                                          *)

CleanerAt(from, to) == cleaner = from /\ cleaner' = to

CleanerTest ==
  /\ cleaner = "test"
  /\ cleaner' = IF running THEN "lock" ELSE "exited"
  /\ UNCHANGED <<now, store, calls, running, stop, history>>

\* cleanup_mutex_ is locked, and released by the wait, in one step: nobody else
\* takes it but to notify.
CleanerWait ==
  /\ CleanerAt("lock", "waiting")
  /\ UNCHANGED <<now, store, calls, running, stop, history>>

\* wait_for without a predicate ends: notified, after the interval, for no reason.
CleanerWake ==
  /\ cleaner = "waiting"
  /\ cleaner' = IF running THEN "sessions" ELSE "exited"
  /\ UNCHANGED <<now, store, calls, running, stop, history>>

IdleSessions == {s \in sessions : s.last + SessionTimeout < now}
ExpiredRequests == {r \in pending : r.expires < now}

CleanSessionsMutantSilent ==
  /\ CleanerAt("sessions", "requests")
  /\ End({s \in sessions : s.last + SessionTimeout < now /\ s.messages = 0})
  /\ UNCHANGED <<now, users, assigned, pending, calls, running, stop, created,
                 overwritten, before>>

CleanSessions ==
  /\ CleanerAt("sessions", "requests")
  /\ End(IdleSessions)
  /\ UNCHANGED <<now, users, assigned, pending, calls, running, stop, created,
                 overwritten, before>>

CleanRequests ==
  /\ CleanerAt("requests", "test")
  /\ pending' = pending \ ExpiredRequests
  /\ UNCHANGED <<now, users, assigned, sessions, calls, running, stop, history>>

-----------------------------------------------------------------------------
(* initialize and shutdown                                                 *)

Initialize ==
  /\ stop = "off"
  /\ stop' = "no" /\ running' = TRUE /\ cleaner' = "test"
  /\ UNCHANGED <<now, store, calls, history>>

ShutdownFlag ==
  /\ stop = "no"
  /\ stop' = "notify" /\ running' = FALSE
  /\ before' = created
  /\ UNCHANGED <<now, store, calls, cleaner, created, ends, overwritten>>

\* notify_one under cleanup_mutex_, which the worker holds while it cleans.
ShutdownNotify ==
  /\ stop = "notify"
  /\ cleaner \notin {"sessions", "requests"}
  /\ stop' = "join"
  /\ cleaner' = IF cleaner = "waiting" THEN "exited" ELSE cleaner
  /\ UNCHANGED <<now, store, calls, running, history>>

ShutdownJoin ==
  /\ stop = "join"
  /\ cleaner = "exited"
  /\ stop' = "sessions" /\ cleaner' = "none"
  /\ UNCHANGED <<now, store, calls, running, history>>

CancelSessionsMutantSilent ==
  /\ stop = "sessions"
  /\ End({s \in sessions : s.messages > 0})
  /\ stop' = "off"
  /\ UNCHANGED <<now, users, assigned, pending, calls, running, cleaner, created,
                 overwritten, before>>

CancelSessions ==
  /\ stop = "sessions"
  /\ End(sessions)
  /\ stop' = "off"
  /\ UNCHANGED <<now, users, assigned, pending, calls, running, cleaner, created,
                 overwritten, before>>

-----------------------------------------------------------------------------
UserStep ==
  \/ \E u \in Users, agents \in SUBSET Agents : SetUser(u, agents)
  \/ \E u \in Users, a \in Agents : ValidateUser(u, a) \/ CreateSession(u, a)
  \/ \E s \in sessions : EndSession(s)
  \/ \E s \in sessions, isMessage \in BOOLEAN : Interact(s, isMessage)
  \/ \E a \in Agents : CreateRequest(a) \/ ListRequests(a)
  \/ \E r \in pending : Respond(r)

CleanerStep == CleanerTest \/ CleanerWait \/ CleanerWake \/ CleanSessions \/ CleanRequests

ShutdownStep == ShutdownNotify \/ ShutdownJoin \/ CancelSessions

Next == Tick \/ UserStep \/ CleanerStep \/ Initialize \/ ShutdownFlag \/ ShutdownStep

Spec == Init /\ [][Next]_vars

\* The worker is scheduled and the interval of its wait passes.
FairSpec == Spec /\ WF_vars(CleanerStep)

-----------------------------------------------------------------------------
(* Properties                                                              *)

Session == [user : Users, agent : Agents, at : Time, number : 1..MaxCreated, last : Time,
            messages : 0..MaxMessages]

TypeOK ==
  /\ now \in Time
  /\ users \in SUBSET Users /\ assigned \in [Users -> SUBSET Agents]
  /\ sessions \in SUBSET Session
  /\ \A u \in Users : Cardinality(SessionsOf(u)) <= MaxSessionsPerUser
  /\ pending \in SUBSET [number : Nat, agent : Agents, at : Time, expires : Nat]
  /\ Cardinality(pending) <= MaxActiveRequests
  /\ calls \in [Users \X Agents -> 0..MaxCalls]
  /\ running \in BOOLEAN
  /\ cleaner \in {"none", "test", "lock", "waiting", "sessions", "requests", "exited"}
  /\ stop \in {"off", "no", "notify", "join", "sessions"}
  /\ created \in 0..MaxCreated /\ before \in 0..created
  /\ ends \in [1..MaxCreated -> Nat] /\ overwritten \subseteq 1..created

Active(n) == \E s \in sessions : s.number = n

\* A session that was created is active, or was overwritten by one of the same id, or
\* was completed, once: a user's end_session, the timeout and the shutdown exclude each
\* other, and nothing but an equal id takes a session away without completing it.
OneEnd ==
  /\ \A n \in 1..created : ends[n] = IF Active(n) \/ n \in overwritten THEN 0 ELSE 1
  /\ \A n \in overwritten : ~Active(n)

\* No session outlives the shutdown that began after it was created.
ShutdownEndsSessions == stop = "off" => \A s \in sessions : s.number > before

\* While the worker runs, a session that nobody uses is timed out, and requests that
\* expired make room, answered or not.
CleanupSettles ==
  /\ \A n \in 1..MaxCreated :
       (\E s \in IdleSessions : s.number = n)
         ~> (~ \E s \in IdleSessions : s.number = n) \/ ~running
  /\ ExpiredRequests # {} ~> ExpiredRequests = {} \/ ~running

\* No session is taken away without being completed.
NoneOverwritten == overwritten = {}

\* "End all active sessions": none begins after a shutdown.
NoSessionAfterShutdown == [][stop = "off" /\ before > 0 => created' = created]_vars

\* "Wake up cleanup thread"
NotifiedIsAwake == stop = "join" => cleaner # "waiting"

\* "Validate user exists and has permissions": a session begins for an agent that
\* its user may talk to.
BeginsAuthorized ==
  [][\A s \in sessions' \ sessions :
       s.number > created => CanInteract(s.user, s.agent)]_vars
=============================================================================
