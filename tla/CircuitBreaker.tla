--------------------------- MODULE CircuitBreaker ---------------------------
(***************************************************************************)
(* shared/resilience/circuit_breaker: CircuitBreaker::execute called by    *)
(* several threads, and force_open and force_close called by an operator.  *)
(*                                                                         *)
(* current_state_, the two counters and active_requests_ are atomics; no   *)
(* mutex spans two of them, so every read or write of one is a step.       *)
(* Time is one bit: `elapsed` says that next_attempt_time_ is past.        *)
(* Setting next_attempt_time_ makes it FALSE (a backoff is at least one    *)
(* second), TimePasses makes it TRUE.                                      *)
(***************************************************************************)
EXTENDS Naturals, FiniteSets

CONSTANTS
  Callers,           \* threads that call execute
  FailureThreshold,  \* config_.failure_threshold
  SuccessThreshold,  \* config_.success_threshold
  MaxConcurrent,     \* config_.max_concurrent_requests
  Operator           \* TRUE when force_open and force_close are called

ASSUME ConstantsOK ==
  /\ IsFiniteSet(Callers)
  /\ FailureThreshold \in Nat \ {0}
  /\ SuccessThreshold \in Nat \ {0}
  /\ MaxConcurrent \in Nat \ {0}
  /\ Operator \in BOOLEAN

VARIABLES
  state,      \* current_state_
  failures,   \* consecutive_failures_, counted up to FailureThreshold
  successes,  \* consecutive_successes_, counted up to SuccessThreshold
  active,     \* active_requests_
  elapsed,    \* now() >= next_attempt_time_
  pc,         \* where each caller is
  seen,       \* a caller's local current_state in execute
  count,      \* a caller's local failures in on_failure
  op,         \* where force_close is
  waited      \* history: a backoff has passed since the circuit last opened

counters == <<failures, successes, active>>
vars == <<state, counters, elapsed, pc, seen, count, op, waited>>

States == {"CLOSED", "OPEN", "HALF_OPEN"}
CallerPC == {"idle", "cas", "opening", "limit", "running", "success",
             "prove", "close", "clear failures", "clear successes", "forgive",
             "failure", "judge", "reopen", "unprove", "trip", "postpone"}

\* The counters are only compared with their threshold, so counting stops there.
Bump(n, threshold) == IF n < threshold THEN n + 1 ELSE n

\* next_attempt_time_ is the epoch until the circuit opens for the first time.
Init ==
  /\ state = "CLOSED"
  /\ failures = 0 /\ successes = 0 /\ active = 0
  /\ elapsed = TRUE
  /\ pc = [c \in Callers |-> "idle"]
  /\ seen = [c \in Callers |-> "CLOSED"]
  /\ count = [c \in Callers |-> 0]
  /\ op = "idle"
  /\ waited = TRUE

Step(c, from, to) == pc[c] = from /\ pc' = [pc EXCEPT ![c] = to]

\* transition_to_state: current_state_.exchange(s).
Enter(s) ==
  /\ state' = s
  /\ waited' = (IF s = "OPEN" /\ state # "OPEN" THEN FALSE ELSE waited)

-----------------------------------------------------------------------------
(* execute: get_current_state, the half-open limit, the operation          *)

\* Read the state.  While it is OPEN and the backoff has not passed, the request
\* is rejected and nothing changes.
Load(c) ==
  /\ state \in {"CLOSED", "HALF_OPEN"} \/ elapsed
  /\ Step(c, "idle", CASE state = "CLOSED"    -> "running"
                       [] state = "HALF_OPEN" -> "limit"
                       [] state = "OPEN"      -> "cas")
  /\ seen' = [seen EXCEPT ![c] = state]
  /\ UNCHANGED <<state, counters, elapsed, count, op, waited>>

CompareExchangeMutantNone(c) ==
  /\ Step(c, "cas", "idle")
  /\ UNCHANGED <<state, counters, elapsed, seen, count, op, waited>>

\* compare_exchange_strong(OPEN, HALF_OPEN); when it fails, execute goes on with
\* the OPEN it loaded, and rejects.
CompareExchange(c) ==
  /\ \/ /\ state = "OPEN"
        /\ Step(c, "cas", "opening")
        /\ seen' = [seen EXCEPT ![c] = "HALF_OPEN"]
        /\ Enter("HALF_OPEN")
     \/ /\ state # "OPEN"
        /\ Step(c, "cas", "idle")
        /\ UNCHANGED <<seen, state, waited>>
  /\ UNCHANGED <<counters, elapsed, count, op>>

\* get_current_state then calls transition_to_state(HALF_OPEN), which stores
\* HALF_OPEN again whatever has happened to the state since.
StoreHalfOpen(c) ==
  /\ Step(c, "opening", "limit")
  /\ Enter("HALF_OPEN")
  /\ UNCHANGED <<counters, elapsed, seen, count, op>>

AdmitMutantOffByOne(c) ==
  /\ active <= MaxConcurrent
  /\ active' = active + 1
  /\ Step(c, "limit", "running")

Admit(c) ==
  /\ active < MaxConcurrent
  /\ active' = active + 1
  /\ Step(c, "limit", "running")

\* Check and increment under concurrent_mutex_.
Limit(c) ==
  /\ \/ Admit(c)
     \/ active >= MaxConcurrent /\ Step(c, "limit", "idle") /\ UNCHANGED active
  /\ UNCHANGED <<state, failures, successes, elapsed, seen, count, op, waited>>

ReleaseMutantSuccessOnly(c, next) ==
  active' = IF seen[c] = "HALF_OPEN" /\ next = "success" THEN active - 1 ELSE active

Release(c, next) == active' = IF seen[c] = "HALF_OPEN" THEN active - 1 ELSE active

\* operation() returned success, or failure, or threw a std::exception.
Operation(c) ==
  /\ \E next \in {"success", "failure"} : Step(c, "running", next) /\ Release(c, next)
  /\ UNCHANGED <<state, failures, successes, elapsed, seen, count, op, waited>>

-----------------------------------------------------------------------------
(* on_success                                                              *)

Success(c) ==
  /\ Step(c, "success", CASE state = "HALF_OPEN" -> "prove"
                          [] state = "CLOSED"    -> "forgive"
                          [] state = "OPEN"      -> "idle")
  /\ UNCHANGED <<state, counters, elapsed, seen, count, op, waited>>

Forgive(c) ==
  /\ Step(c, "forgive", "idle")
  /\ failures' = 0
  /\ UNCHANGED <<state, successes, active, elapsed, seen, count, op, waited>>

Prove(c) ==
  /\ successes' = Bump(successes, SuccessThreshold)
  /\ Step(c, "prove", IF successes' >= SuccessThreshold THEN "close" ELSE "idle")
  /\ UNCHANGED <<state, failures, active, elapsed, seen, count, op, waited>>

Close(c) ==
  /\ Step(c, "close", "clear failures")
  /\ Enter("CLOSED")
  /\ UNCHANGED <<counters, elapsed, seen, count, op>>

ClearFailures(c) ==
  /\ Step(c, "clear failures", "clear successes")
  /\ failures' = 0
  /\ UNCHANGED <<state, successes, active, elapsed, seen, count, op, waited>>

ClearSuccesses(c) ==
  /\ Step(c, "clear successes", "idle")
  /\ successes' = 0
  /\ UNCHANGED <<state, failures, active, elapsed, seen, count, op, waited>>

-----------------------------------------------------------------------------
(* on_failure                                                              *)

Failure(c) ==
  /\ Step(c, "failure", "judge")
  /\ failures' = Bump(failures, FailureThreshold)
  /\ count' = [count EXCEPT ![c] = failures']
  /\ UNCHANGED <<state, successes, active, elapsed, seen, op, waited>>

Judge(c) ==
  /\ Step(c, "judge",
       CASE state = "HALF_OPEN" -> "reopen"
         [] state = "CLOSED" /\ count[c] >= FailureThreshold -> "trip"
         [] OTHER -> "idle")
  /\ UNCHANGED <<state, counters, elapsed, seen, count, op, waited>>

Reopen(c) ==
  /\ Step(c, "reopen", "unprove")
  /\ Enter("OPEN")
  /\ UNCHANGED <<counters, elapsed, seen, count, op>>

Unprove(c) ==
  /\ Step(c, "unprove", "postpone")
  /\ successes' = 0
  /\ UNCHANGED <<state, failures, active, elapsed, seen, count, op, waited>>

Trip(c) ==
  /\ Step(c, "trip", "postpone")
  /\ Enter("OPEN")
  /\ UNCHANGED <<counters, elapsed, seen, count, op>>

\* next_attempt_time_ = now() + calculate_backoff_duration(), after the circuit
\* is already OPEN.
Postpone(c) ==
  /\ Step(c, "postpone", "idle")
  /\ elapsed' = FALSE
  /\ UNCHANGED <<state, counters, seen, count, op, waited>>

-----------------------------------------------------------------------------
(* The operator, and time                                                  *)

\* force_open leaves next_attempt_time_ and the counters as they are.
ForceOpen ==
  /\ Operator /\ op = "idle"
  /\ Enter("OPEN")
  /\ UNCHANGED <<counters, elapsed, pc, seen, count, op>>

ForceClose ==
  /\ Operator /\ op = "idle"
  /\ op' = "clear failures"
  /\ Enter("CLOSED")
  /\ UNCHANGED <<counters, elapsed, pc, seen, count>>

ForceCloseFailures ==
  /\ op = "clear failures"
  /\ op' = "clear successes"
  /\ failures' = 0
  /\ UNCHANGED <<state, successes, active, elapsed, pc, seen, count, waited>>

ForceCloseSuccesses ==
  /\ op = "clear successes"
  /\ op' = "idle"
  /\ successes' = 0
  /\ UNCHANGED <<state, failures, active, elapsed, pc, seen, count, waited>>

\* next_attempt_time_ is reached.
TimePasses ==
  /\ ~elapsed
  /\ elapsed' = TRUE
  /\ waited' = TRUE
  /\ UNCHANGED <<state, counters, pc, seen, count, op>>

-----------------------------------------------------------------------------
\* The steps of a call that is under way.
CallStep(c) ==
  \/ CompareExchange(c) \/ StoreHalfOpen(c) \/ Limit(c) \/ Operation(c)
  \/ Success(c) \/ Forgive(c) \/ Prove(c)
  \/ Close(c) \/ ClearFailures(c) \/ ClearSuccesses(c)
  \/ Failure(c) \/ Judge(c) \/ Reopen(c) \/ Unprove(c) \/ Trip(c) \/ Postpone(c)

OperatorStep == ForceOpen \/ ForceClose \/ ForceCloseFailures \/ ForceCloseSuccesses

Next ==
  \/ \E c \in Callers : Load(c) \/ CallStep(c)
  \/ OperatorStep
  \/ TimePasses

Spec == Init /\ [][Next]_vars

\* Requests keep coming, threads run, operations return, time passes.
Fairness ==
  /\ \A c \in Callers : WF_vars(Load(c)) /\ WF_vars(CallStep(c))
  /\ WF_vars(TimePasses)

FairSpec == Spec /\ Fairness

-----------------------------------------------------------------------------
(* Properties                                                              *)

TypeOK ==
  /\ state \in States
  /\ failures \in 0..FailureThreshold
  /\ successes \in 0..SuccessThreshold
  /\ active \in Nat
  /\ elapsed \in BOOLEAN
  /\ pc \in [Callers -> CallerPC]
  /\ seen \in [Callers -> States]
  /\ count \in [Callers -> 0..FailureThreshold]
  /\ op \in {"idle", "clear failures", "clear successes"}
  /\ waited \in BOOLEAN

Probes == {c \in Callers : pc[c] = "running" /\ seen[c] = "HALF_OPEN"}

\* active_requests_ is the number of operations that were admitted half-open and
\* are still running, and never exceeds "Max concurrent requests in half-open".
HalfOpenLimit == active = Cardinality(Probes) /\ active <= MaxConcurrent

\* A breaker that requests keep reaching is not OPEN for good: once the backoff is
\* over, get_current_state lets one of them through.
NotOpenForever == (state = "OPEN") ~> (state # "OPEN")

\* Nor is it HALF_OPEN for good: execute gives every slot it took back, so probes
\* keep coming and settle it, whatever fails or returns late.
NotHalfOpenForever == (state = "HALF_OPEN") ~> (state # "HALF_OPEN")

\* log_state_transition's reason for HALF_OPEN, "Recovery timeout elapsed": the
\* circuit stays OPEN until a backoff has passed since it opened.
RecoveryWaits == [][state = "OPEN" /\ state' = "HALF_OPEN" => waited]_vars

\* "Atomically attempt to transition to HALF_OPEN", from OPEN: a circuit that has
\* closed does not go back to HALF_OPEN without having opened.
HalfOpenOnlyFromOpen == [][state = "CLOSED" => state' # "HALF_OPEN"]_vars

\* "Successes needed to close circuit": a half-open phase starts with none.
FreshRecovery == [][state = "OPEN" /\ state' = "HALF_OPEN" => successes = 0]_vars
=============================================================================
