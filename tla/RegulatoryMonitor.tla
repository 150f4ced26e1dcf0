------------------------- MODULE RegulatoryMonitor -------------------------
(***************************************************************************)
(* regulatory_monitor/production_regulatory_monitor.cpp: the sources, the  *)
(* thread that checks those that are due, and the operations that add,     *)
(* replace, remove and force sources meanwhile.                            *)
(*                                                                         *)
(* A step is what the code does under sources_mutex_, or one call of       *)
(* another component.  Every database call borrows a connection and gives  *)
(* it back: Ask, Write, and then Apply for what follows in memory.         *)
(***************************************************************************)
EXTENDS Integers

CONSTANTS
  Sources,      \* source ids
  Defaults,     \* those that initialize() adds
  MaxFailures,  \* 5 in should_check
  MaxCount,     \* bound: callers store consecutive_failures below this
  Interval,     \* check_interval_minutes of every source
  MaxNow,       \* bound: the clock stops here
  HalfRange,    \* time points are integers in -HalfRange .. HalfRange - 1
  MaxRows,      \* bound: rows of one item are counted up to here
  NoSource

\* What is assumed of the constants, where they get their values.
MonitorConstantsOK ==
  /\ Defaults \subseteq Sources
  /\ MaxFailures \in Nat \ {0} /\ MaxCount \in Nat /\ MaxFailures <= MaxCount
  /\ Interval \in Nat \ {0}
  /\ MaxNow \in Nat /\ HalfRange \in Nat /\ Interval <= MaxNow /\ MaxNow < HalfRange
  /\ MaxRows \in Nat
  /\ NoSource \notin Sources

VARIABLES
  sources,   \* sources_: which ids are there, and their records
  running,   \* running_
  control,   \* the thread that starts and stops the monitoring: "down", "up", "joining"
  pc,        \* where the monitoring thread is
  due,       \* ids collected by check_all_sources and not yet checked
  checking,  \* source_id in check_source
  op,        \* the database call it is at
  now,       \* system_clock, in intervals
  rows       \* regulatory_changes: rows stored of each source's item

sourceVars == <<sources, now>>
threadVars == <<pc, due, checking, op>>
vars == <<sourceVars, running, control, threadVars, rows>>

\* last_check is value-initialized to the epoch, which is at least Interval ago.
Epoch == 0
Fresh(active) == [active |-> active, failures |-> 0, last_check |-> Epoch]

Recorded(counts) ==
  [active : BOOLEAN, failures : counts, last_check : {-HalfRange} \cup 0..MaxNow]

Records == Recorded(0..MaxCount)

\* What a caller may store: a record that it made, or one that it has from
\* get_sources, from any time.
Given == Recorded(0..(MaxCount - 1))

Init ==
  /\ sources = [s \in Defaults |-> Fresh(TRUE)]
  /\ running = FALSE
  /\ control = "down"
  /\ pc = "exited" /\ due = {} /\ checking = NoSource /\ op = "none"
  /\ now = Interval
  /\ rows = [s \in Sources |-> 0]

Have == DOMAIN sources
Goto(l) == pc' = l

-----------------------------------------------------------------------------
(* add_source, update_source, remove_source, force_check_source            *)

Put(s, r) == sources' = [x \in Have \cup {s} |-> IF x = s THEN r ELSE sources[x]]

AddSource(s) ==
  /\ s \notin Have
  /\ \E r \in Given : Put(s, r)
  /\ UNCHANGED <<now, running, control, threadVars, rows>>

\* The whole record is replaced, failures and last check included.
UpdateSource(s) ==
  /\ s \in Have
  /\ \E r \in Given : Put(s, r)
  /\ UNCHANGED <<now, running, control, threadVars, rows>>

RemoveSource(s) ==
  /\ s \in Have
  /\ sources' = [x \in Have \ {s} |-> sources[x]]
  /\ UNCHANGED <<now, running, control, threadVars, rows>>

\* time_point::min()
ForceCheck(s) ==
  /\ s \in Have
  /\ Put(s, [sources[s] EXCEPT !.last_check = -HalfRange])
  /\ UNCHANGED <<now, running, control, threadVars, rows>>

-----------------------------------------------------------------------------
(* start_monitoring, stop_monitoring                                       *)

StartMonitoring ==
  /\ control = "down" /\ ~running
  /\ running' = TRUE
  /\ control' = "up"
  /\ Goto("loop")
  /\ UNCHANGED <<sourceVars, due, checking, op, rows>>

StopMonitoring ==
  /\ control = "up"
  /\ running' = FALSE
  /\ control' = "joining"
  /\ UNCHANGED <<sourceVars, threadVars, rows>>

JoinMonitoring ==
  /\ control = "joining"
  /\ pc = "exited"
  /\ control' = "down"
  /\ UNCHANGED <<sourceVars, running, threadVars, rows>>

-----------------------------------------------------------------------------
(* monitoring_loop, check_all_sources                                      *)

\* while (running_): here and, in slices of a second, during the sleep.
LoopTest ==
  /\ pc = "loop"
  /\ Goto(IF running THEN "collect" ELSE "exited")
  /\ UNCHANGED <<sourceVars, running, control, due, checking, op, rows>>

\* Subtraction of time points, which overflows like the 64-bit integer it is.
Minus(a, b) == ((a - b + HalfRange) % (2 * HalfRange)) - HalfRange

ShouldCheck(r) ==
  r.active /\ r.failures < MaxFailures /\ Minus(now, r.last_check) >= Interval

Collect ==
  /\ pc = "collect"
  /\ due' = {s \in Have : ShouldCheck(sources[s])}
  /\ Goto("pick")
  /\ UNCHANGED <<sourceVars, running, control, checking, op, rows>>

\* The next id of source_ids, in no particular order, whether or not the
\* monitoring is to stop.  A source that has gone is passed over.
Pick ==
  /\ pc = "pick"
  /\ \E s \in due :
       /\ due' = due \ {s}
       /\ checking' = s
       /\ Goto(IF s \in Have THEN "fetch" ELSE "pick")
  /\ UNCHANGED <<sourceVars, running, control, op, rows>>

PassEnds ==
  /\ pc = "pick" /\ due = {}
  /\ checking' = NoSource
  /\ Goto("loop")
  /\ UNCHANGED <<sourceVars, running, control, due, op, rows>>

-----------------------------------------------------------------------------
(* check_source                                                            *)

\* http_client_->get and the parsing of its answer.  A failed request, an answer
\* that is no success and an exception all count as a failure.  A page without
\* changes goes straight to the bookkeeping.
Fetch ==
  /\ pc = "fetch"
  /\ op' \in {"is_duplicate", "reset", "increment"}
  /\ Goto("ask")
  /\ UNCHANGED <<sourceVars, running, control, due, checking, rows>>

NextOp == [is_duplicate |-> "store", store |-> "reset", reset |-> "last_check"]

Proceed ==
  IF op \in DOMAIN NextOp
    THEN op' = NextOp[op] /\ Goto("ask")
    ELSE op' = "none" /\ Goto("pick")

\* get_connection.  Without a connection the call returns false, the change in
\* memory is left out with the one in the database, and nobody looks.
Ask(got) ==
  /\ pc = "ask"
  /\ IF got THEN Goto("write") /\ UNCHANGED op ELSE Proceed
  /\ UNCHANGED <<sourceVars, running, control, due, checking, rows>>

\* execute_command, whatever it answers, then return_connection.  The id of a
\* change contains the time, so the row is always a new one: no duplicate is
\* found, and ON CONFLICT never applies.
Write ==
  /\ pc = "write"
  /\ rows' = [rows EXCEPT ![checking] =
                IF op = "store" /\ @ < MaxRows THEN @ + 1 ELSE @]
  /\ Goto("apply")
  /\ UNCHANGED <<sourceVars, running, control, due, checking, op>>

Updated(r) ==
  CASE op = "reset"      -> [r EXCEPT !.failures = 0]
    [] op = "last_check" -> [r EXCEPT !.failures = 0, !.last_check = now]
    [] op = "increment"  -> [r EXCEPT !.failures = @ + 1]
    [] OTHER             -> r

ApplyMutantRevives ==
  /\ pc = "apply"
  /\ Put(checking, Updated(IF checking \in Have THEN sources[checking] ELSE Fresh(TRUE)))
  /\ Proceed
  /\ UNCHANGED <<now, running, control, due, checking, rows>>

\* The update in memory, of a source that is still there.
Apply ==
  /\ pc = "apply"
  /\ IF checking \in Have THEN Put(checking, Updated(sources[checking]))
                          ELSE UNCHANGED sources
  /\ Proceed
  /\ UNCHANGED <<now, running, control, due, checking, rows>>

-----------------------------------------------------------------------------
Tick ==
  /\ now < MaxNow
  /\ now' = now + 1
  /\ UNCHANGED <<sources, running, control, threadVars, rows>>

ManageSources ==
  \E s \in Sources : AddSource(s) \/ UpdateSource(s) \/ RemoveSource(s) \/ ForceCheck(s)

ControlStep == StartMonitoring \/ StopMonitoring \/ JoinMonitoring

\* The steps of the monitoring thread that need no connection.
ThreadStep == LoopTest \/ Collect \/ Pick \/ PassEnds \/ Fetch \/ Apply

LocalStep == ManageSources \/ ControlStep \/ ThreadStep \/ Tick

Next == LocalStep \/ Write \/ \E got \in BOOLEAN : Ask(got)

Spec == Init /\ [][Next]_vars

-----------------------------------------------------------------------------
(* Properties                                                              *)

\* The types; that the counter of failures stays within MaxCount needs that a source
\* is checked once per pass, and never again when it has reached MaxFailures.
TypeOK ==
  /\ Have \subseteq Sources
  /\ \A s \in Have : sources[s] \in Records
  /\ running \in BOOLEAN
  /\ control \in {"down", "up", "joining"}
  /\ pc \in {"exited", "loop", "collect", "pick", "fetch", "ask", "write", "apply"}
  /\ due \in SUBSET Sources
  /\ checking \in Sources \cup {NoSource}
  /\ op \in {"none", "is_duplicate", "store", "reset", "last_check", "increment"}
  /\ now \in 0..MaxNow
  /\ rows \in [Sources -> 0..MaxRows]

\* check_source works on a source without holding its mutex: the bookkeeping at
\* the end never brings back one that was removed meanwhile.
RemovedStaysRemoved ==
  [][pc' # pc => DOMAIN sources' \subseteq DOMAIN sources]_vars

\* Every source that is due is checked, unless somebody removes, replaces, forces
\* or stops first: whatever else the thread is at, and with or without database
\* connections.
DueIsChecked ==
  \A s \in Sources :
    s \in Have /\ ShouldCheck(sources[s]) /\ running ~>
      \/ pc = "fetch" /\ checking = s
      \/ ~running \/ s \notin Have
      \/ s \in Have /\ ~ShouldCheck(sources[s])

\* force_check_source: "Reset last check time to force immediate checking".
ForcedIsChecked ==
  \A s \in Sources :
    s \in Have /\ sources[s].last_check = -HalfRange /\ sources[s].active
      /\ sources[s].failures < MaxFailures /\ running ~>
      \/ pc = "fetch" /\ checking = s
      \/ ~running \/ s \notin Have
      \/ s \in Have /\ sources[s].last_check # -HalfRange
      \/ s \in Have /\ (~sources[s].active \/ sources[s].failures >= MaxFailures)

\* is_duplicate_change and ON CONFLICT (id) DO NOTHING: an item is stored once.
StoredOnce == \A s \in Sources : rows[s] <= 1
=============================================================================
