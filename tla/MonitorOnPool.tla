--------------------------- MODULE MonitorOnPool ---------------------------
(***************************************************************************)
(* The regulatory monitor on the connection pool it shares with the other  *)
(* clients of the database: RegulatoryMonitor's database calls are         *)
(* GetConnection and ReturnConnection of ConnectionPool, and they go       *)
(* without when the pool has nothing to give.                              *)
(***************************************************************************)
EXTENDS ConnectionPool

CONSTANTS
  monitor,  \* the monitoring thread, one of the Clients
  Sources, Defaults, MaxFailures, MaxCount, Interval, MaxNow, HalfRange, MaxRows, NoSource

VARIABLES sources, running, control, pc, due, checking, op, now, rows

Monitor == INSTANCE RegulatoryMonitor

monitorVars == <<sources, running, control, pc, due, checking, op, now, rows>>
systemVars == <<vars, monitorVars>>

ASSUME MonitorAssumption == monitor \in Clients /\ Monitor!MonitorConstantsOK

SystemInit == Init /\ Monitor!Init

\* get_connection answers nullptr: shut down, or nothing idle and no new
\* connection, because of the limit or because connect() failed.
Refused == shut \/ available = <<>>

AskMutantNone ==
  /\ Monitor!Ask(TRUE) /\ GetConnection(monitor)

Ask ==
  \/ Monitor!Ask(TRUE) /\ GetConnection(monitor)
  \/ Monitor!Ask(FALSE) /\ Refused /\ UNCHANGED vars

WriteMutantKeeps == Monitor!Write /\ UNCHANGED vars

Write == Monitor!Write /\ ReturnConnection(monitor)

MonitorThread ==
  \/ Monitor!ThreadStep /\ UNCHANGED vars
  \/ Ask
  \/ Write

OtherClients ==
  \/ \E c \in Clients \ {monitor} :
       GetConnection(c) \/ ReturnConnection(c) \/ Abandon(c) \/ Reconnect(c)
  \/ Shutdown

SystemNext ==
  \/ MonitorThread
  \/ (Monitor!ManageSources \/ Monitor!ControlStep \/ Monitor!Tick) /\ UNCHANGED vars
  \/ OtherClients /\ UNCHANGED monitorVars

SystemSpec == SystemInit /\ [][SystemNext]_systemVars

\* The monitoring thread is scheduled, its requests are answered or time out, and
\* a stop that has begun waits for it.
FairSystemSpec ==
  /\ SystemSpec
  /\ WF_systemVars(MonitorThread)
  /\ WF_systemVars(Monitor!JoinMonitoring /\ UNCHANGED vars)

-----------------------------------------------------------------------------
(* Properties                                                              *)

\* The types of both; and the monitoring thread has a connection exactly while it
\* executes a command: no path through a check keeps one.
SystemTypeOK ==
  /\ TypeOK /\ Monitor!TypeOK
  /\ (holding[monitor] # 0) = (pc = "write")

\* What the monitor promises, of the monitor on the pool: a source that was removed
\* while it is checked is not brought back, a source that is due is checked, and what
\* the code says of a forced check and of a change found again.
RemovedStaysRemoved == Monitor!RemovedStaysRemoved
DueIsChecked == Monitor!DueIsChecked
ForcedIsChecked == Monitor!ForcedIsChecked
StoredOnce == Monitor!StoredOnce

=============================================================================
