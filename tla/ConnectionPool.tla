--------------------------- MODULE ConnectionPool ---------------------------
(***************************************************************************)
(* shared/database/postgresql_connection: ConnectionPool and the           *)
(* connected_ flag of PostgreSQLConnection.                                *)
(*                                                                         *)
(* Every pool operation runs under pool_mutex_ and is one step.  A         *)
(* connection is named by its place in connections_, which only grows.     *)
(***************************************************************************)
EXTENDS Naturals, Sequences, FiniteSets

CONSTANTS
  Clients,         \* threads that borrow connections, one each at a time
  MinConnections,  \* config_.min_connections
  MaxConnections   \* config_.max_connections

ASSUME ConstantsOK ==
  /\ IsFiniteSet(Clients)
  /\ MinConnections \in Nat
  /\ MaxConnections \in Nat

VARIABLES
  size,       \* connections_.size()
  available,  \* available_connections_, used as a stack
  shut,       \* shutdown_
  active,     \* active_connections_
  connected,  \* connections whose connected_ is true
  holding,    \* the connection each client has, 0 for none
  lost        \* history: borrowed connections that did not come back

vars == <<size, available, shut, active, connected, holding, lost>>

Connections == 1..size
Capacity == IF MinConnections > MaxConnections THEN MinConnections ELSE MaxConnections

\* The constructor tries min_connections times to connect; a failed attempt
\* leaves nothing behind.
Init ==
  /\ size \in 0..MinConnections
  /\ available = [i \in 1..size |-> i]
  /\ shut = FALSE
  /\ active = 0
  /\ connected = 1..size
  /\ holding = [c \in Clients |-> 0]
  /\ lost = 0

TakeMutantKeep(c) ==
  /\ available # <<>>
  /\ holding' = [holding EXCEPT ![c] = available[Len(available)]]
  /\ UNCHANGED <<available, size, connected>>

\* get_connection, from the back of available_connections_.
Take(c) ==
  /\ available # <<>>
  /\ holding' = [holding EXCEPT ![c] = available[Len(available)]]
  /\ available' = SubSeq(available, 1, Len(available) - 1)
  /\ UNCHANGED <<size, connected>>

\* get_connection, a new connection.  When connect() fails or the limit is
\* reached the client gets nullptr and nothing changes.
Create(c) ==
  /\ available = <<>>
  /\ size < MaxConnections
  /\ size' = size + 1
  /\ connected' = connected \cup {size'}
  /\ holding' = [holding EXCEPT ![c] = size']
  /\ UNCHANGED available

GetConnection(c) ==
  /\ holding[c] = 0
  /\ ~shut
  /\ Take(c) \/ Create(c)
  /\ active' = active + 1
  /\ UNCHANGED <<shut, lost>>

AcceptedMutantAny(c) == ~shut

\* return_connection takes a connection back unless the pool is shut down or
\* the connection is disconnected.
Accepted(c) == ~shut /\ holding[c] \in connected

ReturnConnectionMutantCount(c) ==
  /\ holding[c] # 0
  /\ IF Accepted(c)
       THEN available' = Append(available, holding[c]) /\ UNCHANGED lost
       ELSE lost' = lost + 1 /\ UNCHANGED available
  /\ active' = active - 1
  /\ holding' = [holding EXCEPT ![c] = 0]
  /\ UNCHANGED <<size, shut, connected>>

ReturnConnection(c) ==
  /\ holding[c] # 0
  /\ IF Accepted(c)
       THEN /\ available' = Append(available, holding[c])
            /\ active' = active - 1
            /\ UNCHANGED lost
       ELSE /\ lost' = lost + 1
            /\ UNCHANGED <<available, active>>
  /\ holding' = [holding EXCEPT ![c] = 0]
  /\ UNCHANGED <<size, shut, connected>>

\* A client drops its shared_ptr without return_connection, as most callers do
\* (EventBus::persist_critical_event among them).
Abandon(c) ==
  /\ holding[c] # 0
  /\ holding' = [holding EXCEPT ![c] = 0]
  /\ lost' = lost + 1
  /\ UNCHANGED <<size, available, shut, active, connected>>

\* PostgreSQLConnection::reconnect by the client that holds the connection:
\* disconnect(), then connect(), which may fail.
Reconnect(c) ==
  /\ holding[c] # 0
  /\ \/ connected' = connected \cup {holding[c]}
     \/ connected' = connected \ {holding[c]}
  /\ UNCHANGED <<size, available, shut, active, holding, lost>>

\* shutdown: the pool drops its references; borrowed connections live on.
Shutdown ==
  /\ ~shut
  /\ shut' = TRUE
  /\ size' = 0
  /\ available' = <<>>
  /\ UNCHANGED <<active, connected, holding, lost>>

Next ==
  \/ \E c \in Clients :
       GetConnection(c) \/ ReturnConnection(c) \/ Abandon(c) \/ Reconnect(c)
  \/ Shutdown

Spec == Init /\ [][Next]_vars

-----------------------------------------------------------------------------
(* Properties                                                              *)

TypeOK ==
  /\ size \in 0..Capacity
  /\ available \in Seq(1..Capacity)
  /\ shut \in BOOLEAN
  /\ active \in Nat
  /\ connected \in SUBSET (1..Capacity)
  /\ holding \in [Clients -> 0..Capacity]
  /\ lost \in Nat

Idle == {available[i] : i \in DOMAIN available}
Borrowers == {c \in Clients : holding[c] # 0}

IdleDistinct == \A i, j \in DOMAIN available : available[i] = available[j] => i = j
IdleNotHeld == \A c \in Borrowers : holding[c] \notin Idle
HeldOnce == \A c, d \in Borrowers : holding[c] = holding[d] => c = d

\* A connection serves one client at a time: it is idle once or held by one
\* client, whatever is returned, abandoned, reconnected or shut down.
ExclusiveUse == IdleDistinct /\ IdleNotHeld /\ HeldOnce

\* active_connections_ counts the connections that are out and those that never
\* came back, and with the idle ones they make up connections_: an abandoned
\* connection takes its slot of max_connections with it.
AccountsBalance ==
  /\ active = Cardinality(Borrowers) + lost
  /\ ~shut => active + Len(available) = size

\* The pool never hands out a connection it knows to be disconnected.
IdleConnected == Idle \subseteq connected
=============================================================================
