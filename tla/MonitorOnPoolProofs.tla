------------------------ MODULE MonitorOnPoolProofs ------------------------
(***************************************************************************)
(* Theorems about ConnectionPool, for any number of clients and any        *)
(* limits; then that the regulatory monitor and the other clients use the  *)
(* pool only as ConnectionPool says, so that its theorems hold of the      *)
(* whole system, for any number of clients, sources and connections.       *)
(***************************************************************************)
EXTENDS MonitorOnPool, SequenceFacts, FiniteSetTheorems, TLAPS

-----------------------------------------------------------------------------
(* The pool                                                                *)

\* What makes the safety properties inductive: until shutdown every connection in
\* use is one of connections_, so a new one is nobody's; after it none is idle.
PoolInv ==
  /\ TypeOK
  /\ ExclusiveUse
  /\ AccountsBalance
  /\ IdleConnected
  /\ ~shut => Idle \subseteq 1..size
  /\ ~shut => \A c \in Borrowers : holding[c] <= size
  /\ shut => available = <<>>

\* The set of borrowers is finite.
LEMMA BorrowersFinite == IsFiniteSet(Borrowers) /\ Cardinality(Borrowers) \in Nat
<1>1. Borrowers \in SUBSET Clients
  BY DEF Borrowers
<1>. QED  BY <1>1, ConstantsOK, FS_Subset, FS_CardinalityType

\* A client that starts, or stops, holding a connection is one borrower more or less.
LEMMA BorrowersChange ==
  ASSUME TypeOK, NEW c \in Clients, NEW i \in Nat, holding' = [holding EXCEPT ![c] = i]
  PROVE  /\ holding[c] = 0 /\ i # 0 =>
              /\ Borrowers' = Borrowers \cup {c}
              /\ Cardinality(Borrowers') = Cardinality(Borrowers) + 1
         /\ holding[c] # 0 /\ i = 0 =>
              /\ Borrowers' = Borrowers \ {c}
              /\ Cardinality(Borrowers') = Cardinality(Borrowers) - 1
<1>1. holding \in [Clients -> 0..Capacity]
  BY DEF TypeOK
<1>2. ASSUME holding[c] = 0, i # 0
      PROVE  /\ Borrowers' = Borrowers \cup {c}
             /\ Cardinality(Borrowers') = Cardinality(Borrowers) + 1
  <2>1. Borrowers' = Borrowers \cup {c} /\ c \notin Borrowers
    BY <1>1, <1>2 DEF Borrowers
  <2>. QED  BY <2>1, BorrowersFinite, FS_AddElement
<1>3. ASSUME holding[c] # 0, i = 0
      PROVE  /\ Borrowers' = Borrowers \ {c}
             /\ Cardinality(Borrowers') = Cardinality(Borrowers) - 1
  <2>1. Borrowers' = Borrowers \ {c} /\ c \in Borrowers
    BY <1>1, <1>3 DEF Borrowers
  <2>. QED  BY <2>1, BorrowersFinite, FS_RemoveElement
<1>. QED  BY <1>2, <1>3

\* Idle and IdleDistinct in the vocabulary of SequenceFacts.
LEMMA IdleIsElements ==
  /\ Idle = Elements(available) /\ Idle' = Elements(available')
  /\ IdleDistinct <=> Distinct(available)
  /\ IdleDistinct' <=> Distinct(available')
  BY DEF Idle, IdleDistinct, Elements, Distinct

\* The pool's capacity bounds both limits of its configuration.
LEMMA CapacityType == Capacity \in Nat /\ MinConnections <= Capacity /\ MaxConnections <= Capacity
  BY ConstantsOK DEF Capacity

\* get_connection from the stack.
LEMMA PoolTake ==
  ASSUME PoolInv, NEW c \in Clients, GetConnection(c), Take(c)
  PROVE  PoolInv'
<1>. DEFINE e == available[Len(available)]
<1>1. /\ holding[c] = 0 /\ ~shut /\ available # <<>>
      /\ holding' = [holding EXCEPT ![c] = e]
      /\ available' = SubSeq(available, 1, Len(available) - 1)
      /\ active' = active + 1
      /\ size' = size /\ connected' = connected /\ shut' = shut /\ lost' = lost
  BY DEF GetConnection, Take
<1>2. /\ available \in Seq(1..Capacity)
      /\ holding \in [Clients -> 0..Capacity]
      /\ size \in Nat /\ active \in Nat /\ lost \in Nat
  BY CapacityType DEF PoolInv, TypeOK
<1>3. /\ available' \in Seq(1..Capacity) /\ Len(available') = Len(available) - 1
      /\ e \in 1..Capacity
      /\ Idle = Idle' \cup {e} /\ IdleDistinct' /\ e \notin Idle'
  BY <1>1, <1>2, FrontElements, IdleIsElements DEF PoolInv, ExclusiveUse
<1>4. /\ Borrowers' = Borrowers \cup {c}
      /\ Cardinality(Borrowers') = Cardinality(Borrowers) + 1
  <2>1. e \in Nat /\ e # 0
    BY <1>3, CapacityType
  <2>2. TypeOK
    BY DEF PoolInv
  <2>. HIDE DEF e
  <2>. QED  BY <1>1, <2>1, <2>2, BorrowersChange
<1>5. TypeOK'
  BY <1>1, <1>2, <1>3, CapacityType DEF PoolInv, TypeOK
<1>6. ExclusiveUse'
  <2>1. \A d \in Borrowers : holding[d] # e
    BY <1>3 DEF PoolInv, ExclusiveUse, IdleNotHeld
  <2>2. HeldOnce'
    BY <1>1, <1>2, <1>4, <2>1 DEF PoolInv, ExclusiveUse, HeldOnce, Borrowers
  <2>3. IdleNotHeld'
    BY <1>1, <1>2, <1>3, <1>4 DEF PoolInv, ExclusiveUse, IdleNotHeld, Borrowers
  <2>. QED  BY <1>3, <2>2, <2>3 DEF ExclusiveUse
<1>7. AccountsBalance'
  <2>1. active = Cardinality(Borrowers) + lost /\ active + Len(available) = size
    BY <1>1 DEF PoolInv, AccountsBalance
  <2>2. Len(available) \in Nat /\ Cardinality(Borrowers) \in Nat
    BY <1>2, LenProperties, BorrowersFinite
  <2>a. active' = active + 1 /\ lost' = lost /\ size' = size
    BY <1>1
  <2>b. lost \in Nat /\ active \in Nat /\ size \in Nat
    BY <1>2
  <2>3. active' = Cardinality(Borrowers') + lost'
    BY <1>4, <2>1, <2>2, <2>a, <2>b
  <2>c. Len(available') = Len(available) - 1
    BY <1>1, <1>2, <1>3
  <2>4. active' + Len(available') = size'
    BY <2>1, <2>2, <2>a, <2>b, <2>c
  <2>. QED  BY <2>3, <2>4 DEF AccountsBalance
<1>8. IdleConnected' /\ Idle' \subseteq 1..size /\ e <= size
  BY <1>1, <1>2, <1>3 DEF PoolInv, IdleConnected
<1>9. \A d \in Borrowers' : holding'[d] <= size'
  BY <1>1, <1>2, <1>4, <1>8 DEF PoolInv
<1>. QED  BY <1>1, <1>5, <1>6, <1>7, <1>8, <1>9 DEF PoolInv

\* get_connection with a new connection.
LEMMA PoolCreate ==
  ASSUME PoolInv, NEW c \in Clients, GetConnection(c), Create(c)
  PROVE  PoolInv'
<1>1. /\ holding[c] = 0 /\ ~shut /\ available = <<>> /\ size < MaxConnections
      /\ size' = size + 1 /\ connected' = connected \cup {size + 1}
      /\ holding' = [holding EXCEPT ![c] = size + 1]
      /\ active' = active + 1
      /\ available' = <<>> /\ shut' = shut /\ lost' = lost
  BY DEF GetConnection, Create
<1>2. /\ holding \in [Clients -> 0..Capacity]
      /\ size \in Nat /\ active \in Nat /\ lost \in Nat
      /\ size + 1 \in 1..Capacity
  BY <1>1, CapacityType, ConstantsOK DEF PoolInv, TypeOK
<1>3. Idle' = {}
  BY <1>1 DEF Idle
<1>4. /\ Borrowers' = Borrowers \cup {c}
      /\ Cardinality(Borrowers') = Cardinality(Borrowers) + 1
  <2>1. size + 1 \in Nat /\ size + 1 # 0 /\ TypeOK
    BY <1>2 DEF PoolInv
  <2>. QED  BY <1>1, <2>1, BorrowersChange
<1>5. TypeOK'
  BY <1>1, <1>2 DEF PoolInv, TypeOK
<1>6. ExclusiveUse'
  <2>1. \A d \in Borrowers : holding[d] <= size /\ holding[d] \in Nat
    BY <1>1, <1>2, CapacityType DEF PoolInv, Borrowers
  <2>2. HeldOnce'
    BY <1>1, <1>2, <1>4, <2>1 DEF PoolInv, ExclusiveUse, HeldOnce, Borrowers
  <2>. QED  BY <1>1, <1>3, <2>2 DEF ExclusiveUse, IdleDistinct, IdleNotHeld
<1>7. AccountsBalance'
  <2>1. active = Cardinality(Borrowers) + lost /\ active + Len(available) = size
    BY <1>1 DEF PoolInv, AccountsBalance
  <2>2. Len(available) = 0 /\ Len(available') = 0
    BY <1>1
  <2>3. active' = active + 1 /\ lost' = lost /\ size' = size + 1
    BY <1>1
  <2>4. lost \in Nat /\ size \in Nat /\ Cardinality(Borrowers) \in Nat
    BY <1>2, BorrowersFinite
  <2>5. active' = Cardinality(Borrowers') + lost' /\ active' + Len(available') = size'
    BY <1>4, <2>1, <2>2, <2>3, <2>4
  <2>. QED  BY <2>5 DEF AccountsBalance
<1>8. \A d \in Borrowers' : holding'[d] <= size'
  BY <1>1, <1>2, <1>4, CapacityType DEF PoolInv, Borrowers
<1>. QED  BY <1>1, <1>3, <1>5, <1>6, <1>7, <1>8 DEF PoolInv, IdleConnected

\* return_connection, when the pool takes the connection back.
LEMMA PoolAccept ==
  ASSUME PoolInv, NEW c \in Clients, ReturnConnection(c), Accepted(c)
  PROVE  PoolInv'
<1>. DEFINE e == holding[c]
<1>1. /\ e # 0 /\ ~shut /\ e \in connected
      /\ available' = Append(available, e) /\ active' = active - 1
      /\ holding' = [holding EXCEPT ![c] = 0]
      /\ size' = size /\ connected' = connected /\ shut' = shut /\ lost' = lost
  BY DEF ReturnConnection, Accepted
<1>2. /\ available \in Seq(1..Capacity)
      /\ holding \in [Clients -> 0..Capacity]
      /\ size \in Nat /\ active \in Nat /\ lost \in Nat
      /\ e \in 1..Capacity
  BY <1>1, CapacityType DEF PoolInv, TypeOK
<1>3. c \in Borrowers /\ e \notin Idle /\ e <= size
  BY <1>1 DEF PoolInv, ExclusiveUse, IdleNotHeld, Borrowers
<1>4. /\ available' \in Seq(1..Capacity) /\ Len(available') = Len(available) + 1
      /\ Idle' = Idle \cup {e} /\ IdleDistinct'
  <2>1. /\ Append(available, e) \in Seq(1..Capacity)
        /\ Len(Append(available, e)) = Len(available) + 1
    BY <1>2, AppendProperties
  <2>2. /\ Elements(Append(available, e)) = Elements(available) \cup {e}
        /\ Distinct(Append(available, e))
    <3>1. Distinct(available) /\ e \notin Elements(available)
      BY <1>3, IdleIsElements DEF PoolInv, ExclusiveUse
    <3>. DEFINE S == 1..Capacity
    <3>2. available \in Seq(S) /\ e \in S
      BY <1>2
    <3>. HIDE DEF S
    <3>. QED  BY <3>1, <3>2, AppendElements
  <2>. QED  BY <1>1, <2>1, <2>2, IdleIsElements
<1>5. /\ Borrowers' = Borrowers \ {c}
      /\ Cardinality(Borrowers') = Cardinality(Borrowers) - 1
  BY <1>1, BorrowersChange DEF PoolInv
<1>6. active - 1 \in Nat /\ AccountsBalance'
  <2>1. active = Cardinality(Borrowers) + lost /\ active + Len(available) = size
    BY <1>1 DEF PoolInv, AccountsBalance
  <2>2. Len(available) \in Nat
    BY <1>2, LenProperties
  <2>3. Cardinality(Borrowers) \in Nat /\ Cardinality(Borrowers') \in Nat
    BY <1>5, BorrowersFinite, FS_RemoveElement, FS_CardinalityType
  <2>4. active - 1 = Cardinality(Borrowers') + lost /\ (active - 1) + (Len(available) + 1) = size
    BY <1>2, <1>5, <2>1, <2>2, <2>3
  <2>5. active - 1 \in Nat
    BY <1>2, <2>3, <2>4
  <2>. QED  BY <1>1, <1>4, <2>4, <2>5 DEF AccountsBalance
<1>7. TypeOK'
  BY <1>1, <1>2, <1>4, <1>6, CapacityType DEF PoolInv, TypeOK
<1>8. ExclusiveUse'
  <2>1. \A d \in Borrowers \ {c} : holding[d] # e /\ holding'[d] = holding[d]
    BY <1>1, <1>2, <1>3 DEF PoolInv, ExclusiveUse, HeldOnce, Borrowers
  <2>2. IdleNotHeld' /\ HeldOnce'
    BY <1>4, <1>5, <2>1 DEF PoolInv, ExclusiveUse, IdleNotHeld, HeldOnce
  <2>. QED  BY <1>4, <2>2 DEF ExclusiveUse
<1>9. /\ IdleConnected' /\ Idle' \subseteq 1..size'
      /\ \A d \in Borrowers' : holding'[d] <= size'
  BY <1>1, <1>2, <1>3, <1>4, <1>5 DEF PoolInv, IdleConnected
<1>. QED  BY <1>1, <1>6, <1>7, <1>8, <1>9 DEF PoolInv

\* A connection that does not come back: abandoned, or refused by return_connection.
LEMMA PoolLoss ==
  ASSUME PoolInv, NEW c \in Clients, Abandon(c) \/ (ReturnConnection(c) /\ ~Accepted(c))
  PROVE  PoolInv'
<1>1. /\ holding[c] # 0 /\ holding' = [holding EXCEPT ![c] = 0] /\ lost' = lost + 1
      /\ size' = size /\ connected' = connected /\ shut' = shut /\ active' = active
      /\ available' = available
  BY DEF Abandon, ReturnConnection
<1>2. /\ holding \in [Clients -> 0..Capacity] /\ active \in Nat /\ lost \in Nat
  BY DEF PoolInv, TypeOK
<1>3. /\ Borrowers' = Borrowers \ {c}
      /\ Cardinality(Borrowers') = Cardinality(Borrowers) - 1
      /\ Idle' = Idle
  BY <1>1, BorrowersChange DEF PoolInv, Idle
<1>4. TypeOK'
  BY <1>1, <1>2, CapacityType DEF PoolInv, TypeOK
<1>5. ExclusiveUse'
  BY <1>1, <1>2, <1>3
  DEF PoolInv, ExclusiveUse, IdleDistinct, IdleNotHeld, HeldOnce, Borrowers
<1>6. AccountsBalance'
  BY <1>1, <1>2, <1>3, BorrowersFinite DEF PoolInv, AccountsBalance
<1>7. \A d \in Borrowers' : holding'[d] = holding[d]
  BY <1>1, <1>2, <1>3
<1>. QED  BY <1>1, <1>3, <1>4, <1>5, <1>6, <1>7 DEF PoolInv, IdleConnected

\* reconnect, which touches a connection that is not idle.
LEMMA PoolReconnect ==
  ASSUME PoolInv, NEW c \in Clients, Reconnect(c)
  PROVE  PoolInv'
<1>1. /\ holding[c] # 0 /\ holding[c] \notin Idle
      /\ \/ connected' = connected \cup {holding[c]}
         \/ connected' = connected \ {holding[c]}
      /\ UNCHANGED <<size, available, shut, active, holding, lost>>
  BY DEF Reconnect, PoolInv, ExclusiveUse, IdleNotHeld, Borrowers
<1>2. Borrowers' = Borrowers /\ Idle' = Idle
  BY <1>1 DEF Borrowers, Idle
<1>3. TypeOK'
  <2>1. holding[c] \in 1..Capacity
    BY <1>1, CapacityType DEF PoolInv, TypeOK
  <2>2. connected' \subseteq 1..Capacity
    BY <1>1, <2>1 DEF PoolInv, TypeOK
  <2>. QED  BY <1>1, <2>2 DEF PoolInv, TypeOK
<1>4. ExclusiveUse' /\ AccountsBalance' /\ IdleConnected'
  BY <1>1, <1>2
  DEF PoolInv, ExclusiveUse, IdleDistinct, IdleNotHeld, HeldOnce, AccountsBalance,
      IdleConnected
<1>. QED  BY <1>1, <1>2, <1>3, <1>4 DEF PoolInv

\* shutdown.
LEMMA PoolShutdown ==
  ASSUME PoolInv, Shutdown
  PROVE  PoolInv'
<1>1. /\ shut' /\ size' = 0 /\ available' = <<>>
      /\ UNCHANGED <<active, connected, holding, lost>>
  BY DEF Shutdown
<1>2. Borrowers' = Borrowers /\ Idle' = {}
  BY <1>1 DEF Borrowers, Idle
<1>3. TypeOK'
  BY <1>1, CapacityType, EmptySeq DEF PoolInv, TypeOK
<1>4. ExclusiveUse' /\ AccountsBalance' /\ IdleConnected'
  BY <1>1, <1>2
  DEF PoolInv, ExclusiveUse, IdleDistinct, IdleNotHeld, HeldOnce, AccountsBalance,
      IdleConnected
<1>. QED  BY <1>1, <1>2, <1>3, <1>4 DEF PoolInv

\* The constructor.
LEMMA PoolInit == Init => PoolInv
<1>. SUFFICES ASSUME Init  PROVE PoolInv
  OBVIOUS
<1>1. /\ size \in Nat /\ size <= Capacity /\ ~shut /\ active = 0 /\ lost = 0
      /\ connected = 1..size /\ holding = [c \in Clients |-> 0]
      /\ available = [i \in 1..size |-> i]
  BY CapacityType, ConstantsOK DEF Init
<1>2. available \in Seq(1..Capacity) /\ Len(available) = size /\ DOMAIN available = 1..size
  BY <1>1, CapacityType
<1>3. Borrowers = {} /\ Idle \subseteq 1..size /\ IdleDistinct
  BY <1>1, <1>2 DEF Borrowers, Idle, IdleDistinct
<1>4. AccountsBalance
  BY <1>1, <1>2, <1>3, FS_EmptySet DEF AccountsBalance
<1>5. TypeOK
  <2>1. size \in 0..Capacity /\ 1..size \subseteq 1..Capacity /\ 0 \in 0..Capacity
    BY <1>1, CapacityType
  <2>2. shut \in BOOLEAN
    BY DEF Init
  <2>. QED  BY <1>1, <1>2, <2>1, <2>2 DEF TypeOK
<1>. QED
  BY <1>1, <1>3, <1>4, <1>5
  DEF PoolInv, ExclusiveUse, IdleNotHeld, HeldOnce, IdleConnected

\* Every reachable state satisfies the inductive invariant.
THEOREM PoolInvariant == Spec => []PoolInv
<1>1. PoolInv /\ [Next]_vars => PoolInv'
  <2>. SUFFICES ASSUME PoolInv, [Next]_vars  PROVE PoolInv'
    OBVIOUS
  <2>1. ASSUME NEW c \in Clients, GetConnection(c)  PROVE PoolInv'
    BY <2>1, PoolTake, PoolCreate DEF GetConnection
  <2>2. ASSUME NEW c \in Clients, ReturnConnection(c)  PROVE PoolInv'
    BY <2>2, PoolAccept, PoolLoss
  <2>3. ASSUME NEW c \in Clients, Abandon(c) \/ Reconnect(c)  PROVE PoolInv'
    BY <2>3, PoolLoss, PoolReconnect
  <2>4. CASE UNCHANGED vars
    <3>1. Borrowers' = Borrowers /\ Idle' = Idle
      BY <2>4 DEF vars, Borrowers, Idle
    <3>. QED
      BY <2>4, <3>1
      DEF vars, PoolInv, TypeOK, ExclusiveUse, IdleDistinct, IdleNotHeld, HeldOnce,
          AccountsBalance, IdleConnected
  <2>. QED  BY <2>1, <2>2, <2>3, <2>4, PoolShutdown DEF Next
<1>. QED  BY PoolInit, <1>1, PTL DEF Spec

\* A connection serves one client at a time.
THEOREM ExclusiveUseHolds == Spec => []ExclusiveUse
  BY PoolInvariant, PTL DEF PoolInv

\* The counters account for every connection of the pool.
THEOREM AccountsBalanceHolds == Spec => []AccountsBalance
  BY PoolInvariant, PTL DEF PoolInv

\* Every idle connection is connected, as far as the pool knows.
THEOREM IdleConnectedHolds == Spec => []IdleConnected
  BY PoolInvariant, PTL DEF PoolInv

-----------------------------------------------------------------------------
(* The system                                                              *)

\* A step of the monitoring thread is one of its client of the pool, or leaves the
\* pool alone: a refused request changes nothing there.
LEMMA MonitorThreadUsesPool ==
  MonitorThread => (\E c \in Clients : GetConnection(c) \/ ReturnConnection(c)) \/ UNCHANGED vars
  BY MonitorAssumption DEF MonitorThread, Ask, Write

\* The steps of the other clients, and shutdown, are steps of the pool.
LEMMA OthersUsePool == OtherClients => Next
  BY DEF OtherClients, Next

\* Every behaviour of the system is one of the pool.
THEOREM SystemImplementsPool == SystemSpec => Spec
<1>1. SystemInit => Init
  BY DEF SystemInit
<1>2. [SystemNext]_systemVars => [Next]_vars
  <2>. SUFFICES ASSUME [SystemNext]_systemVars  PROVE [Next]_vars
    OBVIOUS
  <2>1. CASE MonitorThread
    BY <2>1, MonitorThreadUsesPool DEF Next
  <2>2. CASE (Monitor!ManageSources \/ Monitor!ControlStep \/ Monitor!Tick) /\ UNCHANGED vars
    BY <2>2
  <2>3. CASE OtherClients
    BY <2>3, OthersUsePool
  <2>4. CASE UNCHANGED systemVars
    BY <2>4 DEF systemVars
  <2>. QED  BY <2>1, <2>2, <2>3, <2>4 DEF SystemNext
<1>. QED  BY <1>1, <1>2, PTL DEF SystemSpec, Spec

\* The monitor and the other clients never share a connection.
THEOREM SystemExclusiveUse == SystemSpec => []ExclusiveUse
  BY SystemImplementsPool, ExclusiveUseHolds, PTL

\* With the monitor among the clients, the counters account for every connection.
THEOREM SystemAccountsBalance == SystemSpec => []AccountsBalance
  BY SystemImplementsPool, AccountsBalanceHolds, PTL

\* With the monitor among the clients, every idle connection is connected.
THEOREM SystemIdleConnected == SystemSpec => []IdleConnected
  BY SystemImplementsPool, IdleConnectedHolds, PTL

-----------------------------------------------------------------------------
(* The monitoring thread                                                   *)

Checking == pc \in {"fetch", "ask", "write", "apply"}

\* The sources this pass has still to count a failure of.
Pending == IF Checking THEN due \cup {checking} ELSE due

\* What makes the monitor's types inductive.  The bound on the counter of failures
\* needs that a source waiting for its check, or in it, is below the bound whatever
\* callers store meanwhile, that the one being checked does not wait a second time, and
\* that no second thread starts.
MonitorInv ==
  /\ Monitor!TypeOK
  /\ control = "down" => pc = "exited"
  /\ (op # "none") = (pc \in {"ask", "write", "apply"})
  /\ Checking => checking \in Sources \ due
  /\ \A s \in Monitor!Have \cap Pending : sources[s].failures < MaxCount

\* A record that is put is of its type and, of a source that is pending, below the
\* limit: the operations that manage sources keep the invariant.
LEMMA PutKeeps ==
  ASSUME MonitorInv, NEW s \in Sources, NEW r \in Monitor!Records,
         r.failures < MaxCount \/ s \notin Pending', Monitor!Put(s, r),
         Pending' \subseteq Pending
  PROVE  /\ Monitor!Have' \subseteq Sources
         /\ \A x \in Monitor!Have' : sources'[x] \in Monitor!Records
         /\ \A x \in Monitor!Have' \cap Pending' : sources'[x].failures < MaxCount
<1>1. /\ Monitor!Have' = Monitor!Have \cup {s}
      /\ \A x \in Monitor!Have' : sources'[x] = IF x = s THEN r ELSE sources[x]
  BY DEF Monitor!Put, Monitor!Have
<1>. QED  BY <1>1 DEF MonitorInv, Monitor!TypeOK

\* What callers store, and what initialize() does, is a record below the bound.
LEMMA GivenRecord ==
  /\ \A r \in Monitor!Given : r \in Monitor!Records /\ r.failures < MaxCount
  /\ \A b \in BOOLEAN : Monitor!Fresh(b) \in Monitor!Records
<1>. USE MonitorAssumption DEF Monitor!MonitorConstantsOK
<1>1. 0..(MaxCount - 1) \subseteq 0..MaxCount /\ 0 \in 0..MaxCount
  OBVIOUS
<1>2. \A r \in Monitor!Given : r \in Monitor!Records /\ r.failures < MaxCount
  BY <1>1 DEF Monitor!Given, Monitor!Records, Monitor!Recorded
<1>3. \A b \in BOOLEAN : Monitor!Fresh(b) \in Monitor!Records
  BY <1>1 DEF Monitor!Fresh, Monitor!Records, Monitor!Recorded, Monitor!Epoch
<1>. QED  BY <1>2, <1>3

\* Adding, replacing, removing and forcing a source keep the invariant.
LEMMA ManageKeeps == MonitorInv /\ Monitor!ManageSources => MonitorInv'
<1>. SUFFICES ASSUME MonitorInv, NEW s \in Sources,
                     \/ Monitor!AddSource(s) \/ Monitor!UpdateSource(s)
                     \/ Monitor!RemoveSource(s) \/ Monitor!ForceCheck(s)
              PROVE  MonitorInv'
  BY DEF Monitor!ManageSources
<1>0. /\ UNCHANGED <<now, running, control, pc, due, checking, op, rows>>
      /\ Pending' = Pending
  BY DEF Monitor!AddSource, Monitor!UpdateSource, Monitor!RemoveSource, Monitor!ForceCheck,
         Monitor!threadVars, Pending, Checking
<1>. SUFFICES /\ Monitor!Have' \subseteq Sources
              /\ \A x \in Monitor!Have' : sources'[x] \in Monitor!Records
              /\ \A x \in Monitor!Have' \cap Pending' : sources'[x].failures < MaxCount
  BY <1>0 DEF MonitorInv, Monitor!TypeOK, Checking
<1>1. CASE Monitor!AddSource(s) \/ Monitor!UpdateSource(s)
  <2>1. PICK r \in Monitor!Given : Monitor!Put(s, r)
    BY <1>1 DEF Monitor!AddSource, Monitor!UpdateSource
  <2>2. r \in Monitor!Records /\ r.failures < MaxCount
    BY GivenRecord
  <2>. QED  BY <2>1, <2>2, <1>0, PutKeeps
<1>2. CASE Monitor!RemoveSource(s)
  <2>1. Monitor!Have' \subseteq Monitor!Have /\ \A x \in Monitor!Have' : sources'[x] = sources[x]
    BY <1>2 DEF Monitor!RemoveSource, Monitor!Have
  <2>. QED  BY <2>1, <1>0 DEF MonitorInv, Monitor!TypeOK
<1>3. CASE Monitor!ForceCheck(s)
  <2>. DEFINE r == [sources[s] EXCEPT !.last_check = -HalfRange]
  <2>1. s \in Monitor!Have /\ Monitor!Put(s, r)
    BY <1>3 DEF Monitor!ForceCheck
  <2>2. sources[s] \in Monitor!Records
    BY <2>1 DEF MonitorInv, Monitor!TypeOK
  <2>3. r \in Monitor!Records /\ r.failures = sources[s].failures
    BY <2>2 DEF Monitor!Records, Monitor!Recorded
  <2>4. r.failures < MaxCount \/ s \notin Pending'
    BY <1>0, <2>1, <2>3 DEF MonitorInv
  <2>. HIDE DEF r
  <2>. QED  BY <1>0, <2>1, <2>3, <2>4, PutKeeps
<1>. QED  BY <1>1, <1>2, <1>3

\* Starting, stopping and the clock touch neither the sources nor a check in progress.
LEMMA ControlKeeps == MonitorInv /\ (Monitor!ControlStep \/ Monitor!Tick) => MonitorInv'
<1>. SUFFICES ASSUME MonitorInv, Monitor!ControlStep \/ Monitor!Tick
              PROVE  MonitorInv'
  OBVIOUS
<1>1. CASE Monitor!StartMonitoring \/ Monitor!StopMonitoring \/ Monitor!JoinMonitoring
  <2>. USE DEF Monitor!threadVars, Monitor!sourceVars, Checking, Pending, Monitor!Goto,
               MonitorInv, Monitor!TypeOK, Monitor!Have
  <2>1. CASE Monitor!StartMonitoring
    BY <2>1 DEF Monitor!StartMonitoring
  <2>2. CASE Monitor!StopMonitoring
    BY <2>2 DEF Monitor!StopMonitoring
  <2>3. CASE Monitor!JoinMonitoring
    BY <2>3 DEF Monitor!JoinMonitoring
  <2>. QED  BY <1>1, <2>1, <2>2, <2>3
<1>2. CASE Monitor!Tick
  BY <1>2, MonitorAssumption
  DEF Monitor!Tick, Monitor!threadVars, Checking, Pending, MonitorInv, Monitor!TypeOK,
      Monitor!Have, Monitor!MonitorConstantsOK
<1>. QED  BY <1>1, <1>2 DEF Monitor!ControlStep

\* Proceed leads to the next call of the same check, or out of it.
LEMMA ProceedEffect ==
  ASSUME MonitorInv, pc \in {"ask", "apply"}, Monitor!Proceed
  PROVE  \/ pc' = "ask" /\ op' \in {"store", "reset", "last_check"}
            /\ op \in {"is_duplicate", "store", "reset"}
         \/ pc' = "pick" /\ op' = "none" /\ op \in {"last_check", "increment"}
  BY DEF Monitor!Proceed, Monitor!NextOp, Monitor!Goto, MonitorInv, Monitor!TypeOK

\* The steps of a pass up to the first database call.
LEMMA PassKeeps ==
  MonitorInv /\ (Monitor!LoopTest \/ Monitor!Collect \/ Monitor!Pick \/ Monitor!PassEnds
                   \/ Monitor!Fetch)
    => MonitorInv'
<1>. SUFFICES ASSUME MonitorInv,
                     \/ Monitor!LoopTest \/ Monitor!Collect \/ Monitor!Pick
                     \/ Monitor!PassEnds \/ Monitor!Fetch
              PROVE  MonitorInv'
  OBVIOUS
<1>. USE DEF MonitorInv, Monitor!TypeOK, Monitor!Have, Monitor!Goto, Monitor!sourceVars,
             Checking, Pending
<1>1. CASE Monitor!LoopTest
  BY <1>1 DEF Monitor!LoopTest
<1>2. CASE Monitor!Collect
  <2>1. ASSUME NEW s \in Monitor!Have, Monitor!ShouldCheck(sources[s])
        PROVE  sources[s].failures < MaxCount
    <3>1. sources[s].failures \in Nat /\ sources[s].failures < MaxFailures
      BY <2>1 DEF Monitor!ShouldCheck, Monitor!Records, Monitor!Recorded
    <3>. QED
      BY <3>1, MonitorAssumption DEF Monitor!MonitorConstantsOK
  <2>. QED
    BY <1>2, <2>1 DEF Monitor!Collect
<1>3. CASE Monitor!Pick
  BY <1>3 DEF Monitor!Pick
<1>4. CASE Monitor!PassEnds
  BY <1>4 DEF Monitor!PassEnds
<1>5. CASE Monitor!Fetch
  BY <1>5 DEF Monitor!Fetch
<1>. QED  BY <1>1, <1>2, <1>3, <1>4, <1>5

\* Asking for a connection and executing the command leave the sources alone.
LEMMA CallKeeps ==
  MonitorInv /\ (Monitor!Write \/ \E got \in BOOLEAN : Monitor!Ask(got)) => MonitorInv'
<1>. SUFFICES ASSUME MonitorInv, Monitor!Write \/ \E got \in BOOLEAN : Monitor!Ask(got)
              PROVE  MonitorInv'
  OBVIOUS
<1>1. CASE Monitor!Write
  <2>1. rows' \in [Sources -> 0..MaxRows]
    <3>1. \A n \in 0..MaxRows : (IF op = "store" /\ n < MaxRows THEN n + 1 ELSE n) \in 0..MaxRows
      BY MonitorAssumption DEF Monitor!MonitorConstantsOK
    <3>. QED  BY <1>1, <3>1 DEF Monitor!Write, MonitorInv, Monitor!TypeOK
  <2>. QED
    BY <1>1, <2>1
    DEF Monitor!Write, MonitorInv, Monitor!TypeOK, Monitor!Have, Monitor!Goto,
        Monitor!sourceVars, Checking, Pending
<1>2. CASE \E got \in BOOLEAN : Monitor!Ask(got)
  <2>1. /\ pc = "ask" /\ UNCHANGED <<sources, now, running, control, due, checking, rows>>
        /\ (pc' = "write" /\ op' = op) \/ Monitor!Proceed
    BY <1>2 DEF Monitor!Ask, Monitor!Goto, Monitor!sourceVars
  <2>. QED
    BY <2>1, ProceedEffect
    DEF MonitorInv, Monitor!TypeOK, Monitor!Have, Checking, Pending
<1>. QED  BY <1>1, <1>2

\* The bookkeeping after a command counts one failure at most, of a source that was
\* below the limit, and is the end of its check.
LEMMA ApplyKeeps == MonitorInv /\ Monitor!Apply => MonitorInv'
<1>. SUFFICES ASSUME MonitorInv, Monitor!Apply  PROVE MonitorInv'
  OBVIOUS
<1>1. /\ pc = "apply" /\ Monitor!Proceed
      /\ UNCHANGED <<now, running, control, due, checking, rows>>
  BY DEF Monitor!Apply
<1>2. /\ pc' \in {"ask", "pick"} /\ (op' # "none") = (pc' = "ask")
      /\ op' \in {"none", "store", "reset", "last_check"}
      /\ op = "increment" => pc' = "pick"
      /\ checking \in Sources \ due
  BY <1>1, ProceedEffect DEF MonitorInv, Checking
<1>3. Pending' \subseteq Pending /\ (pc' = "pick" => checking \notin Pending')
  BY <1>1, <1>2 DEF Pending, Checking
<1>4. /\ Monitor!Have' \subseteq Sources
      /\ \A x \in Monitor!Have' : sources'[x] \in Monitor!Records
      /\ \A x \in Monitor!Have' \cap Pending' : sources'[x].failures < MaxCount
  <2>1. CASE checking \notin Monitor!Have
    BY <2>1, <1>3 DEF Monitor!Apply, MonitorInv, Monitor!TypeOK, Monitor!Have
  <2>2. CASE checking \in Monitor!Have
    <3>. DEFINE old == sources[checking]
                new == Monitor!Updated(old)
    <3>1. Monitor!Put(checking, new)
      BY <2>2 DEF Monitor!Apply
    <3>2. old \in Monitor!Records /\ now \in 0..MaxNow /\ old.failures < MaxCount
      BY <2>2, <1>1 DEF MonitorInv, Monitor!TypeOK, Pending, Checking
    <3>3. new \in Monitor!Records /\ (op # "increment" => new.failures < MaxCount)
      <4>1. op \in {"is_duplicate", "store", "reset", "last_check", "increment"}
        BY <1>1 DEF MonitorInv, Monitor!TypeOK
      <4>2. MaxCount \in Nat \ {0} /\ old.failures + 1 \in 0..MaxCount
        BY <3>2, MonitorAssumption
        DEF Monitor!MonitorConstantsOK, Monitor!Records, Monitor!Recorded
      <4>. HIDE DEF old
      <4>3. CASE op = "reset"
        BY <3>2, <4>2, <4>3 DEF Monitor!Updated, Monitor!Records, Monitor!Recorded
      <4>4. CASE op = "last_check"
        <5>. DEFINE mid == [old EXCEPT !.failures = 0]
        <5>1. new = [mid EXCEPT !.last_check = now]
          BY <4>4 DEF Monitor!Updated
        <5>2. mid \in Monitor!Records /\ mid.failures = 0
          BY <3>2, <4>2 DEF Monitor!Records, Monitor!Recorded
        <5>. HIDE DEF mid, new
        <5>3. new \in Monitor!Records /\ new.failures = 0
          BY <3>2, <5>1, <5>2 DEF Monitor!Records, Monitor!Recorded
        <5>. QED  BY <5>3, <4>2
      <4>5. CASE op = "increment"
        BY <3>2, <4>2, <4>5 DEF Monitor!Updated, Monitor!Records, Monitor!Recorded
      <4>6. CASE op \in {"is_duplicate", "store"}
        BY <3>2, <4>6 DEF Monitor!Updated
      <4>. QED  BY <4>1, <4>3, <4>4, <4>5, <4>6
    <3>. HIDE DEF new
    <3>. QED  BY <3>1, <3>3, <1>2, <1>3, PutKeeps
  <2>. QED  BY <2>1, <2>2
<1>. QED
  BY <1>1, <1>2, <1>4 DEF MonitorInv, Monitor!TypeOK, Checking

\* The monitor begins with no thread.
LEMMA MonitorInit == Monitor!Init => MonitorInv
<1>. SUFFICES ASSUME Monitor!Init  PROVE MonitorInv
  OBVIOUS
<1>1. /\ Monitor!Have = Defaults
      /\ \A s \in Monitor!Have : sources[s] = Monitor!Fresh(TRUE)
  BY DEF Monitor!Init, Monitor!Have
<1>2. /\ pc = "exited" /\ due = {} /\ checking = NoSource /\ op = "none"
      /\ running = FALSE /\ control = "down" /\ Pending = {}
  BY DEF Monitor!Init, Checking, Pending
<1>3. now \in 0..MaxNow /\ rows \in [Sources -> 0..MaxRows]
  BY MonitorAssumption DEF Monitor!Init, Monitor!MonitorConstantsOK
<1>4. /\ Monitor!Have \subseteq Sources
      /\ \A s \in Monitor!Have : sources[s] \in Monitor!Records
  BY <1>1, GivenRecord, MonitorAssumption DEF Monitor!MonitorConstantsOK
<1>5. Monitor!TypeOK
  BY <1>2, <1>3, <1>4 DEF Monitor!TypeOK
<1>6. (op # "none") = (pc \in {"ask", "write", "apply"})
  BY <1>2
<1>7. Checking => checking \in Sources \ due
  BY <1>2 DEF Checking
<1>8. \A s \in Monitor!Have \cap Pending : sources[s].failures < MaxCount
  BY <1>2
<1>. QED  BY <1>2, <1>5, <1>6, <1>7, <1>8 DEF MonitorInv

\* With the pool or without it, every step of the system keeps what the monitor needs.
LEMMA MonitorStep == MonitorInv /\ [SystemNext]_systemVars => MonitorInv'
<1>. SUFFICES ASSUME MonitorInv, [SystemNext]_systemVars  PROVE MonitorInv'
  OBVIOUS
<1>1. CASE MonitorThread
  <2>1. \/ Monitor!LoopTest \/ Monitor!Collect \/ Monitor!Pick \/ Monitor!PassEnds
        \/ Monitor!Fetch \/ Monitor!Apply \/ Monitor!Write
        \/ \E got \in BOOLEAN : Monitor!Ask(got)
    BY <1>1 DEF MonitorThread, Monitor!ThreadStep, Ask, Write
  <2>. QED  BY <2>1, PassKeeps, ApplyKeeps, CallKeeps
<1>2. CASE Monitor!ManageSources \/ Monitor!ControlStep \/ Monitor!Tick
  BY <1>2, ManageKeeps, ControlKeeps
<1>3. CASE UNCHANGED monitorVars
  BY <1>3
  DEF monitorVars, MonitorInv, Monitor!TypeOK, Monitor!Have, Checking, Pending
<1>. QED  BY <1>1, <1>2, <1>3 DEF SystemNext, systemVars

\* What only the system has: the monitoring thread holds a connection exactly while
\* it executes a command.
MonitorHolds == (holding[monitor] # 0) = (pc = "write")

\* What a client's own calls of the pool do to the connection it has.
LEMMA CallEffect ==
  ASSUME PoolInv, NEW c \in Clients
  PROVE  /\ GetConnection(c) => holding'[c] # 0
         /\ ReturnConnection(c) => holding'[c] = 0
<1>1. ASSUME GetConnection(c)  PROVE holding'[c] # 0
  <2>1. CASE Take(c)
    <3>1. available[Len(available)] \in 1..Capacity
      <4>1. available \in Seq(1..Capacity) /\ available # <<>>
        BY <2>1 DEF Take, PoolInv, TypeOK
      <4>2. Len(available) \in 1..Len(available)
        BY <4>1, EmptySeq, LenProperties
      <4>. QED  BY <4>1, <4>2, ElementOfSeq
    <3>. QED  BY <2>1, <3>1 DEF Take, PoolInv, TypeOK
  <2>2. CASE Create(c)
    BY <2>2, CapacityType DEF Create, PoolInv, TypeOK
  <2>. QED  BY <1>1, <2>1, <2>2 DEF GetConnection
<1>2. ReturnConnection(c) => holding'[c] = 0
  BY DEF ReturnConnection, PoolInv, TypeOK
<1>. QED  BY <1>1, <1>2

\* A connection is the monitor's from the answer of its request to the end of its
\* command, whatever the other clients do.
LEMMA HoldsStep ==
  PoolInv /\ MonitorInv /\ MonitorHolds /\ [SystemNext]_systemVars => MonitorHolds'
<1>. SUFFICES ASSUME PoolInv, MonitorInv, MonitorHolds, [SystemNext]_systemVars
              PROVE  MonitorHolds'
  OBVIOUS
<1>. USE DEF MonitorHolds
<1>1. CASE Monitor!ThreadStep /\ UNCHANGED vars
  BY <1>1
  DEF vars, Monitor!ThreadStep, Monitor!LoopTest, Monitor!Collect, Monitor!Pick,
      Monitor!PassEnds, Monitor!Fetch, Monitor!Apply, Monitor!Proceed, Monitor!Goto
<1>2. CASE Ask
  <2>1. CASE Monitor!Ask(TRUE) /\ GetConnection(monitor)
    BY <2>1, MonitorAssumption, CallEffect DEF Monitor!Ask, Monitor!Goto
  <2>2. CASE Monitor!Ask(FALSE) /\ UNCHANGED vars
    BY <2>2 DEF vars, Monitor!Ask, Monitor!Proceed, Monitor!Goto
  <2>. QED  BY <1>2, <2>1, <2>2 DEF Ask
<1>3. CASE Write
  BY <1>3, MonitorAssumption, CallEffect DEF Write, Monitor!Write, Monitor!Goto
<1>4. CASE (Monitor!ManageSources \/ Monitor!Tick) /\ UNCHANGED vars
  BY <1>4
  DEF vars, Monitor!ManageSources, Monitor!AddSource, Monitor!UpdateSource,
      Monitor!RemoveSource, Monitor!ForceCheck, Monitor!Tick, Monitor!threadVars
<1>5. CASE Monitor!ControlStep /\ UNCHANGED vars
  BY <1>5
  DEF vars, Monitor!ControlStep, Monitor!StartMonitoring, Monitor!StopMonitoring,
      Monitor!JoinMonitoring, Monitor!threadVars, Monitor!Goto, MonitorInv
<1>6. CASE OtherClients /\ UNCHANGED monitorVars
  <2>1. holding'[monitor] = holding[monitor]
    BY <1>6, MonitorAssumption
    DEF OtherClients, GetConnection, Take, Create, ReturnConnection, Abandon, Reconnect,
        Shutdown, PoolInv, TypeOK
  <2>. QED  BY <1>6, <2>1 DEF monitorVars
<1>7. CASE UNCHANGED systemVars
  BY <1>7 DEF systemVars, vars, monitorVars
<1>. QED
  BY <1>1, <1>2, <1>3, <1>4, <1>5, <1>6, <1>7 DEF SystemNext, MonitorThread

\* The types of the pool and the monitor, that the counter of failures stays within
\* its limit, and that no path through a check keeps a connection.
THEOREM SystemTypeOKHolds == SystemSpec => []SystemTypeOK
<1>1. SystemInit => MonitorInv /\ MonitorHolds
  <2>1. SystemInit => MonitorInv
    BY MonitorInit DEF SystemInit
  <2>2. SystemInit => MonitorHolds
    BY MonitorAssumption DEF SystemInit, Init, Monitor!Init, MonitorHolds
  <2>. QED  BY <2>1, <2>2
<1>2. PoolInv /\ MonitorInv /\ MonitorHolds /\ [SystemNext]_systemVars
        => MonitorInv' /\ MonitorHolds'
  BY MonitorStep, HoldsStep
<1>3. SystemSpec => []PoolInv
  BY SystemImplementsPool, PoolInvariant, PTL
<1>4. PoolInv /\ MonitorInv /\ MonitorHolds => SystemTypeOK
  BY DEF PoolInv, MonitorInv, MonitorHolds, SystemTypeOK
<1>. QED  BY <1>1, <1>2, <1>3, <1>4, PTL DEF SystemSpec

\* No step of the monitoring thread, nor of what starts and stops it, brings back a
\* source that was removed while it was being checked.
THEOREM RemovedStaysRemovedHolds == SystemSpec => RemovedStaysRemoved
<1>1. [SystemNext]_systemVars
        => [pc' # pc => DOMAIN sources' \subseteq DOMAIN sources]_(Monitor!vars)
  <2>. SUFFICES ASSUME [SystemNext]_systemVars, pc' # pc
                PROVE  DOMAIN sources' \subseteq DOMAIN sources
    OBVIOUS
  <2>1. CASE Monitor!Apply
    <3>1. CASE checking \in Monitor!Have
      BY <2>1, <3>1 DEF Monitor!Apply, Monitor!Put, Monitor!Have
    <3>2. CASE checking \notin Monitor!Have
      BY <2>1, <3>2 DEF Monitor!Apply
    <3>. QED  BY <3>1, <3>2
  <2>2. CASE ~Monitor!Apply
    <3>1. sources' = sources
      BY <2>2
      DEF SystemNext, MonitorThread, Ask, Write, systemVars, monitorVars, vars,
          Monitor!ThreadStep, Monitor!LoopTest, Monitor!Collect, Monitor!Pick,
          Monitor!PassEnds, Monitor!Fetch, Monitor!Ask, Monitor!Write,
          Monitor!ControlStep, Monitor!StartMonitoring, Monitor!StopMonitoring,
          Monitor!JoinMonitoring, Monitor!ManageSources, Monitor!AddSource,
          Monitor!UpdateSource, Monitor!RemoveSource, Monitor!ForceCheck, Monitor!Tick,
          Monitor!sourceVars, Monitor!threadVars
    <3>. QED  BY <3>1
  <2>. QED  BY <2>1, <2>2
<1>. QED  BY <1>1, PTL DEF SystemSpec, RemovedStaysRemoved, Monitor!RemovedStaysRemoved
=============================================================================
