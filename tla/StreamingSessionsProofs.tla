---------------------- MODULE StreamingSessionsProofs ----------------------
(***************************************************************************)
(* Theorems about StreamingSessions, for any number of calls, however long *)
(* the answers and wherever they are cut.                                  *)
(***************************************************************************)
EXTENDS StreamingSessions, SequenceFacts, FiniteSetTheorems, TLAPS

Places == {"create", "check", "arm", "perform", "transfer", "finish",
           "report_error", "session", "nullopt"}
Ways == {"completed", "failed"}

\* One call and its session: active from its start to its first end, and not before;
\* a call that has returned has left it ended.
EndOf(c) ==
  /\ Len(endings[c]) <= 1
  /\ active[c] => endings[c] = <<>>
  /\ pc[c] = "create" => ~active[c] /\ endings[c] = <<>>
  /\ pc[c] # "create" => active[c] \/ endings[c] # <<>>
  /\ pc[c] \in {"session", "nullopt"} => ~active[c]

\* OneEnding is inductive with this.
EndInv ==
  /\ active \in [Callers -> BOOLEAN]
  /\ endings \in [Callers -> Seq(Ways)]
  /\ pc \in [Callers -> Places]
  /\ \A c \in Callers : EndOf(c)

\* complete and fail end an active session, once, and touch no other.
LEMMA EndEffect ==
  ASSUME EndInv, NEW s, NEW how \in Ways, End(s, how)
  PROVE  /\ active' \in [Callers -> BOOLEAN]
         /\ endings' \in [Callers -> Seq(Ways)]
         /\ \A c \in Callers :
              \/ active'[c] = active[c] /\ endings'[c] = endings[c]
              \/ active[c] /\ ~active'[c] /\ endings'[c] # <<>> /\ Len(endings'[c]) = 1
         /\ s \in Callers => ~active'[s]
<1>1. CASE active[s]
  <2>1. CASE s \in Callers
    <3>1. endings[s] = <<>>
      BY <1>1, <2>1 DEF EndInv, EndOf
    <3>2. Append(endings[s], how) = <<how>>
      BY <3>1
    <3>3. endings' = [endings EXCEPT ![s] = <<how>>] /\ active' = [active EXCEPT ![s] = FALSE]
      BY <1>1, <3>2 DEF End
    <3>4. <<how>> \in Seq(Ways) /\ <<how>> # <<>> /\ Len(<<how>>) = 1
      OBVIOUS
    <3>. QED  BY <1>1, <2>1, <3>3, <3>4 DEF EndInv
  <2>2. CASE s \notin Callers
    BY <1>1, <2>2 DEF End, EndInv
  <2>. QED  BY <2>1, <2>2
<1>2. CASE ~active[s]
  BY <1>2 DEF End, EndInv
<1>. QED  BY <1>1, <1>2

\* What the stream does to a session, its own or a stranger's, while its call stays
\* where it is.
LEMMA EndByStream ==
  ASSUME EndInv, NEW s, NEW how \in Ways, End(s, how), UNCHANGED pc
  PROVE  EndInv'
<1>1. /\ active' \in [Callers -> BOOLEAN] /\ endings' \in [Callers -> Seq(Ways)]
      /\ \A c \in Callers :
           \/ active'[c] = active[c] /\ endings'[c] = endings[c]
           \/ active[c] /\ ~active'[c] /\ endings'[c] # <<>> /\ Len(endings'[c]) = 1
  BY EndEffect
<1>2. ASSUME NEW c \in Callers  PROVE EndOf(c)'
  <2>1. EndOf(c)
    BY DEF EndInv
  <2>2. pc'[c] = pc[c]
    OBVIOUS
  <2>3. CASE active'[c] = active[c] /\ endings'[c] = endings[c]
    BY <2>1, <2>2, <2>3 DEF EndOf
  <2>4. CASE active[c] /\ ~active'[c] /\ endings'[c] # <<>> /\ Len(endings'[c]) = 1
    BY <2>1, <2>2, <2>4 DEF EndOf
  <2>. QED  BY <1>1, <2>3, <2>4
<1>. QED  BY <1>1, <1>2 DEF EndInv

\* What the call itself does on its way to a return.
LEMMA EndByCall ==
  ASSUME EndInv, NEW c \in Callers, NEW how \in Ways, End(c, how),
         pc[c] # "create", NEW to \in {"session", "nullopt"}, pc' = [pc EXCEPT ![c] = to]
  PROVE  EndInv'
<1>1. pc' \in [Callers -> Places] /\ pc'[c] = to /\ \A d \in Callers \ {c} : pc'[d] = pc[d]
  BY DEF EndInv, Places
<1>2. /\ active' \in [Callers -> BOOLEAN] /\ endings' \in [Callers -> Seq(Ways)]
      /\ \A d \in Callers :
           \/ active'[d] = active[d] /\ endings'[d] = endings[d]
           \/ active[d] /\ ~active'[d] /\ endings'[d] # <<>> /\ Len(endings'[d]) = 1
      /\ ~active'[c]
  BY EndEffect
<1>3. ASSUME NEW d \in Callers  PROVE EndOf(d)'
  <2>1. EndOf(d)
    BY DEF EndInv
  <2>2. pc'[d] = pc[d] \/ (d = c /\ pc'[d] \in {"session", "nullopt"})
    BY <1>1
  <2>3. CASE active'[d] = active[d] /\ endings'[d] = endings[d]
    BY <1>2, <2>1, <2>2, <2>3 DEF EndOf
  <2>4. CASE active[d] /\ ~active'[d] /\ endings'[d] # <<>> /\ Len(endings'[d]) = 1
    BY <2>1, <2>2, <2>4 DEF EndOf
  <2>. QED  BY <1>2, <2>3, <2>4
<1>. QED  BY <1>1, <1>2, <1>3 DEF EndInv

\* Steps of a call that leave the sessions alone.
LEMMA EndMove ==
  ASSUME EndInv, NEW c \in Callers, UNCHANGED <<active, endings>>, pc[c] # "create",
         NEW to \in Places \ {"create", "session", "nullopt"}, pc' = [pc EXCEPT ![c] = to]
  PROVE  EndInv'
  BY DEF EndInv, EndOf

\* EndInv is inductive.
LEMMA EndStep == EndInv /\ [Next]_vars => EndInv'
<1>. SUFFICES ASSUME EndInv, [Next]_vars  PROVE EndInv'
  OBVIOUS
<1>1. ASSUME NEW c \in Callers, Create(c)  PROVE EndInv'
  BY <1>1 DEF Create, Goto, EndInv, EndOf, Places
<1>2. ASSUME NEW c \in Callers, CheckRate(c)  PROVE EndInv'
  <2>1. CASE Goto(c, "check", "arm") /\ UNCHANGED <<active, endings>>
    BY <2>1, EndMove DEF Goto, Places
  <2>2. CASE Goto(c, "check", "nullopt") /\ End(c, "failed")
    BY <2>2, EndByCall DEF Goto, Ways
  <2>. QED  BY <1>2, <2>1, <2>2 DEF CheckRate
<1>3. ASSUME NEW c \in Callers, Finish(c)  PROVE EndInv'
  BY <1>3, EndByCall DEF Finish, Goto, Ways
<1>4. ASSUME NEW c \in Callers, SetCallback(c) \/ Perform(c) \/ TransferEnds(c) \/ TransferFails(c)
      PROVE  EndInv'
  <2>1. PICK from, to : /\ Goto(c, from, to) /\ from # "create"
                        /\ to \in Places \ {"create", "session", "nullopt"}
    BY <1>4 DEF SetCallback, Perform, TransferEnds, TransferFails, ReportError, Places
  <2>2. UNCHANGED <<active, endings>>
    BY <1>4 DEF SetCallback, Perform, TransferEnds, TransferFails, session
  <2>. QED  BY <2>1, <2>2, EndMove DEF Goto
<1>5. ASSUME NEW c \in Callers, Process(c)  PROVE EndInv'
  <2>1. UNCHANGED pc
    BY <1>5 DEF Process
  <2>2. CASE UNCHANGED <<active, endings>>
    BY <2>1, <2>2 DEF EndInv, EndOf
  <2>3. CASE End(into[c], "completed")
    BY <2>1, <2>3, EndByStream DEF Ways
  <2>4. CASE End(into[c], "failed")
    BY <2>1, <2>4, EndByStream DEF Ways
  <2>. QED  BY <1>5, <2>2, <2>3, <2>4 DEF Process
<1>6. CASE \/ Tick \/ OtherRequest \/ OtherPost \/ OtherReturns \/ UNCHANGED vars
           \/ \E c \in Callers : Receive(c) \/ Send(c)
  <2>1. UNCHANGED <<active, endings, pc>>
    BY <1>6 DEF Tick, OtherRequest, OtherPost, OtherReturns, vars, session, Receive, Send
  <2>. QED  BY <2>1 DEF EndInv, EndOf
<1>. QED  BY <1>1, <1>2, <1>3, <1>4, <1>5, <1>6 DEF Next, CallerStep

\* A session that was started ends once, completed or failed, however its stream, its
\* call and the stream of another call meet; and no call returns before its session
\* has ended.
THEOREM OneEndingHolds == Spec => []OneEnding
<1>1. Init => EndInv
  BY DEF Init, EndInv, EndOf, Places
<1>2. EndInv => OneEnding
  BY DEF EndInv, EndOf, OneEnding
<1>. QED  BY <1>1, <1>2, EndStep, PTL DEF Spec

-----------------------------------------------------------------------------
(* The limit of requests                                                   *)

Times == 0..MaxTime

\* The timestamps kept are the last of all that passed; those dropped are older than
\* the window; and of any MaxRequests + 1 in a row, the first and the last are more
\* than the window apart.
RateInv ==
  /\ now \in Times /\ passed \in Seq(Times) /\ request_timestamps \in Seq(Times)
  /\ Len(request_timestamps) <= Len(passed) /\ Len(request_timestamps) <= MaxRequests
  /\ \A j \in 1..Len(request_timestamps) :
       request_timestamps[j] = passed[Len(passed) - Len(request_timestamps) + j]
  /\ \A i \in 1..(Len(passed) - Len(request_timestamps)) : Outdated(passed[i])
  /\ \A i \in 1..Len(passed) : passed[i] <= now
  /\ \A i, j \in 1..Len(passed) : i <= j => passed[i] <= passed[j]
  /\ \A i, j \in 1..Len(passed) : j = i + MaxRequests => passed[i] + Window < passed[j]

\* The loop of check_rate_limit drops only what is older than the window.
LEMMA RecentEffect ==
  ASSUME RateInv
  PROVE  /\ Recent \in Seq(Times) /\ Len(Recent) <= Len(request_timestamps)
         /\ \A j \in 1..Len(Recent) : Recent[j] = passed[Len(passed) - Len(Recent) + j]
         /\ \A i \in 1..(Len(passed) - Len(Recent)) : Outdated(passed[i])
<1>. DEFINE q == request_timestamps
            N == Len(q)
            Old == {i \in 1..N : Outdated(q[i])}
            Stops(n) == /\ \A i \in 1..n : Outdated(q[i])
                        /\ n < N => ~Outdated(q[n + 1])
            n == CHOOSE x \in 0..N : Stops(x)
<1>1. q \in Seq(Times) /\ N \in Nat /\ Len(passed) \in Nat /\ N <= Len(passed)
  BY LenProperties DEF RateInv
<1>2. \E x \in 0..N : Stops(x)
  <2>1. \E x \in 0..N : (\A i \in 1..x : i \in Old) /\ (x < N => x + 1 \notin Old)
    <3>. HIDE DEF Old
    <3>. QED  BY <1>1, FirstNot
  <2>2. PICK x \in 0..N : (\A i \in 1..x : i \in Old) /\ (x < N => x + 1 \notin Old)
    BY <2>1
  <2>3. Stops(x)
    BY <1>1, <2>2
  <2>. QED  BY <2>3
<1>3. n \in 0..N /\ Stops(n)
  <2>. HIDE DEF Stops
  <2>. QED  BY <1>2
<1>4. Recent = SubSeq(q, n + 1, N)
  BY DEF Recent
<1>. HIDE DEF n
<1>5. /\ Recent \in Seq(Times) /\ Len(Recent) = N - n
      /\ \A j \in 1..(N - n) : Recent[j] = q[n + j]
  <2>1. n + 1 \in 1..(N + 1) /\ N \in n..N
    BY <1>1, <1>3
  <2>2. /\ SubSeq(q, n + 1, N) \in Seq(Times)
        /\ Len(SubSeq(q, n + 1, N)) = IF n + 1 <= N THEN N - (n + 1) + 1 ELSE 0
        /\ \A j \in 1..(N - (n + 1) + 1) : SubSeq(q, n + 1, N)[j] = q[n + 1 + j - 1]
    BY <1>1, <2>1, SubSeqProperties
  <2>3. ASSUME NEW j \in 1..(N - n)  PROVE Recent[j] = q[n + j]
    <3>1. j \in 1..(N - (n + 1) + 1) /\ n + 1 + j - 1 = n + j
      BY <1>1, <1>3
    <3>. QED  BY <1>4, <2>2, <3>1
  <2>. QED  BY <1>1, <1>3, <1>4, <2>2, <2>3
<1>6. ASSUME NEW j \in 1..Len(Recent)
      PROVE  Recent[j] = passed[Len(passed) - Len(Recent) + j]
  <2>1. j \in 1..(N - n) /\ n + j \in 1..N
        /\ Len(passed) - N + (n + j) = Len(passed) - Len(Recent) + j
    BY <1>1, <1>3, <1>5
  <2>2. q[n + j] = passed[Len(passed) - N + (n + j)]
    BY <2>1 DEF RateInv
  <2>. QED  BY <1>5, <2>1, <2>2
<1>7. ASSUME NEW i \in 1..(Len(passed) - Len(Recent))  PROVE Outdated(passed[i])
  <2>1. CASE i <= Len(passed) - N
    BY <2>1, <1>1 DEF RateInv
  <2>2. CASE i > Len(passed) - N
    <3>. DEFINE j == i - (Len(passed) - N)
    <3>1. j \in 1..n /\ j \in 1..N /\ Len(passed) - N + j = i
      BY <2>2, <1>1, <1>3, <1>5
    <3>2. q[j] = passed[i]
      BY <3>1 DEF RateInv
    <3>. QED  BY <1>3, <3>1, <3>2
  <2>. QED  BY <2>1, <2>2, <1>1, <1>3, <1>5
<1>. QED  BY <1>1, <1>3, <1>5, <1>6, <1>7

\* A request that passes is more than the window after the one MaxRequests before it.
LEMMA PassKeepsRate ==
  ASSUME RateInv, Pass, UNCHANGED now
  PROVE  RateInv'
<1>. DEFINE L == Len(passed)
            R == Len(Recent)
<1>1. /\ R < MaxRequests
      /\ request_timestamps' = Append(Recent, now) /\ passed' = Append(passed, now)
  BY DEF Pass
<1>2. /\ Recent \in Seq(Times) /\ R \in Nat /\ R <= L /\ L \in Nat
      /\ \A j \in 1..R : Recent[j] = passed[L - R + j]
      /\ \A i \in 1..(L - R) : Outdated(passed[i])
  BY RecentEffect, LenProperties DEF RateInv
<1>3. now \in Times /\ passed \in Seq(Times) /\ \A i \in 1..L : passed[i] \in Times
  BY ElementOfSeq DEF RateInv
<1>4. /\ request_timestamps' \in Seq(Times) /\ Len(request_timestamps') = R + 1
      /\ \A j \in 1..R : request_timestamps'[j] = Recent[j]
      /\ request_timestamps'[R + 1] = now
  BY <1>1, <1>2, <1>3, AppendProperties
<1>5. /\ passed' \in Seq(Times) /\ Len(passed') = L + 1
      /\ \A i \in 1..L : passed'[i] = passed[i]
      /\ passed'[L + 1] = now
  BY <1>1, <1>2, <1>3, AppendProperties
<1>. HIDE DEF L, R
<1>6. MaxRequests \in Nat /\ Window \in Nat /\ MaxTime \in Nat /\ now \in Nat
  BY <1>3, StreamingConstantsOK DEF Times
<1>7. \A j \in 1..(R + 1) : request_timestamps'[j] = passed'[L + 1 - (R + 1) + j]
  <2>. SUFFICES ASSUME NEW j \in 1..(R + 1)
                PROVE  request_timestamps'[j] = passed'[L + 1 - (R + 1) + j]
    OBVIOUS
  <2>1. CASE j = R + 1
    <3>1. L + 1 - (R + 1) + j = L + 1
      BY <2>1, <1>2
    <3>. QED  BY <2>1, <3>1, <1>4, <1>5
  <2>2. CASE j # R + 1
    <3>1. j \in 1..R /\ L - R + j \in 1..L /\ L + 1 - (R + 1) + j = L - R + j
      BY <2>2, <1>2
    <3>. QED  BY <3>1, <1>2, <1>4, <1>5
  <2>. QED  BY <2>1, <2>2
<1>8. \A i \in 1..(L + 1 - (R + 1)) : Outdated(passed'[i])
  BY <1>2, <1>5
<1>9. \A i \in 1..(L + 1) : passed'[i] <= now
  <2>1. \A i \in 1..L : passed[i] <= now
    BY DEF RateInv, L
  <2>. QED  BY <2>1, <1>2, <1>5, <1>6
<1>10. \A i, j \in 1..(L + 1) : i <= j => passed'[i] <= passed'[j]
  <2>1. \A i, j \in 1..L : i <= j => passed[i] <= passed[j]
    BY DEF RateInv, L
  <2>2. ASSUME NEW i \in 1..(L + 1), NEW j \in 1..(L + 1), i <= j
        PROVE  passed'[i] <= passed'[j]
    <3>1. CASE j = L + 1
      BY <3>1, <1>5, <1>9
    <3>2. CASE j # L + 1
      <4>1. i \in 1..L /\ j \in 1..L
        BY <3>2, <2>2, <1>2
      <4>. QED  BY <4>1, <2>1, <2>2, <1>5
    <3>. QED  BY <3>1, <3>2
  <2>. QED  BY <2>2
<1>11. \A i, j \in 1..(L + 1) : j = i + MaxRequests => passed'[i] + Window < passed'[j]
  <2>1. \A i, j \in 1..L : j = i + MaxRequests => passed[i] + Window < passed[j]
    BY DEF RateInv, L
  <2>2. ASSUME NEW i \in 1..(L + 1), NEW j \in 1..(L + 1), j = i + MaxRequests
        PROVE  passed'[i] + Window < passed'[j]
    <3>1. CASE j = L + 1
      <4>1. i \in 1..(L - R) /\ i \in 1..L
        BY <3>1, <2>2, <1>1, <1>2, <1>6 DEF R
      <4>2. passed[i] < now - Window /\ passed[i] \in Nat
        BY <4>1, <1>2, <1>3 DEF Outdated, Times, L
      <4>. QED  BY <3>1, <4>1, <4>2, <1>5, <1>6
    <3>2. CASE j # L + 1
      <4>1. i \in 1..L /\ j \in 1..L
        BY <3>2, <2>2, <1>2, <1>6
      <4>. QED  BY <4>1, <2>1, <2>2, <1>5
    <3>. QED  BY <3>1, <3>2
  <2>. QED  BY <2>2
<1>12. R + 1 <= L + 1 /\ R + 1 <= MaxRequests
  BY <1>1, <1>2, <1>6 DEF R
<1>13. now' = now /\ now' \in Times
  BY <1>3
<1>14. \A i \in 1..(L + 1 - (R + 1)) : Outdated(passed[i])'
  BY <1>8, <1>13 DEF Outdated
<1>15. \A j \in 1..Len(request_timestamps') :
         request_timestamps'[j] = passed'[Len(passed') - Len(request_timestamps') + j]
  <2>1. Len(passed') = L + 1 /\ Len(request_timestamps') = R + 1
    BY <1>4, <1>5
  <2>2. L \in Nat /\ R \in Nat
    BY <1>2
  <2>. QED  BY <2>1, <2>2, <1>7
<1>16. \A i \in 1..(Len(passed') - Len(request_timestamps')) : Outdated(passed[i])'
  <2>1. Len(passed') = L + 1 /\ Len(request_timestamps') = R + 1
    BY <1>4, <1>5
  <2>2. L \in Nat /\ R \in Nat
    BY <1>2
  <2>. QED  BY <2>1, <2>2, <1>14
<1>17. /\ \A i \in 1..Len(passed') : passed'[i] <= now'
       /\ \A i, j \in 1..Len(passed') : i <= j => passed'[i] <= passed'[j]
       /\ \A i, j \in 1..Len(passed') : j = i + MaxRequests => passed'[i] + Window < passed'[j]
  BY <1>5, <1>9, <1>10, <1>11, <1>13
<1>. QED
  BY <1>4, <1>5, <1>12, <1>13, <1>15, <1>16, <1>17 DEF RateInv

\* A request that is refused drops what is old.
LEMMA RefuseKeepsRate ==
  ASSUME RateInv, Refuse, UNCHANGED now
  PROVE  RateInv'
<1>1. request_timestamps' = Recent /\ passed' = passed /\ now' = now
  BY DEF Refuse
<1>2. /\ Recent \in Seq(Times) /\ Len(Recent) <= Len(request_timestamps)
      /\ \A j \in 1..Len(Recent) : Recent[j] = passed[Len(passed) - Len(Recent) + j]
      /\ \A i \in 1..(Len(passed) - Len(Recent)) : Outdated(passed[i])
  BY RecentEffect
<1>3. Len(Recent) \in Nat /\ Len(request_timestamps) \in Nat /\ Len(passed) \in Nat
      /\ MaxRequests \in Nat
  BY <1>2, LenProperties, StreamingConstantsOK DEF RateInv
<1>4. Len(Recent) <= Len(passed) /\ Len(Recent) <= MaxRequests
  BY <1>2, <1>3 DEF RateInv
<1>5. \A i \in 1..(Len(passed) - Len(Recent)) : Outdated(passed[i])'
  BY <1>1, <1>2 DEF Outdated
<1>. HIDE DEF Recent
<1>. QED  BY <1>1, <1>2, <1>4, <1>5 DEF RateInv

\* The window moves on.
LEMMA TickKeepsRate ==
  ASSUME RateInv, Tick
  PROVE  RateInv'
<1>1. /\ now' = now + 1 /\ now < MaxTime
      /\ request_timestamps' = request_timestamps /\ passed' = passed
  BY DEF Tick
<1>2. /\ now \in Nat /\ now' \in Times /\ Window \in Nat
      /\ \A i \in 1..Len(passed) : passed[i] \in Nat
  BY <1>1, StreamingConstantsOK, ElementOfSeq DEF RateInv, Times
<1>3. Len(request_timestamps) \in Nat /\ Len(passed) \in Nat
  BY LenProperties DEF RateInv
<1>4. \A i \in 1..(Len(passed) - Len(request_timestamps)) : Outdated(passed[i])'
  BY <1>1, <1>2, <1>3 DEF RateInv, Outdated
<1>5. \A i \in 1..Len(passed) : passed[i] <= now'
  BY <1>1, <1>2 DEF RateInv
<1>. QED  BY <1>1, <1>2, <1>4, <1>5 DEF RateInv

\* RateInv is inductive.
LEMMA RateStep == RateInv /\ [Next]_vars => RateInv'
<1>. SUFFICES ASSUME RateInv, [Next]_vars  PROVE RateInv'
  OBVIOUS
<1>1. CASE Tick
  BY <1>1, TickKeepsRate
<1>2. CASE OtherRequest
  BY <1>2, PassKeepsRate, RefuseKeepsRate DEF OtherRequest
<1>3. ASSUME NEW c \in Callers, CheckRate(c)  PROVE RateInv'
  BY <1>3, PassKeepsRate, RefuseKeepsRate DEF CheckRate
<1>4. CASE UNCHANGED <<now, request_timestamps, passed>>
  BY <1>4 DEF RateInv, Outdated
<1>5. ASSUME NEW c \in Callers,
             \/ Create(c) \/ SetCallback(c) \/ Perform(c) \/ Receive(c) \/ Process(c)
             \/ TransferEnds(c) \/ Finish(c) \/ Send(c) \/ TransferFails(c)
      PROVE  UNCHANGED <<now, request_timestamps, passed>>
  BY <1>5 DEF Create, SetCallback, Perform, Receive, Process, TransferEnds, Finish, Send,
              TransferFails, rate
<1>6. CASE OtherPost \/ OtherReturns \/ UNCHANGED vars
  BY <1>4, <1>6 DEF OtherPost, OtherReturns, vars, rate
<1>. QED  BY <1>1, <1>2, <1>3, <1>4, <1>5, <1>6 DEF Next, CallerStep

\* Those that passed within one window lie in fewer than MaxRequests + 1 places.
LEMMA RateBounds == RateInv => WithinRate
<1>. SUFFICES ASSUME RateInv, NEW t \in Times
              PROVE  Cardinality({i \in DOMAIN passed : passed[i] \in (t - Window)..t})
                       <= MaxRequests
  BY DEF WithinRate, Times
<1>. DEFINE I == {i \in DOMAIN passed : passed[i] \in (t - Window)..t}
<1>1. /\ Len(passed) \in Nat /\ DOMAIN passed = 1..Len(passed)
      /\ \A i \in 1..Len(passed) : passed[i] \in Nat
      /\ MaxRequests \in Nat /\ Window \in Nat /\ t \in Nat
  BY LenProperties, ElementOfSeq, StreamingConstantsOK DEF RateInv, Times
<1>2. CASE I = {}
  <2>. HIDE DEF I
  <2>1. Cardinality(I) = 0
    BY <1>2, FS_EmptySet
  <2>. QED  BY <1>1, <2>1 DEF I
<1>3. CASE I # {}
  <2>1. I \in SUBSET (Nat \ {0})
    BY <1>1
  <2>2. PICK m \in I : \A i \in I : m <= i
    <3>. HIDE DEF I
    <3>. QED  BY <1>3, <2>1, First
  <2>3. ASSUME NEW i \in I  PROVE i \in m..(m + MaxRequests - 1)
    <3>1. /\ i \in 1..Len(passed) /\ m \in 1..Len(passed) /\ m <= i
          /\ passed[i] <= t /\ t - Window <= passed[m]
      BY <1>1, <2>2
    <3>2. CASE i >= m + MaxRequests
      <4>. DEFINE j == m + MaxRequests
      <4>1. j \in 1..Len(passed) /\ j <= i
        BY <1>1, <3>1, <3>2
      <4>2. passed[m] + Window < passed[j] /\ passed[j] <= passed[i]
        BY <3>1, <4>1 DEF RateInv
      <4>3. passed[m] \in Nat /\ passed[j] \in Nat /\ passed[i] \in Nat
        BY <1>1, <3>1, <4>1
      <4>. HIDE DEF j
      <4>. QED  BY <1>1, <3>1, <4>2, <4>3
    <3>. QED  BY <1>1, <3>1, <3>2
  <2>4. I \in SUBSET (m..(m + MaxRequests - 1))
    BY <2>3
  <2>5. m \in Int /\ m + MaxRequests - 1 \in Int
    BY <1>1, <2>1, <2>2
  <2>6. /\ IsFiniteSet(m..(m + MaxRequests - 1))
        /\ Cardinality(m..(m + MaxRequests - 1)) =
             IF m > m + MaxRequests - 1 THEN 0 ELSE (m + MaxRequests - 1) - m + 1
    BY <2>5, FS_Interval
  <2>7. Cardinality(m..(m + MaxRequests - 1)) <= MaxRequests
    BY <1>1, <2>5, <2>6
  <2>. HIDE DEF I
  <2>8. IsFiniteSet(I) /\ Cardinality(I) <= Cardinality(m..(m + MaxRequests - 1))
    BY <2>4, <2>6, FS_Subset
  <2>9. Cardinality(I) \in Nat /\ Cardinality(m..(m + MaxRequests - 1)) \in Nat
    BY <2>6, <2>8, FS_CardinalityType
  <2>10. Cardinality(I) <= MaxRequests
    BY <1>1, <2>7, <2>8, <2>9
  <2>. QED  BY <2>10 DEF I
<1>. QED  BY <1>2, <1>3

\* At the beginning nothing has passed.
LEMMA RateInit == Init => RateInv
  BY StreamingConstantsOK DEF Init, RateInv, Times

\* In no window of rate_limit_window_, wherever it begins, more than
\* max_requests_per_minute_ requests pass check_rate_limit, whoever makes them.
THEOREM WithinRateHolds == Spec => []WithinRate
BY RateInit, RateStep, RateBounds, PTL DEF Spec

-----------------------------------------------------------------------------
(* The parser                                                              *)

Messages == Event \cup [kind : Kinds]
Parts == [part : Seq(Symbols), events : Seq(Seq(Symbols))]
Nothing == [part |-> <<>>, events |-> <<>>]

\* One round of extract_events.
LEMMA ScanType ==
  ASSUME NEW f \in Parts, NEW x \in Symbols
  PROVE  Scan(f, x) \in Parts
<1>. DEFINE part == Append(f.part, x)
            n == Len(part)
<1>1. f.part \in Seq(Symbols) /\ f.events \in Seq(Seq(Symbols))
  BY DEF Parts
<1>2. part \in Seq(Symbols) /\ n \in Nat
  BY <1>1, AppendProperties, LenProperties
<1>. HIDE DEF part
<1>3. CASE n < 2 \/ part[n] # LF \/ part[n - 1] # LF
  <2>1. Scan(f, x) = [part |-> part, events |-> f.events]
    BY <1>3 DEF Scan, part
  <2>. QED  BY <1>1, <1>2, <2>1 DEF Parts
<1>4. CASE ~ (n < 2 \/ part[n] # LF \/ part[n - 1] # LF)
  <2>. DEFINE events == IF \E i \in 1..(n - 2) : part[i] \in Event
                          THEN Append(f.events, SubSeq(part, 1, n - 2)) ELSE f.events
  <2>1. Scan(f, x) = [part |-> <<>>, events |-> events]
    BY <1>4 DEF Scan, part
  <2>2. SubSeq(part, 1, n - 2) \in Seq(Symbols)
    <3>1. 1 \in 1..(n + 1) /\ n - 2 \in (1 - 1)..n
      BY <1>2, <1>4
    <3>. QED  BY <1>2, <3>1, SubSeqProperties
  <2>3. Append(f.events, SubSeq(part, 1, n - 2)) \in Seq(Seq(Symbols))
    BY <1>1, <2>2, AppendProperties
  <2>4. <<>> \in Seq(Symbols)
    OBVIOUS
  <2>5. events \in Seq(Seq(Symbols))
    BY <1>1, <2>3
  <2>. HIDE DEF events
  <2>. QED  BY <2>1, <2>4, <2>5 DEF Parts
<1>. QED  BY <1>3, <1>4

\* The loop of extract_events: after n rounds it has read n symbols.
LEMMA ExtractLoop ==
  ASSUME NEW q \in Seq(Symbols)
  PROVE  \E found \in [0..Len(q) -> Parts] :
           /\ Extract(q) = found[Len(q)]
           /\ found[0] = Nothing
           /\ \A n \in 1..Len(q) : found[n] = Scan(found[n - 1], q[n])
<1>. DEFINE N == Len(q)
            Body(f, n) == IF n = 0 THEN Nothing ELSE Scan(f[n - 1], q[n])
            Loop(f) == f = [n \in 0..N |-> Body(f, n)]
            step == [n \in Nat |-> [s \in Parts |-> IF n < N THEN Scan(s, q[n + 1]) ELSE s]]
<1>1. N \in Nat /\ \A n \in 1..N : q[n] \in Symbols
  BY LenProperties, ElementOfSeq
<1>2. Nothing \in Parts
  BY DEF Nothing, Parts
<1>3. step \in [Nat -> [Parts -> Parts]]
  <2>1. ASSUME NEW n \in Nat, NEW s \in Parts
        PROVE  (IF n < N THEN Scan(s, q[n + 1]) ELSE s) \in Parts
    BY <1>1, ScanType
  <2>. QED  BY <2>1
<1>4. PICK g : IsRun(g, Parts, Nothing, step)
  <2>. HIDE DEF step
  <2>. QED  BY <1>2, <1>3, Recursion
<1>. DEFINE f == [n \in 0..N |-> g[n]]
<1>5. Loop(f)
  <2>1. ASSUME NEW n \in 0..N  PROVE f[n] = Body(f, n)
    <3>1. CASE n = 0
      BY <3>1, <1>1, <1>4 DEF IsRun
    <3>2. CASE n # 0
      <4>1. n - 1 \in Nat /\ (n - 1) + 1 = n /\ n - 1 < N /\ n - 1 \in 0..N
        BY <3>2, <1>1
      <4>2. g[n] = step[n - 1][g[n - 1]]
        <5>. HIDE DEF step
        <5>. QED  BY <1>4, <4>1 DEF IsRun
      <4>3. step[n - 1][g[n - 1]] = Scan(g[n - 1], q[n])
        BY <4>1, <1>4 DEF IsRun
      <4>. QED  BY <3>2, <4>1, <4>2, <4>3
    <3>. QED  BY <3>1, <3>2
  <2>2. f = [n \in 0..N |-> f[n]]
    OBVIOUS
  <2>. HIDE DEF f, Body
  <2>. QED  BY <2>1, <2>2
<1>. DEFINE found == CHOOSE x : Loop(x)
<1>6. Extract(q) = found[N]
  BY DEF Extract, Nothing
<1>7. Loop(found)
  <2>. HIDE DEF Loop, f
  <2>. QED  BY <1>5
<1>. HIDE DEF found
<1>8. \A n \in 0..N : found[n] = Body(found, n)
  <2>. HIDE DEF Body
  <2>. QED  BY <1>7
<1>9. found[0] = Nothing /\ \A n \in 1..N : found[n] = Scan(found[n - 1], q[n])
  BY <1>1, <1>8
<1>10. \A n \in 0..N : found[n] \in Parts
  <2>. DEFINE Good == {n \in Nat : n <= N => found[n] \in Parts}
  <2>1. 0 \in Good
    BY <1>2, <1>9
  <2>2. ASSUME NEW n \in Good  PROVE n + 1 \in Good
    <3>. SUFFICES ASSUME n + 1 <= N  PROVE found[n + 1] \in Parts
      BY <2>2
    <3>1. n \in Nat /\ n <= N /\ n + 1 \in 1..N /\ (n + 1) - 1 = n
      BY <1>1, <2>2
    <3>2. found[n] \in Parts
      BY <2>2, <3>1
    <3>. QED  BY <1>1, <1>9, <3>1, <3>2, ScanType
  <2>3. Good \in SUBSET Nat
    OBVIOUS
  <2>. HIDE DEF Good
  <2>4. Good = Nat
    BY <2>1, <2>2, <2>3, SetInduction
  <2>. QED  BY <1>1, <2>4 DEF Good
<1>11. found \in [0..N -> Parts]
  <2>1. found = [n \in 0..N |-> Body(found, n)]
    BY <1>7
  <2>. HIDE DEF Body
  <2>2. found = [n \in 0..N |-> found[n]]
    BY <2>1
  <2>. QED  BY <1>10, <2>2
<1>. QED  BY <1>6, <1>9, <1>11

\* extract_events finds texts and keeps symbols.
LEMMA ExtractType ==
  ASSUME NEW q \in Seq(Symbols)
  PROVE  Extract(q) \in Parts
<1>1. PICK found \in [0..Len(q) -> Parts] : Extract(q) = found[Len(q)]
  BY ExtractLoop
<1>2. Len(q) \in 0..Len(q)
  BY LenProperties
<1>. QED  BY <1>1, <1>2

\* parse_chunk makes an event of a text.
LEMMA ParsedType ==
  ASSUME NEW text \in Seq(Symbols)
  PROVE  Parsed(text) \in Messages
<1>. DEFINE events == {i \in DOMAIN text : text[i] \in Event}
            first == {i \in events : i = 1 \/ text[i - 1] = LF}
            last == CHOOSE i \in first : \A j \in first : j <= i
<1>1. Len(text) \in Nat /\ DOMAIN text = 1..Len(text)
  BY LenProperties
<1>2. CASE first = {}
  <2>1. Parsed(text) = [kind |-> "token"]
    BY <1>2 DEF Parsed
  <2>. QED  BY <2>1 DEF Messages, Kinds
<1>3. CASE first # {}
  <2>1. first \in SUBSET (1..Len(text))
    BY <1>1
  <2>2. \E i \in first : \A j \in first : j <= i
    <3>. HIDE DEF first
    <3>. QED  BY <1>1, <1>3, <2>1, Last
  <2>3. last \in first
    <3>. HIDE DEF first
    <3>. QED  BY <2>2
  <2>4. text[last] \in Event
    <3>. HIDE DEF last
    <3>. QED  BY <2>3
  <2>5. Parsed(text) = IF events = {last} THEN text[last] ELSE [kind |-> text[last].kind]
    BY <1>3 DEF Parsed
  <2>. HIDE DEF last, events
  <2>6. text[last].kind \in Kinds
    BY <2>4 DEF Event
  <2>. QED  BY <2>4, <2>5, <2>6 DEF Messages
<1>. QED  BY <1>2, <1>3

-----------------------------------------------------------------------------
(* Types                                                                   *)

\* Who hears of the transfers under way: the caller that transfers, unless it is one of
\* several that met in the HttpClient, or met a request that does not stream.
HttpInv ==
  /\ streaming_callback \in Callers \cup {NoCaller}
  /\ transferring \in Callers \cup {NoCaller}
  /\ other \in {"none", "post", "transfer"} /\ write_function \in {"callback", "body"}
  /\ into \in [Callers -> Callers \cup {NoCaller}]
  /\ crossed \in SUBSET Callers
  /\ \A c \in Callers : pc[c] = "transfer" => c \in crossed \/ write_function = "callback"
  /\ \A c \in InHttp : \/ streaming_callback = c
                       \/ c \in crossed /\ streaming_callback \in crossed
  /\ \A c \in Callers : batch[c] # <<>> => \/ into[c] = c
                                           \/ c \in crossed /\ into[c] \in crossed

DataTypes ==
  /\ others \in 0..MaxOthers
  /\ batch \in [Callers -> Seq(Messages)]
  /\ active_sessions \in SUBSET Callers
  /\ event_buffer \in [Callers -> Seq(Symbols)]
  /\ heard \in [Callers -> Seq(Messages)]
  /\ sent \in [Callers -> Seq(Event)]
  /\ wire \in [Callers -> Seq(Symbols)]

\* A chunk that arrives is parsed into the buffer and the batch.
LEMMA ParseTypes ==
  ASSUME DataTypes, NEW s \in Callers, NEW c \in Callers, NEW chunk \in Seq(Symbols),
         Parse(s, c, chunk)
  PROVE  batch' \in [Callers -> Seq(Messages)] /\ event_buffer' \in [Callers -> Seq(Symbols)]
<1>. DEFINE text == event_buffer[s] \o chunk
            found == Extract(text)
            new == [i \in DOMAIN found.events |-> Parsed(found.events[i])]
<1>1. batch' = [batch EXCEPT ![c] = new] /\ event_buffer' = [event_buffer EXCEPT ![s] = found.part]
  BY DEF Parse
<1>2. text \in Seq(Symbols)
  BY ConcatProperties DEF DataTypes
<1>. HIDE DEF text
<1>3. found.part \in Seq(Symbols) /\ found.events \in Seq(Seq(Symbols))
  BY <1>2, ExtractType DEF Parts
<1>. HIDE DEF found
<1>4. new \in Seq(Messages)
  <2>1. /\ Len(found.events) \in Nat /\ DOMAIN found.events = 1..Len(found.events)
        /\ \A i \in 1..Len(found.events) : found.events[i] \in Seq(Symbols)
    BY <1>3, LenProperties, ElementOfSeq
  <2>2. \A i \in 1..Len(found.events) : Parsed(found.events[i]) \in Messages
    BY <2>1, ParsedType
  <2>. QED  BY <2>1, <2>2
<1>. HIDE DEF new
<1>. QED  BY <1>1, <1>3, <1>4 DEF DataTypes

\* What arrives and what is left of the wire.
LEMMA WireParts ==
  ASSUME NEW q \in Seq(Symbols), NEW n \in 1..Len(q)
  PROVE  /\ SubSeq(q, 1, n) \in Seq(Symbols) /\ Len(SubSeq(q, 1, n)) = n
         /\ \A j \in 1..n : SubSeq(q, 1, n)[j] = q[j]
         /\ SubSeq(q, n + 1, Len(q)) \in Seq(Symbols)
         /\ Len(SubSeq(q, n + 1, Len(q))) = Len(q) - n
         /\ \A j \in 1..(Len(q) - n) : SubSeq(q, n + 1, Len(q))[j] = q[n + j]
<1>1. Len(q) \in Nat
  BY LenProperties
<1>2. 1 \in 1..(Len(q) + 1) /\ n \in (1 - 1)..Len(q)
      /\ n + 1 \in 1..(Len(q) + 1) /\ Len(q) \in (n + 1 - 1)..Len(q)
  BY <1>1
<1>3. /\ SubSeq(q, 1, n) \in Seq(Symbols)
      /\ Len(SubSeq(q, 1, n)) = IF 1 <= n THEN n - 1 + 1 ELSE 0
      /\ \A j \in 1..(n - 1 + 1) : SubSeq(q, 1, n)[j] = q[1 + j - 1]
  BY <1>2, SubSeqProperties
<1>4. /\ SubSeq(q, n + 1, Len(q)) \in Seq(Symbols)
      /\ Len(SubSeq(q, n + 1, Len(q))) = IF n + 1 <= Len(q) THEN Len(q) - (n + 1) + 1 ELSE 0
      /\ \A j \in 1..(Len(q) - (n + 1) + 1) : SubSeq(q, n + 1, Len(q))[j] = q[n + 1 + j - 1]
  BY <1>2, SubSeqProperties
<1>5. ASSUME NEW j \in 1..n  PROVE SubSeq(q, 1, n)[j] = q[j]
  <2>1. j \in 1..(n - 1 + 1) /\ 1 + j - 1 = j
    BY <1>1
  <2>. QED  BY <1>3, <2>1
<1>6. ASSUME NEW j \in 1..(Len(q) - n)  PROVE SubSeq(q, n + 1, Len(q))[j] = q[n + j]
  <2>1. j \in 1..(Len(q) - (n + 1) + 1) /\ n + 1 + j - 1 = n + j
    BY <1>1
  <2>. QED  BY <1>4, <2>1
<1>7. Len(SubSeq(q, 1, n)) = n /\ Len(SubSeq(q, n + 1, Len(q))) = Len(q) - n
  BY <1>1, <1>3, <1>4
<1>. QED  BY <1>3, <1>4, <1>5, <1>6, <1>7

\* Steps that neither install a callback nor receive, and set no option of the handle.
LEMMA HttpQuiet ==
  ASSUME HttpInv, UNCHANGED <<streaming_callback, write_function, into, crossed>>,
         transferring' \in Callers \cup {NoCaller}, other' \in {"none", "post", "transfer"},
         \A c \in Callers : pc'[c] = "transfer" => pc[c] = "transfer",
         \A c \in Callers : pc'[c] \in {"perform", "transfer"} => pc[c] \in {"perform", "transfer"},
         \A c \in Callers : batch'[c] # <<>> => batch[c] # <<>>
  PROVE  HttpInv'
<1>1. InHttp' \in SUBSET InHttp
  BY DEF InHttp
<1>. QED  BY <1>1 DEF HttpInv

\* Calls that meet in the HttpClient are crossed before one hears the other's answer.
LEMMA HttpStep == HttpInv /\ EndInv /\ DataTypes /\ [Next]_vars => HttpInv'
<1>. SUFFICES ASSUME HttpInv, EndInv, DataTypes, [Next]_vars  PROVE HttpInv'
  OBVIOUS
<1>. USE DEF http
<1>1. pc \in [Callers -> Places] /\ batch \in [Callers -> Seq(Messages)]
  BY DEF EndInv, DataTypes
<1>2. ASSUME NEW c \in Callers, Create(c) \/ CheckRate(c) \/ Finish(c)  PROVE HttpInv'
  <2>1. PICK to : pc' = [pc EXCEPT ![c] = to] /\ to \in {"check", "arm", "nullopt", "session"}
    BY <1>2 DEF Create, CheckRate, Finish, Goto
  <2>2. UNCHANGED <<streaming_callback, transferring, other, write_function, into, crossed,
                     batch>>
    BY <1>2 DEF Create, CheckRate, Finish
  <2>. QED  BY <1>1, <2>1, <2>2, HttpQuiet DEF HttpInv
<1>3. ASSUME NEW c \in Callers, SetCallback(c)  PROVE HttpInv'
  <2>1. /\ pc[c] = "arm" /\ pc' = [pc EXCEPT ![c] = "perform"]
        /\ streaming_callback' = c
        /\ crossed' = IF InHttp = {} /\ other # "transfer" THEN crossed
                                                            ELSE crossed \cup InHttp \cup {c}
        /\ UNCHANGED <<transferring, other, write_function, batch, into>>
    BY <1>3 DEF SetCallback, Goto
  <2>2. InHttp \in SUBSET Callers /\ InHttp' = InHttp \cup {c}
    BY <1>1, <2>1 DEF InHttp
  <2>3. crossed' \in SUBSET Callers /\ crossed \in SUBSET crossed'
    BY <2>1, <2>2 DEF HttpInv
  <2>4. \A d \in InHttp' : \/ streaming_callback' = d
                           \/ d \in crossed' /\ streaming_callback' \in crossed'
    BY <2>1, <2>2
  <2>. HIDE DEF InHttp
  <2>. QED  BY <2>1, <2>3, <2>4 DEF HttpInv
<1>4. ASSUME NEW c \in Callers, Perform(c)  PROVE HttpInv'
  <2>1. PICK to : pc[c] = "perform" /\ pc' = [pc EXCEPT ![c] = to]
    BY <1>4 DEF Perform, ReportError, Goto
  <2>2. write_function' = "callback" /\ UNCHANGED <<streaming_callback, other, into, crossed, batch>>
    BY <1>4 DEF Perform
  <2>3. transferring' \in Callers \cup {NoCaller}
    BY <1>4 DEF Perform, HttpInv
  <2>4. InHttp' \in SUBSET InHttp
    BY <1>1, <2>1 DEF InHttp
  <2>. QED  BY <2>2, <2>3, <2>4 DEF HttpInv
<1>8. ASSUME NEW c \in Callers, TransferEnds(c) \/ TransferFails(c)  PROVE HttpInv'
  <2>1. PICK to \in {"report_error", "finish"} : pc' = [pc EXCEPT ![c] = to]
    BY <1>8 DEF TransferEnds, TransferFails, ReportError, Goto
  <2>2. /\ UNCHANGED <<streaming_callback, other, write_function, into, crossed, batch>>
        /\ transferring' = NoCaller
    BY <1>8 DEF TransferEnds, TransferFails
  <2>. QED  BY <1>1, <2>1, <2>2, HttpQuiet DEF HttpInv
\* HttpClient::post finds the streaming calls that are in the HttpClient.
<1>9. CASE OtherPost
  <2>1. /\ crossed' = crossed \cup InHttp /\ write_function' = "body"
        /\ other' \in {"none", "transfer"}
        /\ UNCHANGED <<streaming_callback, transferring, pc, batch, into>>
    BY <1>9 DEF OtherPost
  <2>2. InHttp' = InHttp /\ InHttp \in SUBSET Callers
    BY <2>1 DEF InHttp
  <2>3. \A d \in Callers : pc'[d] = "transfer" => d \in crossed'
    BY <2>1 DEF InHttp
  <2>. HIDE DEF InHttp
  <2>. QED  BY <2>1, <2>2, <2>3 DEF HttpInv
<1>5. ASSUME NEW c \in Callers, Receive(c)  PROVE HttpInv'
  <2>1. /\ pc[c] = "transfer"
        /\ \/ into' = [into EXCEPT ![c] = streaming_callback]
           \/ UNCHANGED <<into, batch>>
        /\ UNCHANGED <<streaming_callback, transferring, other, write_function, pc, crossed>>
    BY <1>5 DEF Receive
  <2>2. \A d \in Callers \ {c} : batch'[d] = batch[d]
    <3>1. CASE UNCHANGED batch
      BY <3>1
    <3>2. CASE ~ UNCHANGED batch
      <4>1. PICK x : batch' = [batch EXCEPT ![c] = x]
        BY <1>5, <3>2 DEF Receive, Parse
      <4>. QED  BY <1>1, <4>1
    <3>. QED  BY <3>1, <3>2
  <2>3. c \in InHttp /\ InHttp' = InHttp
    BY <2>1 DEF InHttp
  <2>4. into' \in [Callers -> Callers \cup {NoCaller}]
    BY <2>1 DEF HttpInv
  <2>5. ASSUME NEW d \in Callers, batch'[d] # <<>>
        PROVE  into'[d] = d \/ (d \in crossed /\ into'[d] \in crossed)
    <3>1. CASE d = c
      BY <3>1, <2>1, <2>3, <2>5 DEF HttpInv
    <3>2. CASE d # c
      BY <3>2, <2>1, <2>2, <2>5 DEF HttpInv
    <3>. QED  BY <3>1, <3>2
  <2>. QED  BY <2>1, <2>3, <2>4, <2>5 DEF HttpInv
<1>6. ASSUME NEW c \in Callers, Process(c)  PROVE HttpInv'
  <2>1. /\ batch[c] # <<>>
        /\ UNCHANGED <<streaming_callback, transferring, other, write_function, pc, into, crossed>>
        /\ \E x : batch' = [batch EXCEPT ![c] = x]
    BY <1>6 DEF Process, Rest, Break
  <2>2. \A d \in Callers : batch'[d] # <<>> => batch[d] # <<>>
    BY <1>1, <2>1
  <2>. QED  BY <2>1, <2>2, HttpQuiet DEF HttpInv
<1>7. CASE \/ Tick \/ OtherRequest \/ OtherReturns \/ UNCHANGED vars
           \/ \E c \in Callers : Send(c)
  <2>1. /\ UNCHANGED <<streaming_callback, transferring, write_function, pc, into, crossed, batch>>
        /\ other' \in {"none", "post", "transfer"}
    BY <1>7 DEF Tick, OtherRequest, OtherReturns, vars, Send, HttpInv
  <2>. QED  BY <2>1, HttpQuiet DEF HttpInv
<1>. QED  BY <1>2, <1>3, <1>4, <1>5, <1>6, <1>7, <1>8, <1>9 DEF Next, CallerStep

\* Every step keeps the types of events, buffers and answers.
LEMMA DataStep == DataTypes /\ HttpInv /\ EndInv /\ [Next]_vars => DataTypes'
<1>. SUFFICES ASSUME DataTypes, HttpInv, EndInv, [Next]_vars  PROVE DataTypes'
  OBVIOUS
<1>. USE DEF session, service, http, rate
<1>1. ASSUME NEW s, NEW how, End(s, how)  PROVE active_sessions' \in SUBSET Callers
  BY <1>1 DEF End, DataTypes
<1>2. ASSUME NEW c \in Callers, Create(c) \/ CheckRate(c) \/ Finish(c)  PROVE DataTypes'
  <2>1. UNCHANGED <<others, batch, event_buffer, heard, sent, wire>>
    BY <1>2 DEF Create, CheckRate, Finish
  <2>2. active_sessions' \in SUBSET Callers
    BY <1>1, <1>2 DEF Create, CheckRate, Finish, DataTypes
  <2>. QED  BY <2>1, <2>2 DEF DataTypes
<1>3. ASSUME NEW c \in Callers,
             SetCallback(c) \/ Perform(c) \/ TransferEnds(c) \/ TransferFails(c)
      PROVE  DataTypes'
  <2>1. UNCHANGED <<others, batch, active_sessions, event_buffer, heard, sent, wire>>
    BY <1>3 DEF SetCallback, Perform, TransferEnds, TransferFails
  <2>. QED  BY <2>1 DEF DataTypes
<1>4. ASSUME NEW c \in Callers, Receive(c)  PROVE DataTypes'
  <2>1. PICK n \in 1..Len(wire[c]) :
          /\ wire' = [wire EXCEPT ![c] = SubSeq(@, n + 1, Len(@))]
          /\ \/ Parse(streaming_callback, c, SubSeq(wire[c], 1, n))
             \/ UNCHANGED <<batch, event_buffer>>
    BY <1>4 DEF Receive
  <2>2. wire[c] \in Seq(Symbols)
    BY DEF DataTypes
  <2>3. SubSeq(wire[c], 1, n) \in Seq(Symbols) /\ SubSeq(wire[c], n + 1, Len(wire[c])) \in Seq(Symbols)
    BY <2>2, WireParts
  <2>4. wire' \in [Callers -> Seq(Symbols)]
    BY <2>1, <2>3 DEF DataTypes
  <2>5. streaming_callback \in Callers
    <3>1. c \in InHttp
      BY <1>4 DEF Receive, InHttp
    <3>. QED  BY <3>1 DEF HttpInv
  <2>6. batch' \in [Callers -> Seq(Messages)] /\ event_buffer' \in [Callers -> Seq(Symbols)]
    <3>1. CASE Parse(streaming_callback, c, SubSeq(wire[c], 1, n))
      BY <2>3, <2>5, <3>1, ParseTypes
    <3>2. CASE UNCHANGED <<batch, event_buffer>>
      BY <3>2 DEF DataTypes
    <3>. QED  BY <2>1, <3>1, <3>2
  <2>7. UNCHANGED <<others, active_sessions, heard, sent>>
    BY <1>4 DEF Receive
  <2>. QED  BY <2>4, <2>6, <2>7 DEF DataTypes
<1>5. ASSUME NEW c \in Callers, Process(c)  PROVE DataTypes'
  <2>1. batch[c] \in Seq(Messages) /\ batch[c] # <<>>
    BY <1>5 DEF Process, DataTypes
  <2>2. Head(batch[c]) \in Messages /\ Tail(batch[c]) \in Seq(Messages)
    BY <2>1
  <2>3. batch' \in [Callers -> Seq(Messages)]
    <3>1. CASE Rest(c)
      BY <2>2, <3>1 DEF Rest, DataTypes
    <3>2. CASE Break(c)
      <4>1. <<>> \in Seq(Messages)
        OBVIOUS
      <4>. QED  BY <3>2, <4>1 DEF Break, DataTypes
    <3>. QED  BY <1>5, <3>1, <3>2 DEF Process
  <2>4. heard' \in [Callers -> Seq(Messages)]
    <3>1. CASE UNCHANGED heard
      BY <3>1 DEF DataTypes
    <3>2. CASE Hear(c, Head(batch[c]))
      <4>1. into[c] \in Callers
        BY <2>1 DEF HttpInv
      <4>2. Append(heard[into[c]], Head(batch[c])) \in Seq(Messages)
        BY <2>2, <4>1, AppendProperties DEF DataTypes
      <4>. QED  BY <3>2, <4>2 DEF Hear, DataTypes
    <3>. QED  BY <1>5, <3>1, <3>2 DEF Process
  <2>5. active_sessions' \in SUBSET Callers
    BY <1>1, <1>5 DEF Process, DataTypes
  <2>6. UNCHANGED <<others, event_buffer, sent, wire>>
    BY <1>5 DEF Process
  <2>. QED  BY <2>3, <2>4, <2>5, <2>6 DEF DataTypes
<1>6. ASSUME NEW c \in Callers, Send(c)  PROVE DataTypes'
  <2>1. PICK kind \in Kinds :
          LET e == [kind |-> kind, to |-> c, number |-> Len(sent[c]) + 1]
          IN  /\ sent' = [sent EXCEPT ![c] = Append(@, e)]
              /\ wire' = [wire EXCEPT ![c] = @ \o <<e>> \o LineEnd \o LineEnd]
    BY <1>6 DEF Send
  <2>. DEFINE e == [kind |-> kind, to |-> c, number |-> Len(sent[c]) + 1]
  <2>2. e \in Event
    <3>1. Len(sent[c]) \in Nat /\ Len(sent[c]) < MaxEvents /\ MaxEvents \in Nat
      BY <1>6, LenProperties, StreamingConstantsOK DEF Send, DataTypes
    <3>2. Len(sent[c]) + 1 \in 1..MaxEvents
      BY <3>1
    <3>. QED  BY <3>2 DEF Event
  <2>3. sent' = [sent EXCEPT ![c] = Append(@, e)]
        /\ wire' = [wire EXCEPT ![c] = @ \o <<e>> \o LineEnd \o LineEnd]
    BY <2>1
  <2>. HIDE DEF e
  <2>4. Append(sent[c], e) \in Seq(Event)
    BY <2>2, AppendProperties DEF DataTypes
  <2>5. LineEnd \in Seq(Symbols) /\ <<e>> \in Seq(Symbols)
    <3>1. CR \in Symbols /\ LF \in Symbols /\ e \in Symbols
      BY <2>2 DEF Symbols
    <3>2. <<LF>> \in Seq(Symbols) /\ <<CR, LF>> \in Seq(Symbols) /\ <<e>> \in Seq(Symbols)
      BY <3>1
    <3>. QED  BY <3>2, StreamingConstantsOK
  <2>6. wire[c] \o <<e>> \o LineEnd \o LineEnd \in Seq(Symbols)
    <3>1. wire[c] \in Seq(Symbols)
      BY DEF DataTypes
    <3>2. wire[c] \o <<e>> \in Seq(Symbols)
      BY <2>5, <3>1, ConcatProperties
    <3>3. wire[c] \o <<e>> \o LineEnd \in Seq(Symbols)
      BY <2>5, <3>2, ConcatProperties
    <3>. QED  BY <2>5, <3>3, ConcatProperties
  <2>7. UNCHANGED <<others, batch, active_sessions, event_buffer, heard>>
    BY <1>6 DEF Send
  <2>8. sent' \in [Callers -> Seq(Event)]
    BY <2>3, <2>4 DEF DataTypes
  <2>9. wire' \in [Callers -> Seq(Symbols)]
    BY <2>3, <2>6 DEF DataTypes
  <2>. QED  BY <2>7, <2>8, <2>9 DEF DataTypes
<1>7. CASE OtherRequest
  BY <1>7, StreamingConstantsOK DEF OtherRequest, DataTypes
<1>8. CASE Tick \/ OtherPost \/ OtherReturns \/ UNCHANGED vars
  BY <1>8 DEF Tick, OtherPost, OtherReturns, vars, DataTypes
<1>. QED  BY <1>2, <1>3, <1>4, <1>5, <1>6, <1>7, <1>8 DEF Next, CallerStep

\* At the beginning all buffers are empty and nobody is in the HttpClient.
LEMMA DataInit == Init => DataTypes /\ HttpInv
<1>. SUFFICES ASSUME Init  PROVE DataTypes /\ HttpInv
  OBVIOUS
<1>1. [c \in Callers |-> <<>>] \in [Callers -> Seq(Messages)]
      /\ [c \in Callers |-> <<>>] \in [Callers -> Seq(Symbols)]
      /\ [c \in Callers |-> <<>>] \in [Callers -> Seq(Event)]
  OBVIOUS
<1>2. DataTypes
  BY <1>1, StreamingConstantsOK DEF Init, DataTypes
<1>3. InHttp = {}
  BY DEF Init, InHttp
<1>4. HttpInv
  BY <1>3 DEF Init, HttpInv
<1>. QED  BY <1>2, <1>4

\* All of this holds together.
StreamingInv == EndInv /\ RateInv /\ DataTypes /\ HttpInv

\* The invariant of every reachable state.
LEMMA StreamingInvariant == Spec => []StreamingInv
<1>1. Init => StreamingInv
  BY RateInit, DataInit DEF Init, EndInv, EndOf, Places, StreamingInv
<1>2. StreamingInv /\ [Next]_vars => StreamingInv'
  BY EndStep, RateStep, DataStep, HttpStep DEF StreamingInv
<1>. QED  BY <1>1, <1>2, PTL DEF Spec

\* Types: the parser makes an event of every text it finds, wherever the answers are
\* cut and whoever's answer it is, and the list of timestamps never outgrows the limit of
\* requests.
THEOREM TypeOKHolds == Spec => []TypeOK
<1>1. StreamingInv => TypeOK
  BY DEF StreamingInv, EndInv, RateInv, DataTypes, HttpInv, TypeOK, Places, Ways, Times, Messages
<1>. QED  BY <1>1, StreamingInvariant, PTL

-----------------------------------------------------------------------------
(* The stream of a call that has the HttpClient for itself                 *)

\* The answer on the wire, with line ends of one LF: an event, and the two line ends.
SymbolAt(events, j) == IF j % 3 = 1 THEN events[(j + 2) \div 3] ELSE LF

\* Of the answer of c, k events and r symbols more have arrived.  The r symbols are in
\* the buffer; of the events the first were heard, and the others wait in the batch,
\* unless one that is no token ended the session.
StreamAt(c, k, r) ==
  /\ Len(wire[c]) = 3 * Len(sent[c]) - (3 * k + r)
  /\ \A j \in 1..Len(wire[c]) : wire[c][j] = SymbolAt(sent[c], 3 * k + r + j)
  /\ Len(heard[c]) <= k
  /\ \A i \in 1..Len(heard[c]) : heard[c][i] = sent[c][i] /\ IsToken(sent[c][i])
  /\ active[c] \/ pc[c] = "create" =>
       /\ Len(event_buffer[c]) = r
       /\ \A j \in 1..r : event_buffer[c][j] = SymbolAt(sent[c], 3 * k + j)
  /\ active[c] =>
       /\ Len(heard[c]) + Len(batch[c]) = k
       /\ \A i \in 1..Len(batch[c]) : batch[c][i] = sent[c][Len(heard[c]) + i]
  /\ ~active[c] =>
       /\ batch[c] = <<>>
       /\ \/ Len(heard[c]) < k /\ ~IsToken(sent[c][Len(heard[c]) + 1])
          \/ Len(heard[c]) = k /\ pc[c] \in {"create", "session", "nullopt"}
  /\ pc[c] # "transfer" => batch[c] = <<>>
  /\ pc[c] = "create" => sent[c] = <<>>

Stream(c) == \E k \in 0..Len(sent[c]), r \in 0..2 : StreamAt(c, k, r)

StreamInv == LineEnd = <<LF>> => \A c \in Callers \ crossed : Stream(c)

\* Every third symbol, from the first on, is an event.
LEMMA SymbolOfEvent ==
  ASSUME NEW events, NEW k \in Nat
  PROVE  /\ SymbolAt(events, 3 * k + 1) = events[k + 1]
         /\ SymbolAt(events, 3 * k + 2) = LF
         /\ SymbolAt(events, 3 * k + 3) = LF
<1>1. (3 * k + 1) % 3 = 1 /\ (3 * k + 1 + 2) \div 3 = k + 1
  OBVIOUS
<1>2. (3 * k + 2) % 3 # 1 /\ (3 * k + 3) % 3 # 1
  OBVIOUS
<1>. QED  BY <1>1, <1>2 DEF SymbolAt

\* A number of symbols is a number of whole events and a part of one.
LEMMA ByThrees ==
  ASSUME NEW n \in Nat
  PROVE  \E k \in Nat, r \in 0..2 : n = 3 * k + r
<1>. DEFINE Good == {m \in Nat : \E k \in Nat, r \in 0..2 : m = 3 * k + r}
<1>1. 0 \in Good
  BY 0 \in Nat, 0 = 3 * 0 + 0
<1>2. ASSUME NEW m \in Good  PROVE m + 1 \in Good
  <2>1. PICK k \in Nat, r \in 0..2 : m = 3 * k + r
    OBVIOUS
  <2>. SUFFICES \E a \in Nat, b \in 0..2 : m + 1 = 3 * a + b
    OBVIOUS
  <2>2. CASE r = 2
    <3>1. m + 1 = 3 * (k + 1) + 0 /\ k + 1 \in Nat /\ 0 \in 0..2
      BY <2>1, <2>2
    <3>. QED  BY <3>1, Zenon
  <2>3. CASE r # 2
    <3>1. m + 1 = 3 * k + (r + 1) /\ r + 1 \in 0..2
      BY <2>1, <2>3
    <3>. QED  BY <3>1, Zenon
  <2>. QED  BY <2>2, <2>3
<1>3. Good \in SUBSET Nat
  OBVIOUS
<1>4. Good = Nat
  <2>. HIDE DEF Good
  <2>. QED  BY <1>1, <1>2, <1>3, SetInduction
<1>. QED  BY <1>4

\* A text that is one event is parsed into that event.
LEMMA ParsedEvent ==
  ASSUME NEW e \in Event
  PROVE  Parsed(<<e>>) = e
<1>. DEFINE text == <<e>>
            events == {i \in DOMAIN text : text[i] \in Event}
            first == {i \in events : i = 1 \/ text[i - 1] = LF}
            last == CHOOSE i \in first : \A j \in first : j <= i
<1>1. DOMAIN text = {1} /\ text[1] = e
  OBVIOUS
<1>2. events = {1} /\ first = {1}
  <2>. HIDE DEF text
  <2>. QED  BY <1>1
<1>3. last = 1
  <2>1. \E i \in first : \A j \in first : j <= i
    BY <1>2
  <2>. HIDE DEF first
  <2>2. last \in first
    BY <2>1
  <2>. QED  BY <1>2, <2>2
<1>4. Parsed(text) = IF first = {} THEN [kind |-> "token"]
                     ELSE IF events = {last} THEN text[last]
                     ELSE [kind |-> text[last].kind]
  BY DEF Parsed
<1>. HIDE DEF text, events, first, last
<1>5. Parsed(text) = e
  BY <1>1, <1>2, <1>3, <1>4
<1>. QED  BY <1>5 DEF text

\* What extract_events has found in n events and r symbols of an answer, from event
\* k + 1 on.
Found(f, events, k, n, r) ==
  /\ Len(f.part) = r
  /\ \A j \in 1..r : f.part[j] = SymbolAt(events, 3 * (k + n) + j)
  /\ Len(f.events) = n
  /\ \A i \in 1..n : f.events[i] = <<events[k + i]>>

\* One more symbol: an event goes to the list with its second line end.
LEMMA ScanStream ==
  ASSUME NEW events, NEW k \in Nat, NEW n \in Nat, NEW r \in 0..2, NEW f \in Parts,
         Found(f, events, k, n, r), events[k + n + 1] \in Event,
         NEW x \in Symbols, x = SymbolAt(events, 3 * (k + n) + (r + 1))
  PROVE  IF r = 2 THEN Found(Scan(f, x), events, k, n + 1, 0)
                  ELSE Found(Scan(f, x), events, k, n, r + 1)
<1>. DEFINE e == events[k + n + 1]
            part == Append(f.part, x)
<1>1. /\ SymbolAt(events, 3 * (k + n) + 1) = e
      /\ SymbolAt(events, 3 * (k + n) + 2) = LF
      /\ SymbolAt(events, 3 * (k + n) + 3) = LF
  <2>1. k + n \in Nat
    OBVIOUS
  <2>. QED  BY <2>1, SymbolOfEvent
<1>2. f.part \in Seq(Symbols) /\ f.events \in Seq(Seq(Symbols))
  BY DEF Parts
<1>3. /\ part \in Seq(Symbols) /\ Len(part) = r + 1
      /\ \A j \in 1..r : part[j] = f.part[j]
      /\ part[r + 1] = x
  <2>1. Len(f.part) = r
    BY DEF Found
  <2>. QED  BY <1>2, <2>1, AppendProperties
<1>4. Scan(f, x) =
        IF Len(part) < 2 \/ part[Len(part)] # LF \/ part[Len(part) - 1] # LF
          THEN [part |-> part, events |-> f.events]
          ELSE [part |-> <<>>,
                events |-> IF \E i \in 1..(Len(part) - 2) : part[i] \in Event
                             THEN Append(f.events, SubSeq(part, 1, Len(part) - 2))
                             ELSE f.events]
  BY DEF Scan
<1>5. e \in Event /\ e # LF
  BY SymbolsApart
<1>. HIDE DEF part, e
<1>6. \A j \in 1..(r + 1) : part[j] = SymbolAt(events, 3 * (k + n) + j)
  <2>1. \A j \in 1..r : f.part[j] = SymbolAt(events, 3 * (k + n) + j)
    BY DEF Found
  <2>2. \A j \in 1..(r + 1) : j \in 1..r \/ j = r + 1
    OBVIOUS
  <2>. QED  BY <1>3, <2>1, <2>2
<1>7. CASE r # 2
  <2>1. Scan(f, x) = [part |-> part, events |-> f.events]
    <3>1. CASE r = 0
      BY <3>1, <1>3, <1>4
    <3>2. CASE r = 1
      <4>1. Len(part) = 2 /\ part[1] = e
        BY <3>2, <1>1, <1>3, <1>6
      <4>2. part[Len(part) - 1] # LF
        BY <4>1, <1>5
      <4>. QED  BY <4>2, <1>4
    <3>. QED  BY <1>7, <3>1, <3>2
  <2>2. Scan(f, x).part = part /\ Scan(f, x).events = f.events
    BY <2>1
  <2>. QED  BY <1>3, <1>6, <1>7, <2>2 DEF Found
<1>8. CASE r = 2
  <2>1. Len(part) = 3 /\ part[1] = e /\ part[2] = LF /\ part[3] = LF
    BY <1>1, <1>3, <1>6, <1>8
  <2>2. SubSeq(part, 1, 1) = <<e>>
    <3>1. /\ SubSeq(part, 1, 1) \in Seq(Symbols) /\ Len(SubSeq(part, 1, 1)) = 1
          /\ SubSeq(part, 1, 1)[1] = part[1]
      <4>1. 1 \in 1..Len(part)
        BY <2>1
      <4>2. /\ SubSeq(part, 1, 1) \in Seq(Symbols) /\ Len(SubSeq(part, 1, 1)) = 1
            /\ \A j \in 1..1 : SubSeq(part, 1, 1)[j] = part[j]
        BY <1>3, <4>1, WireParts
      <4>. QED  BY <4>2
    <3>2. <<e>> \in Seq(Symbols) /\ Len(<<e>>) = 1 /\ <<e>>[1] = e
      <4>1. e \in Symbols
        BY <1>5 DEF Symbols
      <4>. QED  BY <4>1
    <3>3. \A i \in 1..Len(SubSeq(part, 1, 1)) : SubSeq(part, 1, 1)[i] = <<e>>[i]
      BY <2>1, <3>1, <3>2
    <3>. QED  BY <3>1, <3>2, <3>3, SeqEqual
  <2>. DEFINE t == <<e>>
              new == Append(f.events, t)
  <2>3. Scan(f, x) = [part |-> <<>>, events |-> new]
    <3>1. Len(part) - 2 = 1 /\ Len(part) - 1 = 2
      BY <2>1
    <3>2. \E i \in 1..(Len(part) - 2) : part[i] \in Event
      BY <2>1, <3>1, <1>5
    <3>3. /\ ~ (Len(part) < 2 \/ part[Len(part)] # LF \/ part[Len(part) - 1] # LF)
          /\ SubSeq(part, 1, Len(part) - 2) = t
      BY <2>1, <2>2, <3>1
    <3>. HIDE DEF t
    <3>. QED  BY <1>4, <3>2, <3>3
  <2>4. t \in Seq(Symbols)
    <3>1. e \in Symbols
      BY <1>5 DEF Symbols
    <3>. QED  BY <3>1
  <2>. HIDE DEF t
  <2>5. Len(f.events) = n /\ \A i \in 1..n : f.events[i] = <<events[k + i]>>
    BY DEF Found
  <2>6. /\ new \in Seq(Seq(Symbols)) /\ Len(new) = n + 1
        /\ \A i \in 1..n : new[i] = f.events[i]
        /\ new[n + 1] = t
    BY <1>2, <2>4, <2>5, AppendProperties
  <2>. HIDE DEF new
  <2>7. ASSUME NEW i \in 1..(n + 1)  PROVE new[i] = <<events[k + i]>>
    <3>1. CASE i = n + 1
      <4>1. k + i = k + n + 1
        BY <3>1
      <4>. QED  BY <3>1, <4>1, <2>6 DEF t, e
    <3>2. CASE i # n + 1
      <4>1. i \in 1..n
        BY <3>2
      <4>. QED  BY <4>1, <2>5, <2>6
    <3>. QED  BY <3>1, <3>2
  <2>8. Scan(f, x).part = <<>> /\ Scan(f, x).events = new
    BY <2>3
  <2>9. Len(Scan(f, x).part) = 0 /\ Len(Scan(f, x).events) = n + 1
    BY <2>6, <2>8
  <2>. QED  BY <1>8, <2>7, <2>8, <2>9 DEF Found
<1>. QED  BY <1>7, <1>8

\* From symbols that begin with event k + 1 of an answer, extract_events takes each
\* event that is there with both its line ends, and keeps the rest.
LEMMA ExtractStream ==
  ASSUME NEW events \in Seq(Event), NEW k \in Nat, NEW q \in Seq(Symbols),
         NEW K \in Nat, NEW R \in 0..2, Len(q) = 3 * K + R,
         3 * k + Len(q) <= 3 * Len(events),
         \A j \in 1..Len(q) : q[j] = SymbolAt(events, 3 * k + j)
  PROVE  Found(Extract(q), events, k, K, R)
<1>. DEFINE N == Len(q)
<1>1. N \in Nat /\ Len(events) \in Nat /\ \A i \in 1..Len(events) : events[i] \in Event
  BY LenProperties, ElementOfSeq
<1>2. PICK found \in [0..N -> Parts] :
        /\ Extract(q) = found[N]
        /\ found[0] = Nothing
        /\ \A n \in 1..N : found[n] = Scan(found[n - 1], q[n])
  BY ExtractLoop
<1>. DEFINE Good == {m \in Nat : m <= N =>
                       \A n \in Nat, r \in 0..2 :
                         m = 3 * n + r => Found(found[m], events, k, n, r)}
<1>3. 0 \in Good
  <2>1. \A n \in Nat, r \in 0..2 : 0 = 3 * n + r => n = 0 /\ r = 0
    OBVIOUS
  <2>2. Found(found[0], events, k, 0, 0)
    BY <1>2 DEF Nothing, Found
  <2>. QED  BY <2>1, <2>2
<1>4. ASSUME NEW m \in Good  PROVE m + 1 \in Good
  <2>1. ASSUME m + 1 <= N, NEW n \in Nat, NEW r \in 0..2, m + 1 = 3 * n + r
        PROVE  Found(found[m + 1], events, k, n, r)
    <3>1. m \in Nat /\ m <= N /\ m + 1 \in 1..N /\ (m + 1) - 1 = m /\ m \in 0..N
      BY <1>1, <1>4, <2>1
    <3>2. /\ found[m + 1] = Scan(found[m], q[m + 1])
          /\ found[m] \in Parts
          /\ q[m + 1] \in Symbols /\ q[m + 1] = SymbolAt(events, 3 * k + (m + 1))
      BY <1>2, <3>1, ElementOfSeq
    <3>3. \A a \in Nat, b \in 0..2 : m = 3 * a + b => Found(found[m], events, k, a, b)
      BY <1>4, <3>1
    <3>. HIDE DEF Good
    <3>4. ASSUME NEW a \in Nat, 3 * a < N  PROVE events[k + a + 1] \in Event
      <4>1. k + a + 1 \in 1..Len(events)
        BY <1>1, <3>4
      <4>. QED  BY <1>1, <4>1
    <3>5. CASE r = 0
      <4>. DEFINE a == n - 1
      <4>1. a \in Nat /\ n = a + 1 /\ m = 3 * a + 2 /\ 3 * a < N
            /\ 3 * k + (m + 1) = 3 * (k + a) + (2 + 1)
        BY <1>1, <2>1, <3>1, <3>5
      <4>. HIDE DEF a
      <4>2. Found(found[m], events, k, a, 2) /\ events[k + a + 1] \in Event
        BY <3>3, <3>4, <4>1
      <4>3. q[m + 1] = SymbolAt(events, 3 * (k + a) + (2 + 1))
        BY <3>2, <4>1
      <4>. DEFINE f == found[m]
                  x == q[m + 1]
      <4>4. f \in Parts /\ x \in Symbols
        BY <3>2
      <4>5. Found(f, events, k, a, 2) /\ x = SymbolAt(events, 3 * (k + a) + (2 + 1))
        BY <4>2, <4>3
      <4>6. 2 \in 0..2
        OBVIOUS
      <4>. HIDE DEF f, x
      <4>7. Found(Scan(f, x), events, k, a + 1, 0)
        BY <4>1, <4>2, <4>4, <4>5, <4>6, ScanStream
      <4>. QED  BY <3>2, <3>5, <4>1, <4>7 DEF f, x
    <3>6. CASE r # 0
      <4>. DEFINE b == r - 1
      <4>1. b \in 0..2 /\ b # 2 /\ r = b + 1 /\ m = 3 * n + b /\ 3 * n < N
            /\ 3 * k + (m + 1) = 3 * (k + n) + (b + 1)
        BY <1>1, <2>1, <3>1, <3>6
      <4>. HIDE DEF b
      <4>2. Found(found[m], events, k, n, b) /\ events[k + n + 1] \in Event
        BY <3>3, <3>4, <4>1
      <4>3. q[m + 1] = SymbolAt(events, 3 * (k + n) + (b + 1))
        BY <3>2, <4>1
      <4>. DEFINE f == found[m]
                  x == q[m + 1]
      <4>4. f \in Parts /\ x \in Symbols
        BY <3>2
      <4>5. Found(f, events, k, n, b) /\ x = SymbolAt(events, 3 * (k + n) + (b + 1))
        BY <4>2, <4>3
      <4>. HIDE DEF f, x
      <4>6. Found(Scan(f, x), events, k, n, b + 1)
        BY <4>1, <4>2, <4>4, <4>5, ScanStream
      <4>. QED  BY <3>2, <4>1, <4>6 DEF f, x
    <3>. QED  BY <3>5, <3>6
  <2>. QED  BY <2>1, <1>4
<1>5. Good = Nat
  <2>1. Good \in SUBSET Nat
    OBVIOUS
  <2>. HIDE DEF Good
  <2>. QED  BY <1>3, <1>4, <2>1, SetInduction
<1>6. N \in Good
  <2>. HIDE DEF Good
  <2>. QED  BY <1>1, <1>5
<1>. QED  BY <1>1, <1>2, <1>6

\* An event that is sent changes no symbol of those before it.
LEMMA SymbolsAppended ==
  ASSUME NEW events \in Seq(Event), NEW e \in Event, NEW j \in 1..(3 * Len(events))
  PROVE  SymbolAt(Append(events, e), j) = SymbolAt(events, j)
<1>. DEFINE more == Append(events, e)
<1>1. /\ Len(events) \in Nat /\ j \in Nat
      /\ \A i \in 1..Len(events) : more[i] = events[i]
  BY LenProperties, AppendProperties
<1>. HIDE DEF more
<1>2. PICK a \in Nat, b \in 0..2 : j = 3 * a + b
  BY <1>1, ByThrees
<1>3. CASE b = 1
  <2>1. j = 3 * a + 1 /\ a + 1 \in 1..Len(events)
    BY <1>1, <1>2, <1>3
  <2>2. SymbolAt(more, 3 * a + 1) = more[a + 1] /\ SymbolAt(events, 3 * a + 1) = events[a + 1]
    BY SymbolOfEvent
  <2>. QED  BY <1>1, <2>1, <2>2 DEF more
<1>4. CASE b = 2
  <2>1. SymbolAt(more, 3 * a + 2) = LF /\ SymbolAt(events, 3 * a + 2) = LF
    BY SymbolOfEvent
  <2>. QED  BY <1>2, <1>4, <2>1 DEF more
<1>5. CASE b = 0
  <2>. DEFINE a1 == a - 1
  <2>1. a1 \in Nat /\ j = 3 * a1 + 3
    BY <1>2, <1>5
  <2>. HIDE DEF a1
  <2>2. SymbolAt(more, 3 * a1 + 3) = LF /\ SymbolAt(events, 3 * a1 + 3) = LF
    BY <2>1, SymbolOfEvent
  <2>. QED  BY <2>1, <2>2 DEF more
<1>. QED  BY <1>2, <1>3, <1>4, <1>5

\* A step that touches neither the session of c nor its answer, and moves c only where
\* the batch is empty and the call neither starts nor returns.
LEMMA StreamQuiet ==
  ASSUME NEW c, Stream(c),
         wire'[c] = wire[c], sent'[c] = sent[c], heard'[c] = heard[c],
         event_buffer'[c] = event_buffer[c], batch'[c] = batch[c], active'[c] = active[c],
         \/ pc'[c] = pc[c]
         \/ /\ pc[c] \notin {"create", "session", "nullopt"} /\ batch[c] = <<>>
            /\ pc'[c] # "create"
  PROVE  Stream(c)'
<1>1. PICK k \in 0..Len(sent[c]), r \in 0..2 : StreamAt(c, k, r)
  BY DEF Stream
<1>2. StreamAt(c, k, r)'
  BY <1>1 DEF StreamAt
<1>. QED  BY <1>2 DEF Stream

\* A chunk of its own answer, cut anywhere, is heard by the session as the events that
\* it completes.
LEMMA ReceiveStream ==
  ASSUME DataTypes, NEW c \in Callers, Stream(c), Receive(c), streaming_callback = c,
         write_function = "callback"
  PROVE  Stream(c)'
<1>1. PICK n \in 1..Len(wire[c]) :
        /\ wire' = [wire EXCEPT ![c] = SubSeq(@, n + 1, Len(@))]
        /\ IF active[c] THEN Parse(c, c, SubSeq(wire[c], 1, n))
                        ELSE UNCHANGED <<batch, event_buffer>>
  BY DEF Receive
<1>2. /\ pc[c] = "transfer" /\ batch[c] = <<>>
      /\ UNCHANGED <<pc, active, heard, sent>>
  BY DEF Receive
<1>3. PICK k \in 0..Len(sent[c]), r \in 0..2 : StreamAt(c, k, r)
  BY DEF Stream
<1>. DEFINE q == wire[c]
            chunk == SubSeq(q, 1, n)
            rest == SubSeq(q, n + 1, Len(q))
            events == sent[c]
<1>4. q \in Seq(Symbols) /\ events \in Seq(Event) /\ event_buffer[c] \in Seq(Symbols)
  BY DEF DataTypes
<1>5. /\ Len(events) \in Nat /\ Len(q) \in Nat /\ Len(heard[c]) \in Nat
      /\ k \in Nat /\ n \in 1..Len(q) /\ r \in 0..2
  BY <1>4, LenProperties DEF DataTypes
<1>6. /\ chunk \in Seq(Symbols) /\ Len(chunk) = n
      /\ \A j \in 1..n : chunk[j] = q[j]
      /\ Len(rest) = Len(q) - n
      /\ \A j \in 1..(Len(q) - n) : rest[j] = q[n + j]
  BY <1>4, WireParts
<1>7. /\ Len(q) = 3 * Len(events) - (3 * k + r)
      /\ \A j \in 1..Len(q) : q[j] = SymbolAt(events, 3 * k + r + j)
      /\ Len(heard[c]) <= k
      /\ \A i \in 1..Len(heard[c]) : heard[c][i] = events[i] /\ IsToken(events[i])
  BY <1>3 DEF StreamAt
<1>8. PICK K \in Nat, R \in 0..2 : r + n = 3 * K + R
  <2>1. r + n \in Nat
    BY <1>5
  <2>. QED  BY <2>1, ByThrees
<1>. DEFINE m == k + K
<1>9. wire'[c] = rest
  BY <1>1 DEF DataTypes
<1>. HIDE DEF q, chunk, rest
<1>. DEFINE L == Len(events)
            w == Len(q)
<1>a. /\ L \in Nat /\ w \in Nat /\ k \in Nat /\ n \in Nat /\ n <= w
      /\ w = 3 * L - (3 * k + r)
  BY <1>5, <1>7
<1>b. m \in 0..L /\ m \in Nat /\ m = k + K /\ k <= m /\ 3 * k + r + n = 3 * m + R
      /\ w - n = 3 * L - (3 * m + R)
  <2>. HIDE DEF L, w
  <2>. QED  BY <1>a, <1>8
<1>. HIDE DEF m
<1>10. m \in 0..Len(events) /\ m = k + K /\ k <= m /\ 3 * k + r + n = 3 * m + R
  BY <1>b
<1>11. Len(rest) = 3 * Len(events) - (3 * m + R)
  <2>1. Len(rest) = w - n
    BY <1>6
  <2>. QED  BY <1>b, <2>1, Zenon
<1>12. ASSUME NEW j \in 1..Len(rest)  PROVE rest[j] = SymbolAt(events, 3 * m + R + j)
  <2>1. j \in 1..(Len(q) - n) /\ n + j \in 1..Len(q)
    BY <1>5, <1>6
  <2>2. 3 * k + r + (n + j) = 3 * m + R + j
    BY <1>5, <1>10, <2>1
  <2>. QED  BY <1>6, <1>7, <2>1, <2>2
<1>13. CASE ~active[c]
  <2>1. UNCHANGED <<batch, event_buffer>>
    BY <1>1, <1>13
  <2>2. Len(heard[c]) < k /\ ~IsToken(events[Len(heard[c]) + 1])
    BY <1>2, <1>3, <1>13 DEF StreamAt
  <2>3. Len(heard[c]) < m /\ Len(heard[c]) <= m
    <3>. DEFINE h == Len(heard[c])
    <3>1. h \in Nat /\ h < k
      BY <1>5, <2>2
    <3>. HIDE DEF h
    <3>2. h < m /\ h <= m
      BY <1>a, <1>b, <3>1
    <3>. QED  BY <3>2 DEF h
  <2>4. StreamAt(c, m, R)'
    BY <1>2, <1>7, <1>9, <1>11, <1>12, <1>13, <2>1, <2>2, <2>3 DEF StreamAt
  <2>. QED  BY <1>2, <1>10, <2>4 DEF Stream
<1>14. CASE active[c]
  <2>. DEFINE buffer == event_buffer[c]
              text == buffer \o chunk
              found == Extract(text)
              new == [i \in DOMAIN found.events |-> Parsed(found.events[i])]
  <2>1. batch' = [batch EXCEPT ![c] = new] /\ event_buffer' = [event_buffer EXCEPT ![c] = found.part]
    BY <1>1, <1>14 DEF Parse, chunk, q
  <2>2. batch'[c] = new /\ event_buffer'[c] = found.part
    BY <2>1 DEF DataTypes
  <2>3. /\ buffer \in Seq(Symbols) /\ Len(buffer) = r
        /\ \A j \in 1..r : buffer[j] = SymbolAt(events, 3 * k + j)
        /\ Len(heard[c]) = k
    <3>1. /\ Len(buffer) = r
          /\ \A j \in 1..r : buffer[j] = SymbolAt(events, 3 * k + j)
          /\ Len(heard[c]) + Len(batch[c]) = k
      BY <1>3, <1>14 DEF StreamAt
    <3>2. Len(batch[c]) = 0
      BY <1>2
    <3>. QED  BY <1>4, <1>5, <3>1, <3>2
  <2>. HIDE DEF buffer
  <2>4. /\ text \in Seq(Symbols) /\ Len(text) = r + n
        /\ \A j \in 1..(r + n) : text[j] = IF j <= r THEN buffer[j] ELSE chunk[j - r]
    BY <1>6, <2>3, ConcatProperties
  <2>. HIDE DEF text
  <2>5. ASSUME NEW j \in 1..Len(text)  PROVE text[j] = SymbolAt(events, 3 * k + j)
    <3>1. CASE j <= r
      BY <2>3, <2>4, <3>1
    <3>2. CASE ~ (j <= r)
      <4>1. j - r \in 1..n /\ j - r \in 1..Len(q) /\ 3 * k + r + (j - r) = 3 * k + j
        BY <1>5, <2>4, <3>2
      <4>2. text[j] = chunk[j - r]
        BY <2>4, <3>2
      <4>3. chunk[j - r] = q[j - r]
        BY <1>6, <4>1
      <4>4. q[j - r] = SymbolAt(events, 3 * k + r + (j - r))
        BY <1>7, <4>1
      <4>. QED  BY <4>1, <4>2, <4>3, <4>4, Zenon
    <3>. QED  BY <3>1, <3>2
  <2>6. Len(text) = 3 * K + R /\ 3 * k + Len(text) <= 3 * Len(events)
    <3>1. Len(text) = r + n
      BY <2>4
    <3>2. 3 * k + (r + n) <= 3 * L
      <4>. HIDE DEF L, w
      <4>. QED  BY <1>a
    <3>. QED  BY <1>8, <3>1, <3>2
  <2>7. Found(found, events, k, K, R)
    BY <1>4, <1>5, <2>4, <2>5, <2>6, ExtractStream
  <2>8. found.events \in Seq(Seq(Symbols))
    BY <2>4, ExtractType DEF Parts
  <2>. HIDE DEF found
  <2>9. /\ DOMAIN found.events = 1..K
        /\ \A i \in 1..K : found.events[i] = <<events[k + i]>>
    BY <2>7, <2>8, LenProperties DEF Found
  <2>10. ASSUME NEW i \in 1..K  PROVE new[i] = events[k + i]
    <3>1. k + i \in 1..L
      <4>. HIDE DEF L
      <4>. QED  BY <1>a, <1>b
    <3>2. events[k + i] \in Event
      BY <1>4, <3>1, ElementOfSeq
    <3>3. Parsed(<<events[k + i]>>) = events[k + i]
      BY <3>2, ParsedEvent
    <3>. QED  BY <2>9, <3>3
  <2>11. Len(new) = K
    BY <2>9
  <2>12. /\ Len(found.part) = R
         /\ \A j \in 1..R : found.part[j] = SymbolAt(events, 3 * m + j)
    BY <1>10, <2>7 DEF Found
  <2>13. Len(heard[c]) + Len(new) = m /\ Len(heard[c]) <= m
    <3>1. k + K = m /\ k <= m
      BY <1>b
    <3>. QED  BY <2>3, <2>11, <3>1
  <2>14. \A i \in 1..Len(new) : new[i] = events[Len(heard[c]) + i]
    BY <2>3, <2>10, <2>11
  <2>. HIDE DEF new
  <2>15. StreamAt(c, m, R)'
    BY <1>2, <1>7, <1>9, <1>11, <1>12, <1>14, <2>2, <2>12, <2>13, <2>14 DEF StreamAt
  <2>. QED  BY <1>2, <1>10, <2>15 DEF Stream
<1>. QED  BY <1>13, <1>14

\* The service sends an event more, and two line ends after it.
LEMMA SendStream ==
  ASSUME DataTypes, LineEnd = <<LF>>, NEW c \in Callers, Stream(c), Send(c)
  PROVE  Stream(c)'
<1>. USE DEF session
<1>1. PICK kind \in Kinds :
        LET e == [kind |-> kind, to |-> c, number |-> Len(sent[c]) + 1]
        IN  /\ sent' = [sent EXCEPT ![c] = Append(@, e)]
            /\ wire' = [wire EXCEPT ![c] = @ \o <<e>> \o LineEnd \o LineEnd]
  BY DEF Send
<1>. DEFINE e == [kind |-> kind, to |-> c, number |-> Len(sent[c]) + 1]
            events == sent[c]
            more == Append(events, e)
            q == wire[c]
            q1 == q \o <<e>>
            q2 == q1 \o <<LF>>
            q3 == q2 \o <<LF>>
<1>2. e \in Event
  <2>1. Len(sent[c]) \in Nat /\ Len(sent[c]) < MaxEvents /\ MaxEvents \in Nat
    BY LenProperties, StreamingConstantsOK DEF Send, DataTypes
  <2>2. Len(sent[c]) + 1 \in 1..MaxEvents
    BY <2>1
  <2>. QED  BY <2>2 DEF Event
<1>3. sent'[c] = more /\ wire'[c] = q3
  BY <1>1 DEF DataTypes
<1>4. /\ pc[c] = "transfer"
      /\ UNCHANGED <<pc, batch, active, event_buffer, heard>>
  BY DEF Send
<1>5. PICK k \in 0..Len(sent[c]), r \in 0..2 : StreamAt(c, k, r)
  BY DEF Stream
<1>. HIDE DEF e
<1>6. events \in Seq(Event) /\ q \in Seq(Symbols)
  BY DEF DataTypes
<1>7. /\ Len(events) \in Nat /\ Len(q) \in Nat /\ k \in Nat
      /\ Len(more) = Len(events) + 1
      /\ \A i \in 1..Len(events) : more[i] = events[i]
      /\ more[Len(events) + 1] = e
  BY <1>2, <1>6, LenProperties, AppendProperties
<1>8. \A j \in 1..(3 * Len(events)) : SymbolAt(more, j) = SymbolAt(events, j)
  BY <1>2, <1>6, SymbolsAppended
<1>9. /\ Len(q) = 3 * Len(events) - (3 * k + r)
      /\ \A j \in 1..Len(q) : q[j] = SymbolAt(events, 3 * k + r + j)
      /\ Len(heard[c]) <= k
      /\ \A i \in 1..Len(heard[c]) : heard[c][i] = events[i] /\ IsToken(events[i])
  BY <1>5 DEF StreamAt
<1>10. /\ Len(q3) = Len(q) + 3
       /\ \A j \in 1..Len(q) : q3[j] = q[j]
       /\ q3[Len(q) + 1] = e /\ q3[Len(q) + 2] = LF /\ q3[Len(q) + 3] = LF
  <2>1. e \in Symbols /\ LF \in Symbols
    BY <1>2 DEF Symbols
  <2>2. /\ <<e>> \in Seq(Symbols) /\ Len(<<e>>) = 1 /\ <<e>>[1] = e
        /\ <<LF>> \in Seq(Symbols) /\ Len(<<LF>>) = 1 /\ <<LF>>[1] = LF
    BY <2>1
  <2>. DEFINE te == <<e>>
              tl == <<LF>>
  <2>. HIDE DEF q, te, tl
  <2>3. /\ q \o te \in Seq(Symbols) /\ Len(q \o te) = Len(q) + 1
        /\ \A j \in 1..(Len(q) + 1) : (q \o te)[j] = IF j <= Len(q) THEN q[j] ELSE te[j - Len(q)]
    BY <1>6, <2>2, ConcatProperties DEF te
  <2>. DEFINE p1 == q \o te
  <2>4. /\ p1 \in Seq(Symbols) /\ Len(p1) = Len(q) + 1
        /\ \A j \in 1..Len(q) : p1[j] = q[j]
        /\ p1[Len(q) + 1] = e
    BY <1>7, <2>2, <2>3 DEF te
  <2>. HIDE DEF p1
  <2>5. /\ p1 \o tl \in Seq(Symbols) /\ Len(p1 \o tl) = Len(q) + 2
        /\ \A j \in 1..(Len(q) + 2) :
             (p1 \o tl)[j] = IF j <= Len(p1) THEN p1[j] ELSE tl[j - Len(p1)]
    <3>1. Len(p1) + 1 = Len(q) + 2
      BY <1>7, <2>4
    <3>. QED  BY <2>2, <2>4, <3>1, ConcatProperties DEF tl
  <2>. DEFINE p2 == p1 \o tl
  <2>6. /\ p2 \in Seq(Symbols) /\ Len(p2) = Len(q) + 2
        /\ \A j \in 1..Len(q) : p2[j] = q[j]
        /\ p2[Len(q) + 1] = e /\ p2[Len(q) + 2] = LF
    BY <1>7, <2>2, <2>4, <2>5 DEF tl
  <2>. HIDE DEF p2
  <2>7. /\ Len(p2 \o tl) = Len(q) + 3
        /\ \A j \in 1..(Len(q) + 3) :
             (p2 \o tl)[j] = IF j <= Len(p2) THEN p2[j] ELSE tl[j - Len(p2)]
    <3>1. Len(p2) + 1 = Len(q) + 3
      BY <1>7, <2>6
    <3>. QED  BY <2>2, <2>6, <3>1, ConcatProperties DEF tl
  <2>. DEFINE p3 == p2 \o tl
  <2>8. /\ Len(p3) = Len(q) + 3
        /\ \A j \in 1..Len(q) : p3[j] = q[j]
        /\ p3[Len(q) + 1] = e /\ p3[Len(q) + 2] = LF /\ p3[Len(q) + 3] = LF
    BY <1>7, <2>2, <2>6, <2>7 DEF tl
  <2>9. p3 = q3
    BY DEF p1, p2, te, tl
  <2>. QED  BY <2>8, <2>9
<1>11. /\ SymbolAt(more, 3 * Len(events) + 1) = e
       /\ SymbolAt(more, 3 * Len(events) + 2) = LF
       /\ SymbolAt(more, 3 * Len(events) + 3) = LF
  BY <1>7, SymbolOfEvent
<1>. HIDE DEF q, events, more, q1, q2, q3
<1>12. Len(q3) = 3 * Len(more) - (3 * k + r)
  <2>1. Len(q3) = Len(q) + 3 /\ Len(q) = 3 * Len(events) - (3 * k + r)
        /\ Len(more) = Len(events) + 1 /\ Len(events) \in Nat /\ k \in Nat
    BY <1>7, <1>9, <1>10
  <2>. QED  BY <2>1
<1>13. ASSUME NEW j \in 1..Len(q3)  PROVE q3[j] = SymbolAt(more, 3 * k + r + j)
  <2>1. Len(q3) = Len(q) + 3 /\ Len(q) + (3 * k + r) = 3 * Len(events) /\ Len(q) \in Nat
    BY <1>7, <1>9, <1>10
  <2>2. CASE j <= Len(q)
    <3>1. j \in 1..Len(q) /\ 3 * k + r + j \in 1..(3 * Len(events))
      BY <1>7, <2>1, <2>2
    <3>. QED  BY <1>8, <1>9, <1>10, <3>1
  <2>3. CASE j = Len(q) + 1
    <3>1. 3 * k + r + j = 3 * Len(events) + 1
      BY <1>7, <2>1, <2>3
    <3>. QED  BY <1>10, <1>11, <2>3, <3>1
  <2>4. CASE j = Len(q) + 2
    <3>1. 3 * k + r + j = 3 * Len(events) + 2
      BY <1>7, <2>1, <2>4
    <3>. QED  BY <1>10, <1>11, <2>4, <3>1
  <2>5. CASE j = Len(q) + 3
    <3>1. 3 * k + r + j = 3 * Len(events) + 3
      BY <1>7, <2>1, <2>5
    <3>. QED  BY <1>10, <1>11, <2>5, <3>1
  <2>. QED  BY <2>1, <2>2, <2>3, <2>4, <2>5
<1>14. k \in 0..Len(events) /\ k \in 0..Len(more)
  BY <1>7 DEF events
<1>15. Len(heard[c]) \in Nat
  BY LenProperties DEF DataTypes
<1>16. /\ Len(heard'[c]) <= k
       /\ \A i \in 1..Len(heard'[c]) : heard'[c][i] = more[i] /\ IsToken(more[i])
  <2>1. \A i \in 1..Len(heard[c]) : i \in 1..Len(events)
    BY <1>7, <1>9, <1>14, <1>15
  <2>. QED  BY <1>4, <1>7, <1>9, <2>1
<1>17. active[c] => /\ Len(event_buffer'[c]) = r
                    /\ \A j \in 1..r : event_buffer'[c][j] = SymbolAt(more, 3 * k + j)
  <2>. SUFFICES ASSUME active[c]
                PROVE  /\ Len(event_buffer[c]) = r
                       /\ \A j \in 1..r : event_buffer[c][j] = SymbolAt(more, 3 * k + j)
    BY <1>4
  <2>1. /\ Len(event_buffer[c]) = r
        /\ \A j \in 1..r : event_buffer[c][j] = SymbolAt(events, 3 * k + j)
    BY <1>5 DEF StreamAt, events
  <2>2. ASSUME NEW j \in 1..r  PROVE 3 * k + j \in 1..(3 * Len(events))
    <3>1. 3 * k + r <= 3 * Len(events)
      BY <1>7, <1>9
    <3>. QED  BY <1>7, <3>1
  <2>. QED  BY <1>8, <2>1, <2>2
<1>18. active[c] => /\ Len(heard'[c]) + Len(batch'[c]) = k
                    /\ \A i \in 1..Len(batch'[c]) : batch'[c][i] = more[Len(heard'[c]) + i]
  <2>. SUFFICES ASSUME active[c]
                PROVE  /\ Len(heard[c]) + Len(batch[c]) = k
                       /\ \A i \in 1..Len(batch[c]) : batch[c][i] = more[Len(heard[c]) + i]
    BY <1>4
  <2>1. /\ Len(heard[c]) + Len(batch[c]) = k
        /\ \A i \in 1..Len(batch[c]) : batch[c][i] = events[Len(heard[c]) + i]
    BY <1>5 DEF StreamAt, events
  <2>2. Len(batch[c]) \in Nat
    BY LenProperties DEF DataTypes
  <2>3. ASSUME NEW i \in 1..Len(batch[c])  PROVE Len(heard[c]) + i \in 1..Len(events)
    <3>1. Len(heard[c]) + Len(batch[c]) = k
      BY <2>1
    <3>2. k \in Nat /\ Len(events) \in Nat
      BY <1>7
    <3>3. k <= Len(events)
      BY <1>14, <3>2
    <3>. DEFINE b == Len(batch[c])
                h == Len(heard[c])
                L == Len(events)
    <3>4. h \in Nat /\ b \in Nat /\ L \in Nat /\ k \in Nat /\ i \in 1..b /\ h + b = k /\ k <= L
      BY <1>15, <2>2, <3>1, <3>2, <3>3
    <3>. HIDE DEF b, h, L
    <3>5. h + i \in 1..L
      BY <3>4
    <3>. QED  BY <3>5 DEF h, L
  <2>. QED  BY <1>7, <2>1, <2>3
<1>19. ~active[c] => batch[c] = <<>> /\ Len(heard[c]) < k /\ ~IsToken(more[Len(heard[c]) + 1])
  <2>. SUFFICES ASSUME ~active[c]
                PROVE  batch[c] = <<>> /\ Len(heard[c]) < k /\ ~IsToken(more[Len(heard[c]) + 1])
    OBVIOUS
  <2>1. batch[c] = <<>> /\ Len(heard[c]) < k /\ ~IsToken(events[Len(heard[c]) + 1])
    BY <1>4, <1>5 DEF StreamAt, events
  <2>2. Len(heard[c]) + 1 \in 1..Len(events)
    BY <1>7, <1>14, <1>15, <2>1
  <2>. QED  BY <1>7, <2>1, <2>2
<1>20. StreamAt(c, k, r)'
  BY <1>3, <1>4, <1>12, <1>13, <1>16, <1>17, <1>18, <1>19 DEF StreamAt
<1>. QED  BY <1>3, <1>14, <1>20 DEF Stream

\* One round of process_events, over the session's own answer.
LEMMA ProcessStream ==
  ASSUME DataTypes, EndInv, NEW c \in Callers, Stream(c), Process(c), into[c] = c
  PROVE  Stream(c)'
<1>. USE DEF service
<1>1. /\ batch[c] # <<>>
      /\ UNCHANGED <<pc, event_buffer, sent, wire>>
  BY DEF Process
<1>2. PICK k \in 0..Len(sent[c]), r \in 0..2 : StreamAt(c, k, r)
  BY DEF Stream
<1>. DEFINE e == Head(batch[c])
            h == Len(heard[c])
<1>3. /\ active[c] /\ pc[c] = "transfer"
      /\ h + Len(batch[c]) = k
      /\ \A i \in 1..Len(batch[c]) : batch[c][i] = sent[c][h + i]
      /\ \A i \in 1..h : heard[c][i] = sent[c][i] /\ IsToken(sent[c][i])
  BY <1>1, <1>2 DEF StreamAt
<1>4. batch[c] \in Seq(Messages) /\ heard[c] \in Seq(Messages)
  BY DEF DataTypes
<1>5. /\ Len(batch[c]) \in Nat /\ Len(batch[c]) >= 1 /\ h \in Nat /\ k \in Nat
      /\ e = batch[c][1] /\ e \in Messages
      /\ Len(Tail(batch[c])) = Len(batch[c]) - 1
      /\ \A i \in 1..(Len(batch[c]) - 1) : Tail(batch[c])[i] = batch[c][i + 1]
  BY <1>1, <1>4, EmptySeq, LenProperties, HeadTailProperties, ElementOfSeq
<1>6. e = sent[c][h + 1] /\ h < k
  <2>. DEFINE b == Len(batch[c])
  <2>1. h + b = k /\ b \in Nat /\ b >= 1
    BY <1>3, <1>5
  <2>4. 1 \in 1..Len(batch[c])
    <3>. HIDE DEF b
    <3>1. 1 \in 1..b
      BY <2>1
    <3>. QED  BY <3>1 DEF b
  <2>2. batch[c][1] = sent[c][h + 1]
    BY <1>3, <2>4
  <2>3. h < k
    <3>1. h \in Nat /\ k \in Nat
      BY <1>5
    <3>. HIDE DEF h, b
    <3>. QED  BY <2>1, <3>1
  <2>. QED  BY <1>5, <2>2, <2>3
<1>7. CASE e.kind = "token"
  <2>1. /\ heard' = [heard EXCEPT ![c] = Append(@, e)]
        /\ batch' = [batch EXCEPT ![c] = Tail(@)]
        /\ UNCHANGED active
    BY <1>7 DEF Process, Hear, Rest
  <2>. DEFINE new == Append(heard[c], e)
              rest == Tail(batch[c])
  <2>2. heard'[c] = new /\ batch'[c] = rest /\ active'[c]
    BY <1>3, <2>1 DEF DataTypes
  <2>. HIDE DEF e
  <2>3. /\ Len(new) = h + 1
        /\ \A i \in 1..h : new[i] = heard[c][i]
        /\ new[h + 1] = e
    BY <1>4, <1>5, AppendProperties
  <2>. HIDE DEF new
  <2>4. ASSUME NEW i \in 1..Len(new)  PROVE new[i] = sent[c][i] /\ IsToken(sent[c][i])
    <3>1. CASE i = h + 1
      BY <1>6, <1>7, <2>3, <3>1 DEF IsToken
    <3>2. CASE i # h + 1
      <4>1. i \in 1..h
        BY <1>5, <2>3, <3>2
      <4>. QED  BY <1>3, <2>3, <4>1
    <3>. QED  BY <3>1, <3>2
  <2>. HIDE DEF h
  <2>5. Len(new) <= k /\ Len(new) + Len(rest) = k
    <3>. DEFINE b == Len(batch[c])
                n == Len(new)
                m == Len(rest)
    <3>1. /\ h + b = k /\ h < k /\ n = h + 1 /\ m = b - 1
          /\ h \in Nat /\ k \in Nat /\ b \in Nat
      BY <1>3, <1>5, <1>6, <2>3
    <3>. HIDE DEF b, n, m
    <3>2. n <= k /\ n + m = k
      BY <3>1
    <3>. QED  BY <3>2 DEF n, m
  <2>6. ASSUME NEW i \in 1..Len(rest)  PROVE rest[i] = sent[c][Len(new) + i]
    <3>1. i \in 1..(Len(batch[c]) - 1) /\ i + 1 \in 1..Len(batch[c]) /\ h + (i + 1) = Len(new) + i
      BY <1>5, <2>3
    <3>. QED  BY <1>3, <1>5, <3>1
  <2>. HIDE DEF rest
  <2>7. StreamAt(c, k, r)'
    BY <1>1, <1>2, <1>3, <2>2, <2>4, <2>5, <2>6 DEF StreamAt
  <2>. QED  BY <1>1, <2>7 DEF Stream
<1>8. CASE e.kind # "token"
  <2>1. PICK how \in Ways : End(c, how)
    BY <1>8 DEF Process, Ways
  <2>2. batch' = [batch EXCEPT ![c] = <<>>] /\ UNCHANGED heard
    BY <1>8 DEF Process, Break
  <2>3. ~active'[c]
    BY <2>1, EndEffect
  <2>4. batch'[c] = <<>>
    BY <2>2 DEF DataTypes
  <2>5. h < k /\ ~IsToken(sent[c][h + 1])
    BY <1>6, <1>8 DEF IsToken
  <2>6. StreamAt(c, k, r)'
    BY <1>1, <1>2, <1>3, <2>2, <2>3, <2>4, <2>5 DEF StreamAt
  <2>. QED  BY <1>1, <2>6 DEF Stream
<1>. QED  BY <1>7, <1>8

\* complete and fail of one session leave another active.
LEMMA EndOfOther ==
  ASSUME EndInv, NEW s, NEW how, End(s, how), NEW d \in Callers \ {s}
  PROVE  active'[d] = active[d]
  BY DEF End, EndInv

\* A call starts its session before anything of its answer is sent.
LEMMA CreateStream ==
  ASSUME DataTypes, EndInv, NEW c \in Callers, Stream(c), Create(c)
  PROVE  Stream(c)'
<1>. USE DEF service
<1>1. /\ pc[c] = "create" /\ pc'[c] = "check" /\ active'[c]
      /\ UNCHANGED <<batch, event_buffer, heard, sent, wire>>
  BY DEF Create, Goto, EndInv
<1>2. PICK k \in 0..Len(sent[c]), r \in 0..2 : StreamAt(c, k, r)
  BY DEF Stream
<1>3. sent[c] = <<>> /\ batch[c] = <<>> /\ Len(heard[c]) <= k
  BY <1>1, <1>2 DEF StreamAt
<1>4. Len(heard[c]) \in Nat
  BY LenProperties DEF DataTypes
<1>5. k = 0 /\ Len(heard[c]) = 0 /\ Len(batch[c]) = 0
  BY <1>3, <1>4
<1>6. Len(heard[c]) + Len(batch[c]) = k /\ \A i \in 1..Len(batch[c]) : FALSE
  BY <1>5
<1>7. StreamAt(c, k, r)'
  BY <1>1, <1>2, <1>3, <1>6 DEF StreamAt
<1>. QED  BY <1>1, <1>7 DEF Stream

\* A call that returns has handed on every event it has parsed.
LEMMA ReturnStream ==
  ASSUME DataTypes, EndInv, NEW c \in Callers, Stream(c), NEW how \in Ways, End(c, how),
         UNCHANGED <<batch, event_buffer, heard, sent, wire>>,
         pc[c] \notin {"create", "transfer", "session", "nullopt"},
         pc'[c] \in {"session", "nullopt"}
  PROVE  Stream(c)'
<1>1. PICK k \in 0..Len(sent[c]), r \in 0..2 : StreamAt(c, k, r)
  BY DEF Stream
<1>2. ~active'[c] /\ batch[c] = <<>>
  BY <1>1, EndEffect DEF StreamAt
<1>3. \/ Len(heard[c]) < k /\ ~IsToken(sent[c][Len(heard[c]) + 1])
      \/ Len(heard[c]) = k
  <2>1. CASE active[c]
    <3>1. Len(heard[c]) + Len(batch[c]) = k
      BY <1>1, <2>1 DEF StreamAt
    <3>2. Len(batch[c]) = 0 /\ Len(heard[c]) \in Nat
      BY <1>2, LenProperties DEF DataTypes
    <3>. QED  BY <3>1, <3>2
  <2>2. CASE ~active[c]
    BY <1>1, <2>2 DEF StreamAt
  <2>. QED  BY <2>1, <2>2
<1>4. StreamAt(c, k, r)'
  BY <1>1, <1>2, <1>3 DEF StreamAt
<1>. QED  BY <1>4 DEF Stream

\* StreamInv is inductive together with the types and the places of the calls.
LEMMA StreamStep == StreamInv /\ StreamingInv /\ [Next]_vars => StreamInv'
<1>. SUFFICES ASSUME StreamInv, StreamingInv, [Next]_vars, LineEnd = <<LF>>,
                     NEW d \in Callers \ crossed'
              PROVE  Stream(d)'
  BY DEF StreamInv
<1>1. EndInv /\ DataTypes /\ HttpInv
  BY DEF StreamingInv
<1>. USE DEF rate, http, session, service
<1>2. d \notin crossed
  <2>1. crossed \in SUBSET crossed'
    BY DEF Next, CallerStep, Create, CheckRate, SetCallback, Perform, Receive, Process,
           TransferEnds, Finish, Send, TransferFails, Tick, OtherRequest, OtherPost,
           OtherReturns, vars
  <2>. QED  BY <2>1
<1>3. Stream(d)
  BY <1>2 DEF StreamInv
<1>4. pc \in [Callers -> Places] /\ active \in [Callers -> BOOLEAN]
      /\ batch \in [Callers -> Seq(Messages)]
  BY <1>1 DEF EndInv, DataTypes
<1>5. d \in InHttp => streaming_callback = d
  BY <1>1, <1>2 DEF HttpInv
<1>6. ASSUME NEW c \in Callers, Create(c)  PROVE Stream(d)'
  <2>1. CASE d = c
    BY <1>1, <1>3, <1>6, <2>1, CreateStream
  <2>2. CASE d # c
    BY <1>3, <1>4, <1>6, <2>2, StreamQuiet DEF Create, Goto
  <2>. QED  BY <2>1, <2>2
<1>7. ASSUME NEW c \in Callers, NEW how \in Ways, End(c, how),
             NEW from \in {"check", "finish"}, NEW to \in {"session", "nullopt"},
             Goto(c, from, to), UNCHANGED <<batch, event_buffer, heard, sent, wire>>
      PROVE  Stream(d)'
  <2>1. CASE d = c
    <3>1. pc[c] = from /\ pc'[c] = to
      BY <1>4, <1>7 DEF Goto
    <3>. QED  BY <1>1, <1>3, <1>7, <2>1, <3>1, ReturnStream
  <2>2. CASE d # c
    <3>1. active'[d] = active[d]
      BY <1>1, <1>7, <2>2, EndOfOther
    <3>2. pc'[d] = pc[d]
      BY <1>4, <1>7, <2>2 DEF Goto
    <3>. QED  BY <1>3, <1>7, <3>1, <3>2, StreamQuiet
  <2>. QED  BY <2>1, <2>2
<1>8. ASSUME NEW c \in Callers, CheckRate(c)  PROVE Stream(d)'
  <2>1. UNCHANGED <<batch, event_buffer, heard, sent, wire>>
    BY <1>8 DEF CheckRate
  <2>2. CASE Goto(c, "check", "arm") /\ UNCHANGED active
    <3>1. pc[c] = "check" /\ pc' = [pc EXCEPT ![c] = "arm"]
      BY <2>2 DEF Goto
    <3>2. d = c => batch[d] = <<>>
      BY <1>3, <3>1 DEF Stream, StreamAt
    <3>. QED  BY <1>3, <1>4, <2>1, <2>2, <3>1, <3>2, StreamQuiet
  <2>3. CASE Goto(c, "check", "nullopt") /\ End(c, "failed")
    BY <1>7, <2>1, <2>3 DEF Ways
  <2>. QED  BY <1>8, <2>2, <2>3 DEF CheckRate
<1>9. ASSUME NEW c \in Callers, Finish(c)  PROVE Stream(d)'
  <2>1. /\ Goto(c, "finish", "session") /\ End(c, "completed")
        /\ UNCHANGED <<batch, event_buffer, heard, sent, wire>>
    BY <1>9 DEF Finish
  <2>. QED  BY <1>7, <2>1 DEF Ways
<1>10. ASSUME NEW c \in Callers,
              SetCallback(c) \/ Perform(c) \/ TransferEnds(c) \/ TransferFails(c)
       PROVE  Stream(d)'
  <2>1. PICK from, to : /\ pc[c] = from /\ pc' = [pc EXCEPT ![c] = to]
                        /\ from \in {"arm", "perform", "transfer"} /\ to # "create"
                        /\ from = "transfer" => batch[c] = <<>>
    BY <1>10 DEF SetCallback, Perform, TransferEnds, TransferFails, ReportError, Goto
  <2>2. UNCHANGED <<batch, event_buffer, heard, sent, wire, active>>
    BY <1>10 DEF SetCallback, Perform, TransferEnds, TransferFails
  <2>3. d = c => batch[d] = <<>>
    BY <1>3, <2>1 DEF Stream, StreamAt
  <2>. QED  BY <1>3, <1>4, <2>1, <2>2, <2>3, StreamQuiet
<1>11. ASSUME NEW c \in Callers, Receive(c)  PROVE Stream(d)'
  <2>1. c \in InHttp /\ pc[c] = "transfer"
    BY <1>11 DEF Receive, InHttp
  <2>2. CASE d = c
    <3>1. write_function = "callback"
      BY <1>1, <1>2, <2>1, <2>2 DEF HttpInv
    <3>. QED  BY <1>1, <1>3, <1>5, <1>11, <2>1, <2>2, <3>1, ReceiveStream
  <2>3. CASE d # c
    <3>1. streaming_callback # d
      BY <1>1, <1>2, <2>1, <2>3 DEF HttpInv
    <3>2. PICK n \in 1..Len(wire[c]) :
            /\ wire' = [wire EXCEPT ![c] = SubSeq(@, n + 1, Len(@))]
            /\ \/ Parse(streaming_callback, c, SubSeq(wire[c], 1, n))
               \/ UNCHANGED <<batch, event_buffer>>
      BY <1>11 DEF Receive
    <3>3. wire'[d] = wire[d]
      BY <1>1, <2>3, <3>2 DEF DataTypes
    <3>4. batch'[d] = batch[d] /\ event_buffer'[d] = event_buffer[d]
      <4>1. CASE UNCHANGED <<batch, event_buffer>>
        BY <4>1
      <4>2. CASE Parse(streaming_callback, c, SubSeq(wire[c], 1, n))
        <5>1. PICK x, y : /\ batch' = [batch EXCEPT ![c] = x]
                          /\ event_buffer' = [event_buffer EXCEPT ![streaming_callback] = y]
          BY <4>2 DEF Parse
        <5>. QED  BY <1>1, <2>3, <3>1, <5>1 DEF DataTypes
      <4>. QED  BY <3>2, <4>1, <4>2
    <3>5. UNCHANGED <<pc, active, heard, sent>>
      BY <1>11 DEF Receive
    <3>. QED  BY <1>3, <3>3, <3>4, <3>5, StreamQuiet
  <2>. QED  BY <2>2, <2>3
<1>12. ASSUME NEW c \in Callers, Process(c)  PROVE Stream(d)'
  <2>1. batch[c] # <<>> /\ UNCHANGED <<pc, event_buffer, sent, wire>>
    BY <1>12 DEF Process
  <2>2. CASE d = c
    <3>1. into[c] = c
      BY <1>1, <1>2, <2>1, <2>2 DEF HttpInv
    <3>. QED  BY <1>1, <1>3, <1>12, <2>2, <3>1, ProcessStream
  <2>3. CASE d # c
    <3>1. into[c] # d
      BY <1>1, <1>2, <2>1, <2>3 DEF HttpInv
    <3>2. batch'[d] = batch[d]
      BY <1>4, <1>12, <2>3 DEF Process, Rest, Break
    <3>3. heard'[d] = heard[d]
      BY <1>1, <1>12, <3>1 DEF Process, Hear, DataTypes
    <3>4. active'[d] = active[d]
      BY <1>1, <1>12, <3>1, EndOfOther DEF Process
    <3>. QED  BY <1>3, <2>1, <3>2, <3>3, <3>4, StreamQuiet
  <2>. QED  BY <2>2, <2>3
<1>13. ASSUME NEW c \in Callers, Send(c)  PROVE Stream(d)'
  <2>1. CASE d = c
    BY <1>1, <1>3, <1>13, <2>1, SendStream
  <2>2. CASE d # c
    <3>1. UNCHANGED <<pc, batch, active, event_buffer, heard>>
      BY <1>13 DEF Send
    <3>2. PICK x, y : /\ sent' = [sent EXCEPT ![c] = x]
                      /\ wire' = [wire EXCEPT ![c] = y]
      BY <1>13 DEF Send
    <3>3. sent'[d] = sent[d] /\ wire'[d] = wire[d]
      BY <1>1, <2>2, <3>2 DEF DataTypes
    <3>. QED  BY <1>3, <3>1, <3>3, StreamQuiet
  <2>. QED  BY <2>1, <2>2
<1>14. CASE Tick \/ OtherRequest \/ OtherPost \/ OtherReturns \/ UNCHANGED vars
  <2>1. UNCHANGED <<pc, batch, active, event_buffer, heard, sent, wire>>
    BY <1>14 DEF Tick, OtherRequest, OtherPost, OtherReturns, vars
  <2>. QED  BY <1>3, <2>1, StreamQuiet
<1>. QED  BY <1>6, <1>8, <1>9, <1>10, <1>11, <1>12, <1>13, <1>14 DEF Next, CallerStep

\* At the beginning nothing was sent.
LEMMA StreamInit == Init => StreamInv
<1>. SUFFICES ASSUME Init, NEW c \in Callers  PROVE Stream(c)
  BY DEF StreamInv
<1>1. /\ wire[c] = <<>> /\ sent[c] = <<>> /\ heard[c] = <<>> /\ batch[c] = <<>>
      /\ event_buffer[c] = <<>> /\ ~active[c] /\ pc[c] = "create"
  BY DEF Init
<1>2. StreamAt(c, 0, 0)
  BY <1>1 DEF StreamAt
<1>3. 0 \in 0..Len(sent[c])
  BY <1>1
<1>. QED  BY <1>2, <1>3 DEF Stream

\* What is left on the wire tells how many events have arrived.
LEMMA ArrivedEvents ==
  ASSUME DataTypes, LineEnd = <<LF>>, NEW c \in Callers,
         NEW k \in 0..Len(sent[c]), NEW r \in 0..2, StreamAt(c, k, r)
  PROVE  /\ Arrived(c) \in Seq(Event) /\ Len(Arrived(c)) = k
         /\ \A i \in 1..k : Arrived(c)[i] = sent[c][i]
<1>. DEFINE L == Len(sent[c])
            w == Len(wire[c])
<1>1. L \in Nat /\ w \in Nat /\ w = 3 * L - (3 * k + r) /\ k <= L /\ k \in Nat
  BY LenProperties DEF DataTypes, StreamAt
<1>2. Len(LineEnd) = 1
  OBVIOUS
<1>3. Arrived(c) = SubSeq(sent[c], 1, L - (w + 2) \div 3)
  <2>1. 2 * Len(LineEnd) = 2 /\ 1 + 2 * Len(LineEnd) = 3
    BY <1>2
  <2>2. Arrived(c) =
          SubSeq(sent[c], 1, L - (w + 2 * Len(LineEnd)) \div (1 + 2 * Len(LineEnd)))
    BY DEF Arrived
  <2>. HIDE DEF L, w
  <2>. QED  BY <2>1, <2>2, Zenon
<1>. HIDE DEF L, w
<1>4. (w + 2) \div 3 = L - k
  <2>1. w + 2 = 3 * (L - k) + (2 - r) /\ L - k \in Nat /\ 2 - r \in 0..2
    BY <1>1
  <2>. QED  BY <2>1
<1>5. L - (w + 2) \div 3 = k
  BY <1>1, <1>4
<1>6. Arrived(c) = SubSeq(sent[c], 1, k)
  BY <1>3, <1>5
<1>7. sent[c] \in Seq(Event) /\ 1 \in 1..(L + 1) /\ k \in (1 - 1)..L
  BY <1>1 DEF DataTypes
<1>8. /\ SubSeq(sent[c], 1, k) \in Seq(Event)
      /\ Len(SubSeq(sent[c], 1, k)) = IF 1 <= k THEN k - 1 + 1 ELSE 0
      /\ \A i \in 1..(k - 1 + 1) : SubSeq(sent[c], 1, k)[i] = sent[c][1 + i - 1]
  BY <1>7, SubSeqProperties DEF L
<1>9. ASSUME NEW i \in 1..k  PROVE Arrived(c)[i] = sent[c][i]
  <2>1. i \in 1..(k - 1 + 1) /\ 1 + i - 1 = i
    BY <1>1
  <2>. QED  BY <1>6, <1>8, <2>1
<1>. QED  BY <1>1, <1>6, <1>8, <1>9

\* The tokens before the first event that is none.
LEMMA TokensOf ==
  ASSUME NEW events \in Seq(Event), NEW h \in 0..Len(events),
         \A i \in 1..h : IsToken(events[i]),
         h < Len(events) => ~IsToken(events[h + 1])
  PROVE  Tokens(events) = SubSeq(events, 1, h)
<1>. DEFINE Is(n) == /\ \A i \in 1..n : IsToken(events[i])
                     /\ n < Len(events) => ~IsToken(events[n + 1])
            N == CHOOSE n \in 0..Len(events) : Is(n)
<1>1. Tokens(events) = SubSeq(events, 1, N)
  BY DEF Tokens
<1>2. Len(events) \in Nat
  BY LenProperties
<1>3. N \in 0..Len(events) /\ Is(N)
  <2>1. Is(h)
    OBVIOUS
  <2>. HIDE DEF Is
  <2>. QED  BY <2>1
<1>. HIDE DEF N
<1>4. CASE N < h
  <2>1. N + 1 \in 1..h /\ N < Len(events)
    BY <1>2, <1>3, <1>4
  <2>. QED  BY <1>3, <2>1
<1>5. CASE h < N
  <2>1. h + 1 \in 1..N /\ h < Len(events)
    BY <1>2, <1>3, <1>5
  <2>. QED  BY <1>3, <2>1
<1>6. CASE N = h
  BY <1>1, <1>6
<1>. QED  BY <1>2, <1>3, <1>4, <1>5, <1>6

\* StreamInv says what the session has heard between two chunks.
LEMMA StreamHeard ==
  ASSUME StreamInv, DataTypes, LineEnd = <<LF>>
  PROVE  StreamsAsSent
<1>. SUFFICES ASSUME NEW c \in Callers \ crossed, batch[c] = <<>>
              PROVE  heard[c] = Tokens(Arrived(c))
  BY DEF StreamsAsSent
<1>1. PICK k \in 0..Len(sent[c]), r \in 0..2 : StreamAt(c, k, r)
  BY DEF StreamInv, Stream
<1>. DEFINE events == Arrived(c)
            h == Len(heard[c])
<1>2. /\ events \in Seq(Event) /\ Len(events) = k
      /\ \A i \in 1..k : events[i] = sent[c][i]
  BY <1>1, ArrivedEvents
<1>3. /\ h \in Nat /\ heard[c] \in Seq(Messages) /\ k \in Nat /\ Len(batch[c]) = 0
  BY LenProperties DEF DataTypes
<1>4. /\ h <= k
      /\ \A i \in 1..h : heard[c][i] = sent[c][i] /\ IsToken(sent[c][i])
      /\ active[c] => h + Len(batch[c]) = k
      /\ ~active[c] => \/ h < k /\ ~IsToken(sent[c][h + 1])
                       \/ h = k
  BY <1>1 DEF StreamAt
<1>. HIDE DEF events, h
<1>5. h \in 0..k /\ \A i \in 1..h : i \in 1..k
  BY <1>3, <1>4
<1>6. \A i \in 1..h : heard[c][i] = events[i] /\ IsToken(events[i])
  BY <1>2, <1>4, <1>5
<1>7. h < k => ~IsToken(events[h + 1])
  <2>. SUFFICES ASSUME h < k  PROVE ~IsToken(events[h + 1])
    OBVIOUS
  <2>1. h + 1 \in 1..k /\ h # k /\ h + 0 # k
    BY <1>3
  <2>2. ~IsToken(sent[c][h + 1])
    BY <1>3, <1>4, <2>1
  <2>. QED  BY <1>2, <2>1, <2>2
<1>8. Tokens(events) = SubSeq(events, 1, h)
  BY <1>2, <1>5, <1>6, <1>7, TokensOf
<1>9. /\ SubSeq(events, 1, h) \in Seq(Event)
      /\ Len(SubSeq(events, 1, h)) = h
      /\ \A i \in 1..h : SubSeq(events, 1, h)[i] = events[i]
  <2>1. 1 \in 1..(Len(events) + 1) /\ h \in (1 - 1)..Len(events)
    BY <1>2, <1>3, <1>5
  <2>2. /\ SubSeq(events, 1, h) \in Seq(Event)
        /\ Len(SubSeq(events, 1, h)) = IF 1 <= h THEN h - 1 + 1 ELSE 0
        /\ \A i \in 1..(h - 1 + 1) : SubSeq(events, 1, h)[i] = events[1 + i - 1]
    BY <1>2, <2>1, SubSeqProperties
  <2>3. ASSUME NEW i \in 1..h  PROVE SubSeq(events, 1, h)[i] = events[i]
    <3>1. i \in 1..(h - 1 + 1) /\ 1 + i - 1 = i
      BY <1>3
    <3>. QED  BY <2>2, <3>1
  <2>4. Len(SubSeq(events, 1, h)) = h
    BY <1>3, <2>2
  <2>. QED  BY <2>2, <2>3, <2>4
<1>10. heard[c] = SubSeq(events, 1, h)
  <2>. DEFINE q == SubSeq(events, 1, h)
  <2>1. Len(heard[c]) = h
    BY DEF h
  <2>. HIDE DEF q
  <2>2. q \in Seq(Event) /\ Len(q) = h /\ \A i \in 1..h : q[i] = events[i]
    BY <1>9 DEF q
  <2>3. \A i \in 1..Len(heard[c]) : heard[c][i] = q[i]
    BY <1>6, <2>1, <2>2
  <2>4. heard[c] = q
    BY <1>3, <2>1, <2>2, <2>3, SeqEqual
  <2>. QED  BY <2>4 DEF q
<1>. QED  BY <1>8, <1>10 DEF events

\* A call that has the HttpClient for itself hears every token of its answer, once and in
\* order, and nothing after the end of it, wherever extract_events finds the answer cut:
\* for a service that ends its lines with LF.  With CR and LF it does not hold.
THEOREM StreamsAsSentHolds == Spec => [](LineEnd = <<LF>> => StreamsAsSent)
<1>1. Init => StreamingInv /\ StreamInv
  BY RateInit, DataInit, StreamInit DEF Init, EndInv, EndOf, Places, StreamingInv
<1>2. (StreamingInv /\ StreamInv) /\ [Next]_vars => (StreamingInv /\ StreamInv)'
  BY EndStep, RateStep, DataStep, HttpStep, StreamStep DEF StreamingInv
<1>3. StreamingInv /\ StreamInv => (LineEnd = <<LF>> => StreamsAsSent)
  BY StreamHeard DEF StreamingInv
<1>. QED  BY <1>1, <1>2, <1>3, PTL DEF Spec
=============================================================================
