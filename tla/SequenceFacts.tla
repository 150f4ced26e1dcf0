--------------------------- MODULE SequenceFacts ---------------------------
(***************************************************************************)
(* What the operations on sequences do to the set of their elements, in    *)
(* particular of one without repetitions: the facts the proofs about       *)
(* queues and stacks rest on.  Then induction and recursion over the       *)
(* natural numbers with a set for the predicate and a function for the     *)
(* step, which is the form the provers can apply, and what they say of     *)
(* Select.                                                                 *)
(***************************************************************************)
EXTENDS Integers, Sequences, Selection, SequenceTheorems, WellFoundedInduction, TLAPS

Elements(q) == {q[i] : i \in DOMAIN q}
Distinct(q) == \A i, j \in DOMAIN q : q[i] = q[j] => i = j

\* Append adds one element.
LEMMA AppendElements ==
  ASSUME NEW S, NEW q \in Seq(S), NEW e \in S
  PROVE  /\ Elements(Append(q, e)) = Elements(q) \cup {e}
         /\ Distinct(q) /\ e \notin Elements(q) => Distinct(Append(q, e))
<1>. DEFINE r == Append(q, e)
<1>1. /\ Len(q) \in Nat /\ DOMAIN q = 1..Len(q)
      /\ r \in Seq(S) /\ Len(r) = Len(q) + 1
      /\ \A i \in 1..Len(q) : r[i] = q[i]
      /\ r[Len(q) + 1] = e
  BY LenProperties, AppendProperties
<1>2. DOMAIN r = 1..(Len(q) + 1)
  BY <1>1, LenProperties
<1>. HIDE DEF r
<1>3. Elements(r) = Elements(q) \cup {e}
  BY <1>1, <1>2 DEF Elements
<1>4. Distinct(q) /\ e \notin Elements(q) => Distinct(r)
  BY <1>1, <1>2 DEF Elements, Distinct
<1>. QED  BY <1>3, <1>4 DEF r

\* Tail removes the head, once and for all when nothing is repeated.
LEMMA TailElements ==
  ASSUME NEW S, NEW q \in Seq(S), q # <<>>
  PROVE  /\ Head(q) \in Elements(q)
         /\ Elements(q) = Elements(Tail(q)) \cup {Head(q)}
         /\ Distinct(q) => Distinct(Tail(q)) /\ Head(q) \notin Elements(Tail(q))
<1>. DEFINE r == Tail(q)
<1>1. /\ Len(q) \in Nat \ {0} /\ DOMAIN q = 1..Len(q)
      /\ r \in Seq(S) /\ Len(r) = Len(q) - 1
      /\ \A i \in 1..Len(r) : r[i] = q[i + 1]
  BY EmptySeq, LenProperties, HeadTailProperties
<1>2. DOMAIN r = 1..(Len(q) - 1)
  BY <1>1, LenProperties
<1>3. Head(q) = q[1]
  OBVIOUS
<1>. HIDE DEF r
<1>4. \A i \in 2..Len(q) : i - 1 \in DOMAIN r /\ q[i] = r[i - 1]
  BY <1>1, <1>2
<1>5. \A i \in DOMAIN r : i + 1 \in DOMAIN q /\ r[i] = q[i + 1]
  BY <1>1, <1>2
<1>6. Elements(q) = Elements(r) \cup {Head(q)}
  <2>1. Elements(q) \subseteq Elements(r) \cup {Head(q)}
    <3>. SUFFICES ASSUME NEW i \in DOMAIN q  PROVE q[i] \in Elements(r) \cup {Head(q)}
      BY DEF Elements
    <3>1. CASE i = 1
      BY <3>1, <1>3
    <3>2. CASE i # 1
      BY <3>2, <1>1, <1>4 DEF Elements
    <3>. QED  BY <3>1, <3>2
  <2>2. Elements(r) \cup {Head(q)} \subseteq Elements(q)
    BY <1>1, <1>3, <1>5 DEF Elements
  <2>. QED  BY <2>1, <2>2
<1>7. Distinct(q) => Distinct(r) /\ Head(q) \notin Elements(r)
  <2>. SUFFICES ASSUME Distinct(q)  PROVE Distinct(r) /\ Head(q) \notin Elements(r)
    OBVIOUS
  <2>1. Distinct(r)
    BY <1>1, <1>2, <1>5 DEF Distinct
  <2>2. \A i \in DOMAIN r : r[i] # q[1]
    BY <1>1, <1>2, <1>5 DEF Distinct
  <2>. QED  BY <2>1, <2>2, <1>3 DEF Elements
<1>. QED  BY <1>1, <1>3, <1>6, <1>7 DEF r, Elements

\* Dropping the last element of a stack.
LEMMA FrontElements ==
  ASSUME NEW S, NEW q \in Seq(S), q # <<>>
  PROVE  LET r == SubSeq(q, 1, Len(q) - 1)
             e == q[Len(q)]
         IN  /\ r \in Seq(S) /\ Len(r) = Len(q) - 1 /\ e \in S
             /\ Elements(q) = Elements(r) \cup {e}
             /\ Distinct(q) => Distinct(r) /\ e \notin Elements(r)
<1>. DEFINE r == SubSeq(q, 1, Len(q) - 1)
            e == q[Len(q)]
<1>1. /\ Len(q) \in Nat \ {0} /\ DOMAIN q = 1..Len(q)
      /\ \A i \in 1..Len(q) : q[i] \in S
  BY EmptySeq, LenProperties, ElementOfSeq
<1>2. /\ r \in Seq(S) /\ Len(r) = Len(q) - 1
      /\ \A i \in 1..(Len(q) - 1) : r[i] = q[i]
  BY <1>1, SubSeqProperties
<1>3. DOMAIN r = 1..(Len(q) - 1)
  BY <1>2, LenProperties
<1>. HIDE DEF r
<1>4. Elements(q) = Elements(r) \cup {e}
  BY <1>1, <1>2, <1>3 DEF Elements
<1>5. Distinct(q) => Distinct(r) /\ e \notin Elements(r)
  BY <1>1, <1>2, <1>3 DEF Elements, Distinct
<1>. QED  BY <1>1, <1>2, <1>4, <1>5 DEF r

\* Concatenation.
LEMMA ConcatElements ==
  ASSUME NEW S, NEW q \in Seq(S), NEW r \in Seq(S)
  PROVE  /\ q \o r \in Seq(S)
         /\ Elements(q \o r) = Elements(q) \cup Elements(r)
         /\ Distinct(q) /\ Distinct(r) /\ Elements(q) \cap Elements(r) = {}
              => Distinct(q \o r)
<1>. DEFINE s == q \o r
<1>1. /\ Len(q) \in Nat /\ DOMAIN q = 1..Len(q)
      /\ Len(r) \in Nat /\ DOMAIN r = 1..Len(r)
  BY LenProperties
<1>2. /\ s \in Seq(S) /\ Len(s) = Len(q) + Len(r)
      /\ \A i \in 1..(Len(q) + Len(r)) : s[i] = IF i <= Len(q) THEN q[i] ELSE r[i - Len(q)]
  BY ConcatProperties
<1>3. DOMAIN s = 1..(Len(q) + Len(r))
  BY <1>2, LenProperties
<1>. HIDE DEF s
<1>4. \A i \in DOMAIN s : \/ i \in DOMAIN q /\ s[i] = q[i]
                          \/ i - Len(q) \in DOMAIN r /\ s[i] = r[i - Len(q)]
  BY <1>1, <1>2, <1>3
<1>5. /\ \A i \in DOMAIN q : i \in DOMAIN s /\ s[i] = q[i]
      /\ \A i \in DOMAIN r : i + Len(q) \in DOMAIN s /\ s[i + Len(q)] = r[i]
  BY <1>1, <1>2, <1>3
<1>6. Elements(s) = Elements(q) \cup Elements(r)
  BY <1>4, <1>5 DEF Elements
<1>7. Distinct(q) /\ Distinct(r) /\ Elements(q) \cap Elements(r) = {} => Distinct(s)
  <2>. SUFFICES ASSUME Distinct(q), Distinct(r), Elements(q) \cap Elements(r) = {},
                       NEW i \in DOMAIN s, NEW j \in DOMAIN s, s[i] = s[j]
                PROVE  i = j
    BY DEF Distinct
  <2>1. CASE i \in DOMAIN q /\ s[i] = q[i] /\ j \in DOMAIN q /\ s[j] = q[j]
    BY <2>1 DEF Distinct
  <2>2. CASE /\ i - Len(q) \in DOMAIN r /\ s[i] = r[i - Len(q)]
             /\ j - Len(q) \in DOMAIN r /\ s[j] = r[j - Len(q)]
    <3>1. i - Len(q) = j - Len(q)
      BY <2>2 DEF Distinct
    <3>. QED  BY <3>1, <1>1, <1>3
  <2>3. CASE i \in DOMAIN q /\ s[i] = q[i] /\ j - Len(q) \in DOMAIN r /\ s[j] = r[j - Len(q)]
    BY <2>3 DEF Elements
  <2>4. CASE j \in DOMAIN q /\ s[j] = q[j] /\ i - Len(q) \in DOMAIN r /\ s[i] = r[i - Len(q)]
    BY <2>4 DEF Elements
  <2>. QED  BY <1>4, <2>1, <2>2, <2>3, <2>4
<1>. QED  BY <1>2, <1>6, <1>7 DEF s

\* What follows the first part of a concatenation is its second part.
LEMMA ConcatSuffix ==
  ASSUME NEW S, NEW q \in Seq(S), NEW r \in Seq(S)
  PROVE  SubSeq(q \o r, Len(q) + 1, Len(q \o r)) = r
<1>. DEFINE s == q \o r
            t == SubSeq(s, Len(q) + 1, Len(s))
<1>1. /\ Len(q) \in Nat /\ Len(r) \in Nat
      /\ \A i \in 1..Len(r) : r[i] \in S
  BY LenProperties, ElementOfSeq
<1>2. /\ Len(s) = Len(q) + Len(r)
      /\ \A i \in 1..Len(r) : s[Len(q) + i] = r[i]
  BY <1>1, ConcatProperties
<1>. HIDE DEF s
<1>3. \A i \in (Len(q) + 1)..Len(s) : s[i] \in S
  <2>. SUFFICES ASSUME NEW i \in (Len(q) + 1)..Len(s)  PROVE s[i] \in S
    OBVIOUS
  <2>1. i - Len(q) \in 1..Len(r) /\ i = Len(q) + (i - Len(q))
    BY <1>1, <1>2
  <2>. QED  BY <1>1, <1>2, <2>1
<1>4. /\ t \in Seq(S) /\ Len(t) = Len(r)
      /\ \A i \in 1..Len(r) : t[i] = s[Len(q) + i]
  <2>1. /\ t \in Seq(S)
        /\ Len(t) = IF Len(q) + 1 <= Len(s) THEN Len(s) - (Len(q) + 1) + 1 ELSE 0
        /\ \A i \in 1..(Len(s) - (Len(q) + 1) + 1) : t[i] = s[(Len(q) + 1) + i - 1]
    BY <1>1, <1>2, <1>3, SubSeqProperties
  <2>. HIDE DEF t
  <2>2. Len(t) = Len(r) /\ Len(s) - (Len(q) + 1) + 1 = Len(r)
    BY <1>1, <1>2, <2>1
  <2>3. \A i \in 1..Len(r) : (Len(q) + 1) + i - 1 = Len(q) + i
    BY <1>1
  <2>. QED  BY <2>1, <2>2, <2>3
<1>. HIDE DEF t
<1>5. t = r
  BY <1>2, <1>4, SeqEqual
<1>. QED  BY <1>5 DEF s, t

-----------------------------------------------------------------------------
(* Induction and recursion                                                 *)

\* A set of natural numbers that has 0 and every successor has them all.
LEMMA SetInduction ==
  ASSUME NEW S \in SUBSET Nat, 0 \in S, \A n \in S : n + 1 \in S
  PROVE  S = Nat
<1>. DEFINE T == Nat \ S
<1>. SUFFICES ASSUME T # {}  PROVE FALSE
  OBVIOUS
<1>1. PICK x \in T : \A y \in T : ~ (<<y, x>> \in OpToRel(<, Nat))
  BY NatLessThanWellFounded, WFMin, Zenon
<1>2. x \in Nat /\ x # 0 /\ x - 1 \in Nat
  OBVIOUS
<1>3. <<x - 1, x>> \in OpToRel(<, Nat)
  BY <1>2 DEF OpToRel
<1>4. x - 1 \in S
  BY <1>1, <1>2, <1>3
<1>. QED  BY <1>2, <1>4

\* The run g starts with a and goes from value to value as the steps h say.
IsRun(g, S, a, h) ==
  /\ g \in [Nat -> S]
  /\ g[0] = a
  /\ \A n \in Nat : g[n + 1] = h[n][g[n]]

\* A first value and the steps define a run.
LEMMA Recursion ==
  ASSUME NEW S, NEW a \in S, NEW h \in [Nat -> [S -> S]]
  PROVE  \E g : IsRun(g, S, a, h)
<1>. DEFINE Upto(n) == {p \in [0..n -> S] :
                          p[0] = a /\ \A i \in 0..(n - 1) : p[i + 1] = h[i][p[i]]}
            Built == {n \in Nat : \E p : p \in Upto(n)}
<1>1. Built = Nat
  <2>1. 0 \in Built
    <3>1. [i \in 0..0 |-> a] \in Upto(0)
      OBVIOUS
    <3>. QED  BY <3>1
  <2>2. ASSUME NEW n \in Built  PROVE n + 1 \in Built
    <3>1. PICK p : p \in Upto(n)
      BY <2>2
    <3>. DEFINE r == [i \in 0..(n + 1) |-> IF i <= n THEN p[i] ELSE h[n][p[n]]]
    <3>2. r \in [0..(n + 1) -> S] /\ r[0] = a
      BY <3>1, <2>2
    <3>3. \A i \in 0..n : r[i + 1] = h[i][r[i]]
      BY <3>1, <2>2
    <3>. HIDE DEF r
    <3>4. n \in Nat /\ n + 1 \in Nat /\ (n + 1) - 1 = n
      BY <2>2
    <3>5. r \in Upto(n + 1)
      BY <3>2, <3>3, <3>4
    <3>. HIDE DEF Upto
    <3>. QED  BY <3>4, <3>5
  <2>. HIDE DEF Built
  <2>3. Built \in SUBSET Nat
    BY DEF Built
  <2>. QED  BY <2>1, <2>2, <2>3, SetInduction
<1>2. \A i \in Nat : \A m, n \in Nat : \A p \in Upto(m), r \in Upto(n) :
        i <= m /\ i <= n => p[i] = r[i]
  <2>. DEFINE Agree == {i \in Nat : \A m, n \in Nat : \A p \in Upto(m), r \in Upto(n) :
                                      i <= m /\ i <= n => p[i] = r[i]}
  <2>1. 0 \in Agree
    OBVIOUS
  <2>2. ASSUME NEW i \in Agree  PROVE i + 1 \in Agree
    <3>1. ASSUME NEW m \in Nat, NEW n \in Nat, NEW p \in Upto(m), NEW r \in Upto(n),
                 i + 1 <= m, i + 1 <= n
          PROVE  p[i + 1] = r[i + 1]
      <4>1. i \in Nat /\ i <= m /\ i <= n /\ i \in 0..(m - 1) /\ i \in 0..(n - 1)
        BY <2>2, <3>1
      <4>2. p[i + 1] = h[i][p[i]] /\ r[i + 1] = h[i][r[i]]
        BY <4>1
      <4>. HIDE DEF Upto
      <4>3. p[i] = r[i]
        BY <4>1, <2>2
      <4>. QED  BY <4>2, <4>3
    <3>. HIDE DEF Upto
    <3>. QED  BY <2>2, <3>1
  <2>. HIDE DEF Agree
  <2>3. Agree \in SUBSET Nat
    BY DEF Agree
  <2>4. Agree = Nat
    BY <2>1, <2>2, <2>3, SetInduction
  <2>. QED  BY <2>4 DEF Agree
<1>. DEFINE pick == [n \in Nat |-> CHOOSE p : p \in Upto(n)]
            g == [n \in Nat |-> pick[n][n]]
<1>3. \A n \in Nat : pick[n] \in Upto(n)
  BY <1>1
<1>. HIDE DEF pick
<1>4. g \in [Nat -> S] /\ g[0] = a
  BY <1>3
<1>5. ASSUME NEW n \in Nat  PROVE g[n + 1] = h[n][g[n]]
  <2>1. g[n + 1] = pick[n + 1][n + 1] /\ g[n] = pick[n][n]
    OBVIOUS
  <2>2. pick[n + 1][n + 1] = h[n][pick[n + 1][n]]
    BY <1>3
  <2>3. pick[n + 1][n] = pick[n][n]
    <3>. HIDE DEF Upto
    <3>1. n + 1 \in Nat /\ n <= n + 1 /\ n <= n
      OBVIOUS
    <3>. QED  BY <1>2, <1>3, <3>1
  <2>. QED  BY <2>1, <2>2, <2>3
<1>. QED  BY <1>4, <1>5 DEF IsRun

\* A loop that goes on while it sees old elements stops at the first that is not, or
\* at the end.
LEMMA FirstNot ==
  ASSUME NEW N \in Nat, NEW Old
  PROVE  \E n \in 0..N : (\A i \in 1..n : i \in Old) /\ (n < N => n + 1 \notin Old)
<1>. DEFINE Stops(m, n) == (\A i \in 1..n : i \in Old) /\ (n < m => n + 1 \notin Old)
            Good == {m \in Nat : \E n \in 0..m : Stops(m, n)}
<1>1. 0 \in Good
  OBVIOUS
<1>2. ASSUME NEW m \in Good  PROVE m + 1 \in Good
  <2>1. PICK n \in 0..m : Stops(m, n)
    BY <1>2
  <2>2. CASE n < m \/ m + 1 \notin Old
    <3>1. n \in 0..(m + 1) /\ Stops(m + 1, n)
      BY <2>1, <2>2, <1>2
    <3>. QED  BY <3>1, <1>2
  <2>3. CASE n = m /\ m + 1 \in Old
    <3>1. m + 1 \in 0..(m + 1) /\ Stops(m + 1, m + 1)
      BY <2>1, <2>3, <1>2
    <3>. QED  BY <3>1, <1>2
  <2>. QED  BY <2>1, <2>2, <2>3
<1>3. Good = Nat
  <2>1. Good \in SUBSET Nat
    OBVIOUS
  <2>. HIDE DEF Good
  <2>. QED  BY <1>1, <1>2, <2>1, SetInduction
<1>. QED  BY <1>3

\* Positions that are not empty have a first.
LEMMA First ==
  ASSUME NEW S \in SUBSET (Nat \ {0}), S # {}
  PROVE  \E m \in S : \A i \in S : m <= i
<1>1. PICK x \in S : TRUE
  OBVIOUS
<1>. DEFINE Old == Nat \ S
<1>2. x \in Nat
  OBVIOUS
<1>3. \E n \in 0..x : (\A i \in 1..n : i \in Old) /\ (n < x => n + 1 \notin Old)
  <2>. HIDE DEF Old
  <2>. QED  BY <1>2, FirstNot
<1>4. PICK n \in 0..x : (\A i \in 1..n : i \in Old) /\ (n < x => n + 1 \notin Old)
  BY <1>3
<1>5. n < x
  BY <1>1, <1>4
<1>6. n + 1 \in S /\ \A i \in S : n + 1 <= i
  BY <1>4, <1>5
<1>. QED  BY <1>6

\* If there are finitely many, they have a last.
LEMMA Last ==
  ASSUME NEW N \in Nat, NEW S \in SUBSET (1..N), S # {}
  PROVE  \E m \in S : \A i \in S : i <= m
<1>. DEFINE T == {j \in 1..N : N + 1 - j \in S}
<1>1. T \in SUBSET (Nat \ {0})
  OBVIOUS
<1>2. T # {}
  <2>1. PICK x \in S : TRUE
    OBVIOUS
  <2>2. N + 1 - x \in 1..N /\ N + 1 - (N + 1 - x) = x
    BY <2>1
  <2>. QED  BY <2>1, <2>2
<1>3. PICK m \in T : \A j \in T : m <= j
  <2>. HIDE DEF T
  <2>. QED  BY <1>1, <1>2, First
<1>4. ASSUME NEW i \in S  PROVE i <= N + 1 - m
  <2>1. i \in 1..N /\ N + 1 - i \in 1..N /\ N + 1 - (N + 1 - i) = i
    OBVIOUS
  <2>2. N + 1 - i \in T
    BY <2>1
  <2>3. m <= N + 1 - i /\ m \in 1..N
    BY <1>3, <2>2
  <2>. QED  BY <2>1, <2>3
<1>. QED  BY <1>3, <1>4

-----------------------------------------------------------------------------
(* Select                                                                  *)

\* The loop of Select: after n rounds it has looked at the first n elements.
LEMMA SelectLoop ==
  ASSUME NEW U, NEW q \in Seq(U), NEW S
  PROVE  \E kept \in [0..Len(q) -> Seq(U)] :
           /\ Select(q, S) = kept[Len(q)]
           /\ kept[0] = <<>>
           /\ \A n \in 1..Len(q) :
                kept[n] = IF q[n] \in S THEN Append(kept[n - 1], q[n]) ELSE kept[n - 1]
<1>. DEFINE N == Len(q)
            Loop(f) == f = [n \in 0..N |->
                              IF n = 0 THEN <<>>
                              ELSE IF q[n] \in S THEN Append(f[n - 1], q[n]) ELSE f[n - 1]]
            step == [n \in Nat |-> [s \in Seq(U) |->
                       IF n < N /\ q[n + 1] \in S THEN Append(s, q[n + 1]) ELSE s]]
<1>1. N \in Nat /\ \A n \in 1..N : q[n] \in U
  BY LenProperties, ElementOfSeq
<1>2. step \in [Nat -> [Seq(U) -> Seq(U)]]
  <2>1. ASSUME NEW n \in Nat, NEW s \in Seq(U)
        PROVE  (IF n < N /\ q[n + 1] \in S THEN Append(s, q[n + 1]) ELSE s) \in Seq(U)
    BY <1>1, AppendProperties
  <2>. QED  BY <2>1
<1>3. PICK g : IsRun(g, Seq(U), <<>>, step)
  <2>. HIDE DEF step
  <2>1. <<>> \in Seq(U)
    OBVIOUS
  <2>. QED  BY <2>1, <1>2, Recursion
<1>. DEFINE f == [n \in 0..N |-> g[n]]
<1>4. f \in [0..N -> Seq(U)] /\ f[0] = <<>>
  BY <1>1, <1>3 DEF IsRun
<1>5. ASSUME NEW n \in 1..N
      PROVE  f[n] = IF q[n] \in S THEN Append(f[n - 1], q[n]) ELSE f[n - 1]
  <2>1. n - 1 \in Nat /\ (n - 1) + 1 = n /\ n - 1 < N /\ n - 1 \in 0..N
    BY <1>1
  <2>2. g[n] = step[n - 1][g[n - 1]]
    <3>. HIDE DEF step
    <3>. QED  BY <1>3, <2>1 DEF IsRun
  <2>3. step[n - 1][g[n - 1]] = IF q[n] \in S THEN Append(g[n - 1], q[n]) ELSE g[n - 1]
    BY <2>1, <1>3 DEF IsRun
  <2>. QED  BY <1>1, <2>1, <2>2, <2>3
<1>6. Loop(f)
  <2>1. \A n \in 0..N : f[n] = IF n = 0 THEN <<>>
                               ELSE IF q[n] \in S THEN Append(f[n - 1], q[n]) ELSE f[n - 1]
    <3>1. \A n \in 0..N : n = 0 \/ n \in 1..N
      BY <1>1
    <3>. HIDE DEF f
    <3>. QED  BY <3>1, <1>4, <1>5
  <2>. HIDE DEF f
  <2>. QED  BY <2>1, <1>4
<1>7. Select(q, S) = (CHOOSE x : Loop(x))[N]
  BY DEF Select
<1>8. Loop(CHOOSE x : Loop(x))
  <2>. HIDE DEF Loop, f
  <2>. QED  BY <1>6
<1>. DEFINE kept == CHOOSE x : Loop(x)
<1>9. kept = f
  <2>. DEFINE Same == {n \in Nat : n \in 0..N => kept[n] = f[n]}
  <2>1. \A n \in 0..N : kept[n] = IF n = 0 THEN <<>>
                                  ELSE IF q[n] \in S THEN Append(kept[n - 1], q[n])
                                                     ELSE kept[n - 1]
    <3>. HIDE DEF kept
    <3>. QED  BY <1>8 DEF kept
  <2>. HIDE DEF kept, f
  <2>2. 0 \in Same
    BY <2>1, <1>1, <1>4
  <2>3. ASSUME NEW n \in Same  PROVE n + 1 \in Same
    <3>. SUFFICES ASSUME n + 1 \in 0..N  PROVE kept[n + 1] = f[n + 1]
      BY <2>3
    <3>1. n \in Nat /\ n \in 0..N /\ n + 1 \in 1..N /\ (n + 1) - 1 = n /\ n + 1 # 0
      BY <1>1, <2>3
    <3>2. kept[n] = f[n]
      BY <3>1, <2>3
    <3>. QED  BY <3>1, <3>2, <2>1, <1>5
  <2>4. \A n \in 0..N : kept[n] = f[n]
    <3>1. Same \in SUBSET Nat
      OBVIOUS
    <3>. HIDE DEF Same
    <3>2. Same = Nat
      BY <2>2, <2>3, <3>1, SetInduction
    <3>. QED  BY <3>2, <1>1 DEF Same
  <2>5. kept = [n \in 0..N |-> kept[n]] /\ f = [n \in 0..N |-> f[n]]
    <3>1. f = [n \in 0..N |-> f[n]]
      BY <1>4
    <3>. DEFINE body(n) == IF n = 0 THEN <<>>
                           ELSE IF q[n] \in S THEN Append(kept[n - 1], q[n]) ELSE kept[n - 1]
    <3>2. kept = [n \in 0..N |-> body(n)]
      BY <1>8 DEF kept
    <3>. QED  BY <3>1, <3>2
  <2>. QED  BY <2>4, <2>5
<1>. QED
  <2>1. Select(q, S) = f[N]
    BY <1>7, <1>9
  <2>. HIDE DEF f, kept
  <2>. QED  BY <1>4, <1>5, <2>1

\* What is selected: the elements that are in the set, without new repetitions.
LEMMA SelectElements ==
  ASSUME NEW U, NEW q \in Seq(U), NEW S
  PROVE  /\ Select(q, S) \in Seq(U)
         /\ Elements(Select(q, S)) = Elements(q) \cap S
         /\ Distinct(q) => Distinct(Select(q, S))
<1>. DEFINE N == Len(q)
<1>1. N \in Nat /\ DOMAIN q = 1..N /\ \A n \in 1..N : q[n] \in U
  BY LenProperties, ElementOfSeq
<1>2. PICK kept \in [0..N -> Seq(U)] :
        /\ Select(q, S) = kept[N]
        /\ kept[0] = <<>>
        /\ \A n \in 1..N :
             kept[n] = IF q[n] \in S THEN Append(kept[n - 1], q[n]) ELSE kept[n - 1]
  BY SelectLoop
<1>. DEFINE Seen(n) == {q[i] : i \in 1..n}
            Good == {n \in Nat : n <= N => /\ Elements(kept[n]) = Seen(n) \cap S
                                           /\ Distinct(q) => Distinct(kept[n])}
<1>3. 0 \in Good
  BY <1>2 DEF Elements, Distinct
<1>4. ASSUME NEW n \in Good  PROVE n + 1 \in Good
  <2>. SUFFICES ASSUME n + 1 <= N
                PROVE  /\ Elements(kept[n + 1]) = Seen(n + 1) \cap S
                       /\ Distinct(q) => Distinct(kept[n + 1])
    BY <1>4
  <2>. DEFINE e == q[n + 1]
  <2>1. n \in Nat /\ n <= N /\ n + 1 \in 1..N /\ (n + 1) - 1 = n /\ n \in 0..N
    BY <1>1, <1>4
  <2>2. /\ Elements(kept[n]) = Seen(n) \cap S
        /\ Distinct(q) => Distinct(kept[n])
    BY <2>1, <1>4
  <2>3. kept[n + 1] = IF e \in S THEN Append(kept[n], e) ELSE kept[n]
    BY <2>1, <1>2
  <2>4. kept[n] \in Seq(U) /\ e \in U
    BY <2>1, <1>1, <1>2
  <2>5. Seen(n + 1) = Seen(n) \cup {e}
    <3>1. 1..(n + 1) = 1..n \cup {n + 1}
      BY <2>1
    <3>. QED  BY <3>1
  <2>6. Distinct(q) => e \notin Seen(n)
    BY <1>1, <2>1 DEF Distinct
  <2>. HIDE DEF Seen, e, Good
  <2>7. CASE e \in S
    <3>1. Elements(kept[n + 1]) = Elements(kept[n]) \cup {e}
      BY <2>3, <2>4, <2>7, AppendElements
    <3>2. Distinct(q) => Distinct(kept[n + 1])
      BY <2>2, <2>3, <2>4, <2>6, <2>7, AppendElements
    <3>. QED  BY <3>1, <3>2, <2>2, <2>5, <2>7
  <2>8. CASE e \notin S
    BY <2>2, <2>3, <2>5, <2>8
  <2>. QED  BY <2>7, <2>8
<1>5. N \in Good
  <2>1. Good \in SUBSET Nat
    OBVIOUS
  <2>. HIDE DEF Good
  <2>. QED  BY <1>1, <1>3, <1>4, <2>1, SetInduction
<1>6. Elements(q) = Seen(N)
  BY <1>1 DEF Elements
<1>7. kept[N] \in Seq(U)
  BY <1>1, <1>2
<1>. QED  BY <1>2, <1>5, <1>6, <1>7
=============================================================================
