------------------------------- MODULE Lemmas -------------------------------
(***************************************************************************)
(* What the proofs about several components need of numbers, sequences and *)
(* the queues between two tasks, and what the entries of a branch show.    *)
(***************************************************************************)
EXTENDS SessionContext, Queue, SequenceTheorems, FiniteSetTheorems, WellFoundedInduction, TLAPS

-----------------------------------------------------------------------------
(***************************************************************************)
(* Numbers                                                                 *)
(***************************************************************************)

\* Of numbers there is a least one: an initial segment of the numbers is finite,
\* and finite sets are well-founded.
LEMMA LeastNumber ==
  ASSUME NEW T \in SUBSET Nat, T # {}
  PROVE  \E x \in T : \A y \in T : x <= y
<1>. DEFINE Segments == {1..n : n \in T}
<1>1. Segments \subseteq FiniteSubsetsOf(Nat) /\ Segments # {}
  <2>1. ASSUME NEW n \in T PROVE 1..n \in FiniteSubsetsOf(Nat)
    BY FS_Interval DEF FiniteSubsetsOf
  <2>. QED  BY <2>1
<1>2. PICK s \in Segments : \A t \in Segments : <<t, s>> \notin StrictSubsetOrdering(Nat)
  <2>. HIDE DEF Segments
  <2>1. IsWellFoundedOn(StrictSubsetOrdering(Nat), FiniteSubsetsOf(Nat))
    BY FS_StrictSubsetOrderingWellFounded
  <2>. QED  BY <1>1, <2>1, WFMin
<1>3. PICK x \in T : s = 1..x
  OBVIOUS
<1>4. ASSUME NEW y \in T, y < x PROVE FALSE
  <2>1. 1..y \subseteq 1..x /\ x \in 1..x /\ x \notin 1..y
    BY <1>4
  <2>2. <<1..y, s>> \in StrictSubsetOrdering(Nat)
    BY <1>3, <2>1 DEF StrictSubsetOrdering
  <2>. QED  BY <1>2, <2>2
<1>. QED  BY <1>4

\* A set of numbers that holds 0 and the successor of each of its members holds
\* them all.
LEMMA Induction ==
  ASSUME NEW S, 0 \in S, \A n \in Nat : n \in S => n + 1 \in S
  PROVE  Nat \subseteq S
<1>. SUFFICES ASSUME Nat \ S # {} PROVE FALSE
  OBVIOUS
<1>1. PICK x \in Nat \ S : \A y \in Nat \ S : x <= y
  BY LeastNumber
<1>2. x # 0 /\ x - 1 \in Nat /\ (x - 1) + 1 = x /\ ~(x <= x - 1)
  OBVIOUS
<1>3. x - 1 \in S
  BY <1>1, <1>2
<1>. QED  BY <1>2, <1>3

\* Of numbers up to n there is a greatest one.
LEMMA Greatest ==
  ASSUME NEW n \in Nat, NEW T \in SUBSET (0..n), T # {}
  PROVE  Max(T) \in T /\ \A y \in T : Max(T) >= y
<1>. DEFINE U == {n - y : y \in T}
<1>1. U \subseteq Nat /\ U # {}
  <2>1. \A y \in T : y \in Nat /\ n - y \in Nat
    OBVIOUS
  <2>2. PICK y \in T : TRUE
    OBVIOUS
  <2>. QED  BY <2>1, <2>2
<1>2. PICK u \in U : \A v \in U : u <= v
  <2>. HIDE DEF U
  <2>. QED  BY <1>1, LeastNumber
<1>3. PICK x \in T : u = n - x
  OBVIOUS
<1>4. \A y \in T : x >= y
  <2>. TAKE y \in T
  <2>1. u <= n - y
    BY <1>2
  <2>. QED  BY <1>3, <2>1
<1>. QED  BY <1>4 DEF Max

\* The least of a set of numbers is what Min names.
LEMMA Smallest ==
  ASSUME NEW T \in SUBSET Nat, T # {}
  PROVE  Min(T) \in T /\ \A y \in T : Min(T) <= y
BY LeastNumber DEF Min

-----------------------------------------------------------------------------
(***************************************************************************)
(* Queues                                                                  *)
(***************************************************************************)

\* Whatever a sequence holds, it is a queue.
LEMMA SeqIsQueue ==
  ASSUME NEW T, NEW q \in Seq(T)
  PROVE  IsQueue(q)
<1>1. Len(q) \in Nat /\ DOMAIN q = 1..Len(q) /\ q \in [1..Len(q) -> T]
  BY LenProperties
<1>2. q \in [1..Len(q) -> {q[i] : i \in DOMAIN q}]
  BY <1>1
<1>. QED  BY <1>1, <1>2, SeqDef DEF IsQueue

\* A message is queued.
LEMMA Queued ==
  ASSUME NEW q, IsQueue(q), NEW m
  PROVE  /\ IsQueue(Append(q, m))
         /\ Len(q) \in Nat /\ DOMAIN q = 1..Len(q)
         /\ DOMAIN Append(q, m) = 1..(Len(q) + 1)
         /\ \A i \in 1..Len(q) : Append(q, m)[i] = q[i]
         /\ Append(q, m)[Len(q) + 1] = m
<1>. DEFINE T == {q[i] : i \in DOMAIN q} \cup {m}
<1>1. q \in Seq(T)
  <2>1. Len(q) \in Nat /\ DOMAIN q = 1..Len(q) /\ q \in [1..Len(q) -> {q[i] : i \in DOMAIN q}]
    BY LenProperties DEF IsQueue
  <2>2. q \in [1..Len(q) -> T]
    BY <2>1
  <2>. QED  BY <2>1, <2>2, SeqDef
<1>2. m \in T
  OBVIOUS
<1>3. Append(q, m) \in Seq(T)
  BY <1>1, <1>2, AppendProperties
<1>4. IsQueue(Append(q, m))
  BY <1>3, SeqIsQueue
<1>. QED  BY <1>1, <1>2, <1>3, <1>4, AppendProperties, LenProperties

\* The first message is taken.
LEMMA Taken ==
  ASSUME NEW q, IsQueue(q), q # <<>>
  PROVE  /\ IsQueue(Tail(q))
         /\ Len(q) \in Nat /\ Len(q) >= 1 /\ DOMAIN q = 1..Len(q)
         /\ DOMAIN Tail(q) = 1..(Len(q) - 1)
         /\ \A i \in 1..(Len(q) - 1) : Tail(q)[i] = q[i + 1]
         /\ Head(q) = q[1]
<1>. DEFINE T == {q[i] : i \in DOMAIN q}
<1>1. q \in Seq(T)
  BY DEF IsQueue
<1>. HIDE DEF T
<1>2. Tail(q) \in Seq(T)
  BY <1>1, HeadTailProperties
<1>3. IsQueue(Tail(q))
  BY <1>2, SeqIsQueue
<1>4. Len(q) \in Nat /\ DOMAIN q = 1..Len(q) /\ Len(q) >= 1
  BY <1>1, LenProperties, EmptySeq
<1>5. Len(Tail(q)) = Len(q) - 1 /\ \A i \in 1..Len(Tail(q)) : Tail(q)[i] = q[i + 1]
  BY <1>1, HeadTailProperties
<1>6. Head(q) = q[1]
  BY <1>1
<1>. QED  BY <1>2, <1>3, <1>4, <1>5, <1>6, LenProperties

\* The queue n holds q, and s behind it.
Joins(q, s, n) ==
  /\ IsQueue(n)
  /\ Len(q) \in Nat /\ DOMAIN q = 1..Len(q)
  /\ Len(s) \in Nat /\ DOMAIN s = 1..Len(s)
  /\ DOMAIN n = 1..(Len(q) + Len(s))
  /\ \A i \in 1..Len(q) : n[i] = q[i]
  /\ \A i \in 1..Len(s) : n[Len(q) + i] = s[i]

\* A sequence of messages is queued.
LEMMA Joined ==
  ASSUME NEW q, IsQueue(q), NEW s, IsQueue(s), NEW n, n = q \o s
  PROVE  Joins(q, s, n)
<1>. DEFINE T == {q[i] : i \in DOMAIN q} \cup {s[i] : i \in DOMAIN s}
<1>1. /\ Len(q) \in Nat /\ DOMAIN q = 1..Len(q) /\ q \in [1..Len(q) -> {q[i] : i \in DOMAIN q}]
      /\ Len(s) \in Nat /\ DOMAIN s = 1..Len(s) /\ s \in [1..Len(s) -> {s[i] : i \in DOMAIN s}]
  BY LenProperties DEF IsQueue
<1>2. q \in [1..Len(q) -> T] /\ s \in [1..Len(s) -> T]
  BY <1>1
<1>3. q \in Seq(T) /\ s \in Seq(T)
  <2>. HIDE DEF T
  <2>. QED  BY <1>1, <1>2, SeqDef
<1>. HIDE DEF T
<1>4. /\ q \o s \in Seq(T) /\ Len(q \o s) = Len(q) + Len(s)
      /\ \A i \in 1..(Len(q) + Len(s)) :
           (q \o s)[i] = IF i <= Len(q) THEN q[i] ELSE s[i - Len(q)]
  BY <1>3, ConcatProperties
<1>5. /\ n \in Seq(T) /\ Len(n) = Len(q) + Len(s)
      /\ \A i \in 1..(Len(q) + Len(s)) : n[i] = IF i <= Len(q) THEN q[i] ELSE s[i - Len(q)]
  BY <1>4, Zenon
<1>6. IsQueue(n)
  BY <1>5, SeqIsQueue
<1>7. DOMAIN n = 1..(Len(q) + Len(s))
  BY <1>5, LenProperties
<1>8. \A i \in 1..Len(q) : n[i] = q[i]
  BY <1>1, <1>5
<1>9. ASSUME NEW i \in 1..Len(s) PROVE n[Len(q) + i] = s[i]
  <2>1. Len(q) + i \in 1..(Len(q) + Len(s)) /\ ~(Len(q) + i <= Len(q)) /\ (Len(q) + i) - Len(q) = i
    BY <1>1, SMTT(30), ZenonT(30)
  <2>. QED  BY <1>5, <2>1, Zenon
<1>. QED  BY <1>1, <1>6, <1>7, <1>8, <1>9, Zenon DEF Joins

\* One message is a queue of its own, and so are two or three.
LEMMA One ==
  ASSUME NEW m
  PROVE  IsQueue(<<m>>) /\ Len(<<m>>) = 1 /\ DOMAIN <<m>> = 1..1 /\ <<m>>[1] = m
<1>1. <<m>> \in Seq({m}) /\ DOMAIN <<m>> = 1..1 /\ <<m>>[1] = m /\ Len(<<m>>) = 1
  OBVIOUS
<1>2. IsQueue(<<m>>)
  BY <1>1, SeqIsQueue
<1>. QED  BY <1>1, <1>2

\* Short sequences are queues.
LEMMA Two ==
  ASSUME NEW a, NEW b
  PROVE  IsQueue(<<a, b>>) /\ \A i \in DOMAIN <<a, b>> : <<a, b>>[i] \in {a, b}
<1>1. \A i \in DOMAIN <<a, b>> : <<a, b>>[i] \in {a, b}
  OBVIOUS
<1>2. <<a, b>> \in Seq({a, b})
  OBVIOUS
<1>3. \E T : <<a, b>> \in Seq(T)
  BY <1>2, Zenon
<1>4. IsQueue(<<a, b>>)
  BY <1>3, SeqIsQueue
<1>. QED  BY <1>1, <1>4

LEMMA Three ==
  ASSUME NEW a, NEW b, NEW c
  PROVE  IsQueue(<<a, b, c>>) /\ \A i \in DOMAIN <<a, b, c>> : <<a, b, c>>[i] \in {a, b, c}
<1>1. \A i \in DOMAIN <<a, b, c>> : <<a, b, c>>[i] \in {a, b, c}
  OBVIOUS
<1>2. <<a, b, c>> \in Seq({a, b, c})
  OBVIOUS
<1>3. \E T : <<a, b, c>> \in Seq(T)
  BY <1>2, Zenon
<1>4. IsQueue(<<a, b, c>>)
  BY <1>3, SeqIsQueue
<1>. QED  BY <1>1, <1>4

\* What one, two or three sequences hold are elements of one set.
LEMMA Elements ==
  ASSUME NEW p, IsQueue(p), NEW q, IsQueue(q), NEW r, IsQueue(r)
  PROVE  \E T : p \in Seq(T) /\ q \in Seq(T) /\ r \in Seq(T)
<1>. DEFINE T == {p[i] : i \in DOMAIN p} \cup {q[i] : i \in DOMAIN q} \cup {r[i] : i \in DOMAIN r}
<1>1. ASSUME NEW s, IsQueue(s), {s[i] : i \in DOMAIN s} \subseteq T
      PROVE  s \in Seq(T)
  <2>1. Len(s) \in Nat /\ DOMAIN s = 1..Len(s) /\ s \in [1..Len(s) -> {s[i] : i \in DOMAIN s}]
    BY <1>1, LenProperties DEF IsQueue
  <2>2. s \in [1..Len(s) -> T]
    <3>. HIDE DEF T
    <3>. QED  BY <1>1, <2>1
  <2>. HIDE DEF T
  <2>. QED  BY <2>1, <2>2, SeqDef
<1>2. p \in Seq(T) /\ q \in Seq(T) /\ r \in Seq(T)
  BY <1>1
<1>. HIDE DEF T
<1>. QED  BY <1>2

LEMMA EmptyQueue == IsQueue(<<>>) /\ Len(<<>>) = 0 /\ DOMAIN <<>> = {}
BY DEF IsQueue

\* What stands where in a concatenation.
LEMMA Concats ==
  ASSUME NEW p, IsQueue(p), NEW q, IsQueue(q)
  PROVE  /\ IsQueue(p \o q) /\ Len(p \o q) = Len(p) + Len(q)
         /\ p \o <<>> = p /\ <<>> \o p = p
         /\ \A i \in 1..Len(p) : (p \o q)[i] = p[i]
         /\ \A i \in 1..Len(q) : (p \o q)[Len(p) + i] = q[i]
<1>1. PICK T : p \in Seq(T) /\ q \in Seq(T)
  BY Elements
<1>2. p \o <<>> = p /\ <<>> \o p = p
  BY <1>1, ConcatEmptySeq
<1>3. PICK n : n = p \o q
  OBVIOUS
<1>4. Joins(p, q, n)
  BY <1>3, Joined
<1>5. Len(n) = Len(p) + Len(q)
  BY <1>1, <1>3, ConcatProperties
<1>. QED  BY <1>2, <1>3, <1>4, <1>5 DEF Joins

\* How a concatenation is bracketed does not matter.
LEMMA Assoc ==
  ASSUME NEW p, IsQueue(p), NEW q, IsQueue(q), NEW r, IsQueue(r)
  PROVE  (p \o q) \o r = p \o (q \o r)
<1>1. PICK T : p \in Seq(T) /\ q \in Seq(T) /\ r \in Seq(T)
  BY Elements
<1>. QED  BY <1>1, ConcatAssociative

\* A message appended is a sequence of one behind.
LEMMA Appended ==
  ASSUME NEW q, IsQueue(q), NEW m
  PROVE  Append(q, m) = q \o <<m>>
<1>1. PICK T : q \in Seq(T) /\ <<m>> \in Seq(T)
  BY Elements, One
<1>2. m \in T
  <2>1. <<m>>[1] = m /\ 1 \in 1..Len(<<m>>)
    BY One
  <2>. QED  BY <1>1, <2>1, ElementOfSeq
<1>. QED  BY <1>1, <1>2, AppendIsConcat

\* Sequences are equal when they are position by position.
LEMMA SameQueue ==
  ASSUME NEW p, IsQueue(p), NEW q, IsQueue(q), Len(p) = Len(q), \A i \in 1..Len(p) : p[i] = q[i]
  PROVE  p = q
<1>1. PICK T : p \in Seq(T) /\ q \in Seq(T)
  BY Elements
<1>. QED  BY <1>1, SeqEqual

\* The end of a concatenation is its second part.
LEMMA EndOf ==
  ASSUME NEW p, IsQueue(p), NEW q, IsQueue(q), NEW s, s = p \o q
  PROVE  SubSeq(s, Len(p) + 1, Len(s)) = q
<1>1. Joins(p, q, s) /\ Len(s) = Len(p) + Len(q)
  BY Joined, Concats
<1>2. PICK a \in Nat : a = Len(p)
  BY Queued
<1>3. PICK b \in Nat : b = Len(q)
  BY Queued
<1>4. PICK n : n = SubSeq(s, a + 1, a + b)
  OBVIOUS
<1>5. \A i \in 1..b : s[a + i] = q[i]
  BY <1>1, <1>2, <1>3 DEF Joins
<1>. DEFINE T == {q[i] : i \in DOMAIN q}
<1>6. \A i \in (a + 1)..(a + b) : s[i] \in T
  <2>. TAKE i \in (a + 1)..(a + b)
  <2>1. i - a \in 1..b /\ a + (i - a) = i
    OBVIOUS
  <2>2. DOMAIN q = 1..b
    BY <1>3, Queued
  <2>. QED  BY <1>5, <2>1, <2>2
<1>. HIDE DEF T
<1>7. PICK c \in Int, d \in Int : c = a + 1 /\ d = a + b
  OBVIOUS
<1>8. /\ n \in Seq(T) /\ Len(n) = (IF c <= d THEN d - c + 1 ELSE 0)
      /\ \A i \in 1..(d - c + 1) : n[i] = s[c + i - 1]
  <2>1. \A i \in c..d : s[i] \in T
    BY <1>6, <1>7
  <2>2. n = SubSeq(s, c, d)
    BY <1>4, <1>7
  <2>3. /\ SubSeq(s, c, d) \in Seq(T) /\ Len(SubSeq(s, c, d)) = IF c <= d THEN d - c + 1 ELSE 0
        /\ \A i \in 1..(d - c + 1) : SubSeq(s, c, d)[i] = s[c + i - 1]
    BY ONLY <2>1, c \in Int, d \in Int, SubSeqProperties
  <2>. QED  BY <2>2, <2>3, Zenon
<1>9. Len(n) = b /\ \A i \in 1..b : n[i] = q[i]
  <2>1. Len(n) = b
    BY <1>7, <1>8
  <2>2. ASSUME NEW i \in 1..b PROVE n[i] = q[i]
    <3>1. d - c + 1 = b /\ c + i - 1 = a + i
      BY <1>7
    <3>2. n[i] = s[a + i]
      BY <1>8, <3>1
    <3>. QED  BY <1>5, <3>2
  <2>. QED  BY <2>1, <2>2
<1>10. IsQueue(n)
  BY <1>8, SeqIsQueue
<1>11. n = q
  BY <1>3, <1>9, <1>10, SameQueue
<1>. QED  BY <1>1, <1>2, <1>3, <1>4, <1>11

-----------------------------------------------------------------------------
(***************************************************************************)
(* What a branch shows                                                     *)
(***************************************************************************)

\* An entry shows one message or none.
LEMMA ShowsQueue ==
  ASSUME NEW e
  PROVE  IsQueue(MessagesOf(e)) /\ Len(MessagesOf(e)) = IF IsShown(e) THEN 1 ELSE 0
BY One, EmptyQueue DEF MessagesOf

\* What is shown up to an entry is what is shown before it, and what it shows.
LEMMA ShownStep ==
  ASSUME NEW b, Len(b) \in Nat, NEW i \in Nat \ {0}
  PROVE  \A j \in 0..Len(b) :
           Shown(b, i, j) = IF j < i THEN <<>> ELSE Shown(b, i, j - 1) \o MessagesOf(b[j])
<1>. DEFINE n == Len(b)
            Step(f, k) == IF k < i THEN <<>> ELSE f[k - 1] \o MessagesOf(b[k])
            Fills(f, m) == f = [k \in 0..m |-> Step(f, k)]
            shown == CHOOSE f : f = [k \in 0..n |-> Step(f, k)]
            Defined == {m \in Nat : \E f : Fills(f, m)}
<1>1. \A j : Shown(b, i, j) = shown[j]
  BY DEF Shown
<1>2. Nat \subseteq Defined
  <2>1. 0 \in Defined
    <3>1. Fills([k \in 0..0 |-> <<>>], 0)
      <4>1. \A k \in 0..0 : k < i
        OBVIOUS
      <4>. QED  BY <4>1
    <3>. HIDE DEF Fills
    <3>. QED  BY <3>1
  <2>2. ASSUME NEW m \in Nat, m \in Defined PROVE m + 1 \in Defined
    <3>1. PICK g : Fills(g, m)
      BY <2>2
    <3>. DEFINE h == [k \in 0..(m + 1) |-> IF k <= m THEN g[k] ELSE Step(g, m + 1)]
    <3>2. ASSUME NEW k \in 0..(m + 1) PROVE h[k] = Step(h, k)
      <4>1. ~(k < i) => k - 1 \in 0..m /\ k - 1 \in 0..(m + 1) /\ k - 1 <= m
        OBVIOUS
      <4>2. ~(k < i) => h[k - 1] = g[k - 1]
        BY <4>1
      <4>3. CASE k <= m
        <5>1. k \in 0..m
          BY <4>3
        <5>2. g[k] = Step(g, k)
          BY <3>1, <5>1
        <5>. QED  BY <4>2, <4>3, <5>2
      <4>4. CASE ~(k <= m)
        <5>1. k = m + 1
          BY <4>4
        <5>. QED  BY <4>2, <4>4, <5>1
      <4>. QED  BY <4>3, <4>4
    <3>3. Fills(h, m + 1)
      <4>. HIDE DEF Step
      <4>. QED  BY <3>2
    <3>. HIDE DEF Fills
    <3>. QED  BY <3>3
  <2>. HIDE DEF Defined
  <2>. QED  BY <2>1, <2>2, Induction
<1>3. shown = [k \in 0..n |-> Step(shown, k)]
  <2>1. \E f : Fills(f, n)
    <3>1. n \in Defined
      BY <1>2
    <3>. HIDE DEF Fills
    <3>. QED  BY <3>1
  <2>. HIDE DEF Step
  <2>. QED  BY <2>1
<1>. HIDE DEF shown
<1>. QED  BY <1>1, <1>3

\* What a stretch of a branch shows is a queue.
LEMMA ShownQueue ==
  ASSUME NEW b, Len(b) \in Nat, NEW i \in Nat \ {0}
  PROVE  \A j \in 0..Len(b) : IsQueue(Shown(b, i, j))
<1>. DEFINE Good == {j \in Nat : j <= Len(b) => IsQueue(Shown(b, i, j))}
<1>1. 0 \in Good
  <2>1. Shown(b, i, 0) = <<>>
    BY ShownStep
  <2>. QED  BY <2>1, EmptyQueue
<1>2. ASSUME NEW j \in Nat, j \in Good PROVE j + 1 \in Good
  <2>. SUFFICES ASSUME j + 1 <= Len(b) PROVE IsQueue(Shown(b, i, j + 1))
    OBVIOUS
  <2>1. j + 1 \in 0..Len(b) /\ (j + 1) - 1 = j /\ IsQueue(Shown(b, i, j))
    BY <1>2
  <2>2. Shown(b, i, j + 1) = IF j + 1 < i THEN <<>> ELSE Shown(b, i, j) \o MessagesOf(b[j + 1])
    BY <2>1, ShownStep
  <2>3. IsQueue(Shown(b, i, j) \o MessagesOf(b[j + 1]))
    BY <2>1, ShowsQueue, Concats
  <2>. QED  BY <2>2, <2>3, EmptyQueue
<1>. HIDE DEF Good
<1>3. Nat \subseteq Good
  BY <1>1, <1>2, Induction
<1>. QED  BY <1>3 DEF Good

\* What is shown depends on the entries looked at alone.
LEMMA ShownSame ==
  ASSUME NEW b, Len(b) \in Nat, NEW d, Len(d) \in Nat, NEW i \in Nat \ {0}, NEW n \in Nat,
         n <= Len(b), n <= Len(d), \A k \in i..n : b[k] = d[k]
  PROVE  Shown(b, i, n) = Shown(d, i, n)
<1>. DEFINE Good == {j \in Nat : j <= n => Shown(b, i, j) = Shown(d, i, j)}
<1>1. 0 \in Good
  BY ShownStep
<1>2. ASSUME NEW j \in Nat, j \in Good PROVE j + 1 \in Good
  <2>. SUFFICES ASSUME j + 1 <= n PROVE Shown(b, i, j + 1) = Shown(d, i, j + 1)
    OBVIOUS
  <2>1. /\ j + 1 \in 0..Len(b) /\ j + 1 \in 0..Len(d) /\ (j + 1) - 1 = j
        /\ Shown(b, i, j) = Shown(d, i, j)
    BY <1>2
  <2>2. /\ Shown(b, i, j + 1) = IF j + 1 < i THEN <<>> ELSE Shown(b, i, j) \o MessagesOf(b[j + 1])
        /\ Shown(d, i, j + 1) = IF j + 1 < i THEN <<>> ELSE Shown(d, i, j) \o MessagesOf(d[j + 1])
    BY <2>1, ShownStep
  <2>3. ~(j + 1 < i) => b[j + 1] = d[j + 1]
    OBVIOUS
  <2>. QED  BY <2>1, <2>2, <2>3
<1>. HIDE DEF Good
<1>3. Nat \subseteq Good
  BY <1>1, <1>2, Induction
<1>. QED  BY <1>3 DEF Good

\* What is shown can be split anywhere.
LEMMA ShownSplits ==
  ASSUME NEW b, Len(b) \in Nat, NEW i \in Nat \ {0}, NEW k \in Nat, i <= k + 1, NEW n \in Nat,
         k <= n, n <= Len(b)
  PROVE  Shown(b, i, n) = Shown(b, i, k) \o Shown(b, k + 1, n)
<1>. DEFINE Good == {m \in Nat : k + m <= Len(b) =>
                       Shown(b, i, k + m) = Shown(b, i, k) \o Shown(b, k + 1, k + m)}
<1>1. 0 \in Good
  <2>1. k \in 0..Len(b) /\ k + 0 = k /\ k < k + 1 /\ k + 1 \in Nat \ {0}
    OBVIOUS
  <2>2. Shown(b, k + 1, k) = <<>>
    BY <2>1, ShownStep
  <2>3. IsQueue(Shown(b, i, k))
    BY <2>1, ShownQueue
  <2>4. Shown(b, i, k) \o <<>> = Shown(b, i, k)
    BY <2>3, Concats
  <2>. QED  BY <2>1, <2>2, <2>4
<1>2. ASSUME NEW m \in Nat, m \in Good PROVE m + 1 \in Good
  <2>. SUFFICES ASSUME k + (m + 1) <= Len(b)
                PROVE  Shown(b, i, k + (m + 1)) = Shown(b, i, k) \o Shown(b, k + 1, k + (m + 1))
    OBVIOUS
  <2>1. PICK j \in Nat : j = k + m
    OBVIOUS
  <2>2. /\ j + 1 = k + (m + 1) /\ (j + 1) - 1 = j /\ j + 1 \in 0..Len(b) /\ j \in 0..Len(b)
        /\ ~(j + 1 < i) /\ ~(j + 1 < k + 1) /\ k + 1 \in Nat \ {0} /\ k \in 0..Len(b)
    BY <2>1
  <2>3. Shown(b, i, j) = Shown(b, i, k) \o Shown(b, k + 1, j)
    BY <1>2, <2>1, <2>2
  <2>4. Shown(b, i, j + 1) = Shown(b, i, j) \o MessagesOf(b[j + 1])
    BY <2>2, ShownStep
  <2>5. Shown(b, k + 1, j + 1) = Shown(b, k + 1, j) \o MessagesOf(b[j + 1])
    BY <2>2, ShownStep
  <2>6. IsQueue(Shown(b, i, k)) /\ IsQueue(Shown(b, k + 1, j)) /\ IsQueue(MessagesOf(b[j + 1]))
    BY <2>2, ShownQueue, ShowsQueue
  <2>7. PICK x, y, z : x = Shown(b, i, k) /\ y = Shown(b, k + 1, j) /\ z = MessagesOf(b[j + 1])
    OBVIOUS
  <2>8. (x \o y) \o z = x \o (y \o z)
    <3>1. IsQueue(x) /\ IsQueue(y) /\ IsQueue(z)
      BY <2>6, <2>7
    <3>. QED  BY ONLY <3>1, Assoc
  <2>. QED  BY <2>2, <2>3, <2>4, <2>5, <2>7, <2>8
<1>. HIDE DEF Good
<1>3. Nat \subseteq Good
  BY <1>1, <1>2, Induction
<1>4. n - k \in Nat /\ k + (n - k) = n
  OBVIOUS
<1>. QED  BY <1>3, <1>4 DEF Good

\* The last compaction is the place of one after which there is none, or 0.
LEMMA LastOne ==
  ASSUME NEW b, IsQueue(b), NEW c, c = LastCompaction(b)
  PROVE  /\ c \in 0..Len(b) /\ (c # 0 => b[c].kind = "compaction")
         /\ \A i \in DOMAIN b : b[i].kind = "compaction" => i <= c
<1>1. Len(b) \in Nat /\ DOMAIN b = 1..Len(b)
  BY Queued
<1>. DEFINE T == CompactionsOf(b) \cup {0}
<1>2. T \subseteq 0..Len(b) /\ T # {} /\ c = Max(T)
  BY <1>1 DEF CompactionsOf, LastCompaction
<1>3. c \in T /\ \A y \in T : c >= y
  <2>. HIDE DEF T
  <2>. QED  BY <1>1, <1>2, Greatest
<1>. QED  BY <1>1, <1>3 DEF CompactionsOf

\* The last compaction, by what determines it.
LEMMA LastIs ==
  ASSUME NEW b, IsQueue(b), NEW c \in 0..Len(b), c # 0 => b[c].kind = "compaction",
         \A i \in DOMAIN b : b[i].kind = "compaction" => i <= c
  PROVE  LastCompaction(b) = c
<1>1. Len(b) \in Nat /\ DOMAIN b = 1..Len(b)
  BY Queued
<1>2. PICK d : d = LastCompaction(b)
  OBVIOUS
<1>3. /\ d \in 0..Len(b) /\ (d # 0 => b[d].kind = "compaction")
      /\ \A i \in DOMAIN b : b[i].kind = "compaction" => i <= d
  BY <1>2, LastOne
<1>4. d # 0 => d <= c
  BY <1>1, <1>3
<1>5. c # 0 => c <= d
  BY <1>1, <1>3
<1>6. d = c
  BY <1>1, <1>3, <1>4, <1>5
<1>. QED  BY <1>2, <1>6

\* The first kept entry stands before the compaction, or nothing is kept.
LEMMA KeptPlace ==
  ASSUME NEW b, NEW c \in Nat \ {0}
  PROVE  KeptFrom(b, c) \in 1..c
<1>. DEFINE T == {i \in 1..(c - 1) : b[i].id = b[c].first} \cup {c}
<1>1. T \subseteq Nat /\ T # {} /\ T \subseteq 1..c
  OBVIOUS
<1>2. Min(T) \in T
  <2>. HIDE DEF T
  <2>. QED  BY <1>1, Smallest
<1>3. KeptFrom(b, c) = Min(T)
  BY DEF KeptFrom
<1>. HIDE DEF T
<1>. QED  BY <1>1, <1>2, <1>3

\* What is shown for a compaction at c whose first kept entry is at k.
Folded(b, c, k) == <<b[c].msg>> \o Shown(b, k, c - 1) \o Shown(b, c + 1, Len(b))

\* What a branch shows with a compaction at c, kept from k, is a queue.
LEMMA FoldedQueue ==
  ASSUME NEW b, IsQueue(b), NEW c \in 1..Len(b), NEW k \in 1..c
  PROVE  IsQueue(Folded(b, c, k))
<1>1. Len(b) \in Nat
  BY Queued
<1>2. c - 1 \in 0..Len(b) /\ k \in Nat \ {0} /\ c + 1 \in Nat \ {0} /\ Len(b) \in 0..Len(b)
  BY <1>1
<1>3. IsQueue(Shown(b, k, c - 1)) /\ IsQueue(Shown(b, c + 1, Len(b))) /\ IsQueue(<<b[c].msg>>)
  BY <1>1, <1>2, ShownQueue, One
<1>. QED  BY <1>3, Concats DEF Folded

\* And so is its context.
LEMMA ContextQueue ==
  ASSUME NEW b, IsQueue(b)
  PROVE  IsQueue(ContextMessages(b))
<1>1. Len(b) \in Nat /\ Len(b) \in 0..Len(b)
  BY Queued
<1>2. PICK c : c = LastCompaction(b)
  OBVIOUS
<1>3. c \in 0..Len(b)
  BY <1>2, LastOne
<1>4. CASE c = 0
  <2>1. IsQueue(Shown(b, 1, Len(b)))
    BY <1>1, ShownQueue
  <2>. QED  BY <1>2, <1>4, <2>1 DEF ContextMessages
<1>5. CASE c # 0
  <2>1. c \in 1..Len(b) /\ KeptFrom(b, c) \in 1..c
    BY <1>1, <1>3, <1>5, KeptPlace
  <2>2. IsQueue(Folded(b, c, KeptFrom(b, c)))
    BY <2>1, FoldedQueue
  <2>. QED  BY <1>2, <1>5, <2>2 DEF ContextMessages, Folded
<1>. QED  BY <1>4, <1>5

\* An entry that is no compaction adds what it shows.
LEMMA ContextGrows ==
  ASSUME NEW b, IsQueue(b), NEW e, e.kind # "compaction", NEW d, d = Append(b, e)
  PROVE  ContextMessages(d) = ContextMessages(b) \o MessagesOf(e)
<1>1. PICK n \in Nat : n = Len(b)
  BY Queued
<1>2. /\ IsQueue(d) /\ DOMAIN d = 1..(n + 1) /\ DOMAIN b = 1..n /\ d[n + 1] = e
      /\ \A i \in 1..n : d[i] = b[i]
  BY <1>1, Queued
<1>3. Len(d) = n + 1
  <2>1. d = b \o <<e>>
    BY Appended
  <2>2. IsQueue(<<e>>) /\ Len(<<e>>) = 1
    BY One
  <2>. QED  BY <1>1, <2>1, <2>2, Concats
<1>4. PICK c : c = LastCompaction(b)
  OBVIOUS
<1>5. /\ c \in 0..n /\ (c # 0 => b[c].kind = "compaction")
      /\ \A i \in DOMAIN b : b[i].kind = "compaction" => i <= c
  BY <1>1, <1>4, LastOne
<1>6. LastCompaction(d) = c
  <2>1. c \in 0..Len(d) /\ (c # 0 => d[c].kind = "compaction")
    BY <1>2, <1>3, <1>5
  <2>2. ASSUME NEW i \in DOMAIN d, d[i].kind = "compaction" PROVE i <= c
    <3>1. i # n + 1
      BY <1>2, <2>2
    <3>2. i \in 1..n
      BY <1>2, <3>1
    <3>. QED  BY <1>2, <1>5, <2>2, <3>2
  <2>. QED  BY <1>2, <2>1, <2>2, LastIs
<1>7. ASSUME NEW i \in Nat \ {0}, i <= n + 1
      PROVE  Shown(d, i, n + 1) = Shown(b, i, n) \o MessagesOf(e)
  <2>1. n + 1 \in 0..Len(d) /\ ~(n + 1 < i) /\ (n + 1) - 1 = n /\ Len(d) \in Nat
    BY <1>3, <1>7
  <2>2. Shown(d, i, n + 1) = Shown(d, i, n) \o MessagesOf(d[n + 1])
    BY <2>1, ShownStep
  <2>3. Shown(d, i, n) = Shown(b, i, n)
    <3>1. n <= Len(b) /\ n <= Len(d) /\ Len(b) \in Nat /\ Len(d) \in Nat /\ \A j \in i..n : d[j] = b[j]
      BY <1>1, <1>2, <1>3
    <3>. QED  BY <3>1, ShownSame
  <2>. QED  BY <1>2, <2>2, <2>3
<1>8. CASE c = 0
  <2>1. ContextMessages(b) = Shown(b, 1, n) /\ ContextMessages(d) = Shown(d, 1, n + 1)
    BY <1>1, <1>3, <1>4, <1>6, <1>8 DEF ContextMessages
  <2>2. 1 \in Nat \ {0} /\ 1 <= n + 1
    OBVIOUS
  <2>3. Shown(d, 1, n + 1) = Shown(b, 1, n) \o MessagesOf(e)
    BY <1>7, <2>2
  <2>. QED  BY <2>1, <2>3
<1>9. CASE c # 0
  <2>1. c \in 1..n /\ c - 1 \in 0..n /\ c + 1 \in Nat \ {0} /\ c + 1 <= n + 1
    BY <1>5, <1>9
  <2>2. PICK k : k = KeptFrom(b, c) /\ k \in 1..c
    BY <2>1, KeptPlace
  <2>3. KeptFrom(d, c) = k
    <3>1. \A i \in 1..c : d[i] = b[i]
      BY <1>2, <2>1
    <3>2. {i \in 1..(c - 1) : d[i].id = d[c].first} = {i \in 1..(c - 1) : b[i].id = b[c].first}
      <4>1. c \in 1..c /\ \A i \in 1..(c - 1) : i \in 1..c
        BY <2>1
      <4>. QED  BY <3>1, <4>1
    <3>. QED  BY <2>2, <3>2 DEF KeptFrom
  <2>4. d[c].msg = b[c].msg
    BY <1>2, <2>1
  <2>5. Shown(d, k, c - 1) = Shown(b, k, c - 1)
    <3>1. k \in Nat \ {0} /\ c - 1 \in Nat /\ c - 1 <= Len(b) /\ c - 1 <= Len(d)
          /\ Len(b) \in Nat /\ Len(d) \in Nat
      BY <1>1, <1>3, <2>1, <2>2
    <3>2. \A i \in k..(c - 1) : b[i] = d[i]
      BY <1>2, <2>1, <2>2
    <3>. QED  BY <3>1, <3>2, ShownSame
  <2>6. Shown(d, c + 1, n + 1) = Shown(b, c + 1, n) \o MessagesOf(e)
    BY <1>7, <2>1
  <2>7. PICK x, y, z : x = <<b[c].msg>> \o Shown(b, k, c - 1) /\ y = Shown(b, c + 1, n) /\ z = MessagesOf(e)
    OBVIOUS
  <2>8. IsQueue(x) /\ IsQueue(y) /\ IsQueue(z)
    <3>1. k \in Nat \ {0} /\ c - 1 \in 0..Len(b) /\ n \in 0..Len(b) /\ Len(b) \in Nat
      BY <1>1, <2>1, <2>2
    <3>2. IsQueue(<<b[c].msg>>) /\ IsQueue(Shown(b, k, c - 1)) /\ IsQueue(Shown(b, c + 1, n))
      BY <2>1, <3>1, One, ShownQueue
    <3>. QED  BY <2>7, <3>2, Concats, ShowsQueue
  <2>9. (x \o y) \o z = x \o (y \o z)
    BY ONLY <2>8, Assoc
  <2>10. ContextMessages(b) = x \o y
    BY <1>1, <1>4, <1>9, <2>2, <2>7 DEF ContextMessages
  <2>11. ContextMessages(d) = x \o (y \o z)
    BY <1>3, <1>6, <1>9, <2>3, <2>4, <2>5, <2>6, <2>7 DEF ContextMessages
  <2>. QED  BY <2>7, <2>9, <2>10, <2>11
<1>. QED  BY <1>8, <1>9

\* As many entries up to j show a message as there are messages shown.
LEMMA CountedShown ==
  ASSUME NEW b, IsQueue(b), NEW C, C = {i \in DOMAIN b : Contributes(b[i])},
         \A i \in DOMAIN b : Contributes(b[i]) <=> IsShown(b[i])
  PROVE  \A j \in 0..Len(b) : /\ IsFiniteSet({i \in C : i <= j})
                              /\ Cardinality({i \in C : i <= j}) = Len(Shown(b, 1, j))
<1>1. Len(b) \in Nat /\ DOMAIN b = 1..Len(b)
  BY Queued
<1>. DEFINE Up(j) == {i \in C : i <= j}
            Good == {j \in Nat : j <= Len(b) =>
                       IsFiniteSet(Up(j)) /\ Cardinality(Up(j)) = Len(Shown(b, 1, j))}
<1>2. 0 \in Good
  <2>1. Up(0) = {}
    BY <1>1
  <2>2. Shown(b, 1, 0) = <<>>
    BY <1>1, ShownStep
  <2>. HIDE DEF Up
  <2>. QED  BY <2>1, <2>2, FS_EmptySet, EmptyQueue
<1>3. ASSUME NEW j \in Nat, j \in Good PROVE j + 1 \in Good
  <2>. SUFFICES ASSUME j + 1 <= Len(b)
                PROVE  IsFiniteSet(Up(j + 1)) /\ Cardinality(Up(j + 1)) = Len(Shown(b, 1, j + 1))
    OBVIOUS
  <2>1. /\ j + 1 \in 0..Len(b) /\ j \in 0..Len(b) /\ (j + 1) - 1 = j /\ ~(j + 1 < 1)
        /\ j + 1 \in DOMAIN b
        /\ IsFiniteSet(Up(j)) /\ Cardinality(Up(j)) = Len(Shown(b, 1, j))
    BY <1>1, <1>3
  <2>2. Shown(b, 1, j + 1) = Shown(b, 1, j) \o MessagesOf(b[j + 1])
    <3>1. 1 \in Nat \ {0}
      OBVIOUS
    <3>2. \A k \in 0..Len(b) :
            Shown(b, 1, k) = IF k < 1 THEN <<>> ELSE Shown(b, 1, k - 1) \o MessagesOf(b[k])
      BY <1>1, <3>1, ShownStep
    <3>. QED  BY <2>1, <3>2
  <2>3. PICK x, y : x = Shown(b, 1, j) /\ y = MessagesOf(b[j + 1])
    OBVIOUS
  <2>4. IsQueue(x) /\ IsQueue(y)
    BY <1>1, <2>1, <2>3, ShownQueue, ShowsQueue
  <2>5. Len(Shown(b, 1, j + 1)) = Len(x) + Len(y) /\ Len(x) \in Nat
    BY <2>2, <2>3, <2>4, Concats, Queued
  <2>6. CASE IsShown(b[j + 1])
    <3>1. Up(j + 1) = Up(j) \cup {j + 1} /\ j + 1 \notin Up(j)
      <4>1. \A i \in C : i \in Nat /\ (i <= j + 1 <=> i <= j \/ i = j + 1)
        BY <1>1
      <4>2. j + 1 \in C /\ j + 1 <= j + 1 /\ ~(j + 1 <= j)
        BY <2>1, <2>6
      <4>. QED  BY <4>1, <4>2
    <3>2. Len(y) = 1
      BY <2>3, <2>6, ShowsQueue
    <3>. HIDE DEF Up
    <3>3. IsFiniteSet(Up(j + 1)) /\ Cardinality(Up(j + 1)) = Cardinality(Up(j)) + 1
      <4>1. PICK k : k = j + 1
        OBVIOUS
      <4>2. IsFiniteSet(Up(j) \cup {k}) /\ (k \notin Up(j) => Cardinality(Up(j) \cup {k}) = Cardinality(Up(j)) + 1)
        BY <2>1, FS_AddElement
      <4>. QED  BY <3>1, <4>1, <4>2
    <3>. QED  BY <2>1, <2>3, <2>5, <3>2, <3>3
  <2>7. CASE ~IsShown(b[j + 1])
    <3>1. Up(j + 1) = Up(j)
      <4>1. \A i \in C : i \in Nat /\ (i <= j + 1 <=> i <= j \/ i = j + 1)
        BY <1>1
      <4>2. j + 1 \notin C
        BY <2>1, <2>7
      <4>. QED  BY <4>1, <4>2
    <3>2. Len(y) = 0
      BY <2>3, <2>7, ShowsQueue
    <3>. HIDE DEF Up
    <3>. QED  BY <2>1, <2>3, <2>5, <3>1, <3>2
  <2>. QED  BY <2>6, <2>7
<1>. HIDE DEF Good
<1>4. Nat \subseteq Good
  BY <1>2, <1>3, Induction
<1>. QED  BY <1>1, <1>4 DEF Good

\* The entry that shows the message n + 1.
LEMMA ShownPlace ==
  ASSUME NEW b, IsQueue(b), NEW n \in Nat
  PROVE  \A j \in 0..Len(b) : n < Len(Shown(b, 1, j)) =>
           \E k \in 1..j : IsShown(b[k]) /\ Len(Shown(b, 1, k - 1)) = n
<1>1. Len(b) \in Nat
  BY Queued
<1>. DEFINE Good == {j \in Nat : j <= Len(b) /\ n < Len(Shown(b, 1, j)) =>
                       \E k \in 1..j : IsShown(b[k]) /\ Len(Shown(b, 1, k - 1)) = n}
<1>2. 0 \in Good
  <2>1. Shown(b, 1, 0) = <<>>
    BY <1>1, ShownStep
  <2>. QED  BY <2>1, EmptyQueue
<1>3. ASSUME NEW j \in Nat, j \in Good PROVE j + 1 \in Good
  <2>. SUFFICES ASSUME j + 1 <= Len(b), n < Len(Shown(b, 1, j + 1))
                PROVE  \E k \in 1..(j + 1) : IsShown(b[k]) /\ Len(Shown(b, 1, k - 1)) = n
    OBVIOUS
  <2>1. j + 1 \in 0..Len(b) /\ j \in 0..Len(b) /\ (j + 1) - 1 = j /\ ~(j + 1 < 1) /\ j + 1 \in 1..(j + 1)
    BY <1>1
  <2>2. Shown(b, 1, j + 1) = Shown(b, 1, j) \o MessagesOf(b[j + 1])
    <3>1. 1 \in Nat \ {0}
      OBVIOUS
    <3>2. \A k \in 0..Len(b) :
            Shown(b, 1, k) = IF k < 1 THEN <<>> ELSE Shown(b, 1, k - 1) \o MessagesOf(b[k])
      BY <1>1, <3>1, ShownStep
    <3>. QED  BY <2>1, <3>2
  <2>3. PICK x, y : x = Shown(b, 1, j) /\ y = MessagesOf(b[j + 1])
    OBVIOUS
  <2>4. IsQueue(x) /\ IsQueue(y)
    BY <1>1, <2>1, <2>3, ShownQueue, ShowsQueue
  <2>5. Len(Shown(b, 1, j + 1)) = Len(x) + Len(y) /\ Len(x) \in Nat
    BY <2>2, <2>3, <2>4, Concats, Queued
  <2>6. Len(y) = IF IsShown(b[j + 1]) THEN 1 ELSE 0
    BY <2>3, ShowsQueue
  <2>7. CASE n < Len(x)
    <3>1. \E k \in 1..j : IsShown(b[k]) /\ Len(Shown(b, 1, k - 1)) = n
      BY <1>3, <2>1, <2>3, <2>7
    <3>2. \A k \in 1..j : k \in 1..(j + 1)
      OBVIOUS
    <3>. QED  BY <3>1, <3>2
  <2>8. CASE ~(n < Len(x))
    <3>1. n = Len(x) /\ IsShown(b[j + 1])
      BY <2>5, <2>6, <2>8
    <3>. QED  BY <2>1, <2>3, <3>1
  <2>. QED  BY <2>7, <2>8
<1>. HIDE DEF Good
<1>4. Nat \subseteq Good
  BY <1>2, <1>3, Induction
<1>. QED  BY <1>1, <1>4 DEF Good

\* Entries are told apart by their ids, and there is no compaction yet.
Uncompacted(b) ==
  /\ \A i, j \in DOMAIN b : b[i].id = b[j].id => i = j
  /\ \A i \in DOMAIN b : b[i].kind # "compaction" /\ (Contributes(b[i]) <=> IsShown(b[i]))

\* What is kept of a first compaction is what was not folded.
LEMMA ContextCompacts ==
  ASSUME NEW b, IsQueue(b), Uncompacted(b), NEW e, e.kind = "compaction",
         NEW n \in Nat, n < Len(ContextMessages(b)), e.first = FirstKept(b, n),
         NEW d, d = Append(b, e)
  PROVE  ContextMessages(d) = <<e.msg>> \o SubSeq(ContextMessages(b), n + 1, Len(ContextMessages(b)))
<1>1. PICK N \in Nat : N = Len(b)
  BY Queued
<1>2. /\ IsQueue(d) /\ DOMAIN d = 1..(N + 1) /\ DOMAIN b = 1..N /\ d[N + 1] = e
      /\ \A i \in 1..N : d[i] = b[i]
  BY <1>1, Queued
<1>3. Len(d) = N + 1
  <2>1. d = b \o <<e>>
    BY Appended
  <2>2. IsQueue(<<e>>) /\ Len(<<e>>) = 1
    BY One
  <2>. QED  BY <1>1, <2>1, <2>2, Concats
<1>4. LastCompaction(b) = 0 /\ ContextMessages(b) = Shown(b, 1, N)
  <2>1. 0 \in 0..Len(b) /\ \A i \in DOMAIN b : b[i].kind # "compaction"
    BY <1>1 DEF Uncompacted
  <2>2. LastCompaction(b) = 0
    BY <2>1, LastIs
  <2>. QED  BY <1>1, <2>2 DEF ContextMessages
<1>5. LastCompaction(d) = N + 1
  <2>1. N + 1 \in 0..Len(d) /\ d[N + 1].kind = "compaction" /\ \A i \in DOMAIN d : i <= N + 1
    BY <1>2, <1>3
  <2>. QED  BY <1>2, <2>1, LastIs
<1>6. PICK C : C = {i \in DOMAIN b : Contributes(b[i])}
  OBVIOUS
<1>7. \A j \in 0..N : Cardinality({i \in C : i <= j}) = Len(Shown(b, 1, j))
  BY <1>1, <1>6, CountedShown DEF Uncompacted
<1>8. \A k \in 1..N : {i \in C : i < k} = {i \in C : i <= k - 1} /\ k - 1 \in 0..N
  <2>1. \A i \in C : i \in Nat
    BY <1>2, <1>6
  <2>2. ASSUME NEW k \in 1..N PROVE \A i \in C : i < k <=> i <= k - 1
    BY <2>1
  <2>3. ASSUME NEW k \in 1..N PROVE {i \in C : i < k} = {i \in C : i <= k - 1}
    BY <2>2
  <2>. QED  BY <2>3
<1>9. Positions(b, n) = {k \in C : Cardinality({i \in C : i < k}) = n}
  BY <1>6 DEF Positions
<1>10. PICK F : F = Positions(b, n)
  OBVIOUS
<1>11. F # {} /\ F \subseteq Nat
  <2>1. n < Len(Shown(b, 1, N)) /\ N \in 0..Len(b)
    BY <1>1, <1>4
  <2>2. PICK k \in 1..N : IsShown(b[k]) /\ Len(Shown(b, 1, k - 1)) = n
    BY <2>1, ShownPlace
  <2>3. k \in C
    BY <1>2, <1>6, <2>2 DEF Uncompacted
  <2>4. Cardinality({i \in C : i < k}) = n
    BY <1>7, <1>8, <2>2
  <2>. QED  BY <1>2, <1>6, <1>9, <1>10, <2>3, <2>4
<1>12. PICK k : k = Min(F)
  OBVIOUS
<1>13. k \in F
  BY <1>11, <1>12, Smallest
<1>14. k \in 1..N /\ Len(Shown(b, 1, k - 1)) = n
  <2>1. k \in C /\ Cardinality({i \in C : i < k}) = n
    BY <1>9, <1>10, <1>13
  <2>2. k \in 1..N
    BY <1>2, <1>6, <2>1
  <2>. QED  BY <1>7, <1>8, <2>1, <2>2
<1>15. e.first = b[k].id
  BY <1>10, <1>11, <1>12 DEF FirstKept
<1>16. KeptFrom(d, N + 1) = k
  <2>1. (N + 1) - 1 = N
    OBVIOUS
  <2>2. {i \in 1..N : d[i].id = d[N + 1].first} = {k}
    <3>1. \A i \in 1..N : d[i].id = d[N + 1].first <=> b[i].id = b[k].id
      BY <1>2, <1>15
    <3>2. \A i \in 1..N : b[i].id = b[k].id => i = k
      BY <1>2, <1>14 DEF Uncompacted
    <3>. QED  BY <1>14, <3>1, <3>2
  <2>3. KeptFrom(d, N + 1) = Min({k} \cup {N + 1})
    BY <2>1, <2>2 DEF KeptFrom
  <2>4. Min({k} \cup {N + 1}) \in {k} \cup {N + 1} /\ Min({k} \cup {N + 1}) <= k
    <3>1. {k} \cup {N + 1} \subseteq Nat
      BY <1>14
    <3>. QED  BY <3>1, Smallest
  <2>5. ~(N + 1 <= k)
    BY <1>14
  <2>. QED  BY <2>3, <2>4, <2>5
<1>17. Shown(d, N + 2, N + 1) = <<>>
  <2>1. N + 1 \in 0..Len(d) /\ Len(d) \in Nat /\ N + 2 \in Nat \ {0} /\ N + 1 < N + 2
    BY <1>3
  <2>. QED  BY <2>1, ShownStep
<1>18. Shown(d, k, N) = Shown(b, k, N)
  <2>1. /\ Len(d) \in Nat /\ Len(b) \in Nat /\ k \in Nat \ {0} /\ N <= Len(b) /\ N <= Len(d)
        /\ \A i \in k..N : d[i] = b[i]
    BY <1>1, <1>2, <1>3, <1>14
  <2>. QED  BY <2>1, ShownSame
<1>19. PICK x, y : x = Shown(b, 1, k - 1) /\ y = Shown(b, k, N)
  OBVIOUS
<1>20. IsQueue(x) /\ IsQueue(y)
  <2>1. Len(b) \in Nat /\ k - 1 \in 0..Len(b) /\ N \in 0..Len(b) /\ k \in Nat \ {0}
    BY <1>1, <1>14
  <2>. QED  BY <1>19, <2>1, ShownQueue
<1>21. ContextMessages(b) = x \o y
  <2>1. /\ Len(b) \in Nat /\ k - 1 \in Nat /\ 1 <= (k - 1) + 1 /\ (k - 1) + 1 = k
        /\ k - 1 <= N /\ N <= Len(b) /\ 1 \in Nat \ {0}
    BY <1>1, <1>14
  <2>2. Shown(b, 1, N) = Shown(b, 1, k - 1) \o Shown(b, (k - 1) + 1, N)
    BY <2>1, ShownSplits, SMTT(30), ZenonT(30)
  <2>. QED  BY <1>4, <1>19, <2>1, <2>2
<1>22. SubSeq(ContextMessages(b), n + 1, Len(ContextMessages(b))) = y
  <2>1. PICK s : s = x \o y
    OBVIOUS
  <2>2. SubSeq(s, Len(x) + 1, Len(s)) = y
    BY <1>20, <2>1, EndOf
  <2>. QED  BY <1>14, <1>19, <1>21, <2>1, <2>2
<1>23. ContextMessages(d) = (<<e.msg>> \o y) \o <<>>
  <2>1. ContextMessages(d) = <<d[N + 1].msg>> \o Shown(d, KeptFrom(d, N + 1), (N + 1) - 1)
                                             \o Shown(d, (N + 1) + 1, Len(d))
    <3>1. PICK c : c = N + 1
      OBVIOUS
    <3>2. c = LastCompaction(d) /\ c # 0
      BY <1>5, <3>1
    <3>3. ContextMessages(d) = <<d[c].msg>> \o Shown(d, KeptFrom(d, c), c - 1) \o Shown(d, c + 1, Len(d))
      BY <3>2 DEF ContextMessages
    <3>. QED  BY <3>1, <3>3
  <2>2. (N + 1) - 1 = N /\ (N + 1) + 1 = N + 2
    OBVIOUS
  <2>. QED  BY <1>2, <1>3, <1>16, <1>17, <1>18, <1>19, <2>1, <2>2
<1>24. IsQueue(<<e.msg>> \o y)
  BY <1>20, One, Concats
<1>25. (<<e.msg>> \o y) \o <<>> = <<e.msg>> \o y
  BY <1>20, <1>24, Concats
<1>. QED  BY <1>22, <1>23, <1>25
=============================================================================
