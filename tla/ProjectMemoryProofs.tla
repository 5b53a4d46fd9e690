------------------------ MODULE ProjectMemoryProofs ------------------------
(***************************************************************************)
(* With one refresh at a time, what a refresh reuses is current, what it   *)
(* leaves agrees, and nothing on a session's branch is forgotten below the *)
(* limit.  For any sessions, texts and bounds.                             *)
(***************************************************************************)
EXTENDS ProjectMemory, Lemmas

-----------------------------------------------------------------------------
(***************************************************************************)
(* Sets of numbers, and the youngest of a set of records                   *)
(***************************************************************************)

\* Of numbers below a bound there is a greatest one.
LEMMA GreatestNumber ==
  ASSUME NEW T \in SUBSET Nat, T # {}, NEW n \in Nat, \A x \in T : x <= n
  PROVE  \E x \in T : \A y \in T : x >= y
<1>. DEFINE D == {n - x : x \in T}
<1>1. D \in SUBSET Nat /\ D # {}
  <2>1. ASSUME NEW x \in T PROVE n - x \in Nat
    BY x \in Nat /\ x <= n
  <2>. QED  BY <2>1
<1>2. PICK d \in D : \A y \in D : d <= y
  <2>. HIDE DEF D
  <2>. QED  BY <1>1, LeastNumber
<1>3. PICK x \in T : d = n - x
  OBVIOUS
<1>4. ASSUME NEW y \in T PROVE x >= y
  <2>1. n - x <= n - y
    BY <1>2, <1>3
  <2>2. x \in Nat /\ y \in Nat
    OBVIOUS
  <2>. QED  BY <2>1, <2>2
<1>. QED  BY <1>4

\* Records of different entries.
Apart(R) == \A p, q \in R : p.entry = q.entry => p = q
Above(R, q) == {p \in R : Younger(p, q)}
Top(R, n) == {q \in R : Cardinality(Above(R, q)) < n}

\* Those above a record are finitely many.
LEMMA AboveFinite ==
  ASSUME NEW R, IsFiniteSet(R), NEW q
  PROVE  IsFiniteSet(Above(R, q)) /\ Cardinality(Above(R, q)) \in Nat
                                  /\ Cardinality(Above(R, q)) <= Cardinality(R)
BY FS_Subset, FS_CardinalityType DEF Above

\* The values of a function on a finite set are as many at most.
LEMMA FiniteImage ==
  ASSUME NEW f, f = [x \in DOMAIN f |-> f[x]], IsFiniteSet(DOMAIN f)
  PROVE  LET T == {f[x] : x \in DOMAIN f}
         IN IsFiniteSet(T) /\ Cardinality(T) \in Nat /\ Cardinality(T) <= Cardinality(DOMAIN f)
<1>. DEFINE S == DOMAIN f
            T == {f[x] : x \in S}
<1>1. f \in [S -> T] /\ \A t \in T : \E x \in S : f[x] = t
  OBVIOUS
<1>2. f \in Surjection(S, T)
  <2>. HIDE DEF S, T
  <2>. QED  BY <1>1 DEF Surjection
<1>3. IsFiniteSet(T) /\ Cardinality(T) <= Cardinality(S)
  <2>. HIDE DEF T
  <2>. QED  BY <1>2, FS_Surjection
<1>. QED  BY <1>3, FS_CardinalityType

\* In a finite set, put in order by the sets of those above each member, those
\* with fewer than n above them are n.
LEMMA FirstOfMany ==
  ASSUME NEW R, IsFiniteSet(R), NEW up,
         \A q \in R : up[q] \subseteq R /\ q \notin up[q],
         \A p, q \in R : p # q => p \in up[q] \/ q \in up[p],
         \A q \in R : \A p \in up[q] : up[p] \subseteq up[q],
         NEW n \in Nat, n <= Cardinality(R)
  PROVE  Cardinality({q \in R : Cardinality(up[q]) < n}) = n
<1>. DEFINE N == Cardinality(R)
            rank == [q \in R |-> Cardinality(up[q])]
            T == {q \in R : Cardinality(up[q]) < n}
            low == [q \in T |-> rank[q]]
<1>1. N \in Nat
  BY FS_CardinalityType
<1>2. ASSUME NEW q \in R PROVE IsFiniteSet(up[q]) /\ Cardinality(up[q]) \in Nat
  BY FS_Subset, FS_CardinalityType
<1>3. ASSUME NEW p \in R, NEW q \in R, p \in up[q] PROVE Cardinality(up[p]) < Cardinality(up[q])
  <2>1. up[p] \subseteq up[q] /\ up[p] # up[q]
    BY <1>3
  <2>2. Cardinality(up[p]) <= Cardinality(up[q]) /\ Cardinality(up[p]) # Cardinality(up[q])
    BY <1>2, <2>1, FS_Subset
  <2>. QED  BY <1>2, <2>2
<1>4. ASSUME NEW q \in R PROVE Cardinality(up[q]) < N
  <2>1. up[q] \subseteq R /\ up[q] # R
    OBVIOUS
  <2>2. Cardinality(up[q]) <= N /\ Cardinality(up[q]) # N
    BY <2>1, FS_Subset
  <2>. QED  BY <1>1, <1>2, <2>2
\* Each has a rank of its own, and there are as many ranks.
<1>5. rank \in Injection(R, 0 .. N - 1)
  <2>1. rank \in [R -> 0 .. N - 1]
    BY <1>1, <1>2, <1>4
  <2>2. ASSUME NEW p \in R, NEW q \in R, rank[p] = rank[q] PROVE p = q
    <3>1. Cardinality(up[p]) = Cardinality(up[q])
      BY <2>2
    <3>2. p \notin up[q] /\ q \notin up[p]
      BY <1>2, <1>3, <3>1
    <3>. QED  BY <3>2
  <2>. HIDE DEF rank
  <2>. QED  BY <2>1, <2>2 DEF Injection, IsInjective
<1>6. IsFiniteSet(0 .. N - 1) /\ Cardinality(0 .. N - 1) = N
  <2>1. 0 \in Int /\ N - 1 \in Int
    BY <1>1
  <2>2. /\ IsFiniteSet(0 .. N - 1)
        /\ Cardinality(0 .. N - 1) = IF 0 > N - 1 THEN 0 ELSE (N - 1) - 0 + 1
    BY <2>1, FS_Interval
  <2>. HIDE DEF N
  <2>. QED  BY <1>1, <2>2
<1>7. rank \in Surjection(R, 0 .. N - 1)
  <2>. HIDE DEF rank
  <2>. QED  BY <1>5, <1>6, FS_Injection
\* So the first n ranks are taken.
<1>8. low \in Injection(T, 0 .. n - 1)
  <2>1. low \in [T -> 0 .. n - 1]
    BY <1>2
  <2>2. \A p, q \in T : low[p] = low[q] => p = q
    <3>1. \A p, q \in R : rank[p] = rank[q] => p = q
      <4>. HIDE DEF rank
      <4>. QED  BY <1>5 DEF Injection, IsInjective
    <3>2. T \subseteq R /\ \A q \in T : low[q] = rank[q]
      OBVIOUS
    <3>. HIDE DEF rank, low, T
    <3>. QED  BY <3>1, <3>2
  <2>. HIDE DEF low, T
  <2>. QED  BY <2>1, <2>2 DEF Injection, IsInjective
<1>9. \A k \in 0 .. n - 1 : \E q \in T : low[q] = k
  <2>. TAKE k \in 0 .. n - 1
  <2>1. k \in 0 .. N - 1 /\ k < n
    BY <1>1
  <2>2. PICK q \in R : rank[q] = k
    <3>. HIDE DEF rank
    <3>. QED  BY <1>7, <2>1 DEF Surjection
  <2>3. q \in T
    BY <2>1, <2>2
  <2>. QED  BY <2>2, <2>3
<1>10. low \in Surjection(T, 0 .. n - 1)
  <2>. HIDE DEF low, T
  <2>. QED  BY <1>8, <1>9 DEF Surjection, Injection, IsInjective
<1>11. IsFiniteSet(0 .. n - 1) /\ Cardinality(0 .. n - 1) = n
  BY FS_Interval
<1>12. Cardinality(T) = Cardinality(0 .. n - 1)
  <2>. HIDE DEF low, T
  <2>. QED  BY <1>8, <1>10, <1>11, FS_Injection
<1>. QED  BY <1>11, <1>12

\* The youngest are as many as asked for, as long as there are so many.
LEMMA AsManyAsAsked ==
  ASSUME NEW R, IsFiniteSet(R), Apart(R), \A q \in R : q.entry \in Nat,
         NEW n \in Nat, n <= Cardinality(R)
  PROVE  Cardinality(Top(R, n)) = n
<1>. DEFINE up == [q \in R |-> Above(R, q)]
<1>1. \A q \in R : up[q] \subseteq R /\ q \notin up[q]
  BY DEF Above, Younger
<1>2. \A p, q \in R : p # q => p \in up[q] \/ q \in up[p]
  BY DEF Above, Younger, Apart
<1>3. \A q \in R : \A p \in up[q] : up[p] \subseteq up[q]
  BY DEF Above, Younger
<1>4. Top(R, n) = {q \in R : Cardinality(up[q]) < n}
  BY DEF Top
<1>. HIDE DEF up
<1>. QED  BY <1>1, <1>2, <1>3, <1>4, FirstOfMany

\* The youngest record of each text, the best of the records.
Best(R) == {q \in R : ~\E p \in R : p.text = q.text /\ Younger(p, q)}
Tells(R, text) == \E q \in R : q.text = text
Deduped(R) == \A p, q \in R : p.text = q.text => p = q

\* No text is without a best record, and none has two.
LEMMA BestTells ==
  ASSUME NEW R, IsFiniteSet(R), Apart(R), NEW m \in Nat, \A q \in R : q.entry \in 1..m
  PROVE  /\ Best(R) \subseteq R /\ IsFiniteSet(Best(R)) /\ Apart(Best(R)) /\ Deduped(Best(R))
         /\ \A q \in R : Tells(Best(R), q.text)
<1>1. Best(R) \subseteq R /\ IsFiniteSet(Best(R)) /\ Apart(Best(R))
  BY FS_Subset DEF Best, Apart
<1>2. Deduped(Best(R))
  <2>1. ASSUME NEW p \in Best(R), NEW q \in Best(R), p.text = q.text PROVE p = q
    <3>1. p \in R /\ q \in R /\ ~Younger(p, q) /\ ~Younger(q, p)
      BY <2>1 DEF Best
    <3>2. p.entry = q.entry
      BY <3>1 DEF Younger
    <3>. QED  BY <3>1, <3>2 DEF Apart
  <2>. QED  BY <2>1 DEF Deduped
<1>3. ASSUME NEW q \in R PROVE Tells(Best(R), q.text)
  <2>. DEFINE N == {p.entry : p \in {o \in R : o.text = q.text}}
  <2>1. N \in SUBSET Nat /\ N # {} /\ \A k \in N : k <= m
    OBVIOUS
  <2>2. \E k \in N : \A l \in N : k >= l
    <3>. HIDE DEF N
    <3>. QED  BY <2>1, GreatestNumber
  <2>3. PICK b \in R : b.text = q.text /\ \A l \in N : b.entry >= l
    BY <2>2
  <2>4. ~\E p \in R : p.text = b.text /\ Younger(p, b)
    <3>1. ASSUME NEW p \in R, p.text = b.text, Younger(p, b) PROVE FALSE
      <4>1. b.entry >= p.entry
        BY <2>3, <3>1
      <4>. QED  BY <3>1, <4>1 DEF Younger
    <3>. QED  BY <3>1
  <2>5. b \in Best(R)
    BY <2>4 DEF Best
  <2>. QED  BY <2>3, <2>5 DEF Tells
<1>. QED  BY <1>1, <1>2, <1>3

\* As many texts, as many records at least.
LEMMA AsManyTexts ==
  ASSUME NEW R, IsFiniteSet(R), NEW O, IsFiniteSet(O), Deduped(O), \A q \in O : Tells(R, q.text)
  PROVE  Cardinality(O) <= Cardinality(R)
<1>. DEFINE f == [q \in O |-> CHOOSE p \in R : p.text = q.text]
            T == {f[q] : q \in O}
            g == [p \in T |-> CHOOSE q \in O : q.text = p.text]
<1>1. ASSUME NEW q \in O PROVE f[q] \in R /\ f[q].text = q.text
  BY DEF Tells
<1>2. IsFiniteSet(T) /\ T \subseteq R
  BY <1>1, FS_Subset
<1>3. ASSUME NEW q \in O PROVE f[q] \in T /\ g[f[q]] = q
  <2>1. f[q] \in T
    OBVIOUS
  <2>2. f[q].text = q.text
    BY <1>1
  <2>. HIDE DEF f, T
  <2>. QED  BY <2>1, <2>2 DEF Deduped
<1>4. \A p \in T : g[p] \in O
  <2>1. ASSUME NEW p \in T PROVE g[p] \in O
    <3>1. PICK q \in O : p = f[q]
      OBVIOUS
    <3>. HIDE DEF f, T, g
    <3>. QED  BY <1>3, <3>1
  <2>. QED  BY <2>1
<1>5. O = {g[p] : p \in T}
  <2>. HIDE DEF f, T, g
  <2>. QED  BY <1>3, <1>4
<1>6. g = [p \in DOMAIN g |-> g[p]] /\ DOMAIN g = T
  OBVIOUS
<1>7. Cardinality(O) <= Cardinality(T)
  <2>. HIDE DEF g, T
  <2>. QED  BY <1>2, <1>5, <1>6, FiniteImage
<1>8. Cardinality(T) <= Cardinality(R)
  BY <1>2, FS_Subset
<1>9. Cardinality(O) \in Nat /\ Cardinality(T) \in Nat /\ Cardinality(R) \in Nat
  BY <1>2, FS_CardinalityType
<1>. QED  BY <1>7, <1>8, <1>9

\* What is left of the records tells each of their texts once, or is as many
\* as there may be; it is that many whenever there were that many texts.
LEMMA Capped ==
  ASSUME NEW R, IsFiniteSet(R), Apart(R), NEW m \in Nat, \A q \in R : q.entry \in 1..m
  PROVE  LET D == DedupeAndCap(R)
         IN /\ D \subseteq R /\ Deduped(D)
            /\ Cardinality(D) = MaxRecords \/ \A q \in R : Tells(D, q.text)
            /\ \A O : IsFiniteSet(O) /\ Deduped(O) /\ Cardinality(O) = MaxRecords
                        /\ (\A q \in O : Tells(R, q.text)) => Cardinality(D) = MaxRecords
<1>. DEFINE B == Best(R)
            D == DedupeAndCap(R)
<1>1. D = Top(B, MaxRecords)
  BY DEF DedupeAndCap, Top, Above, Best
<1>2. /\ B \subseteq R /\ IsFiniteSet(B) /\ Apart(B) /\ Deduped(B)
      /\ \A q \in R : Tells(B, q.text)
  BY BestTells
<1>3. MaxRecords \in Nat /\ Cardinality(B) \in Nat
  BY <1>2, FS_CardinalityType, ProjectMemoryAssumption
<1>4. MaxRecords <= Cardinality(B) => Cardinality(D) = MaxRecords
  <2>1. \A q \in B : q.entry \in Nat
    BY <1>2
  <2>. HIDE DEF B, D
  <2>. QED  BY <1>1, <1>2, <1>3, <2>1, AsManyAsAsked
<1>5. Cardinality(B) < MaxRecords => D = B
  <2>. HIDE DEF B, D
  <2>1. ASSUME Cardinality(B) < MaxRecords, NEW q \in B PROVE q \in Top(B, MaxRecords)
    <3>1. Cardinality(Above(B, q)) < MaxRecords
      BY <1>2, <1>3, <2>1, AboveFinite
    <3>. QED  BY <3>1 DEF Top
  <2>2. Top(B, MaxRecords) \subseteq B
    BY DEF Top
  <2>. QED  BY <1>1, <2>1, <2>2
<1>6. D \subseteq B
  BY <1>1 DEF Top
<1>7. D \subseteq R /\ Deduped(D)
  BY <1>2, <1>6 DEF Deduped
<1>8. Cardinality(D) = MaxRecords \/ \A q \in R : Tells(D, q.text)
  <2>. HIDE DEF B, D
  <2>. QED  BY <1>2, <1>3, <1>4, <1>5
<1>9. ASSUME NEW O, IsFiniteSet(O), Deduped(O), Cardinality(O) = MaxRecords,
             \A q \in O : Tells(R, q.text)
      PROVE  Cardinality(D) = MaxRecords
  <2>1. \A q \in O : Tells(B, q.text)
    BY <1>2, <1>9 DEF Tells
  <2>2. Cardinality(O) <= Cardinality(B)
    <3>. HIDE DEF B
    <3>. QED  BY <1>2, <1>9, <2>1, AsManyTexts
  <2>. HIDE DEF B, D
  <2>. QED  BY <1>4, <1>9, <2>2
<1>. HIDE DEF B, D
<1>. QED  BY <1>7, <1>8, <1>9 DEF D

\* What the summary leaves out it has no room for: it is full, or has all it
\* takes of the category.
LEMMA LeftOut ==
  ASSUME NEW R, IsFiniteSet(R), Apart(R),
         \A q \in R : q.entry \in Nat /\ Category(q) \in Categories,
         NEW q \in R, q \notin Summarised(R)
  PROVE  LET S == Summarised(R)
         IN \/ Cardinality(S) = Room
            \/ Cardinality({p \in S : Category(p) = Category(q)}) = Caps[Category(q)]
<1>. DEFINE S == Summarised(R)
            K == Kept(R)
            up == [p \in K |-> {o \in K : Before(o, p)}]
<1>1. /\ K \subseteq R /\ IsFiniteSet(K)
      /\ Categories \subseteq Nat /\ Room \in Nat /\ Caps \in [Categories -> Nat]
  BY FS_Subset, ProjectMemoryAssumption DEF Kept
<1>2. S = {p \in K : Cardinality(up[p]) < Room}
  BY DEF Summarised
<1>3. \A p \in R : p.entry \in Nat /\ Category(p) \in Nat
  BY <1>1
\* What is cut off has as many before it as there is room for.
<1>4. ASSUME NEW x \in K, x \notin S PROVE Cardinality(S) = Room
  <2>1. \A p \in K : up[p] \subseteq K /\ p \notin up[p]
    BY <1>1, <1>3 DEF Before, Younger
  <2>2. \A p, o \in K : p # o => p \in up[o] \/ o \in up[p]
    <3>. TAKE p, o \in K
    <3>1. p.entry = o.entry => p = o
      BY <1>1 DEF Apart
    <3>. QED  BY <1>1, <1>3, <3>1 DEF Before, Younger
  <2>3. \A p \in K : \A o \in up[p] : up[o] \subseteq up[p]
    <3>. TAKE p \in K
    <3>. TAKE o \in up[p]
    <3>1. ASSUME NEW y \in up[o] PROVE Before(y, p)
      <4>1. /\ o \in K /\ y \in K /\ Before(o, p) /\ Before(y, o)
            /\ o.entry \in Nat /\ y.entry \in Nat /\ p.entry \in Nat
            /\ Category(o) \in Nat /\ Category(y) \in Nat /\ Category(p) \in Nat
        BY <1>1, <1>3
      <4>. QED  BY <4>1 DEF Before, Younger
    <3>. QED  BY <3>1
  <2>4. Room <= Cardinality(K)
    <3>1. up[x] \subseteq K /\ ~(Cardinality(up[x]) < Room)
      BY <1>2, <1>4, <2>1
    <3>. HIDE DEF up, K
    <3>2. IsFiniteSet(up[x]) /\ Cardinality(up[x]) <= Cardinality(K)
      BY <1>1, <3>1, FS_Subset
    <3>3. Cardinality(up[x]) \in Nat /\ Cardinality(K) \in Nat
      BY <1>1, <3>2, FS_CardinalityType
    <3>. QED  BY <1>1, <3>1, <3>2, <3>3
  <2>. HIDE DEF up, K, S
  <2>. QED  BY <1>1, <1>2, <2>1, <2>2, <2>3, <2>4, FirstOfMany
\* What is not kept has as many of its category above it as its cap allows.
<1>5. ASSUME q \notin K, K \subseteq S
      PROVE  Cardinality({p \in S : Category(p) = Category(q)}) = Caps[Category(q)]
  <2>. DEFINE c == Category(q)
              G == {p \in R : Category(p) = c}
              n == Caps[c]
  <2>1. n \in Nat /\ IsFiniteSet(G) /\ Apart(G) /\ \A p \in G : p.entry \in Nat
    BY <1>1, FS_Subset DEF Apart
  <2>2. \A p \in G : Above(G, p) = {o \in R : Category(o) = Category(p) /\ Younger(o, p)}
    BY DEF Above
  <2>3. {p \in S : Category(p) = c} = Top(G, n)
    <3>1. K = S
      BY <1>2, <1>5
    <3>2. \A p : p \in K <=> /\ p \in R
                             /\ Cardinality({o \in R : Category(o) = Category(p) /\ Younger(o, p)})
                                  < Caps[Category(p)]
      BY DEF Kept
    <3>. HIDE DEF K, S
    <3>3. \A p : p \in G => (p \in S <=> Cardinality(Above(G, p)) < n)
      BY <2>2, <3>1, <3>2
    <3>4. S \subseteq R
      BY <1>1, <3>1
    <3>. QED  BY <3>3, <3>4 DEF Top
  <2>4. n <= Cardinality(G)
    <3>1. q \in G /\ ~(Cardinality(Above(G, q)) < n)
      <4>1. q \in G /\ ~(Cardinality({o \in R : Category(o) = c /\ Younger(o, q)}) < n)
        BY <1>5 DEF Kept
      <4>. QED  BY <2>2, <4>1
    <3>. HIDE DEF G, n
    <3>2. Cardinality(G) \in Nat
      BY <2>1, FS_CardinalityType
    <3>. QED  BY <2>1, <3>1, <3>2, AboveFinite
  <2>. HIDE DEF G, n, S, K
  <2>. QED  BY <2>1, <2>3, <2>4, AsManyAsAsked DEF n, c
<1>6. CASE q \in K
  BY <1>4, <1>6
<1>7. CASE q \notin K
  <2>1. CASE K \subseteq S
    BY <1>5, <1>7, <2>1
  <2>2. CASE ~(K \subseteq S)
    BY <1>4, <2>2
  <2>. QED  BY <2>1, <2>2
<1>. QED  BY <1>6, <1>7

-----------------------------------------------------------------------------
(***************************************************************************)
(* The inductive invariant, of the values of the variables: e stands for   *)
(* the entries, l for the leaves, h for what each file holds and j for     *)
(* what a refresher does                                                   *)
(***************************************************************************)

\* A refresh is over before the next one begins.
OneAtATime == \A r, q \in Refreshers : r = q

Disk == [f \in Files |-> Held(f)]

\* The entries of a session, those on the path to one, and their texts.
Owned(e, s) == {i \in DOMAIN e : e[i].session = s}
Path(e, i) == IF i = 0 THEN <<>> ELSE e[i].path
On(e, i) == {Path(e, i)[k] : k \in DOMAIN Path(e, i)}
TextsOn(e, i) == {e[k].text : k \in On(e, i)} \ {NoText}

\* Sessions are trees apart, and each one is at an entry of its own.
Trees(e, l) ==
  /\ IsQueue(e)
  /\ \A i \in DOMAIN e :
       /\ e[i].session \in Sessions /\ e[i].text \in Texts \cup {NoText} /\ IsQueue(e[i].path)
       /\ \A k \in DOMAIN e[i].path : e[i].path[k] \in Owned(e, e[i].session)
  /\ l \in [Sessions -> Nat]
  /\ \A s \in Sessions : IF Owned(e, s) = {} THEN l[s] = 0 ELSE l[s] \in Owned(e, s)

\* No two names stand for one inode, and a file's own name for a whole one.
Names(fi, t, c) ==
  /\ fi \in [Files -> {0} \cup Inodes] /\ t \in [Files -> {0} \cup Inodes]
  /\ c = [i \in Inodes |-> c[i]]
  /\ \A f, g \in Files : fi[f] # 0 => fi[f] # t[g] /\ (f # g => fi[f] # fi[g])
  /\ \A f, g \in Files : t[f] # 0 /\ f # g => t[f] # t[g]
  /\ \A f \in Files : fi[f] # 0 => c[fi[f]].at = "whole"

\* Snapshots of different sessions, at entries that are there.
AreSnapshots(e, P) ==
  /\ \A p \in P : p.session \in Sessions /\ (p.leaf = 0 \/ p.leaf \in DOMAIN e)
  /\ \A p, o \in P : p.session = o.session => p = o

\* Records of different entries, telling what these hold.
AreRecords(e, R) ==
  /\ IsFiniteSet(R) /\ Apart(R)
  /\ \A q \in R : /\ q.session \in Sessions /\ q.entry \in Owned(e, q.session)
                  /\ q.text # NoText /\ q.text = e[q.entry].text

Covers(P, R) == \A q \in R : \E p \in P : p.session = q.session
Current(P, R) == \A q \in R : \E p \in P : p.session = q.session /\ p.leaf = q.from

AreFiles(e, h) ==
  /\ AreSnapshots(e, h[State].data)
  /\ AreRecords(e, h[Raw].data) /\ Deduped(h[Raw].data)

\* What a refresh writes to a file.
New(j, f) ==
  CASE f = State -> j.after
    [] f \in {Raw, Project} -> j.records
    [] f = Summary -> Summarised(j.records)

Reading == {"raw", "scan", "leaf"}
Writing == {"create", "write", "rename"}
IsJob(j) ==
  /\ j = [at |-> j.at, file |-> j.file, fd |-> j.fd, old |-> j.old, before |-> j.before,
          left |-> j.left, known |-> j.known, after |-> j.after, records |-> j.records]
  /\ j.at \in {"idle"} \cup Reading \cup Writing /\ j.file \in Files
  /\ j.at = "idle" => j = Idle
  /\ j.at \in Reading => j.file = State
  /\ j.at # "write" => j.fd = 0

\* The temporary file it is at.
AtTmp(t, c, j) ==
  /\ j.at = "write" => t[j.file] # 0 /\ j.fd = t[j.file] /\ c[j.fd] = Nothing
  /\ j.at = "rename" => t[j.file] # 0 /\ c[t[j.file]] = Whole(New(j, j.file))

\* A refresh has in its hands what it has read and made so far.
Hands(e, h, j) ==
  /\ AreSnapshots(e, j.after) /\ AreRecords(e, j.records) /\ Covers(j.after, j.records)
  /\ j.at \in Reading => j.before = h[State].data
  /\ j.at = "raw" => j.after = {} /\ j.records = {}
  /\ j.at \in {"scan", "leaf"} =>
       /\ j.old = h[Raw].data
       /\ \A s \in j.left : s \in Sessions /\ Owned(e, s) # {}
       /\ \A p \in j.after : p.session \notin j.left
  /\ j.at = "leaf" => j.known # {} /\ \E s \in j.left : j.known \subseteq Owned(e, s)

\* While it writes, the files before the one it is at are its own.
Written(h, j) ==
  j.at \in Writing =>
    /\ Deduped(j.records)
    /\ \A f \in Files : f < j.file => h[f] = Whole(New(j, f))

\* The files are those of the last refresh.
OfTheLast(j) == j.at \in Writing => j.file = State

\* Nothing was stopped: records are of the snapshots next to them.
Agrees(h, j) ==
  /\ Current(j.after, j.records)
  /\ OfTheLast(j) => Current(h[State].data, h[Raw].data)

\* Records full to the limit, or of every text on the way to the snapshots.
Complete(e, P, R) ==
  Cardinality(R) = MaxRecords \/ \A p \in P : \A text \in TextsOn(e, p.leaf) : Tells(R, text)

OnBranch(e, l, R) == \A q \in R : q.entry \in On(e, l[q.session])
Latest(l, P) == \A p \in P : p.leaf = l[p.session]
SessionsOf(P) == {p.session : p \in P}
AreAll(e, S) == S = {s \in Sessions : Owned(e, s) # {}}

\* Records of last time are told again once their session has been looked at;
\* what they told before is told at the end.
Retold(e, j) ==
  /\ \A q \in j.old : q.session \in SessionsOf(j.after) => Tells(j.records, q.text)
  /\ \/ Cardinality(j.old) = MaxRecords
     \/ \A p \in j.after : \A text \in TextsOn(e, p.leaf) :
          Tells(j.records, text) \/ Tells(j.old, text)

\* And sessions only grew, and not meanwhile.
Grows(e, l, h, j) ==
  /\ OfTheLast(j) => OnBranch(e, l, h[Raw].data) /\ Complete(e, h[State].data, h[Raw].data)
  /\ OnBranch(e, l, j.records) /\ Latest(l, j.after)
  /\ j.at \in {"scan", "leaf"} => AreAll(e, SessionsOf(j.after) \cup j.left) /\ Retold(e, j)
  /\ j.at = "leaf" => \A s \in Sessions : j.known \cap Owned(e, s) # {} => j.known = Owned(e, s)
  /\ j.at \in Writing => AreAll(e, SessionsOf(j.after)) /\ Complete(e, j.after, j.records)

\* What a refresh leaves behind.
Settled(h) ==
  /\ h[Project] = h[Raw] /\ h[Summary] = Whole(Summarised(h[Raw].data))
  /\ Covers(h[State].data, h[Raw].data)
Remembered(e, l, h) ==
  /\ Latest(l, h[State].data) /\ AreAll(e, SessionsOf(h[State].data))
  /\ Complete(e, h[State].data, h[Raw].data)

JobInv(r) ==
  /\ IsJob(job[r]) /\ AtTmp(tmp, content, job[r])
  /\ Hands(entries, Disk, job[r]) /\ Written(Disk, job[r])
  /\ fresh => job[r] = Idle
  /\ stops = 0 => Agrees(Disk, job[r])
  /\ grown /\ stops = 0 => Grows(entries, leaf, Disk, job[r])

MemoryInv ==
  /\ Trees(entries, leaf) /\ Names(final, tmp, content) /\ AreFiles(entries, Disk)
  /\ job = [r \in Refreshers |-> job[r]] /\ \A r \in Refreshers : JobInv(r)
  /\ stops \in Nat
  /\ fresh => Settled(Disk)
  /\ grown /\ stops = 0 => gone = {} /\ (fresh => Remembered(entries, leaf, Disk))

-----------------------------------------------------------------------------
(***************************************************************************)
(* Sessions change                                                         *)
(***************************************************************************)

Extends(e, f) == \A i \in DOMAIN e : i \in DOMAIN f /\ f[i] = e[i]

\* What is on a path is an entry of the same session.
LEMMA PathsStay ==
  ASSUME NEW e, NEW l, Trees(e, l)
  PROVE  /\ Len(e) \in Nat /\ DOMAIN e = 1..Len(e) /\ 0 \notin DOMAIN e
         /\ \A i \in DOMAIN e : On(e, i) \subseteq Owned(e, e[i].session)
         /\ On(e, 0) = {}
         /\ \A s : Owned(e, s) \subseteq DOMAIN e
<1>1. Len(e) \in Nat /\ DOMAIN e = 1..Len(e)
  BY Queued DEF Trees
<1>2. ASSUME NEW i \in DOMAIN e PROVE On(e, i) \subseteq Owned(e, e[i].session)
  <2>1. i # 0
    BY <1>1
  <2>2. On(e, i) = {e[i].path[k] : k \in DOMAIN e[i].path}
    BY <2>1 DEF On, Path
  <2>. QED  BY <2>2 DEF Trees
<1>3. On(e, 0) = {}
  BY DEF On, Path
<1>. QED  BY <1>1, <1>2, <1>3 DEF Owned

LEMMA TextsStay ==
  ASSUME NEW e, NEW l, Trees(e, l), NEW f, Extends(e, f), NEW i, i = 0 \/ i \in DOMAIN e
  PROVE  On(f, i) = On(e, i) /\ TextsOn(f, i) = TextsOn(e, i)
<1>1. Path(f, i) = Path(e, i)
  BY DEF Path, Extends
<1>2. On(f, i) = On(e, i)
  BY <1>1 DEF On
<1>3. \A k \in On(e, i) : f[k].text = e[k].text
  <2>1. \A k \in On(e, i) : k \in DOMAIN e
    BY PathsStay
  <2>. QED  BY <2>1 DEF Extends
<1>. QED  BY <1>2, <1>3 DEF TextsOn

\* What is known of entries stays true when more are made.
LEMMA KnownStays ==
  ASSUME NEW e, NEW l, Trees(e, l), NEW f, Extends(e, f)
  PROVE  /\ \A s : Owned(e, s) \subseteq Owned(f, s)
         /\ \A P : AreSnapshots(e, P) => AreSnapshots(f, P)
         /\ \A R : AreRecords(e, R) => AreRecords(f, R)
         /\ \A h : AreFiles(e, h) => AreFiles(f, h)
         /\ \A h, j : Hands(e, h, j) => Hands(f, h, j)
         /\ \A P, R : AreSnapshots(e, P) /\ Complete(e, P, R) => Complete(f, P, R)
<1>1. \A s : Owned(e, s) \subseteq Owned(f, s)
  BY DEF Owned, Extends
<1>2. ASSUME NEW P, AreSnapshots(e, P) PROVE AreSnapshots(f, P)
  BY <1>2 DEF AreSnapshots, Extends
<1>3. ASSUME NEW R, AreRecords(e, R) PROVE AreRecords(f, R)
  <2>1. ASSUME NEW q \in R
        PROVE  /\ q.session \in Sessions /\ q.entry \in Owned(f, q.session)
               /\ q.text # NoText /\ q.text = f[q.entry].text
    <3>1. /\ q.session \in Sessions /\ q.entry \in Owned(e, q.session)
          /\ q.text # NoText /\ q.text = e[q.entry].text
      BY <1>3 DEF AreRecords
    <3>2. q.entry \in DOMAIN e /\ f[q.entry] = e[q.entry]
      BY <3>1 DEF Owned, Extends
    <3>. QED  BY <1>1, <3>1, <3>2
  <2>. QED  BY <1>3, <2>1 DEF AreRecords
<1>4. ASSUME NEW h, AreFiles(e, h) PROVE AreFiles(f, h)
  BY <1>2, <1>3, <1>4 DEF AreFiles
<1>5. ASSUME NEW h, NEW j, Hands(e, h, j) PROVE Hands(f, h, j)
  <2>1. AreSnapshots(f, j.after) /\ AreRecords(f, j.records)
    BY <1>2, <1>3, <1>5 DEF Hands
  <2>2. j.at \in {"scan", "leaf"} => \A s \in j.left : s \in Sessions /\ Owned(f, s) # {}
    BY <1>1, <1>5 DEF Hands
  <2>3. j.at = "leaf" => j.known # {} /\ \E s \in j.left : j.known \subseteq Owned(f, s)
    BY <1>1, <1>5 DEF Hands
  <2>. QED  BY <1>5, <2>1, <2>2, <2>3 DEF Hands
<1>6. ASSUME NEW P, NEW R, AreSnapshots(e, P), Complete(e, P, R) PROVE Complete(f, P, R)
  <2>1. \A p \in P : TextsOn(f, p.leaf) = TextsOn(e, p.leaf)
    BY <1>6, TextsStay DEF AreSnapshots
  <2>. QED  BY <1>6, <2>1 DEF Complete
<1>. QED  BY <1>1, <1>2, <1>3, <1>4, <1>5, <1>6

\* An entry is made where a session is.
WithEntry(e, at, s, text) ==
  Append(e, [session |-> s, text |-> text, path |-> Append(Path(e, at), Len(e) + 1)])
AtNew(e, l, s) == [l EXCEPT ![s] = Len(e) + 1]
IsMade(e, l, s, text, f, k) ==
  f = WithEntry(e, l[s], s, text) /\ k = AtNew(e, l, s) /\ text \in Texts \cup {NoText}

LEMMA EntryIsMade ==
  ASSUME NEW e, NEW l, Trees(e, l), NEW s \in Sessions, NEW text, NEW f, NEW k,
         IsMade(e, l, s, text, f, k)
  PROVE  /\ Trees(f, k) /\ Extends(e, f)
         /\ \A o \in Sessions : On(e, l[o]) \subseteq On(f, k[o])
<1>. DEFINE n == Len(e) + 1
            path == Append(Path(e, l[s]), n)
<1>0. /\ f = WithEntry(e, l[s], s, text) /\ k = AtNew(e, l, s)
      /\ text \in Texts \cup {NoText}
  BY DEF IsMade
<1>1. /\ Len(e) \in Nat /\ DOMAIN e = 1..Len(e) /\ 0 \notin DOMAIN e
      /\ \A i \in DOMAIN e : On(e, i) \subseteq Owned(e, e[i].session)
      /\ On(e, 0) = {}
  BY PathsStay
<1>2. /\ IsQueue(f) /\ DOMAIN f = 1..n /\ \A i \in DOMAIN e : f[i] = e[i]
      /\ f[n] = [session |-> s, text |-> text, path |-> path] /\ n \notin DOMAIN e
  <2>1. IsQueue(e)
    BY DEF Trees
  <2>2. f = Append(e, [session |-> s, text |-> text, path |-> path])
    BY <1>0 DEF WithEntry
  <2>3. n \notin 1..Len(e) /\ DOMAIN e = 1..Len(e)
    BY <1>1
  <2>4. PICK m : m = [session |-> s, text |-> text, path |-> path]
    OBVIOUS
  <2>. HIDE DEF path
  <2>5. f = Append(e, m)
    BY <2>2, <2>4
  <2>6. /\ IsQueue(f) /\ DOMAIN f = 1..n /\ f[n] = m
        /\ \A i \in 1..Len(e) : f[i] = e[i]
    BY <2>1, <2>5, Queued
  <2>. QED  BY <2>3, <2>4, <2>6
<1>3. Extends(e, f)
  BY <1>1, <1>2 DEF Extends
<1>4. l[s] = 0 \/ l[s] \in Owned(e, s)
  BY DEF Trees
<1>5. IsQueue(Path(e, l[s])) /\ On(e, l[s]) \subseteq Owned(e, s)
  <2>1. CASE l[s] = 0
    <3>1. <<>> \in Seq({})
      BY EmptySeq
    <3>2. IsQueue(<<>>)
      BY <3>1, SeqIsQueue
    <3>. QED  BY <1>1, <2>1, <3>2 DEF Path
  <2>2. CASE l[s] # 0
    <3>1. l[s] \in DOMAIN e /\ e[l[s]].session = s
      BY <1>4, <2>2 DEF Owned
    <3>2. IsQueue(e[l[s]].path)
      BY <3>1 DEF Trees
    <3>. QED  BY <1>1, <2>2, <3>1, <3>2 DEF Path
  <2>. QED  BY <2>1, <2>2
<1>6. IsQueue(path) /\ {path[i] : i \in DOMAIN path} = On(e, l[s]) \cup {n}
  <2>. DEFINE q == Path(e, l[s])
  <2>1. /\ IsQueue(path) /\ Len(q) \in Nat /\ DOMAIN q = 1..Len(q)
        /\ DOMAIN path = 1..(Len(q) + 1)
        /\ \A i \in 1..Len(q) : path[i] = q[i]
        /\ path[Len(q) + 1] = n
    <3>1. IsQueue(q)
      BY <1>5
    <3>. HIDE DEF q, n
    <3>. QED  BY <3>1, Queued DEF q
  <2>2. On(e, l[s]) = {q[i] : i \in 1..Len(q)}
    BY <2>1 DEF On
  <2>. HIDE DEF q, path, n
  <2>3. \A i \in DOMAIN path : i \in 1..Len(q) \/ i = Len(q) + 1
    BY <2>1
  <2>4. \A i \in 1..Len(q) : i \in DOMAIN path
    BY <2>1
  <2>5. Len(q) + 1 \in DOMAIN path
    BY <2>1
  <2>. QED  BY <2>1, <2>2, <2>3, <2>4, <2>5
<1>7. On(f, n) = On(e, l[s]) \cup {n}
  <2>1. n # 0
    BY <1>1
  <2>2. f[n].path = path
    BY <1>2
  <2>. HIDE DEF path, n
  <2>3. Path(f, n) = path
    BY <2>1, <2>2 DEF Path
  <2>4. On(f, n) = {path[i] : i \in DOMAIN path}
    BY <2>3 DEF On
  <2>. QED  BY <1>6, <2>4
<1>8. Owned(f, s) = Owned(e, s) \cup {n} /\ \A o : o # s => Owned(f, o) = Owned(e, o)
  <2>1. DOMAIN f = DOMAIN e \cup {n}
    BY <1>1, <1>2
  <2>2. f[n].session = s
    BY <1>2
  <2>. HIDE DEF n, path
  <2>. QED  BY <1>2, <2>1, <2>2 DEF Owned
<1>9. Trees(f, k)
  <2>1. ASSUME NEW i \in DOMAIN f
        PROVE  /\ f[i].session \in Sessions /\ f[i].text \in Texts \cup {NoText}
               /\ IsQueue(f[i].path)
               /\ \A a \in DOMAIN f[i].path : f[i].path[a] \in Owned(f, f[i].session)
    <3>1. CASE i = n
      <4>1. f[i].session = s /\ f[i].text = text /\ f[i].path = path
        BY <1>2, <3>1
      <4>2. \A a \in DOMAIN path : path[a] \in On(e, l[s]) \cup {n}
        BY <1>6
      <4>. HIDE DEF path, n
      <4>. QED  BY <1>0, <1>5, <1>6, <1>8, <4>1, <4>2
    <3>2. CASE i # n
      <4>1. i \in DOMAIN e /\ f[i] = e[i]
        BY <1>1, <1>2, <3>2
      <4>2. \A o : Owned(e, o) \subseteq Owned(f, o)
        BY <1>8
      <4>. QED  BY <4>1, <4>2 DEF Trees
    <3>. QED  BY <3>1, <3>2
  <2>2. k \in [Sessions -> Nat]
    BY <1>0, <1>1 DEF Trees, AtNew
  <2>3. ASSUME NEW o \in Sessions
        PROVE IF Owned(f, o) = {} THEN k[o] = 0 ELSE k[o] \in Owned(f, o)
    <3>1. IF Owned(e, o) = {} THEN l[o] = 0 ELSE l[o] \in Owned(e, o)
      BY DEF Trees
    <3>2. k[o] = IF o = s THEN n ELSE l[o]
      BY <1>0 DEF Trees, AtNew
    <3>. HIDE DEF n
    <3>. QED  BY <1>8, <3>1, <3>2
  <2>. QED  BY <1>2, <2>1, <2>2, <2>3 DEF Trees
<1>10. ASSUME NEW o \in Sessions PROVE On(e, l[o]) \subseteq On(f, k[o])
  <2>1. CASE o = s
    <3>1. k[o] = n
      BY <1>0, <2>1 DEF Trees, AtNew
    <3>. QED  BY <1>7, <2>1, <3>1
  <2>2. CASE o # s
    <3>1. k[o] = l[o]
      BY <1>0, <2>2 DEF Trees, AtNew
    <3>2. l[o] = 0 \/ l[o] \in DOMAIN e
      BY DEF Trees, Owned
    <3>. QED  BY <1>3, <3>1, <3>2, TextsStay
  <2>. QED  BY <2>1, <2>2
<1>. QED  BY <1>3, <1>9, <1>10

\* A session goes to one of its entries.
LEMMA LeafMoves ==
  ASSUME NEW e, NEW l, Trees(e, l), NEW s \in Sessions, NEW i \in Owned(e, s)
  PROVE  Trees(e, [l EXCEPT ![s] = i])
<1>. DEFINE k == [l EXCEPT ![s] = i]
<1>1. i \in Nat
  BY PathsStay DEF Owned
<1>2. k \in [Sessions -> Nat]
  BY <1>1 DEF Trees
<1>3. \A o \in Sessions : IF Owned(e, o) = {} THEN k[o] = 0 ELSE k[o] \in Owned(e, o)
  BY DEF Trees
<1>. HIDE DEF k
<1>4. Trees(e, k)
  BY <1>2, <1>3 DEF Trees
<1>. QED  BY <1>4 DEF k

\* Who does nothing has nothing in hand.
LEMMA IdleHands ==
  ASSUME NEW j, j = Idle
  PROVE  /\ IsJob(j) /\ OfTheLast(j)
         /\ \A t, c : AtTmp(t, c, j)
         /\ \A e, h : Hands(e, h, j)
         /\ \A h : Written(h, j)
         /\ \A h : Current(h[State].data, h[Raw].data) => Agrees(h, j)
         /\ \A e, l, h : OnBranch(e, l, h[Raw].data) /\ Complete(e, h[State].data, h[Raw].data)
                           => Grows(e, l, h, j)
<1>1. /\ j = [at |-> "idle", file |-> 1, fd |-> 0, old |-> {}, before |-> {}, left |-> {},
              known |-> {}, after |-> {}, records |-> {}]
      /\ j.at = "idle" /\ j.file = 1 /\ j.fd = 0 /\ j.after = {} /\ j.records = {}
  BY DEF Idle
<1>2. IsJob(j)
  BY <1>1 DEF IsJob, Files, Reading, Writing
<1>3. /\ OfTheLast(j) /\ \A t, c : AtTmp(t, c, j)
      /\ \A h : Written(h, j)
  BY <1>1 DEF OfTheLast, AtTmp, Written, Writing
<1>4. \A e, h : Hands(e, h, j)
  BY <1>1, FS_EmptySet DEF Hands, Reading, AreSnapshots, AreRecords, Covers, Apart
<1>5. \A h : Current(h[State].data, h[Raw].data) => Agrees(h, j)
  BY <1>1 DEF Agrees, Current
<1>6. \A e, l, h : OnBranch(e, l, h[Raw].data) /\ Complete(e, h[State].data, h[Raw].data)
                     => Grows(e, l, h, j)
  BY <1>1 DEF Grows, OnBranch, Latest, Writing
<1>. QED  BY <1>2, <1>3, <1>4, <1>5, <1>6

\* A session changes while refreshes go on, or none does.
LEMMA SessionChanges ==
  ASSUME MemoryInv, NEW s \in Sessions, AppendEntry(s) \/ Navigate(s) \/ DeleteSession(s)
  PROVE  MemoryInv'
<1>1. UNCHANGED <<final, tmp, content, job, stops>> /\ fresh' = FALSE
  BY DEF AppendEntry, Navigate, DeleteSession, Changes, diskVars
<1>2. Disk' = Disk
  BY <1>1 DEF Disk, Held
<1>3. /\ Trees(entries', leaf') /\ Extends(entries, entries')
      /\ grown' => /\ grown /\ AllIdle /\ gone' = gone
                   /\ \A o \in Sessions : On(entries, leaf[o]) \subseteq On(entries', leaf'[o])
  <2>0. Trees(entries, leaf)
    BY DEF MemoryInv
  <2>1. CASE AppendEntry(s)
    <3>1. PICK text \in Texts \cup {NoText} :
            /\ entries' = Append(entries, [session |-> s, text |-> text,
                                 path |-> Append(PathTo(leaf[s]), Len(entries) + 1)])
            /\ leaf' = [leaf EXCEPT ![s] = Len(entries) + 1]
      BY <2>1 DEF AppendEntry
    <3>2. PathTo(leaf[s]) = Path(entries, leaf[s])
      BY DEF PathTo, Path
    <3>3. entries' = Append(entries, [session |-> s, text |-> text,
                                      path |-> Append(Path(entries, leaf[s]), Len(entries) + 1)])
      BY <3>1, <3>2
    <3>4. /\ Trees(entries', leaf') /\ Extends(entries, entries')
          /\ \A o \in Sessions : On(entries, leaf[o]) \subseteq On(entries', leaf'[o])
      <4>1. PICK e, l, f, k, t : /\ e = entries /\ l = leaf /\ f = entries' /\ k = leaf'
                                 /\ t = text
        OBVIOUS
      <4>2. IsMade(e, l, s, t, f, k) /\ Trees(e, l)
        BY <2>0, <3>1, <3>3, <4>1 DEF IsMade, WithEntry, AtNew
      <4>3. /\ Trees(f, k) /\ Extends(e, f)
            /\ \A o \in Sessions : On(e, l[o]) \subseteq On(f, k[o])
        BY <4>2, EntryIsMade
      <4>. QED  BY <4>1, <4>3
    <3>5. grown' => grown /\ AllIdle /\ gone' = gone
      BY <2>1 DEF AppendEntry, Changes
    <3>. QED  BY <3>4, <3>5
  <2>2. CASE Navigate(s)
    <3>1. PICK i \in Of(s) : leaf' = [leaf EXCEPT ![s] = i]
      BY <2>2 DEF Navigate
    <3>2. i \in Owned(entries, s)
      BY <3>1 DEF Of, Owned
    <3>3. Trees(entries, leaf')
      BY <2>0, <3>1, <3>2, LeafMoves
    <3>4. entries' = entries /\ grown' = FALSE
      BY <2>2 DEF Navigate, Changes
    <3>. QED  BY <3>3, <3>4 DEF Extends
  <2>3. CASE DeleteSession(s)
    <3>1. entries' = entries /\ leaf' = leaf /\ grown' = FALSE
      BY <2>3 DEF DeleteSession, Changes
    <3>. QED  BY <2>0, <3>1 DEF Extends
  <2>. QED  BY <2>1, <2>2, <2>3
<1>4. PICK e, l, h, f, k : e = entries /\ l = leaf /\ h = Disk /\ f = entries' /\ k = leaf'
  OBVIOUS
<1>5. Trees(e, l) /\ Extends(e, f) /\ AreFiles(e, h) /\ AreFiles(f, h)
  <2>1. Trees(e, l) /\ Extends(e, f) /\ AreFiles(e, h)
    BY <1>3, <1>4 DEF MemoryInv
  <2>. QED  BY <2>1, KnownStays
<1>6. ASSUME NEW r \in Refreshers PROVE JobInv(r)'
  <2>1. PICK j : j = job[r]
    OBVIOUS
  <2>2. /\ IsJob(j) /\ AtTmp(tmp, content, j) /\ Hands(e, h, j) /\ Written(h, j)
        /\ stops = 0 => Agrees(h, j)
        /\ grown /\ stops = 0 => Grows(e, l, h, j)
    BY <1>4, <2>1 DEF MemoryInv, JobInv
  <2>3. Hands(f, h, j)
    BY <1>5, <2>2, KnownStays
  <2>4. ASSUME grown', stops = 0 PROVE Grows(f, k, h, j)
    <3>1. j = Idle /\ Grows(e, l, h, j)
      BY <1>3, <2>1, <2>2, <2>4 DEF AllIdle
    <3>2. OnBranch(e, l, h[Raw].data) /\ Complete(e, h[State].data, h[Raw].data)
      BY <3>1, IdleHands DEF Grows
    <3>3. OnBranch(f, k, h[Raw].data)
      <4>1. \A q \in h[Raw].data : q.session \in Sessions
        BY <1>5 DEF AreFiles, AreRecords
      <4>2. \A o \in Sessions : On(e, l[o]) \subseteq On(f, k[o])
        BY <1>3, <1>4, <2>4
      <4>. QED  BY <3>2, <4>1, <4>2 DEF OnBranch
    <3>4. Complete(f, h[State].data, h[Raw].data)
      BY <1>5, <3>2, KnownStays DEF AreFiles
    <3>. QED  BY <3>1, <3>3, <3>4, IdleHands
  <2>5. job'[r] = j /\ entries' = f /\ leaf' = k /\ Disk' = h /\ tmp' = tmp /\ content' = content
        /\ stops' = stops /\ fresh' = FALSE
    BY <1>1, <1>2, <1>4, <2>1
  <2>6. (grown /\ stops = 0 => Grows(entries, leaf, Disk, job[r]))'
    BY <2>4, <2>5
  <2>. QED  BY <2>2, <2>3, <2>5, <2>6 DEF JobInv
<1>7. Trees(entries', leaf') /\ Names(final', tmp', content') /\ AreFiles(entries', Disk')
  <2>1. Names(final, tmp, content)
    BY DEF MemoryInv
  <2>. QED  BY <1>1, <1>2, <1>3, <1>4, <1>5, <2>1
<1>8. job' = [r \in Refreshers |-> job'[r]] /\ stops' \in Nat
  BY <1>1 DEF MemoryInv
<1>9. grown' /\ stops' = 0 => gone' = {}
  BY <1>1, <1>3 DEF MemoryInv
<1>. QED  BY <1>1, <1>6, <1>7, <1>8, <1>9 DEF MemoryInv

-----------------------------------------------------------------------------
(***************************************************************************)
(* A refresh reads                                                         *)
(***************************************************************************)

\* The invariant holds after a step of the one refresh that goes on when it
\* holds of the files and of what the refresh has in hand then.
LEMMA RefreshMoves ==
  ASSUME MemoryInv, OneAtATime, NEW r \in Refreshers, NEW k, job' = [job EXCEPT ![r] = k],
         UNCHANGED <<sessionVars, stops>>, grown' => grown,
         Names(final', tmp', content'), AreFiles(entries, Disk'),
         IsJob(k), AtTmp(tmp', content', k), Hands(entries, Disk', k), Written(Disk', k),
         fresh' => k = Idle /\ Settled(Disk'),
         stops = 0 => Agrees(Disk', k),
         grown' /\ stops = 0 => /\ Grows(entries, leaf, Disk', k)
                                /\ fresh' => Remembered(entries, leaf, Disk')
  PROVE  MemoryInv'
<1>1. entries' = entries /\ leaf' = leaf /\ gone' = gone /\ stops' = stops
  BY DEF sessionVars
<1>2. job' = [q \in Refreshers |-> job'[q]] /\ job'[r] = k
  BY DEF MemoryInv
<1>3. ASSUME NEW q \in Refreshers PROVE JobInv(q)'
  <2>1. q = r
    BY DEF OneAtATime
  <2>. QED  BY <1>1, <1>2, <2>1 DEF JobInv
<1>. QED  BY <1>1, <1>2, <1>3 DEF MemoryInv

\* What a refresh that goes on has in hand, in values.
LEMMA InHand ==
  ASSUME MemoryInv, NEW r \in Refreshers
  PROVE  /\ Trees(entries, leaf) /\ AreFiles(entries, Disk) /\ Names(final, tmp, content)
         /\ IsJob(job[r]) /\ AtTmp(tmp, content, job[r])
         /\ Hands(entries, Disk, job[r]) /\ Written(Disk, job[r])
         /\ stops = 0 => Agrees(Disk, job[r])
         /\ grown /\ stops = 0 => Grows(entries, leaf, Disk, job[r]) /\ gone = {}
         /\ fresh => job[r].at = "idle"
BY DEF MemoryInv, JobInv, Idle

\* A step that leaves the disk alone leaves the files alone.
LEMMA DiskStays ==
  ASSUME MemoryInv, UNCHANGED <<sessionVars, diskVars>>
  PROVE  Disk' = Disk /\ Names(final', tmp', content') /\ AreFiles(entries, Disk')
<1>1. final' = final /\ tmp' = tmp /\ content' = content
  BY DEF diskVars
<1>2. Disk' = Disk
  BY <1>1 DEF Disk, Held
<1>. QED  BY <1>1, <1>2 DEF MemoryInv

LEMMA BeginKeeps ==
  ASSUME MemoryInv, OneAtATime, NEW r \in Refreshers, Begin(r)
  PROVE  MemoryInv'
<1>1. /\ Disk' = Disk /\ Names(final', tmp', content') /\ AreFiles(entries, Disk')
      /\ UNCHANGED <<sessionVars, stops, grown>> /\ fresh' = FALSE
  <2>1. UNCHANGED <<sessionVars, diskVars>>
    BY DEF Begin
  <2>. QED  BY <2>1, DiskStays DEF Begin
<1>2. PICK e, l, h, j, k : e = entries /\ l = leaf /\ h = Disk /\ j = job[r] /\ k = job'[r]
  OBVIOUS
<1>3. /\ Hands(e, h, j) /\ IsJob(j)
      /\ stops = 0 => Agrees(h, j)
      /\ grown /\ stops = 0 => Grows(e, l, h, j)
  BY <1>2, InHand
<1>4. j = [at |-> "idle", file |-> 1, fd |-> 0, old |-> {}, before |-> {}, left |-> {},
           known |-> {}, after |-> {}, records |-> {}]
  BY <1>2 DEF Begin, Idle
<1>5. job = [q \in Refreshers |-> job[q]]
  BY DEF MemoryInv
<1>6. \/ k = j /\ job' = job
      \/ /\ job' = [job EXCEPT ![r] = k]
         /\ k = [j EXCEPT !.at = "raw", !.before = h[State].data]
  <2>. DEFINE file == IF final[State] = 0 THEN Whole({}) ELSE content[final[State]]
  <2>1. file.data = h[State].data
    BY <1>2 DEF Disk, Held, Whole, Nothing, Files, State
  <2>2. job' = IF file.at = "whole"
               THEN [job EXCEPT ![r].at = "raw", ![r].before = file.data] ELSE job
    BY DEF Begin
  <2>. HIDE DEF file
  <2>. QED  BY <1>2, <1>4, <1>5, <2>1, <2>2
<1>7. CASE k = j /\ job' = job
  <2>1. job' = [job EXCEPT ![r] = k]
    BY <1>2, <1>5, <1>7
  <2>2. j = Idle
    BY <1>2 DEF Begin
  <2>3. IsJob(k) /\ AtTmp(tmp', content', k) /\ Hands(e, h, k) /\ Written(h, k)
    BY <1>7, <2>2, IdleHands
  <2>. QED  BY <1>1, <1>2, <1>3, <1>7, <2>1, <2>3, RefreshMoves
<1>8. CASE /\ job' = [job EXCEPT ![r] = k]
           /\ k = [j EXCEPT !.at = "raw", !.before = h[State].data]
  <2>1. k = [at |-> "raw", file |-> 1, fd |-> 0, old |-> {}, before |-> h[State].data, left |-> {},
             known |-> {}, after |-> {}, records |-> {}]
    BY <1>4, <1>8
  <2>2. IsJob(k) /\ AtTmp(tmp', content', k) /\ Written(h, k)
    BY <2>1 DEF IsJob, AtTmp, Written, Reading, Writing, Files, State
  <2>3. Hands(e, h, k)
    BY <2>1, FS_EmptySet DEF Hands, AreSnapshots, AreRecords, Covers, Apart
  <2>4. OfTheLast(j) /\ OfTheLast(k)
    BY <1>4, <2>1 DEF OfTheLast, Writing
  <2>5. stops = 0 => Agrees(h, k)
    BY <1>3, <2>1, <2>4 DEF Agrees, Current
  <2>6. grown /\ stops = 0 => Grows(e, l, h, k)
    BY <1>3, <2>1, <2>4 DEF Grows, OnBranch, Latest, Writing
  <2>. QED  BY <1>1, <1>2, <1>8, <2>2, <2>3, <2>5, <2>6, RefreshMoves
<1>. QED  BY <1>6, <1>7, <1>8

LEMMA ReadRawKeeps ==
  ASSUME MemoryInv, OneAtATime, NEW r \in Refreshers, ReadRaw(r)
  PROVE  MemoryInv'
<1>1. /\ Disk' = Disk /\ Names(final', tmp', content') /\ AreFiles(entries, Disk')
      /\ UNCHANGED <<sessionVars, stops, grown>> /\ fresh' = fresh
  <2>1. UNCHANGED <<sessionVars, diskVars>>
    BY DEF ReadRaw
  <2>. QED  BY <2>1, DiskStays DEF ReadRaw, notes
<1>2. PICK e, l, h, j, k : e = entries /\ l = leaf /\ h = Disk /\ j = job[r] /\ k = job'[r]
  OBVIOUS
<1>3. /\ Hands(e, h, j) /\ IsJob(j) /\ j.at = "raw"
      /\ stops = 0 => Agrees(h, j)
      /\ grown /\ stops = 0 => Grows(e, l, h, j) /\ gone = {}
      /\ ~fresh
  BY <1>2, InHand DEF ReadRaw
<1>. DEFINE unread == {s \in Sessions \ gone : Owned(e, s) # {}}
<1>4. /\ job' = [job EXCEPT ![r] = k]
      /\ k = [j EXCEPT !.at = "scan", !.old = h[Raw].data, !.left = unread]
  <2>1. /\ job = [q \in Refreshers |-> job[q]]
        /\ j = [at |-> j.at, file |-> j.file, fd |-> j.fd, old |-> j.old, before |-> j.before,
                left |-> j.left, known |-> j.known, after |-> j.after, records |-> j.records]
    BY <1>3 DEF MemoryInv, IsJob
  <2>2. (IF final[Raw] = 0 THEN {} ELSE content[final[Raw]].data) = h[Raw].data
    BY <1>2 DEF Disk, Held, Nothing, Files, Raw
  <2>3. {s \in Sessions \ gone : Of(s) # {}} = unread
    BY <1>2 DEF Of, Owned
  <2>4. job' = [job EXCEPT ![r].at = "scan", ![r].old = h[Raw].data, ![r].left = unread]
    BY <2>2, <2>3 DEF ReadRaw
  <2>. HIDE DEF unread
  <2>. QED  BY <1>2, <2>1, <2>4
<1>5. /\ k.at = "scan" /\ k.file = j.file /\ k.fd = j.fd /\ k.old = h[Raw].data
      /\ k.before = j.before /\ k.left = unread /\ k.known = j.known /\ k.after = j.after
      /\ k.records = j.records
      /\ k = [at |-> k.at, file |-> k.file, fd |-> k.fd, old |-> k.old, before |-> k.before,
              left |-> k.left, known |-> k.known, after |-> k.after, records |-> k.records]
  <2>. HIDE DEF unread
  <2>. QED  BY <1>3, <1>4 DEF IsJob
<1>6. k.after = {} /\ k.records = {} /\ k.before = h[State].data /\ k.file = State /\ k.fd = 0
  BY <1>3, <1>5 DEF Hands, IsJob, Reading
<1>7. IsJob(k) /\ AtTmp(tmp', content', k) /\ Written(h, k)
  BY <1>5, <1>6 DEF IsJob, AtTmp, Written, Reading, Writing, Files, State
<1>8. Hands(e, h, k)
  BY <1>5, <1>6, FS_EmptySet DEF Hands, AreSnapshots, AreRecords, Covers, Apart
<1>9. OfTheLast(j) /\ OfTheLast(k)
  BY <1>3, <1>5 DEF OfTheLast, Writing
<1>10. stops = 0 => Agrees(h, k)
  BY <1>3, <1>6, <1>9 DEF Agrees, Current
<1>11. ASSUME grown /\ stops = 0 PROVE Grows(e, l, h, k)
  <2>1. AreAll(e, SessionsOf(k.after) \cup k.left)
    BY <1>3, <1>5, <1>6, <1>11 DEF AreAll, SessionsOf
  <2>2. Retold(e, k)
    BY <1>6 DEF Retold, SessionsOf
  <2>. QED  BY <1>3, <1>5, <1>6, <1>9, <1>11, <2>1, <2>2 DEF Grows, OnBranch, Latest, Writing
<1>. QED  BY <1>1, <1>2, <1>3, <1>4, <1>7, <1>8, <1>10, <1>11, RefreshMoves

LEMMA ReadEntriesKeeps ==
  ASSUME MemoryInv, OneAtATime, NEW r \in Refreshers, ReadEntries(r)
  PROVE  MemoryInv'
<1>1. /\ Disk' = Disk /\ Names(final', tmp', content') /\ AreFiles(entries, Disk')
      /\ UNCHANGED <<sessionVars, stops, grown>> /\ fresh' = fresh
  <2>1. UNCHANGED <<sessionVars, diskVars>>
    BY DEF ReadEntries
  <2>. QED  BY <2>1, DiskStays DEF ReadEntries, notes
<1>2. PICK e, l, h, j, k : e = entries /\ l = leaf /\ h = Disk /\ j = job[r] /\ k = job'[r]
  OBVIOUS
<1>3. /\ Hands(e, h, j) /\ IsJob(j) /\ j.at = "scan"
      /\ stops = 0 => Agrees(h, j)
      /\ grown /\ stops = 0 => Grows(e, l, h, j) /\ gone = {}
      /\ ~fresh
  BY <1>2, InHand DEF ReadEntries
<1>4. PICK s \in j.left :
        job' = [job EXCEPT ![r].at = IF s \in gone THEN "scan" ELSE "leaf",
                           ![r].left = IF s \in gone THEN @ \ {s} ELSE @,
                           ![r].known = IF s \in gone THEN {} ELSE Of(s)]
  BY <1>2 DEF ReadEntries
<1>5. /\ job' = [job EXCEPT ![r] = k]
      /\ k.at = (IF s \in gone THEN "scan" ELSE "leaf") /\ k.file = j.file /\ k.fd = j.fd
      /\ k.old = j.old /\ k.before = j.before
      /\ k.left = (IF s \in gone THEN j.left \ {s} ELSE j.left)
      /\ k.known = (IF s \in gone THEN {} ELSE Owned(e, s))
      /\ k.after = j.after /\ k.records = j.records
      /\ k = [at |-> k.at, file |-> k.file, fd |-> k.fd, old |-> k.old, before |-> k.before,
              left |-> k.left, known |-> k.known, after |-> k.after, records |-> k.records]
  <2>1. /\ job = [q \in Refreshers |-> job[q]]
        /\ j = [at |-> j.at, file |-> j.file, fd |-> j.fd, old |-> j.old, before |-> j.before,
                left |-> j.left, known |-> j.known, after |-> j.after, records |-> j.records]
    BY <1>3 DEF MemoryInv, IsJob
  <2>2. Of(s) = Owned(e, s)
    BY <1>2 DEF Of, Owned
  <2>. QED  BY <1>2, <1>4, <2>1, <2>2
<1>6. /\ k.before = h[State].data /\ k.old = h[Raw].data /\ k.file = State /\ k.fd = 0
      /\ \A o \in j.left : o \in Sessions /\ Owned(e, o) # {}
      /\ \A p \in j.after : p.session \notin j.left
      /\ AreSnapshots(e, k.after) /\ AreRecords(e, k.records) /\ Covers(k.after, k.records)
  BY <1>3, <1>5 DEF Hands, IsJob, Reading
<1>7. IsJob(k) /\ AtTmp(tmp', content', k) /\ Written(h, k)
  BY <1>5, <1>6 DEF IsJob, AtTmp, Written, Reading, Writing, Files, State
<1>8. Hands(e, h, k)
  <2>1. CASE s \in gone
    BY <1>5, <1>6, <2>1 DEF Hands
  <2>2. CASE s \notin gone
    <3>1. k.known # {} /\ k.known \subseteq Owned(e, s) /\ s \in k.left
      BY <1>5, <1>6, <2>2
    <3>. QED  BY <1>5, <1>6, <2>2, <3>1 DEF Hands
  <2>. QED  BY <2>1, <2>2
<1>9. OfTheLast(j) /\ OfTheLast(k)
  BY <1>3, <1>5 DEF OfTheLast, Writing
<1>10. stops = 0 => Agrees(h, k)
  BY <1>3, <1>5, <1>9 DEF Agrees
<1>11. ASSUME grown /\ stops = 0 PROVE Grows(e, l, h, k)
  <2>1. k.at = "leaf" /\ k.left = j.left /\ k.known = Owned(e, s)
    BY <1>3, <1>5, <1>11
  <2>2. AreAll(e, SessionsOf(k.after) \cup k.left) /\ Retold(e, k)
    BY <1>3, <1>5, <1>11, <2>1 DEF Grows, Retold
  <2>3. \A o \in Sessions : k.known \cap Owned(e, o) # {} => k.known = Owned(e, o)
    BY <2>1 DEF Owned
  <2>. QED  BY <1>3, <1>5, <1>9, <1>11, <2>1, <2>2, <2>3 DEF Grows, Writing
<1>. QED  BY <1>1, <1>2, <1>3, <1>5, <1>7, <1>8, <1>10, <1>11, RefreshMoves

LEMMA SkipSessionKeeps ==
  ASSUME MemoryInv, OneAtATime, NEW r \in Refreshers, SkipSession(r)
  PROVE  MemoryInv'
<1>1. /\ Disk' = Disk /\ Names(final', tmp', content') /\ AreFiles(entries, Disk')
      /\ UNCHANGED <<sessionVars, stops>> /\ grown' = FALSE /\ fresh' = fresh
  <2>1. UNCHANGED <<sessionVars, diskVars>>
    BY DEF SkipSession
  <2>. QED  BY <2>1, DiskStays DEF SkipSession
<1>2. PICK e, h, j, k : e = entries /\ h = Disk /\ j = job[r] /\ k = job'[r]
  OBVIOUS
<1>3. Hands(e, h, j) /\ IsJob(j) /\ j.at = "scan" /\ (stops = 0 => Agrees(h, j)) /\ ~fresh
  BY <1>2, InHand DEF SkipSession
<1>4. PICK s \in j.left : job' = [job EXCEPT ![r].left = @ \ {s}]
  BY <1>2 DEF SkipSession
<1>5. /\ job' = [job EXCEPT ![r] = k]
      /\ k.at = "scan" /\ k.file = j.file /\ k.fd = j.fd /\ k.old = j.old /\ k.before = j.before
      /\ k.left = j.left \ {s} /\ k.known = j.known /\ k.after = j.after /\ k.records = j.records
      /\ k = [at |-> k.at, file |-> k.file, fd |-> k.fd, old |-> k.old, before |-> k.before,
              left |-> k.left, known |-> k.known, after |-> k.after, records |-> k.records]
  <2>1. /\ job = [q \in Refreshers |-> job[q]]
        /\ j = [at |-> j.at, file |-> j.file, fd |-> j.fd, old |-> j.old, before |-> j.before,
                left |-> j.left, known |-> j.known, after |-> j.after, records |-> j.records]
    BY <1>3 DEF MemoryInv, IsJob
  <2>. QED  BY <1>2, <1>3, <1>4, <2>1
<1>6. IsJob(k) /\ AtTmp(tmp', content', k) /\ Written(h, k) /\ Hands(e, h, k)
  BY <1>3, <1>5 DEF Hands, IsJob, AtTmp, Written, Reading, Writing
<1>7. stops = 0 => Agrees(h, k)
  BY <1>3, <1>5 DEF Agrees, OfTheLast, Writing
<1>. QED  BY <1>1, <1>2, <1>3, <1>5, <1>6, <1>7, RefreshMoves

\* The entry a session is taken to be at, of those that are known.
LEMMA LeafIsKnown ==
  ASSUME NEW e, NEW l, Trees(e, l), NEW s \in Sessions, NEW K, K # {}, K \subseteq Owned(e, s)
  PROVE  /\ e[Min(K)].session = s
         /\ Max(K) \in Owned(e, s)
         /\ l[s] \in Owned(e, s)
         /\ \A i \in Owned(e, s) : IsQueue(Path(e, i)) /\ On(e, i) \subseteq Owned(e, s)
<1>1. /\ Len(e) \in Nat /\ DOMAIN e = 1..Len(e) /\ 0 \notin DOMAIN e
      /\ \A i \in DOMAIN e : On(e, i) \subseteq Owned(e, e[i].session)
  BY PathsStay
<1>2. K \in SUBSET Nat /\ \A i \in K : i <= Len(e)
  BY <1>1 DEF Owned
<1>3. Min(K) \in K
  BY <1>2, LeastNumber DEF Min
<1>4. Max(K) \in K
  BY <1>1, <1>2, GreatestNumber DEF Max
<1>5. \A i \in K : e[i].session = s
  BY DEF Owned
<1>6. l[s] \in Owned(e, s)
  BY DEF Trees
<1>7. ASSUME NEW i \in Owned(e, s) PROVE IsQueue(Path(e, i)) /\ On(e, i) \subseteq Owned(e, s)
  <2>1. i \in DOMAIN e /\ e[i].session = s /\ i # 0
    BY <1>1 DEF Owned
  <2>. QED  BY <1>1, <2>1 DEF Trees, Path
<1>. QED  BY <1>3, <1>4, <1>5, <1>6, <1>7

\* The records of a session's branch.
LEMMA ExtractedTell ==
  ASSUME MemoryInv, NEW e, e = entries, NEW s \in Sessions, NEW at, NEW path, IsQueue(path),
         {path[i] : i \in DOMAIN path} \subseteq Owned(e, s)
  PROVE  LET X == Extracted(s, at, path)
         IN /\ AreRecords(e, X)
            /\ \A q \in X : q.session = s /\ q.from = at /\ q.entry \in {path[i] : i \in DOMAIN path}
            /\ \A i \in {path[k] : k \in DOMAIN path} : e[i].text # NoText => Tells(X, e[i].text)
<1>. DEFINE K == {path[k] : k \in DOMAIN path}
            J == {j \in K : e[j].text # NoText}
            f == [i \in J |-> [session |-> s, entry |-> i, text |-> e[i].text, from |-> at]]
            X == {f[i] : i \in J}
<1>1. Extracted(s, at, path) = X
  BY DEF Extracted
<1>2. \A i \in J : f[i].session = s /\ f[i].from = at /\ f[i].entry = i /\ f[i].text = e[i].text
  OBVIOUS
<1>3. IsFiniteSet(J)
  <2>1. Len(path) \in Nat /\ DOMAIN path = 1..Len(path)
    BY Queued
  <2>2. IsFiniteSet(1..Len(path))
    BY <2>1, FS_Interval
  <2>3. path = [k \in DOMAIN path |-> path[k]]
    <3>1. path \in [1..Len(path) -> K]
      BY LenProperties DEF IsQueue
    <3>. QED  BY <3>1
  <2>4. IsFiniteSet(K)
    BY <2>1, <2>2, <2>3, FiniteImage
  <2>. HIDE DEF K
  <2>. QED  BY <2>4, FS_Subset
<1>4. IsFiniteSet(X)
  <2>1. f = [x \in DOMAIN f |-> f[x]] /\ DOMAIN f = J
    OBVIOUS
  <2>. HIDE DEF f, J
  <2>. QED  BY <1>3, <2>1, FiniteImage
<1>5. \A i \in J : i \in K /\ i \in Owned(e, s) /\ e[i].text # NoText
  OBVIOUS
<1>. HIDE DEF f
<1>6. AreRecords(e, X)
  <2>1. Apart(X)
    BY <1>2 DEF Apart
  <2>2. \A q \in X : /\ q.session \in Sessions /\ q.entry \in Owned(e, q.session)
                     /\ q.text # NoText /\ q.text = e[q.entry].text
    <3>. HIDE DEF J
    <3>. QED  BY <1>2, <1>5
  <2>. HIDE DEF X
  <2>. QED  BY <1>4, <2>1, <2>2 DEF AreRecords
<1>7. \A q \in X : q.session = s /\ q.from = at /\ q.entry \in K
  BY <1>2, <1>5
<1>8. \A i \in K : e[i].text # NoText => Tells(X, e[i].text)
  BY <1>2 DEF Tells
<1>. QED  BY <1>1, <1>6, <1>7, <1>8

\* One more session has been looked at: with records X, those of last time for
\* an unchanged snapshot P, or those of its branch.
LEMMA OneMoreSession ==
  ASSUME NEW e, NEW l, Trees(e, l), NEW h, NEW j, Hands(e, h, j), AreFiles(e, h), j.at = "leaf",
         NEW s \in j.left, NEW P, P.session = s, P.leaf \in Owned(e, s),
         NEW X, AreRecords(e, X), \A q \in X : q.session = s,
         NEW k, k.at = "scan", k.old = j.old, k.before = j.before,
         k.left = j.left \ {s}, k.after = j.after \cup {P}, k.records = j.records \cup X
  PROVE  Hands(e, h, k)
<1>1. /\ AreSnapshots(e, j.after) /\ AreRecords(e, j.records) /\ Covers(j.after, j.records)
      /\ j.before = h[State].data /\ j.old = h[Raw].data
      /\ \A o \in j.left : o \in Sessions /\ Owned(e, o) # {}
      /\ \A p \in j.after : p.session \notin j.left
  BY DEF Hands, Reading
<1>2. AreSnapshots(e, k.after)
  <2>1. P.session \in Sessions /\ P.leaf \in DOMAIN e
    BY <1>1 DEF Owned
  <2>2. \A p \in j.after : p.session # P.session
    BY <1>1
  <2>. QED  BY <1>1, <2>1, <2>2 DEF AreSnapshots
<1>3. \A q \in j.records : q.session # s
  BY <1>1 DEF Covers
<1>4. AreRecords(e, k.records)
  <2>1. IsFiniteSet(k.records)
    <3>1. IsFiniteSet(j.records) /\ IsFiniteSet(X)
      BY <1>1 DEF AreRecords
    <3>2. IsFiniteSet(j.records \cup X)
      BY <3>1, FS_Union
    <3>. QED  BY <3>2
  <2>2. ASSUME NEW p \in k.records, NEW q \in k.records, p.entry = q.entry PROVE p = q
    <3>1. e[p.entry].session = p.session /\ e[q.entry].session = q.session
      BY <1>1 DEF AreRecords, Owned
    <3>2. p.session = q.session
      BY <2>2, <3>1
    <3>3. CASE p.session = s
      <4>1. p \in X /\ q \in X
        BY <1>3, <3>2, <3>3
      <4>. QED  BY <2>2, <4>1 DEF AreRecords, Apart
    <3>4. CASE p.session # s
      <4>1. p \in j.records /\ q \in j.records
        BY <3>2, <3>4
      <4>. QED  BY <1>1, <2>2, <4>1 DEF AreRecords, Apart
    <3>. QED  BY <3>3, <3>4
  <2>3. \A q \in k.records : /\ q.session \in Sessions /\ q.entry \in Owned(e, q.session)
                             /\ q.text # NoText /\ q.text = e[q.entry].text
    BY <1>1 DEF AreRecords
  <2>4. Apart(k.records)
    BY <2>2 DEF Apart
  <2>. QED  BY <2>1, <2>3, <2>4 DEF AreRecords
<1>5. Covers(k.after, k.records)
  BY <1>1 DEF Covers
<1>6. \A p \in k.after : p.session \notin k.left
  BY <1>1
<1>. QED  BY <1>1, <1>2, <1>4, <1>5, <1>6 DEF Hands, Reading

LEMMA ReadLeafKeeps ==
  ASSUME MemoryInv, OneAtATime, NEW r \in Refreshers, ReadLeaf(r)
  PROVE  MemoryInv'
<1>1. /\ Disk' = Disk /\ Names(final', tmp', content') /\ AreFiles(entries, Disk')
      /\ UNCHANGED <<sessionVars, stops, grown>> /\ fresh' = fresh
  <2>1. UNCHANGED <<sessionVars, diskVars>>
    BY DEF ReadLeaf
  <2>. QED  BY <2>1, DiskStays DEF ReadLeaf, notes
<1>2. PICK e, l, h, j, k : e = entries /\ l = leaf /\ h = Disk /\ j = job[r] /\ k = job'[r]
  OBVIOUS
<1>3. /\ Trees(e, l) /\ AreFiles(e, h) /\ Hands(e, h, j) /\ IsJob(j) /\ j.at = "leaf"
      /\ stops = 0 => Agrees(h, j)
      /\ grown /\ stops = 0 => Grows(e, l, h, j) /\ gone = {}
      /\ ~fresh
  BY <1>2, InHand DEF ReadLeaf
<1>4. PICK s \in j.left : j.known # {} /\ j.known \subseteq Owned(e, s)
  BY <1>3 DEF Hands
<1>5. s \in Sessions /\ \A o \in j.left : o \in Sessions /\ Owned(e, o) # {}
  BY <1>3 DEF Hands
<1>6. /\ e[Min(j.known)].session = s /\ Max(j.known) \in Owned(e, s) /\ l[s] \in Owned(e, s)
      /\ \A i \in Owned(e, s) : IsQueue(Path(e, i)) /\ On(e, i) \subseteq Owned(e, s)
  BY <1>3, <1>4, <1>5, LeafIsKnown
<1>7. PICK at, path :
        /\ at = IF s \in gone THEN Max(j.known) ELSE l[s]
        /\ path = IF at \in j.known THEN Path(e, at) ELSE <<>>
  OBVIOUS
<1>8. at \in Owned(e, s)
  BY <1>6, <1>7
<1>9. IsQueue(path) /\ {path[i] : i \in DOMAIN path} \subseteq Owned(e, s)
  <2>1. CASE at \in j.known
    BY <1>6, <1>7, <1>8, <2>1 DEF On
  <2>2. CASE at \notin j.known
    <3>1. <<>> \in Seq({}) /\ DOMAIN <<>> = {}
      BY EmptySeq
    <3>2. path = <<>> /\ IsQueue(<<>>)
      BY <1>7, <2>2, <3>1, SeqIsQueue
    <3>. QED  BY <3>1, <3>2
  <2>. QED  BY <2>1, <2>2
<1>10. PICK P, X : /\ P = Processed(s, at, path)
                   /\ X = IF Reuses(r, s, at, path) THEN {q \in j.old : q.session = s}
                          ELSE Extracted(s, at, path)
  OBVIOUS
<1>11. P.session = s /\ P.leaf = at
  BY <1>10 DEF Processed
<1>12. /\ job' = [job EXCEPT ![r] = k]
       /\ k.at = "scan" /\ k.file = j.file /\ k.fd = j.fd /\ k.old = j.old /\ k.before = j.before
       /\ k.left = j.left \ {s} /\ k.known = {} /\ k.after = j.after \cup {P}
       /\ k.records = j.records \cup X
       /\ k = [at |-> k.at, file |-> k.file, fd |-> k.fd, old |-> k.old, before |-> k.before,
               left |-> k.left, known |-> k.known, after |-> k.after, records |-> k.records]
  <2>1. /\ job = [q \in Refreshers |-> job[q]]
        /\ j = [at |-> j.at, file |-> j.file, fd |-> j.fd, old |-> j.old, before |-> j.before,
                left |-> j.left, known |-> j.known, after |-> j.after, records |-> j.records]
    BY <1>3 DEF MemoryInv, IsJob
  <2>2. \A i : PathTo(i) = Path(e, i)
    BY <1>2 DEF PathTo, Path
  <2>3. job' = [job EXCEPT ![r].at = "scan", ![r].left = @ \ {s}, ![r].known = {},
                           ![r].after = @ \cup {P}, ![r].records = @ \cup X]
    <3>1. entries[Min(job[r].known)].session = s
      BY <1>2, <1>6
    <3>2. at = IF s \in gone THEN Max(job[r].known) ELSE leaf[s]
      BY <1>2, <1>7
    <3>3. path = IF at \in job[r].known THEN PathTo(at) ELSE <<>>
      BY <1>2, <1>7, <2>2
    <3>4. X = IF Reuses(r, s, at, path) THEN {q \in job[r].old : q.session = s}
              ELSE Extracted(s, at, path)
      BY <1>2, <1>10
    <3>. QED  BY <1>10, <3>1, <3>2, <3>3, <3>4 DEF ReadLeaf
  <2>. QED  BY <1>2, <2>1, <2>3
\* The records come from last time, with their snapshot, or from the branch.
<1>13. \/ /\ P \in h[State].data /\ X = {q \in h[Raw].data : q.session = s}
       \/ X = Extracted(s, at, path)
  BY <1>2, <1>3, <1>10 DEF Reuses, Hands, Reading
<1>14. /\ AreRecords(e, Extracted(s, at, path))
       /\ \A q \in Extracted(s, at, path) :
            q.session = s /\ q.from = at /\ q.entry \in {path[i] : i \in DOMAIN path}
       /\ \A i \in {path[a] : a \in DOMAIN path} :
            e[i].text # NoText => Tells(Extracted(s, at, path), e[i].text)
  BY <1>2, <1>5, <1>9, ExtractedTell
<1>15. AreRecords(e, X) /\ \A q \in X : q.session = s
  <2>1. CASE X = {q \in h[Raw].data : q.session = s}
    <3>1. AreRecords(e, h[Raw].data) /\ X \subseteq h[Raw].data
      BY <1>3, <2>1 DEF AreFiles
    <3>2. IsFiniteSet(X)
      BY <3>1, FS_Subset DEF AreRecords
    <3>. QED  BY <2>1, <3>1, <3>2 DEF AreRecords, Apart
  <2>. QED  BY <1>13, <1>14, <2>1
<1>16. Hands(e, h, k)
  BY <1>3, <1>8, <1>11, <1>12, <1>15, OneMoreSession
<1>17. k.file = State /\ k.fd = 0
  BY <1>3, <1>12 DEF IsJob, Reading
<1>18. IsJob(k) /\ AtTmp(tmp', content', k) /\ Written(h, k)
  BY <1>12, <1>17 DEF IsJob, AtTmp, Written, Reading, Writing, Files, State
<1>19. OfTheLast(j) /\ OfTheLast(k)
  BY <1>3, <1>12 DEF OfTheLast, Writing
<1>20. ASSUME stops = 0 PROVE Agrees(h, k)
  <2>1. Current(j.after, j.records) /\ Current(h[State].data, h[Raw].data)
    BY <1>3, <1>19, <1>20 DEF Agrees
  <2>2. ASSUME NEW q \in X PROVE q.from = at
    <3>1. CASE P \in h[State].data /\ X = {p \in h[Raw].data : p.session = s}
      <4>1. PICK p \in h[State].data : p.session = q.session /\ p.leaf = q.from
        BY <2>1, <3>1 DEF Current
      <4>2. p = P
        BY <1>3, <1>11, <1>15, <3>1, <4>1 DEF AreFiles, AreSnapshots
      <4>. QED  BY <1>11, <4>1, <4>2
    <3>. QED  BY <1>13, <1>14, <3>1
  <2>3. Current(k.after, k.records)
    BY <1>11, <1>12, <1>15, <2>1, <2>2 DEF Current
  <2>. QED  BY <2>1, <2>3 DEF Agrees
<1>21. ASSUME grown /\ stops = 0 PROVE Grows(e, l, h, k)
  <2>1. /\ Grows(e, l, h, j) /\ gone = {}
        /\ OnBranch(e, l, h[Raw].data) /\ Complete(e, h[State].data, h[Raw].data)
        /\ j.known = Owned(e, s)
    <3>1. Grows(e, l, h, j) /\ gone = {}
      BY <1>3, <1>21
    <3>2. j.known \cap Owned(e, s) # {}
      BY <1>4
    <3>. QED  BY <1>3, <1>5, <1>19, <3>1, <3>2 DEF Grows
  <2>2. at = l[s] /\ path = Path(e, at) /\ {path[i] : i \in DOMAIN path} = On(e, at)
    <3>1. at = l[s] /\ at \in j.known
      BY <1>7, <1>8, <2>1
    <3>. QED  BY <1>7, <3>1 DEF On
  <2>3. OnBranch(e, l, X)
    <3>1. CASE X = {q \in h[Raw].data : q.session = s}
      BY <2>1, <3>1 DEF OnBranch
    <3>2. CASE X = Extracted(s, at, path)
      BY <1>14, <2>2, <3>2 DEF OnBranch
    <3>. QED  BY <1>13, <3>1, <3>2
  <2>4. OnBranch(e, l, k.records) /\ Latest(l, k.after)
    BY <1>11, <1>12, <2>1, <2>2, <2>3 DEF Grows, OnBranch, Latest
  <2>5. SessionsOf(k.after) = SessionsOf(j.after) \cup {s}
    BY <1>11, <1>12 DEF SessionsOf
  <2>6. AreAll(e, SessionsOf(k.after) \cup k.left)
    <3>1. AreAll(e, SessionsOf(j.after) \cup j.left)
      BY <1>3, <2>1 DEF Grows
    <3>2. SessionsOf(k.after) \cup k.left = SessionsOf(j.after) \cup j.left
      BY <1>12, <2>5
    <3>. QED  BY <3>1, <3>2
  <2>7. Retold(e, j) /\ j.old = h[Raw].data
    BY <1>3, <2>1 DEF Grows, Hands
  <2>8. \A text : Tells(j.records, text) \/ Tells(X, text) => Tells(k.records, text)
    BY <1>12 DEF Tells
  <2>9. ASSUME NEW q \in k.old, q.session \in SessionsOf(k.after) PROVE Tells(k.records, q.text)
    <3>1. CASE q.session # s
      BY <1>12, <2>5, <2>7, <2>8, <2>9, <3>1 DEF Retold
    <3>2. CASE q.session = s
      <4>1. q \in h[Raw].data
        BY <1>12, <2>7
      <4>2. CASE X = {p \in h[Raw].data : p.session = s}
        <5>1. q \in X
          BY <3>2, <4>1, <4>2
        <5>. QED  BY <2>8, <5>1 DEF Tells
      <4>3. CASE X = Extracted(s, at, path)
        <5>1. q.entry \in On(e, at) /\ q.text # NoText /\ q.text = e[q.entry].text
          BY <1>3, <2>1, <2>2, <3>2, <4>1 DEF OnBranch, AreFiles, AreRecords
        <5>2. Tells(X, e[q.entry].text)
          BY <1>14, <2>2, <4>3, <5>1
        <5>. QED  BY <2>8, <5>1, <5>2
      <4>. QED  BY <1>13, <4>2, <4>3
    <3>. QED  BY <3>1, <3>2
  <2>10. ASSUME Cardinality(j.old) # MaxRecords, NEW text \in TextsOn(e, P.leaf)
         PROVE  Tells(X, text) \/ Tells(j.old, text)
    <3>1. CASE P \in h[State].data
      BY <2>1, <2>7, <2>10, <3>1 DEF Complete
    <3>2. CASE X = Extracted(s, at, path)
      <4>1. PICK i \in On(e, at) : text = e[i].text /\ text # NoText
        BY <1>11 DEF TextsOn
      <4>. QED  BY <1>14, <2>2, <3>2, <4>1
    <3>. QED  BY <1>13, <3>1, <3>2
  <2>11. Retold(e, k)
    <3>1. CASE Cardinality(j.old) = MaxRecords
      BY <1>12, <2>9, <3>1 DEF Retold
    <3>2. CASE Cardinality(j.old) # MaxRecords
      <4>1. \A p \in j.after : \A text \in TextsOn(e, p.leaf) :
              Tells(j.records, text) \/ Tells(j.old, text)
        BY <2>7, <3>2 DEF Retold
      <4>2. \A p \in k.after : \A text \in TextsOn(e, p.leaf) :
              Tells(k.records, text) \/ Tells(k.old, text)
        BY <1>12, <2>8, <2>10, <3>2, <4>1
      <4>. QED  BY <2>9, <4>2 DEF Retold
    <3>. QED  BY <3>1, <3>2
  <2>. QED  BY <1>12, <2>1, <2>4, <2>6, <2>11 DEF Grows, Writing
<1>. QED  BY <1>1, <1>2, <1>3, <1>12, <1>16, <1>18, <1>20, <1>21, RefreshMoves

LEMMA ConcludeKeeps ==
  ASSUME MemoryInv, OneAtATime, NEW r \in Refreshers, Conclude(r)
  PROVE  MemoryInv'
<1>1. /\ Disk' = Disk /\ Names(final', tmp', content') /\ AreFiles(entries, Disk')
      /\ UNCHANGED <<sessionVars, stops, grown>> /\ fresh' = fresh
  <2>1. UNCHANGED <<sessionVars, diskVars>>
    BY DEF Conclude
  <2>. QED  BY <2>1, DiskStays DEF Conclude, notes
<1>2. PICK e, l, h, j, k : e = entries /\ l = leaf /\ h = Disk /\ j = job[r] /\ k = job'[r]
  OBVIOUS
<1>3. /\ Trees(e, l) /\ AreFiles(e, h) /\ Hands(e, h, j) /\ IsJob(j)
      /\ j.at = "scan" /\ j.left = {}
      /\ stops = 0 => Agrees(h, j)
      /\ grown /\ stops = 0 => Grows(e, l, h, j) /\ gone = {}
      /\ ~fresh
  BY <1>2, InHand DEF Conclude
<1>4. PICK D : D = DedupeAndCap(j.records)
  OBVIOUS
<1>5. /\ job' = [job EXCEPT ![r] = k]
      /\ k.at = "create" /\ k.file = j.file /\ k.fd = j.fd /\ k.old = {} /\ k.before = {}
      /\ k.left = j.left /\ k.known = j.known /\ k.after = j.after /\ k.records = D
      /\ k = [at |-> k.at, file |-> k.file, fd |-> k.fd, old |-> k.old, before |-> k.before,
              left |-> k.left, known |-> k.known, after |-> k.after, records |-> k.records]
  <2>1. /\ job = [q \in Refreshers |-> job[q]]
        /\ j = [at |-> j.at, file |-> j.file, fd |-> j.fd, old |-> j.old, before |-> j.before,
                left |-> j.left, known |-> j.known, after |-> j.after, records |-> j.records]
    BY <1>3 DEF MemoryInv, IsJob
  <2>2. job' = [job EXCEPT ![r].at = "create", ![r].before = {}, ![r].old = {}, ![r].records = D]
    BY <1>2, <1>4 DEF Conclude
  <2>. QED  BY <1>2, <2>1, <2>2
<1>6. /\ AreSnapshots(e, j.after) /\ AreRecords(e, j.records) /\ Covers(j.after, j.records)
      /\ j.old = h[Raw].data /\ j.file = State /\ j.fd = 0
  BY <1>3 DEF Hands, IsJob, Reading
<1>7. /\ D \subseteq j.records /\ Deduped(D)
      /\ Cardinality(D) = MaxRecords \/ \A q \in j.records : Tells(D, q.text)
      /\ \A O : IsFiniteSet(O) /\ Deduped(O) /\ Cardinality(O) = MaxRecords
                  /\ (\A q \in O : Tells(j.records, q.text)) => Cardinality(D) = MaxRecords
  <2>1. Len(e) \in Nat /\ DOMAIN e = 1..Len(e)
    BY <1>3, PathsStay
  <2>2. \A q \in j.records : q.entry \in 1..Len(e)
    BY <1>6, <2>1 DEF AreRecords, Owned
  <2>. QED  BY <1>4, <1>6, <2>1, <2>2, Capped DEF AreRecords
<1>8. AreRecords(e, D)
  <2>1. IsFiniteSet(D)
    BY <1>6, <1>7, FS_Subset DEF AreRecords
  <2>. QED  BY <1>6, <1>7, <2>1 DEF AreRecords, Apart
<1>9. IsJob(k) /\ AtTmp(tmp', content', k) /\ OfTheLast(j) /\ OfTheLast(k)
  BY <1>3, <1>5, <1>6 DEF IsJob, AtTmp, OfTheLast, Reading, Writing, Files, State
<1>10. Written(h, k)
  BY <1>5, <1>6, <1>7 DEF Written, Files, State
<1>11. Hands(e, h, k)
  BY <1>5, <1>6, <1>7, <1>8 DEF Hands, Covers, Reading
<1>12. stops = 0 => Agrees(h, k)
  BY <1>3, <1>5, <1>7, <1>9 DEF Agrees, Current
<1>13. ASSUME grown /\ stops = 0 PROVE Grows(e, l, h, k)
  <2>1. /\ OnBranch(e, l, h[Raw].data) /\ Complete(e, h[State].data, h[Raw].data)
        /\ OnBranch(e, l, j.records) /\ Latest(l, j.after)
        /\ AreAll(e, SessionsOf(j.after)) /\ Retold(e, j)
    <3>1. AreAll(e, SessionsOf(j.after) \cup j.left) /\ SessionsOf(j.after) \cup j.left = SessionsOf(j.after)
      BY <1>3, <1>13 DEF Grows
    <3>. QED  BY <1>3, <1>9, <1>13, <3>1 DEF Grows
  <2>2. \A q \in j.old : Tells(j.records, q.text)
    <3>1. \A q \in j.old : q.session \in Sessions /\ Owned(e, q.session) # {}
      BY <1>3, <1>6 DEF AreFiles, AreRecords
    <3>2. \A q \in j.old : q.session \in SessionsOf(j.after)
      BY <2>1, <3>1 DEF AreAll
    <3>. QED  BY <2>1, <3>2 DEF Retold
  <2>3. Complete(e, j.after, D)
    <3>1. CASE Cardinality(j.old) = MaxRecords
      <4>1. IsFiniteSet(j.old) /\ Deduped(j.old)
        BY <1>3, <1>6 DEF AreFiles, AreRecords
      <4>2. Cardinality(D) = MaxRecords
        BY <1>7, <2>2, <3>1, <4>1
      <4>. QED  BY <4>2 DEF Complete
    <3>2. CASE Cardinality(j.old) # MaxRecords
      <4>1. \A p \in j.after : \A text \in TextsOn(e, p.leaf) : Tells(j.records, text)
        <5>1. \A text : Tells(j.old, text) => Tells(j.records, text)
          BY <2>2 DEF Tells
        <5>. QED  BY <2>1, <3>2, <5>1 DEF Retold
      <4>2. \A text : Tells(j.records, text) => Cardinality(D) = MaxRecords \/ Tells(D, text)
        BY <1>7 DEF Tells
      <4>. QED  BY <4>1, <4>2 DEF Complete
    <3>. QED  BY <3>1, <3>2
  <2>4. OnBranch(e, l, D)
    BY <1>7, <2>1 DEF OnBranch
  <2>. QED  BY <1>5, <2>1, <2>3, <2>4 DEF Grows
<1>. QED  BY <1>1, <1>2, <1>3, <1>5, <1>9, <1>10, <1>11, <1>12, <1>13, RefreshMoves

-----------------------------------------------------------------------------
(***************************************************************************)
(* A refresh writes, or is stopped                                         *)
(***************************************************************************)

\* There is an inode that no name stands for.
LEMMA FreeIsFree ==
  ASSUME MemoryInv, OneAtATime, NEW r \in Refreshers
  PROVE  Free \in Inodes /\ \A f \in Files : final[f] # Free /\ tmp[f] # Free
<1>. DEFINE A == {final[f] : f \in Files}
            B == {tmp[f] : f \in Files}
            C == {job[q].fd : q \in Refreshers}
<1>0. ASSUME NEW n \in Nat PROVE IsFiniteSet(1..n) /\ Cardinality(1..n) = n
  <2>1. IsFiniteSet(1..n) /\ Cardinality(1..n) = IF 1 > n THEN 0 ELSE n - 1 + 1
    BY FS_Interval
  <2>. QED  BY <2>1
<1>1. IsFiniteSet(Files) /\ Cardinality(Files) = 4
  BY <1>0 DEF Files
<1>2. Refreshers = {r} /\ Cardinality(Refreshers) = 1
  <2>1. Refreshers = {r}
    BY DEF OneAtATime
  <2>. QED  BY <2>1, FS_Singleton
<1>3. Inodes = 1..10 /\ IsFiniteSet(Inodes) /\ Cardinality(Inodes) = 10
  <2>1. Inodes = 1..10
    BY <1>1, <1>2 DEF Inodes
  <2>2. IsFiniteSet(1..10) /\ Cardinality(1..10) = 10
    BY <1>0
  <2>. QED  BY <2>1, <2>2
<1>4. /\ final = [f \in DOMAIN final |-> final[f]] /\ DOMAIN final = Files
      /\ tmp = [f \in DOMAIN tmp |-> tmp[f]] /\ DOMAIN tmp = Files
  BY DEF MemoryInv, Names
<1>5. IsFiniteSet(A) /\ Cardinality(A) \in Nat /\ Cardinality(A) <= 4
  BY <1>1, <1>4, FiniteImage
<1>6. IsFiniteSet(B) /\ Cardinality(B) \in Nat /\ Cardinality(B) <= 4
  BY <1>1, <1>4, FiniteImage
<1>7. IsFiniteSet(C) /\ Cardinality(C) = 1
  <2>1. C = {job[r].fd}
    BY <1>2
  <2>. HIDE DEF C
  <2>. QED  BY <2>1, FS_Singleton
<1>. HIDE DEF A, B, C
<1>8. IsFiniteSet(A \cup B) /\ Cardinality(A \cup B) \in Nat /\ Cardinality(A \cup B) <= 8
  <2>1. IsFiniteSet(A \cup B)
        /\ Cardinality(A \cup B) = Cardinality(A) + Cardinality(B) - Cardinality(A \cap B)
    BY <1>5, <1>6, FS_Union
  <2>2. Cardinality(A \cap B) \in Nat /\ Cardinality(A \cup B) \in Nat
    BY <1>5, <2>1, FS_Subset, FS_CardinalityType
  <2>. QED  BY <1>5, <1>6, <2>1, <2>2
<1>9. IsFiniteSet(A \cup B \cup C) /\ Cardinality(A \cup B \cup C) <= 9
  <2>. DEFINE S == A \cup B
  <2>1. IsFiniteSet(S) /\ Cardinality(S) \in Nat /\ Cardinality(S) <= 8
    BY <1>8
  <2>. HIDE DEF S
  <2>2. IsFiniteSet(S \cup C)
        /\ Cardinality(S \cup C) = Cardinality(S) + Cardinality(C) - Cardinality(S \cap C)
    BY <1>7, <2>1, FS_Union
  <2>3. Cardinality(S \cap C) \in Nat /\ Cardinality(S \cup C) \in Nat
    BY <2>1, <2>2, FS_Subset, FS_CardinalityType
  <2>4. Cardinality(S \cup C) <= 9
    BY <1>7, <2>1, <2>2, <2>3
  <2>. QED  BY <2>2, <2>4 DEF S
<1>10. Inodes \ (A \cup B \cup C) # {}
  <2>1. ASSUME Inodes \subseteq A \cup B \cup C PROVE FALSE
    <3>1. Cardinality(Inodes) <= Cardinality(A \cup B \cup C)
      BY <1>9, <2>1, FS_Subset
    <3>2. Cardinality(A \cup B \cup C) \in Nat
      BY <1>9, FS_CardinalityType
    <3>. QED  BY <1>3, <1>9, <3>1, <3>2
  <2>. QED  BY <2>1
<1>11. Free \in Inodes \ (A \cup B \cup C)
  <2>. DEFINE T == Inodes \ (A \cup B \cup C)
  <2>1. T \in SUBSET Nat /\ T # {}
    BY <1>3, <1>10
  <2>2. Free = Min(T)
    BY DEF Free, A, B, C
  <2>3. \E x \in T : \A y \in T : x <= y
    <3>. HIDE DEF T
    <3>. QED  BY <2>1, LeastNumber
  <2>4. Min(T) \in T
    <3>. HIDE DEF T
    <3>. QED  BY <2>3 DEF Min
  <2>. QED  BY <2>2, <2>4
<1>. QED  BY <1>11 DEF A, B

LEMMA CreateTmpKeeps ==
  ASSUME MemoryInv, OneAtATime, NEW r \in Refreshers, CreateTmp(r)
  PROVE  MemoryInv'
<1>1. /\ UNCHANGED <<sessionVars, stops, grown>> /\ fresh' = fresh /\ final' = final
  BY DEF CreateTmp, notes
<1>2. PICK e, l, h, j, k : e = entries /\ l = leaf /\ h = Disk /\ j = job[r] /\ k = job'[r]
  OBVIOUS
<1>3. /\ Names(final, tmp, content) /\ AreFiles(e, h) /\ Hands(e, h, j) /\ Written(h, j)
      /\ IsJob(j) /\ j.at = "create"
      /\ stops = 0 => Agrees(h, j)
      /\ grown /\ stops = 0 => Grows(e, l, h, j) /\ gone = {}
      /\ ~fresh
  BY <1>2, InHand DEF CreateTmp
<1>4. PICK inode : inode = IF tmp[j.file] = 0 THEN Free ELSE tmp[j.file]
  OBVIOUS
<1>5. j.file \in Files /\ 0 \notin Inodes
  BY <1>3 DEF IsJob, Inodes
<1>6. /\ inode \in Inodes /\ \A f \in Files : final[f] # inode /\ (f # j.file => tmp[f] # inode)
  <2>1. Free \in Inodes /\ \A f \in Files : final[f] # Free /\ tmp[f] # Free
    BY FreeIsFree
  <2>2. CASE tmp[j.file] = 0
    BY <1>4, <2>1, <2>2
  <2>3. CASE tmp[j.file] # 0
    BY <1>3, <1>4, <1>5, <2>3 DEF Names
  <2>. QED  BY <2>2, <2>3
<1>7. /\ tmp' = [tmp EXCEPT ![j.file] = inode] /\ content' = [content EXCEPT ![inode] = Nothing]
      /\ job' = [job EXCEPT ![r].at = "write", ![r].fd = inode]
  BY <1>2, <1>4 DEF CreateTmp
<1>8. /\ job' = [job EXCEPT ![r] = k]
      /\ k.at = "write" /\ k.file = j.file /\ k.fd = inode /\ k.old = j.old /\ k.before = j.before
      /\ k.left = j.left /\ k.known = j.known /\ k.after = j.after /\ k.records = j.records
      /\ k = [at |-> k.at, file |-> k.file, fd |-> k.fd, old |-> k.old, before |-> k.before,
              left |-> k.left, known |-> k.known, after |-> k.after, records |-> k.records]
  <2>1. /\ job = [q \in Refreshers |-> job[q]]
        /\ j = [at |-> j.at, file |-> j.file, fd |-> j.fd, old |-> j.old, before |-> j.before,
                left |-> j.left, known |-> j.known, after |-> j.after, records |-> j.records]
    BY <1>3 DEF MemoryInv, IsJob
  <2>. QED  BY <1>2, <1>7, <2>1
<1>9. /\ tmp'[j.file] = inode /\ content'[inode] = Nothing
      /\ \A f \in Files : f # j.file => tmp'[f] = tmp[f]
      /\ \A i \in Inodes : i # inode => content'[i] = content[i]
  BY <1>3, <1>5, <1>6, <1>7 DEF Names
<1>10. Names(final', tmp', content')
  <2>1. tmp' \in [Files -> {0} \cup Inodes] /\ content' = [i \in Inodes |-> content'[i]]
    BY <1>3, <1>5, <1>6, <1>7 DEF Names
  <2>2. \A f, g \in Files : final[f] # 0 => final[f] # tmp'[g] /\ (f # g => final[f] # final[g])
    BY <1>3, <1>5, <1>6, <1>9 DEF Names
  <2>3. \A f, g \in Files : tmp'[f] # 0 /\ f # g => tmp'[f] # tmp'[g]
    BY <1>3, <1>5, <1>6, <1>9 DEF Names
  <2>4. \A f \in Files : final[f] # 0 => content'[final[f]].at = "whole"
    BY <1>3, <1>6, <1>9 DEF Names
  <2>. QED  BY <1>1, <1>3, <2>1, <2>2, <2>3, <2>4 DEF Names
<1>11. Disk' = Disk
  <2>1. \A f \in Files : final[f] # 0 => content'[final[f]] = content[final[f]]
    BY <1>3, <1>6, <1>9 DEF Names
  <2>2. \A f \in Files : Held(f)' = Held(f)
    BY <1>1, <2>1 DEF Held
  <2>. QED  BY <2>2 DEF Disk
<1>12. IsJob(k) /\ AtTmp(tmp', content', k)
  BY <1>3, <1>5, <1>6, <1>8, <1>9 DEF IsJob, AtTmp, Reading, Writing
<1>13. Hands(e, h, k) /\ Written(h, k)
  BY <1>3, <1>8 DEF Hands, Written, New, Reading, Writing
<1>14. stops = 0 => Agrees(h, k)
  BY <1>3, <1>8 DEF Agrees, OfTheLast, Writing
<1>15. grown /\ stops = 0 => Grows(e, l, h, k)
  BY <1>3, <1>8 DEF Grows, OfTheLast, Writing
<1>. QED  BY <1>1, <1>2, <1>3, <1>8, <1>10, <1>11, <1>12, <1>13, <1>14, <1>15, RefreshMoves

LEMMA WriteTmpKeeps ==
  ASSUME MemoryInv, OneAtATime, NEW r \in Refreshers, WriteTmp(r)
  PROVE  MemoryInv'
<1>1. /\ UNCHANGED <<sessionVars, stops, grown>> /\ fresh' = fresh /\ final' = final /\ tmp' = tmp
  BY DEF WriteTmp, notes
<1>2. PICK e, l, h, j, k : e = entries /\ l = leaf /\ h = Disk /\ j = job[r] /\ k = job'[r]
  OBVIOUS
<1>3. /\ Names(final, tmp, content) /\ AreFiles(e, h) /\ Hands(e, h, j) /\ Written(h, j)
      /\ IsJob(j) /\ AtTmp(tmp, content, j) /\ j.at = "write"
      /\ stops = 0 => Agrees(h, j)
      /\ grown /\ stops = 0 => Grows(e, l, h, j) /\ gone = {}
      /\ ~fresh
  BY <1>2, InHand DEF WriteTmp
<1>4. /\ j.file \in Files /\ tmp[j.file] # 0 /\ j.fd = tmp[j.file] /\ content[j.fd] = Nothing
      /\ tmp[j.file] \in Inodes
  BY <1>3 DEF IsJob, AtTmp, Names
<1>5. content' = [content EXCEPT ![j.fd] = Whole(New(j, j.file))]
  <2>1. PICK c \in Overlaid(j.file, New(j, j.file), content[j.fd]) :
          content' = [content EXCEPT ![j.fd] = c]
    BY <1>2 DEF WriteTmp, New
  <2>2. c = Whole(New(j, j.file))
    BY <1>4 DEF Overlaid, Nothing
  <2>. QED  BY <2>1, <2>2
<1>6. /\ job' = [job EXCEPT ![r] = k]
      /\ k.at = "rename" /\ k.file = j.file /\ k.fd = 0 /\ k.old = j.old /\ k.before = j.before
      /\ k.left = j.left /\ k.known = j.known /\ k.after = j.after /\ k.records = j.records
      /\ k = [at |-> k.at, file |-> k.file, fd |-> k.fd, old |-> k.old, before |-> k.before,
              left |-> k.left, known |-> k.known, after |-> k.after, records |-> k.records]
  <2>1. /\ job = [q \in Refreshers |-> job[q]]
        /\ j = [at |-> j.at, file |-> j.file, fd |-> j.fd, old |-> j.old, before |-> j.before,
                left |-> j.left, known |-> j.known, after |-> j.after, records |-> j.records]
    BY <1>3 DEF MemoryInv, IsJob
  <2>2. job' = [job EXCEPT ![r].at = "rename", ![r].fd = 0]
    BY DEF WriteTmp
  <2>. QED  BY <1>2, <2>1, <2>2
<1>7. /\ content'[tmp[j.file]] = Whole(New(j, j.file))
      /\ \A i \in Inodes : i # tmp[j.file] => content'[i] = content[i]
      /\ content' = [i \in Inodes |-> content'[i]]
  BY <1>3, <1>4, <1>5 DEF Names
<1>8. Names(final', tmp', content')
  <2>1. \A f \in Files : final'[f] # 0 => content'[final'[f]].at = "whole"
    <3>1. \A f \in Files : final[f] # 0 => final[f] \in Inodes /\ final[f] # tmp[j.file]
      BY <1>3, <1>4 DEF Names
    <3>2. \A f \in Files : final[f] # 0 => content[final[f]].at = "whole"
      BY <1>3 DEF Names
    <3>. QED  BY <1>1, <1>7, <3>1, <3>2
  <2>. QED  BY <1>1, <1>3, <1>7, <2>1 DEF Names
<1>9. Disk' = Disk
  <2>1. \A f \in Files : final[f] # 0 => content'[final[f]] = content[final[f]]
    BY <1>3, <1>4, <1>7 DEF Names
  <2>2. \A f \in Files : Held(f)' = Held(f)
    BY <1>1, <2>1 DEF Held
  <2>. QED  BY <2>2 DEF Disk
<1>10. IsJob(k) /\ AtTmp(tmp', content', k)
  <2>1. New(k, k.file) = New(j, j.file)
    BY <1>6 DEF New
  <2>. QED  BY <1>1, <1>3, <1>4, <1>6, <1>7, <2>1 DEF IsJob, AtTmp, Reading, Writing
<1>11. Hands(e, h, k) /\ Written(h, k)
  BY <1>3, <1>6 DEF Hands, Written, New, Reading, Writing
<1>12. stops = 0 => Agrees(h, k)
  BY <1>3, <1>6 DEF Agrees, OfTheLast, Writing
<1>13. grown /\ stops = 0 => Grows(e, l, h, k)
  BY <1>3, <1>6 DEF Grows, OfTheLast, Writing
<1>. QED  BY <1>1, <1>2, <1>3, <1>6, <1>8, <1>9, <1>10, <1>11, <1>12, <1>13, RefreshMoves

LEMMA RenameKeeps ==
  ASSUME MemoryInv, OneAtATime, NEW r \in Refreshers, Rename(r)
  PROVE  MemoryInv'
<1>1. /\ UNCHANGED <<sessionVars, stops, grown>> /\ content' = content
  BY DEF Rename
<1>2. PICK e, l, h, g, j, k : /\ e = entries /\ l = leaf /\ h = Disk /\ g = Disk'
                              /\ j = job[r] /\ k = job'[r]
  OBVIOUS
<1>3. /\ Names(final, tmp, content) /\ AreFiles(e, h) /\ Hands(e, h, j) /\ Written(h, j)
      /\ IsJob(j) /\ AtTmp(tmp, content, j) /\ j.at = "rename"
      /\ stops = 0 => Agrees(h, j)
      /\ grown /\ stops = 0 => Grows(e, l, h, j) /\ gone = {}
      /\ ~fresh
  BY <1>2, InHand DEF Rename
<1>4. /\ j.file \in Files /\ tmp[j.file] # 0 /\ content[tmp[j.file]] = Whole(New(j, j.file))
      /\ tmp[j.file] \in Inodes
  BY <1>3 DEF IsJob, AtTmp, Names
<1>5. /\ final' = [final EXCEPT ![j.file] = tmp[j.file]] /\ tmp' = [tmp EXCEPT ![j.file] = 0]
      /\ job' = [job EXCEPT ![r] = IF j.file = Summary THEN Idle
                                   ELSE [@ EXCEPT !.at = "create", !.file = j.file + 1]]
      /\ fresh' = (j.file = Summary)
  BY <1>2, <1>4 DEF Rename
<1>6. /\ job' = [job EXCEPT ![r] = k]
      /\ k = IF j.file = Summary THEN Idle ELSE [j EXCEPT !.at = "create", !.file = j.file + 1]
  <2>1. job = [q \in Refreshers |-> job[q]]
    BY DEF MemoryInv
  <2>. QED  BY <1>2, <1>5, <2>1
<1>7. /\ final'[j.file] = tmp[j.file] /\ tmp'[j.file] = 0
      /\ \A f \in Files : f # j.file => final'[f] = final[f] /\ tmp'[f] = tmp[f]
      /\ final' \in [Files -> {0} \cup Inodes] /\ tmp' \in [Files -> {0} \cup Inodes]
  BY <1>3, <1>4, <1>5 DEF Names
<1>8. Names(final', tmp', content')
  <2>1. \A f \in Files : final'[f] # 0 => content'[final'[f]].at = "whole"
    <3>1. content[tmp[j.file]].at = "whole"
      BY <1>4 DEF Whole
    <3>2. \A f \in Files : final[f] # 0 => content[final[f]].at = "whole"
      BY <1>3 DEF Names
    <3>. QED  BY <1>1, <1>7, <3>1, <3>2
  <2>. QED  BY <1>1, <1>3, <1>4, <1>7, <2>1 DEF Names
<1>9. g[j.file] = Whole(New(j, j.file)) /\ \A f \in Files : f # j.file => g[f] = h[f]
  <2>1. \A f \in Files : /\ h[f] = IF final[f] = 0 THEN Nothing ELSE content[final[f]]
                         /\ g[f] = IF final'[f] = 0 THEN Nothing ELSE content'[final'[f]]
    BY <1>2 DEF Disk, Held
  <2>. QED  BY <1>1, <1>4, <1>7, <2>1
<1>10. /\ AreSnapshots(e, j.after) /\ AreRecords(e, j.records) /\ Covers(j.after, j.records)
       /\ Deduped(j.records) /\ \A f \in Files : f < j.file => h[f] = Whole(New(j, f))
  BY <1>3 DEF Hands, Written, Writing
<1>11. Whole(New(j, j.file)).at = "whole" /\ Whole(New(j, j.file)).data = New(j, j.file)
  BY DEF Whole
<1>12. AreFiles(e, g)
  <2>2. AreSnapshots(e, g[State].data)
    BY <1>3, <1>9, <1>10, <1>11 DEF AreFiles, New, Files, State, Raw, Project, Summary
  <2>3. AreRecords(e, g[Raw].data) /\ Deduped(g[Raw].data)
    BY <1>3, <1>9, <1>10, <1>11 DEF AreFiles, New, Files, State, Raw, Project, Summary
  <2>. QED  BY <2>2, <2>3 DEF AreFiles
<1>13. AreFiles(entries, Disk')
  BY <1>2, <1>12
\* What is written so far.
<1>14. \A f \in Files : f <= j.file => g[f] = Whole(New(j, f))
  BY <1>4, <1>9, <1>10 DEF Files
<1>15. CASE j.file = Summary
  <2>1. k = Idle /\ fresh'
    BY <1>5, <1>6, <1>15
  <2>2. /\ g[State] = Whole(j.after) /\ g[Raw] = Whole(j.records)
        /\ g[Project] = Whole(j.records) /\ g[Summary] = Whole(Summarised(j.records))
    BY <1>14, <1>15 DEF Files, State, Raw, Project, Summary, New
  <2>3. g[State].data = j.after /\ g[Raw].data = j.records
    BY <2>2 DEF Whole
  <2>4. Settled(g)
    BY <1>10, <2>2, <2>3 DEF Settled
  <2>5. stops = 0 => Agrees(g, k)
    <3>1. stops = 0 => Current(j.after, j.records)
      BY <1>3 DEF Agrees
    <3>. QED  BY <2>1, <2>3, <3>1, IdleHands
  <2>6. grown /\ stops = 0 => Grows(e, l, g, k) /\ Remembered(e, l, g)
    <3>1. ASSUME grown, stops = 0
          PROVE  /\ OnBranch(e, l, j.records) /\ Latest(l, j.after)
                 /\ AreAll(e, SessionsOf(j.after)) /\ Complete(e, j.after, j.records)
      BY <1>3, <3>1 DEF Grows, Writing
    <3>. QED  BY <2>1, <2>3, <3>1, IdleHands DEF Remembered
  <2>7. /\ IsJob(k) /\ AtTmp(tmp', content', k) /\ Hands(e, g, k) /\ Written(g, k)
    BY <2>1, IdleHands
  <2>. QED  BY <1>1, <1>2, <1>6, <1>8, <1>12, <2>1, <2>4, <2>5, <2>6, <2>7, RefreshMoves
<1>16. CASE j.file # Summary
  <2>1. j.file + 1 \in Files /\ j.file + 1 # State /\ ~fresh'
    <3>1. ~fresh'
      BY <1>5, <1>16
    <3>2. j.file + 1 \in Files /\ j.file + 1 # State
      BY <1>4, <1>16 DEF Files, State, Summary
    <3>. QED  BY <3>1, <3>2
  <2>2. /\ k.at = "create" /\ k.file = j.file + 1 /\ k.fd = j.fd /\ k.old = j.old
        /\ k.before = j.before /\ k.left = j.left /\ k.known = j.known /\ k.after = j.after
        /\ k.records = j.records
        /\ k = [at |-> k.at, file |-> k.file, fd |-> k.fd, old |-> k.old, before |-> k.before,
                left |-> k.left, known |-> k.known, after |-> k.after, records |-> k.records]
    BY <1>3, <1>6, <1>16 DEF IsJob
  <2>3. IsJob(k) /\ AtTmp(tmp', content', k) /\ ~OfTheLast(k)
    BY <1>3, <2>1, <2>2 DEF IsJob, AtTmp, OfTheLast, Reading, Writing
  <2>4. Hands(e, g, k)
    BY <1>10, <2>2 DEF Hands, Reading
  <2>5. Written(g, k)
    <3>1. \A f \in Files : f < j.file + 1 => f <= j.file
      BY <1>4 DEF Files
    <3>. QED  BY <1>10, <1>14, <2>2, <3>1 DEF Written, New
  <2>6. stops = 0 => Agrees(g, k)
    BY <1>3, <2>2, <2>3 DEF Agrees
  <2>7. grown /\ stops = 0 => Grows(e, l, g, k)
    BY <1>3, <2>2, <2>3 DEF Grows, Writing
  <2>. QED  BY <1>1, <1>2, <1>3, <1>6, <1>8, <1>12, <2>1, <2>3, <2>4, <2>5, <2>6, <2>7, RefreshMoves
<1>. QED  BY <1>15, <1>16

LEMMA StopKeeps ==
  ASSUME MemoryInv, OneAtATime, NEW r \in Refreshers, Stop(r)
  PROVE  MemoryInv'
<1>1. /\ stops \in Nat /\ stops' = stops + 1 /\ job' = [job EXCEPT ![r] = Idle]
      /\ UNCHANGED <<entries, leaf, gone, final, tmp, content, fresh, grown>>
      /\ job[r] # Idle
  BY DEF MemoryInv, Stop, sessionVars, diskVars, notes
<1>2. stops' \in Nat /\ stops' # 0 /\ ~fresh'
  BY <1>1 DEF MemoryInv, JobInv
<1>3. Disk' = Disk
  BY <1>1 DEF Disk, Held
<1>4. job' = [q \in Refreshers |-> job'[q]] /\ job'[r] = Idle
  BY <1>1 DEF MemoryInv
<1>5. PICK e, h : e = entries /\ h = Disk
  OBVIOUS
<1>6. /\ IsJob(Idle) /\ Hands(e, h, Idle) /\ Written(h, Idle)
      /\ \A t, c : AtTmp(t, c, Idle)
  BY IdleHands
<1>7. ASSUME NEW q \in Refreshers PROVE JobInv(q)'
  <2>1. q = r
    BY DEF OneAtATime
  <2>2. job'[q] = Idle
    BY <1>4, <2>1
  <2>. QED  BY <1>1, <1>2, <1>3, <1>5, <1>6, <2>2 DEF JobInv
<1>. QED  BY <1>1, <1>2, <1>3, <1>4, <1>7 DEF MemoryInv

-----------------------------------------------------------------------------
(***************************************************************************)
(* The theorems                                                            *)
(***************************************************************************)

LEMMA MemoryInit == Init => MemoryInv
<1>. SUFFICES ASSUME Init PROVE MemoryInv
  OBVIOUS
<1>1. /\ entries = <<>> /\ leaf = [s \in Sessions |-> 0] /\ gone = {}
      /\ final = [f \in Files |-> 0] /\ tmp = [f \in Files |-> 0]
      /\ content = [i \in Inodes |-> Nothing] /\ job = [r \in Refreshers |-> Idle]
      /\ stops = 0 /\ fresh = FALSE
  BY DEF Init
<1>2. IsQueue(entries) /\ DOMAIN entries = {}
  <2>1. <<>> \in Seq({}) /\ DOMAIN <<>> = {}
    BY EmptySeq
  <2>. QED  BY <1>1, <2>1, SeqIsQueue
<1>3. Trees(entries, leaf)
  BY <1>1, <1>2 DEF Trees, Owned
<1>4. Names(final, tmp, content)
  BY <1>1 DEF Names
<1>5. \A f \in Files : Disk[f] = Nothing
  BY <1>1 DEF Disk, Held
<1>6. Disk[State].data = {} /\ Disk[Raw].data = {}
  BY <1>5 DEF Files, State, Raw, Nothing
<1>7. PICK e, l, h : e = entries /\ l = leaf /\ h = Disk
  OBVIOUS
<1>8. AreFiles(e, h)
  BY <1>5, <1>6, <1>7, FS_EmptySet DEF AreFiles, AreSnapshots, AreRecords, Apart, Deduped
<1>9. /\ Current(h[State].data, h[Raw].data) /\ OnBranch(e, l, h[Raw].data)
      /\ Complete(e, h[State].data, h[Raw].data)
  BY <1>6, <1>7 DEF Current, OnBranch, Complete
<1>10. ASSUME NEW r \in Refreshers PROVE JobInv(r)
  <2>1. job[r] = Idle
    BY <1>1
  <2>2. /\ IsJob(Idle) /\ Hands(e, h, Idle) /\ Written(h, Idle) /\ Agrees(h, Idle)
        /\ Grows(e, l, h, Idle) /\ \A t, c : AtTmp(t, c, Idle)
    BY <1>9, IdleHands
  <2>. QED  BY <1>1, <1>7, <2>1, <2>2 DEF JobInv
<1>11. job = [r \in Refreshers |-> job[r]] /\ stops \in Nat
  BY <1>1
<1>. QED  BY <1>1, <1>3, <1>4, <1>7, <1>8, <1>10, <1>11 DEF MemoryInv

LEMMA MemoryNext ==
  ASSUME MemoryInv, OneAtATime, [Next]_vars
  PROVE  MemoryInv'
<1>1. ASSUME NEW s \in Sessions, AppendEntry(s) \/ Navigate(s) \/ DeleteSession(s)
      PROVE  MemoryInv'
  BY <1>1, SessionChanges
<1>2. ASSUME NEW r \in Refreshers, Refresh(r) PROVE MemoryInv'
  BY <1>2, BeginKeeps, ReadRawKeeps, ReadEntriesKeeps, SkipSessionKeeps, ReadLeafKeeps, ConcludeKeeps,
     CreateTmpKeeps, WriteTmpKeeps, RenameKeeps, StopKeeps DEF Refresh
<1>3. CASE UNCHANGED vars
  <2>1. UNCHANGED <<entries, leaf, gone, final, tmp, content, job, stops, fresh, grown>>
    BY <1>3 DEF vars, sessionVars, diskVars, notes
  <2>2. Disk' = Disk
    BY <2>1 DEF Disk, Held
  <2>. QED  BY <2>1, <2>2 DEF MemoryInv, JobInv
<1>. QED  BY <1>1, <1>2, <1>3 DEF Next

\* MemoryInv is inductive when one refresh is over before the next begins.
THEOREM MemoryInvHolds == OneAtATime => (Spec => []MemoryInv)
<1>. SUFFICES ASSUME OneAtATime PROVE Spec => []MemoryInv
  OBVIOUS
<1>1. MemoryInv /\ [Next]_vars => MemoryInv'
  BY MemoryNext
<1>. QED  BY <1>1, MemoryInit, PTL DEF Spec

\* The comment on refresh_project_memory (memory.rs:216): existing records are
\* reused for unchanged sessions.  Whatever sessions do in the middle of a
\* refresh, as long as none was stopped, what it is about to write for a session
\* was extracted at the entry that the state beside it names.
THEOREM ReusesUnchangedHolds == OneAtATime => (Spec => []ReusesUnchanged)
<1>1. MemoryInv => ReusesUnchanged
  <2>. SUFFICES ASSUME MemoryInv, stops = 0, NEW r \in Refreshers PROVE RecordsAreCurrent(r)
    BY DEF ReusesUnchanged
  <2>1. Agrees(Disk, job[r])
    BY InHand
  <2>. QED  BY <2>1 DEF Agrees, Current, RecordsAreCurrent
<1>. QED  BY <1>1, MemoryInvHolds, PTL

\* A completed refresh leaves records and a project memory that tell the same, a
\* summary of them and a state that knows the session of each (memory.rs:300),
\* wherever refreshes before it were stopped and whatever could not be read.
THEOREM SettledAgreeHolds == OneAtATime => (Spec => []SettledAgree)
<1>1. MemoryInv => SettledAgree
  <2>. SUFFICES ASSUME MemoryInv, fresh PROVE SettledAgree
    BY DEF SettledAgree
  <2>1. Settled(Disk) /\ \A f \in Files : Disk[f] = Held(f)
    BY DEF MemoryInv, Disk
  <2>2. /\ Held(Project) = Held(Raw) /\ Held(Summary) = Whole(Summarised(Held(Raw).data))
        /\ Covers(Held(State).data, Held(Raw).data)
    BY <2>1 DEF Settled, Files, State, Raw, Project, Summary
  <2>. QED  BY <2>2 DEF SettledAgree, Covers
<1>. QED  BY <1>1, MemoryInvHolds, PTL

\* No file is ever found empty or half written under its own name (the renames
\* of memory.rs:927 and :953), so that no stop can spoil a later refresh.
THEOREM FilesAreWholeHolds == OneAtATime => (Spec => []FilesAreWhole)
<1>1. MemoryInv => FilesAreWhole
  BY DEF MemoryInv, Names, FilesAreWhole, Held
<1>. QED  BY <1>1, MemoryInvHolds, PTL

\* A refresh looks at changed sessions only (memory.rs:287); while sessions only
\* grow, and can be read, its project memory nevertheless tells every text on their
\* branches, up to the limit, and its summary all it has room for (memory.rs:897).
THEOREM RemembersHolds == OneAtATime => (Spec => []Remembers)
<1>1. MemoryInv => Remembers
  <2>. SUFFICES ASSUME MemoryInv, fresh, grown, stops = 0,
                       Cardinality(Held(Raw).data) # MaxRecords,
                       NEW s \in Sessions, NEW k \in DOMAIN PathTo(leaf[s]),
                       entries[PathTo(leaf[s])[k]].text # NoText
                PROVE  IsRemembered(entries[PathTo(leaf[s])[k]].text)
    BY DEF Remembers
  <2>1. PICK e, l, h, text : /\ e = entries /\ l = leaf /\ h = Disk
                             /\ text = entries[PathTo(leaf[s])[k]].text
    OBVIOUS
  <2>2. /\ Trees(e, l) /\ Settled(h) /\ Remembered(e, l, h) /\ AreFiles(e, h)
        /\ h[Raw] = Held(Raw) /\ h[Project] = Held(Project) /\ h[Summary] = Held(Summary)
    BY <2>1 DEF MemoryInv, Disk, Files, Raw, Project, Summary
  <2>3. PathTo(leaf[s]) = Path(e, l[s])
    BY <2>1 DEF PathTo, Path
  <2>4. text \in TextsOn(e, l[s])
    BY <2>1, <2>3 DEF TextsOn, On
  <2>5. Owned(e, s) # {}
    <3>1. l[s] # 0
      <4>1. CASE l[s] = 0
        <5>1. DOMAIN <<>> = {}
          BY EmptySeq
        <5>. QED  BY <2>3, <4>1, <5>1 DEF Path
      <4>. QED  BY <4>1
    <3>. QED  BY <2>2, <3>1 DEF Trees
  <2>6. PICK p \in h[State].data : p.session = s /\ p.leaf = l[s]
    BY <2>2, <2>5 DEF Remembered, AreAll, SessionsOf, Latest
  <2>7. PICK q \in h[Raw].data : q.text = text
    BY <2>2, <2>4, <2>6 DEF Remembered, Complete, Tells
  <2>8. Tell(Project, text)
    BY <2>2, <2>7 DEF Settled, Tell
  <2>9. Held(Summary).data = Summarised(h[Raw].data)
    BY <2>2 DEF Settled, Whole
  <2>10. Tell(Summary, text) \/ SummaryIsFull \/ CategoryIsFull(CategoryOf[text])
    <3>1. CASE q \in Summarised(h[Raw].data)
      BY <2>7, <2>9, <3>1 DEF Tell
    <3>2. CASE q \notin Summarised(h[Raw].data)
      <4>1. IsFiniteSet(h[Raw].data) /\ Apart(h[Raw].data)
        BY <2>2 DEF AreFiles, AreRecords
      <4>2. \A o \in h[Raw].data : o.entry \in Nat /\ Category(o) \in Categories
        <5>. TAKE o \in h[Raw].data
        <5>1. o.entry \in DOMAIN e /\ o.text = e[o.entry].text /\ o.text # NoText
          BY <2>2 DEF AreFiles, AreRecords, Owned
        <5>2. o.entry \in Nat
          BY <2>2, <5>1 DEF Trees, IsQueue
        <5>3. o.text \in Texts
          BY <2>2, <5>1 DEF Trees
        <5>. QED  BY <5>2, <5>3, ProjectMemoryAssumption DEF Category
      <4>3. Category(q) = CategoryOf[text]
        BY <2>7 DEF Category
      <4>. QED  BY <2>9, <3>2, <4>1, <4>2, <4>3, LeftOut DEF SummaryIsFull, CategoryIsFull
    <3>. QED  BY <3>1, <3>2
  <2>. QED  BY <2>1, <2>8, <2>10 DEF IsRemembered
<1>. QED  BY <1>1, MemoryInvHolds, PTL
=============================================================================
