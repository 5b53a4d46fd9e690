---------------------------- MODULE ContextProofs ----------------------------
(***************************************************************************)
(* However a session is cut, trimmed and reopened, nothing that the agent  *)
(* remembers is lost by reopening, no cut parts a call from its result,    *)
(* and the newest prompt is sent.  For any window, sizes and bounds.       *)
(***************************************************************************)
EXTENDS ContextWindow, Lemmas

-----------------------------------------------------------------------------
(***************************************************************************)
(* Parts of a sequence                                                     *)
(***************************************************************************)

\* t has some of the elements of s, in their order: t[i] is s[g[i]].
Picks(t, s, g) ==
  /\ IsQueue(t) /\ g \in [DOMAIN t -> DOMAIN s]
  /\ \A i, j \in DOMAIN t : i < j => g[i] < g[j]
  /\ \A i \in DOMAIN t : t[i] = s[g[i]]
PartOf(t, s) == \E g : Picks(t, s, g)

\* What holds of a sequence's calls and results holds of every part of it.
LEMMA PartPaired ==
  ASSUME NEW s, IsQueue(s), NEW t, PartOf(t, s)
  PROVE  /\ IsQueue(t)
         /\ Together(s) => Together(t)
         /\ Apart(s) => Apart(t)
         /\ Numbered(s, created) => Numbered(t, created)
<1>1. PICK g : Picks(t, s, g)
  BY DEF PartOf
<1>2. IsQueue(t) /\ Len(t) \in Nat /\ DOMAIN t = 1..Len(t) /\ Len(s) \in Nat /\ DOMAIN s = 1..Len(s)
  BY <1>1, Queued DEF Picks
<1>3. \A j, i \in DOMAIN t : Answers(t, j, i) <=> j < i /\ Answers(s, g[j], g[i])
  BY <1>1 DEF Picks, Answers
<1>4. ASSUME Together(s), NEW j \in DOMAIN t, NEW i \in DOMAIN t, Answers(t, j, i), NEW k \in (j + 1)..i
      PROVE  Answers(t, j, k)
  <2>1. k \in DOMAIN t /\ j < k /\ (k = i \/ k < i)
    BY <1>2
  <2>2. g[j] \in DOMAIN s /\ g[i] \in DOMAIN s /\ g[k] \in DOMAIN s /\ g[j] < g[k] /\ g[k] <= g[i]
    <3>1. g[j] \in DOMAIN s /\ g[i] \in DOMAIN s /\ g[k] \in DOMAIN s
      BY <1>1, <2>1 DEF Picks
    <3>2. g[j] < g[k] /\ (k = i \/ g[k] < g[i])
      BY <1>1, <2>1 DEF Picks
    <3>. QED  BY <1>2, <3>1, <3>2
  <2>3. g[k] \in (g[j] + 1)..g[i]
    BY <1>2, <2>2
  <2>4. Answers(s, g[j], g[k])
    BY <1>3, <1>4, <2>2, <2>3 DEF Together
  <2>. QED  BY <1>3, <2>1, <2>4
<1>5. Together(s) => Together(t)
  BY <1>4 DEF Together
<1>6. \A i, j \in DOMAIN t : i # j => g[i] # g[j]
  <2>. TAKE i, j \in DOMAIN t
  <2>. SUFFICES ASSUME i # j PROVE g[i] # g[j]
    OBVIOUS
  <2>1. i < j \/ j < i
    BY <1>2
  <2>2. g[i] \in Nat /\ g[j] \in Nat
    BY <1>1, <1>2 DEF Picks
  <2>. QED  BY <1>1, <2>1, <2>2 DEF Picks
<1>7. \A i \in DOMAIN t : g[i] \in DOMAIN s /\ t[i] = s[g[i]]
  BY <1>1 DEF Picks
<1>8. (Apart(s) => Apart(t)) /\ (Numbered(s, created) => Numbered(t, created))
  BY <1>6, <1>7 DEF Apart, Numbered
<1>. QED  BY <1>2, <1>5, <1>8

\* What is left of a sequence from n on.
LEMMA Rest ==
  ASSUME NEW s, IsQueue(s), NEW n \in Nat \ {0}, n <= Len(s) + 1, NEW t, t = From(s, n)
  PROVE  /\ PartOf(t, s) /\ IsQueue(t) /\ Len(t) = Len(s) + 1 - n /\ DOMAIN t = 1..(Len(s) + 1 - n)
         /\ \A i \in DOMAIN t : t[i] = s[n + i - 1]
<1>1. PICK c \in Int, d \in Int : c = n /\ d = Len(s) /\ c >= 1 /\ c <= d + 1
  BY Queued
<1>. DEFINE T == {s[i] : i \in DOMAIN s}
<1>2. \A i \in c..d : s[i] \in T
  BY <1>1, Queued
<1>. HIDE DEF T
<1>3. /\ SubSeq(s, c, d) \in Seq(T) /\ Len(SubSeq(s, c, d)) = IF c <= d THEN d - c + 1 ELSE 0
      /\ \A i \in 1..(d - c + 1) : SubSeq(s, c, d)[i] = s[c + i - 1]
  BY ONLY <1>2, c \in Int, d \in Int, SubSeqProperties
<1>4. t = SubSeq(s, c, d)
  BY <1>1 DEF From
<1>5. t \in Seq(T) /\ Len(t) = d + 1 - c /\ \A i \in 1..(d + 1 - c) : t[i] = s[c + i - 1]
  <2>1. d - c + 1 = d + 1 - c /\ (c <= d \/ d + 1 - c = 0)
    BY <1>1
  <2>. QED  BY <1>3, <1>4, <2>1
<1>6. IsQueue(t) /\ DOMAIN t = 1..(d + 1 - c)
  <2>1. IsQueue(t)
    BY <1>5, SeqIsQueue
  <2>. QED  BY <1>5, <2>1, Queued
<1>7. PartOf(t, s)
  <2>. DEFINE g == [i \in DOMAIN t |-> c + i - 1]
  <2>1. \A i \in DOMAIN t : c + i - 1 \in DOMAIN s
    BY <1>1, <1>6, Queued
  <2>2. \A i, j \in DOMAIN t : i < j => c + i - 1 < c + j - 1
    BY <1>6
  <2>3. Picks(t, s, g)
    BY <1>5, <1>6, <2>1, <2>2 DEF Picks
  <2>. QED  BY <2>3 DEF PartOf
<1>. QED  BY <1>1, <1>5, <1>6, <1>7

\* A message in front that is neither call nor result.
Fronted(m, s, t) ==
  IsQueue(t) /\ Len(t) = Len(s) + 1 /\ t[1] = m /\ \A i \in 1..Len(s) : t[i + 1] = s[i]

LEMMA PutInFront ==
  ASSUME NEW s, IsQueue(s), NEW m, ~HasCalls(m), ~IsResult(m), NEW t, t = <<m>> \o s
  PROVE  /\ Fronted(m, s, t)
         /\ Together(s) => Together(t)
         /\ Apart(s) => Apart(t)
         /\ Numbered(s, created) => Numbered(t, created)
<1>1. PICK n \in Nat : n = Len(s)
  BY Queued
<1>2. IsQueue(<<m>>) /\ Len(<<m>>) = 1 /\ <<m>>[1] = m
  BY One
<1>3. /\ IsQueue(t) /\ Len(t) = n + 1 /\ t[1] = m /\ \A i \in 1..n : t[1 + i] = s[i]
  <2>1. PICK o : o = <<m>> /\ IsQueue(o) /\ Len(o) = 1 /\ o[1] = m
    BY <1>2
  <2>2. t = o \o s
    BY <2>1
  <2>3. /\ IsQueue(t) /\ Len(t) = Len(o) + Len(s)
        /\ \A i \in 1..Len(o) : t[i] = o[i]
        /\ \A i \in 1..Len(s) : t[Len(o) + i] = s[i]
    BY <2>1, <2>2, Concats
  <2>. QED  BY <1>1, <2>1, <2>3
<1>4. DOMAIN t = 1..(n + 1) /\ DOMAIN s = 1..n /\ \A i \in 1..n : t[i + 1] = s[i] /\ 1 + i = i + 1
  BY <1>1, <1>3, Queued
<1>5. \A i \in DOMAIN t : i = 1 \/ (i - 1 \in DOMAIN s /\ t[i] = s[i - 1])
  <2>. TAKE i \in DOMAIN t
  <2>. SUFFICES ASSUME i # 1 PROVE i - 1 \in DOMAIN s /\ t[i] = s[i - 1]
    OBVIOUS
  <2>1. i - 1 \in 1..n /\ (i - 1) + 1 = i
    BY <1>4
  <2>. QED  BY <1>4, <2>1
<1>6. \A j, i \in DOMAIN t : Answers(t, j, i) <=> j > 1 /\ i > 1 /\ Answers(s, j - 1, i - 1)
  <2>. TAKE j, i \in DOMAIN t
  <2>1. j \in 1..(n + 1) /\ i \in 1..(n + 1) /\ (j < i <=> j - 1 < i - 1)
    BY <1>4
  <2>. QED  BY <1>3, <1>5, <2>1 DEF Answers
<1>7. ASSUME Together(s), NEW j \in DOMAIN t, NEW i \in DOMAIN t, Answers(t, j, i), NEW k \in (j + 1)..i
      PROVE  Answers(t, j, k)
  <2>1. k \in DOMAIN t /\ k > 1 /\ j > 1 /\ Answers(s, j - 1, i - 1) /\ k - 1 \in ((j - 1) + 1)..(i - 1)
    BY <1>4, <1>6, <1>7
  <2>2. j - 1 \in DOMAIN s /\ i - 1 \in DOMAIN s
    BY <1>4, <1>6, <1>7
  <2>. QED  BY <1>6, <1>7, <2>1, <2>2 DEF Together
<1>8. Together(s) => Together(t)
  BY <1>7 DEF Together
<1>9. (Apart(s) => Apart(t)) /\ (Numbered(s, created) => Numbered(t, created))
  <2>1. \A i \in DOMAIN t : HasCalls(t[i]) => i - 1 \in DOMAIN s /\ t[i] = s[i - 1] /\ i \in Nat
    BY <1>3, <1>4, <1>5
  <2>2. \A i, j \in DOMAIN t : i # j => i - 1 # j - 1
    BY <1>4
  <2>. QED  BY <2>1, <2>2 DEF Apart, Numbered
<1>. QED  BY <1>1, <1>3, <1>4, <1>8, <1>9 DEF Fronted

\* An orphan is a result that answers nothing in front of it.
LEMMA OrphanIs ==
  ASSUME NEW s, NEW k \in Nat
  PROVE  OrphanAt(s, k) <=> IsResult(s[k]) /\ \A j \in 1..(k - 1) : ~Answers(s, j, k)
<1>1. \A j \in 1..(k - 1) : j < k
  OBVIOUS
<1>. QED  BY <1>1 DEF OrphanAt, Answers

\* One message more at the end.
Longer(s, m, t, n) ==
  /\ IsQueue(t) /\ Len(t) = n + 1 /\ DOMAIN t = 1..(n + 1) /\ DOMAIN s = 1..n
  /\ t[n + 1] = m /\ \A i \in 1..n : t[i] = s[i]
  /\ \A j, i \in 1..n : Answers(t, j, i) <=> Answers(s, j, i)
  /\ \A i \in 1..n : OrphanAt(t, i) <=> OrphanAt(s, i)
LEMMA OneMore ==
  ASSUME NEW s, IsQueue(s), NEW m, NEW t, t = Append(s, m), NEW n \in Nat, n = Len(s)
  PROVE  Longer(s, m, t, n)
<1>1. /\ IsQueue(t) /\ DOMAIN t = 1..(n + 1) /\ DOMAIN s = 1..n
      /\ t[n + 1] = m /\ \A i \in 1..n : t[i] = s[i]
  BY Queued
<1>2. Len(t) = n + 1
  <2>1. Len(t) \in Nat /\ DOMAIN t = 1..Len(t)
    BY <1>1, Queued
  <2>2. n + 1 \in 1..Len(t) /\ (Len(t) > n + 1 => n + 2 \in 1..Len(t))
    BY <1>1, <2>1
  <2>. QED  BY <1>1, <2>1, <2>2
<1>3. \A j, i \in 1..n : Answers(t, j, i) <=> Answers(s, j, i)
  BY <1>1 DEF Answers
<1>4. \A i \in 1..n : OrphanAt(t, i) <=> OrphanAt(s, i)
  <2>. TAKE i \in 1..n
  <2>1. \A j \in 1..(i - 1) : j \in 1..n
    OBVIOUS
  <2>. QED  BY <1>1, <2>1 DEF OrphanAt
<1>. QED  BY <1>1, <1>2, <1>3, <1>4 DEF Longer

\* A prompt or a reply, whose calls are new.
LEMMA SaidPaired ==
  ASSUME created \in Nat, NEW s, Paired(s, created), NEW m, ~IsResult(m), NEW c \in Nat, c > created,
         HasCalls(m) => \A x \in m.calls : x[1] = c,
         NEW t, t = Append(s, m)
  PROVE  Paired(t, c) /\ Orphans(t) = Orphans(s)
<1>1. PICK n \in Nat : n = Len(s)
  BY Queued DEF Paired
<1>2. /\ IsQueue(t) /\ Len(t) = n + 1 /\ DOMAIN t = 1..(n + 1) /\ DOMAIN s = 1..n
      /\ t[n + 1] = m /\ \A i \in 1..n : t[i] = s[i]
      /\ \A j, i \in 1..n : Answers(t, j, i) <=> Answers(s, j, i)
      /\ \A i \in 1..n : OrphanAt(t, i) <=> OrphanAt(s, i)
  <2>1. IsQueue(s)
    BY DEF Paired
  <2>2. Longer(s, m, t, n)
    BY <1>1, <2>1, OneMore
  <2>. QED  BY <2>2 DEF Longer
<1>3. \A i \in DOMAIN t : i = n + 1 \/ i \in 1..n
  BY <1>2
<1>4. Together(t)
  <2>. SUFFICES ASSUME NEW j \in DOMAIN t, NEW i \in DOMAIN t, Answers(t, j, i), NEW k \in (j + 1)..i
                PROVE  Answers(t, j, k)
    BY DEF Together
  <2>1. i # n + 1
    BY <1>2 DEF Answers
  <2>2. i \in 1..n /\ j \in 1..n /\ k \in 1..n
    BY <1>2, <1>3, <2>1 DEF Answers
  <2>. QED  BY <1>2, <2>2 DEF Paired, Together
<1>5. \A i \in 1..n : HasCalls(s[i]) => \A x \in s[i].calls : x[1] \in 1..created
  BY <1>2 DEF Paired, Numbered
<1>6. created \in Nat => ~(c \in 1..created)
  OBVIOUS
<1>7. ASSUME NEW i \in 1..n, HasCalls(s[i]), HasCalls(m) PROVE s[i].calls \cap m.calls = {}
  <2>1. \A x \in s[i].calls : x[1] \in 1..created
    BY <1>5, <1>7
  <2>2. \A x \in m.calls : x[1] = c
    BY <1>7
  <2>3. ~(c \in 1..created)
    OBVIOUS
  <2>. QED  BY <2>1, <2>2, <2>3
<1>8. Apart(t)
  <2>. SUFFICES ASSUME NEW i \in DOMAIN t, NEW j \in DOMAIN t, HasCalls(t[i]), HasCalls(t[j]), i # j
                PROVE  t[i].calls \cap t[j].calls = {}
    BY DEF Apart
  <2>1. CASE i \in 1..n /\ j \in 1..n
    BY <1>2, <2>1 DEF Paired, Apart
  <2>2. CASE i = n + 1 /\ j \in 1..n
    BY <1>2, <1>7, <2>2
  <2>3. CASE j = n + 1 /\ i \in 1..n
    BY <1>2, <1>7, <2>3
  <2>. QED  BY <1>3, <2>1, <2>2, <2>3
<1>9. Orphans(t) = Orphans(s)
  <2>1. ~OrphanAt(t, n + 1)
    BY <1>2 DEF OrphanAt
  <2>2. {k \in DOMAIN t : OrphanAt(t, k)} = {k \in DOMAIN s : OrphanAt(s, k)}
    BY <1>2, <1>3, <2>1
  <2>3. \A k \in {k \in DOMAIN s : OrphanAt(s, k)} : t[k] = s[k]
    BY <1>2
  <2>. QED  BY <2>2, <2>3 DEF Orphans
<1>10. Numbered(t, c)
  <2>1. ASSUME NEW i \in 1..n, HasCalls(s[i]), NEW x \in s[i].calls PROVE x[1] \in 1..c
    <3>1. x[1] \in 1..created
      BY <1>5, <2>1
    <3>. QED  BY <3>1
  <2>2. c \in 1..c
    OBVIOUS
  <2>. QED  BY <1>2, <1>3, <2>1, <2>2 DEF Numbered
<1>. QED  BY <1>2, <1>4, <1>8, <1>9, <1>10 DEF Paired

\* More calls may come.
LEMMA PairedMore ==
  ASSUME created \in Nat, NEW s, Paired(s, created), NEW c \in Nat, c >= created
  PROVE  Paired(s, c)
<1>1. \A i \in DOMAIN s : HasCalls(s[i]) => \A x \in s[i].calls : x[1] \in 1..created
  BY DEF Paired, Numbered
<1>2. 1..created \subseteq 1..c
  OBVIOUS
<1>3. Numbered(s, c)
  BY <1>1, <1>2 DEF Numbered
<1>. QED  BY <1>3 DEF Paired

\* A result of the last reply.
LEMMA AnswerPaired ==
  ASSUME NEW s, Paired(s, created), NEW r \in DOMAIN s, HasCalls(s[r]),
         \A k \in (r + 1)..Len(s) : Answers(s, r, k),
         NEW m, IsResult(m), m.call \in s[r].calls, NEW t, t = Append(s, m)
  PROVE  /\ Paired(t, created) /\ Orphans(t) = Orphans(s)
         /\ r \in DOMAIN t /\ t[r] = s[r] /\ \A k \in (r + 1)..Len(t) : Answers(t, r, k)
<1>1. PICK n \in Nat : n = Len(s)
  BY Queued DEF Paired
<1>2. /\ IsQueue(t) /\ Len(t) = n + 1 /\ DOMAIN t = 1..(n + 1) /\ DOMAIN s = 1..n
      /\ t[n + 1] = m /\ \A i \in 1..n : t[i] = s[i]
      /\ \A j, i \in 1..n : Answers(t, j, i) <=> Answers(s, j, i)
      /\ \A i \in 1..n : OrphanAt(t, i) <=> OrphanAt(s, i)
  <2>1. IsQueue(s)
    BY DEF Paired
  <2>2. Longer(s, m, t, n)
    BY <1>1, <2>1, OneMore
  <2>. QED  BY <2>2 DEF Longer
<1>3. /\ \A i \in DOMAIN t : i = n + 1 \/ i \in 1..n
      /\ r \in 1..n /\ ~HasCalls(m)
  BY <1>2 DEF IsResult, HasCalls
<1>4. Answers(t, r, n + 1)
  BY <1>2, <1>3 DEF Answers
<1>5. \A k \in (r + 1)..(n + 1) : Answers(t, r, k)
  <2>. TAKE k \in (r + 1)..(n + 1)
  <2>1. k = n + 1 \/ (k \in (r + 1)..n /\ k \in 1..n)
    BY <1>3
  <2>. QED  BY <1>1, <1>2, <1>3, <1>4, <2>1
<1>6. Together(t)
  <2>. SUFFICES ASSUME NEW j \in DOMAIN t, NEW i \in DOMAIN t, Answers(t, j, i), NEW k \in (j + 1)..i
                PROVE  Answers(t, j, k)
    BY DEF Together
  <2>1. CASE i = n + 1
    <3>1. j \in 1..n /\ HasCalls(s[j]) /\ m.call \in s[j].calls
      BY <1>2, <1>3, <2>1 DEF Answers
    <3>2. j = r
      BY <1>2, <1>3, <3>1 DEF Paired, Apart
    <3>. QED  BY <1>5, <2>1, <3>2
  <2>2. CASE i \in 1..n
    <3>1. j \in 1..n /\ k \in 1..n
      BY <1>2, <2>2 DEF Answers
    <3>. QED  BY <1>2, <2>2, <3>1 DEF Paired, Together
  <2>. QED  BY <1>3, <2>1, <2>2
<1>7. Apart(t) /\ Numbered(t, created)
  <2>1. \A i \in DOMAIN t : HasCalls(t[i]) => i \in DOMAIN s /\ t[i] = s[i]
    BY <1>2, <1>3
  <2>. QED  BY <2>1 DEF Paired, Apart, Numbered
<1>8. Orphans(t) = Orphans(s)
  <2>1. ~OrphanAt(t, n + 1)
    <3>1. r \in 1..((n + 1) - 1) /\ n + 1 \in Nat
      BY <1>3
    <3>. QED  BY <1>4, <3>1, OrphanIs
  <2>2. {k \in DOMAIN t : OrphanAt(t, k)} = {k \in DOMAIN s : OrphanAt(s, k)}
    BY <1>2, <1>3, <2>1
  <2>3. \A k \in {k \in DOMAIN s : OrphanAt(s, k)} : t[k] = s[k]
    BY <1>2
  <2>. QED  BY <2>2, <2>3 DEF Orphans
<1>. QED  BY <1>2, <1>3, <1>5, <1>6, <1>7, <1>8 DEF Paired

-----------------------------------------------------------------------------
(***************************************************************************)
(* Cuts                                                                    *)
(***************************************************************************)

\* A cut after n messages that no pair of call and result crosses orphans nothing.
LEMMA CutOrphans ==
  ASSUME NEW s, IsQueue(s), NEW n \in 0..Len(s), NEW t, t = From(s, n + 1),
         \A j \in 1..n, i \in (n + 1)..Len(s) : ~Answers(s, j, i)
  PROVE  Orphans(t) \subseteq Orphans(s)
<1>1. PICK l \in Nat : l = Len(s)
  BY Queued
<1>2. n \in Nat /\ n + 1 \in Nat \ {0} /\ n + 1 <= l + 1 /\ DOMAIN s = 1..l
  BY <1>1, Queued
<1>3. DOMAIN t = 1..(l + 1 - (n + 1)) /\ \A i \in DOMAIN t : t[i] = s[(n + 1) + i - 1]
  BY <1>1, <1>2, Rest
<1>4. \A i \in DOMAIN t : i \in Nat /\ n + i \in (n + 1)..l /\ n + i \in DOMAIN s /\ t[i] = s[n + i]
  <2>. TAKE i \in DOMAIN t
  <2>1. i \in 1..(l + 1 - (n + 1)) /\ (n + 1) + i - 1 = n + i
    BY <1>2, <1>3
  <2>. QED  BY <1>2, <1>3, <2>1
<1>5. ASSUME NEW i \in DOMAIN t, OrphanAt(t, i) PROVE OrphanAt(s, n + i)
  <2>1. IsResult(s[n + i])
    BY <1>4, <1>5 DEF OrphanAt
  <2>2. ASSUME NEW j \in 1..(n + i - 1), Answers(s, j, n + i) PROVE FALSE
    <3>1. CASE j \in 1..n
      BY <1>1, <1>4, <2>2, <3>1
    <3>2. CASE ~(j \in 1..n)
      <4>1. j - n \in 1..(i - 1) /\ j - n \in DOMAIN t /\ n + (j - n) = j
        BY <1>2, <1>3, <1>4, <3>2, SMTT(30), ZenonT(30)
      <4>2. t[j - n] = s[j] /\ j - n < i
        BY <1>4, <4>1
      <4>3. Answers(t, j - n, i)
        BY <1>4, <2>2, <4>2 DEF Answers
      <4>. QED  BY <1>4, <1>5, <4>1, <4>3, OrphanIs
    <3>. QED  BY <3>1, <3>2
  <2>3. PICK p \in Nat : p = n + i
    BY <1>2, <1>4
  <2>4. IsResult(s[p]) /\ \A j \in 1..(p - 1) : ~Answers(s, j, p)
    BY <2>1, <2>2, <2>3
  <2>5. OrphanAt(s, p)
    BY <2>4, OrphanIs
  <2>. QED  BY <2>3, <2>5
<1>. QED  BY <1>4, <1>5 DEF Orphans

\* A safe cut is not crossed.
LEMMA SafeCutUncrossed ==
  ASSUME NEW s, IsQueue(s), Together(s), NEW n \in 0..Len(s), SafeCut(s, n)
  PROVE  \A j \in 1..n, i \in (n + 1)..Len(s) : ~Answers(s, j, i)
<1>. SUFFICES ASSUME NEW j \in 1..n, NEW i \in (n + 1)..Len(s), Answers(s, j, i) PROVE FALSE
  OBVIOUS
<1>1. Len(s) \in Nat /\ DOMAIN s = 1..Len(s)
  BY Queued
<1>2. j \in DOMAIN s /\ i \in DOMAIN s /\ n + 1 \in (j + 1)..i /\ n # Len(s)
  <2>1. PICK l \in Nat : l = Len(s) /\ DOMAIN s = 1..l
    BY <1>1
  <2>2. n \in 0..l /\ i \in (n + 1)..l
    BY <2>1
  <2>. QED  BY <2>1, <2>2
<1>3. Answers(s, j, n + 1)
  BY <1>2 DEF Together
<1>. QED  BY <1>2, <1>3 DEF SafeCut, Answers

\* drop_oldest_safe drops at least one message, and with a reply its results.
LEMMA Drops ==
  ASSUME NEW s, IsQueue(s), s # <<>>, Together(s)
  PROVE  \E n \in 1..Len(s) :
           /\ DropOldest(s) = From(s, n + 1)
           /\ \A k \in 2..n : IsResult(s[k])
           /\ \A j \in 1..n, i \in (n + 1)..Len(s) : ~Answers(s, j, i)
<1>1. PICK l \in Nat : l = Len(s) /\ l >= 1
  BY Taken
<1>2. DOMAIN s = 1..l /\ Head(s) = s[1] /\ 1 \in DOMAIN s
  BY <1>1, Taken
<1>3. CASE ~HasCalls(s[1])
  <2>1. DropOldest(s) = Tail(s)
    BY <1>2, <1>3 DEF DropOldest
  <2>2. PICK t : t = From(s, 2)
    OBVIOUS
  <2>3. IsQueue(t) /\ Len(t) = l + 1 - 2 /\ \A i \in DOMAIN t : t[i] = s[2 + i - 1]
    <3>1. 2 \in Nat \ {0} /\ 2 <= Len(s) + 1
      BY <1>1
    <3>. QED  BY <1>1, <2>2, <3>1, Rest
  <2>4. /\ IsQueue(Tail(s)) /\ DOMAIN Tail(s) = 1..(l - 1)
        /\ \A i \in 1..(l - 1) : Tail(s)[i] = s[i + 1]
    BY <1>1, Taken
  <2>5. Len(Tail(s)) = l - 1 /\ l + 1 - 2 = l - 1 /\ DOMAIN t = 1..(l - 1)
    <3>1. Len(s) > 0
      BY <1>1
    <3>2. l + 1 - 2 = l - 1
      BY <1>1
    <3>3. Len(Tail(s)) \in Nat /\ 1..Len(Tail(s)) = 1..(l - 1)
      BY <2>4, Queued
    <3>4. Len(Tail(s)) = l - 1
      <4>1. PICK a \in Nat, b \in Nat : a = Len(Tail(s)) /\ b = l - 1 /\ 1..a = 1..b
        BY <1>1, <3>3
      <4>2. a = b
        <5>1. a > 0 => a \in 1..b
          BY <4>1
        <5>2. b > 0 => b \in 1..a
          BY <4>1
        <5>. QED  BY <5>1, <5>2
      <4>. QED  BY <4>1, <4>2
    <3>5. DOMAIN t = 1..(l - 1)
      BY <2>3, <3>2, Queued
    <3>. QED  BY <3>2, <3>4, <3>5
  <2>6. \A i \in 1..(l - 1) : t[i] = Tail(s)[i]
    <3>. TAKE i \in 1..(l - 1)
    <3>1. 2 + i - 1 = i + 1
      OBVIOUS
    <3>. QED  BY <2>3, <2>4, <2>5, <3>1
  <2>7. t = Tail(s)
    BY <2>3, <2>4, <2>5, <2>6, SameQueue
  <2>8. \A j \in 1..1, i \in 2..Len(s) : ~Answers(s, j, i)
    BY <1>3 DEF Answers
  <2>9. 1 \in 1..Len(s) /\ 1 + 1 = 2 /\ 2..1 = {}
    BY <1>1
  <2>. QED  BY <2>1, <2>2, <2>7, <2>8, <2>9
<1>4. CASE HasCalls(s[1])
  <2>. DEFINE answers(i) == i = 1 \/ (IsResult(s[i]) /\ s[i].call \in s[1].calls)
              K == {k \in DOMAIN s : \A i \in 1..k : answers(i)}
  <2>1. DropOldest(s) = From(s, 1 + Max(K))
    BY <1>2, <1>4 DEF DropOldest
  <2>2. 1 \in K /\ K \in SUBSET (0..l)
    <3>1. \A i \in 1..1 : i = 1
      OBVIOUS
    <3>. QED  BY <1>1, <1>2, <3>1
  <2>3. PICK n : n = Max(K)
    OBVIOUS
  <2>4. n \in K /\ \A k \in K : n >= k
    <3>. HIDE DEF K
    <3>. QED  BY <2>2, <2>3, Greatest
  <2>5. n \in 1..l /\ \A i \in 1..n : answers(i)
    BY <1>2, <2>4
  <2>6. \A k \in 2..n : IsResult(s[k])
    BY <2>5
  <2>7. ASSUME NEW j \in 1..n, NEW i \in (n + 1)..l, Answers(s, j, i) PROVE FALSE
    <3>1. j = 1
      <4>1. j # 1 => j \in 2..n
        OBVIOUS
      <4>. QED  BY <2>6, <2>7, <4>1 DEF Answers, IsResult, HasCalls
    <3>2. i \in DOMAIN s /\ i \in 1..l
      BY <1>2, <2>5
    <3>3. \A k \in 2..i : Answers(s, 1, k)
      BY <1>2, <2>7, <3>1, <3>2 DEF Together
    <3>4. \A k \in 1..i : k = 1 \/ k \in 2..i
      BY <3>2
    <3>5. i \in K
      BY <3>2, <3>3, <3>4 DEF Answers
    <3>. QED  BY <2>4, <2>5, <3>5
  <2>8. 1 + n = n + 1
    BY <2>5
  <2>. QED  BY <1>1, <2>1, <2>3, <2>5, <2>6, <2>7, <2>8
<1>. QED  BY <1>3, <1>4

\* What drop_oldest_safe leaves.
LEMMA DropKeeps ==
  ASSUME NEW s, IsQueue(s), s # <<>>, Together(s), NEW t, t = DropOldest(s)
  PROVE  /\ IsQueue(t) /\ Together(t) /\ Orphans(t) \subseteq Orphans(s)
         /\ Len(s) > 1 /\ s[Len(s)].role = "user" => t # <<>> /\ t[Len(t)] = s[Len(s)]
<1>1. PICK l \in Nat : l = Len(s)
  BY Queued
<1>2. PICK n \in 1..l : /\ t = From(s, n + 1)
                        /\ \A k \in 2..n : IsResult(s[k])
                        /\ \A j \in 1..n, i \in (n + 1)..l : ~Answers(s, j, i)
  BY <1>1, Drops
<1>3. n + 1 \in Nat \ {0} /\ n + 1 <= l + 1 /\ n \in 0..l
  OBVIOUS
<1>4. /\ PartOf(t, s) /\ IsQueue(t) /\ Len(t) = l + 1 - (n + 1) /\ DOMAIN t = 1..(l + 1 - (n + 1))
      /\ \A i \in DOMAIN t : t[i] = s[(n + 1) + i - 1]
  <2>1. PICK c \in Nat \ {0} : c = n + 1 /\ c <= Len(s) + 1
    BY <1>1, <1>3
  <2>2. t = From(s, c)
    BY <1>2, <2>1
  <2>3. /\ PartOf(t, s) /\ IsQueue(t) /\ Len(t) = Len(s) + 1 - c /\ DOMAIN t = 1..(Len(s) + 1 - c)
        /\ \A i \in DOMAIN t : t[i] = s[c + i - 1]
    BY <2>1, <2>2, Rest
  <2>. QED  BY <1>1, <2>1, <2>3
<1>5. Orphans(t) \subseteq Orphans(s)
  BY <1>1, <1>2, <1>3, CutOrphans
<1>6. ASSUME l > 1, s[l].role = "user" PROVE t # <<>> /\ t[Len(t)] = s[l]
  <2>1. ~(l \in 2..n)
    BY <1>2, <1>6 DEF IsResult
  <2>2. n < l
    BY <1>6, <2>1
  <2>3. Len(t) \in DOMAIN t /\ (n + 1) + Len(t) - 1 = l
    BY <1>4, <2>2
  <2>. QED  BY <1>4, <2>3, EmptyQueue
<1>. QED  BY <1>1, <1>4, <1>5, <1>6, PartPaired

-----------------------------------------------------------------------------
(***************************************************************************)
(* The guard                                                               *)
(***************************************************************************)

\* What is left of the first j messages.
LEMMA PairedStep ==
  ASSUME NEW s, Len(s) \in Nat
  PROVE  \A j \in 0..Len(s) :
           PairedUpTo(s)[j] = CASE j = 0 -> <<>>
                                [] j > 0 /\ OrphanAt(s, j) -> PairedUpTo(s)[j - 1]
                                [] OTHER -> Append(PairedUpTo(s)[j - 1], s[j])
<1>. DEFINE n == Len(s)
            Step(f, k) == CASE k = 0 -> <<>>
                            [] k > 0 /\ OrphanAt(s, k) -> f[k - 1]
                            [] OTHER -> Append(f[k - 1], s[k])
            Fills(f, m) == f = [k \in 0..m |-> Step(f, k)]
            left == CHOOSE f : f = [k \in 0..n |-> Step(f, k)]
            Defined == {m \in Nat : \E f : Fills(f, m)}
<1>1. PairedUpTo(s) = left
  BY DEF PairedUpTo
<1>2. Nat \subseteq Defined
  <2>1. 0 \in Defined
    <3>1. Fills([k \in 0..0 |-> <<>>], 0)
      <4>1. \A k \in 0..0 : k = 0
        OBVIOUS
      <4>. QED  BY <4>1
    <3>. HIDE DEF Fills
    <3>. QED  BY <3>1
  <2>2. ASSUME NEW m \in Nat, m \in Defined PROVE m + 1 \in Defined
    <3>1. PICK g : Fills(g, m)
      BY <2>2
    <3>. DEFINE h == [k \in 0..(m + 1) |-> IF k <= m THEN g[k] ELSE Step(g, m + 1)]
    <3>2. ASSUME NEW k \in 0..(m + 1) PROVE h[k] = Step(h, k)
      <4>1. k # 0 => k - 1 \in 0..m /\ k - 1 \in 0..(m + 1) /\ k - 1 <= m
        OBVIOUS
      <4>2. k # 0 => h[k - 1] = g[k - 1]
        BY <4>1
      <4>3. CASE k <= m
        <5>1. k \in 0..m
          BY <4>3
        <5>2. g[k] = Step(g, k)
          BY <3>1, <5>1
        <5>. QED  BY <4>2, <4>3, <5>2
      <4>4. CASE ~(k <= m)
        <5>1. k = m + 1
          BY <4>4
        <5>. QED  BY <4>2, <4>4, <5>1
      <4>. QED  BY <4>3, <4>4
    <3>3. Fills(h, m + 1)
      <4>. HIDE DEF Step
      <4>. QED  BY <3>2
    <3>. HIDE DEF Fills
    <3>. QED  BY <3>3
  <2>. HIDE DEF Defined
  <2>. QED  BY <2>1, <2>2, Induction
<1>3. left = [k \in 0..n |-> Step(left, k)]
  <2>1. \E f : Fills(f, n)
    <3>1. n \in Defined
      BY <1>2
    <3>. HIDE DEF Fills
    <3>. QED  BY <3>1
  <2>. HIDE DEF Step
  <2>. QED  BY <2>1
<1>. HIDE DEF left
<1>. QED  BY <1>1, <1>3

\* The messages of s up to k that are not orphans, in their order.
Sieves(t, s, g, k) ==
  /\ Picks(t, s, g)
  /\ \A i \in DOMAIN t : g[i] <= k /\ ~OrphanAt(s, g[i])
  /\ \A p \in 1..k : OrphanAt(s, p) \/ \E i \in DOMAIN t : g[i] = p

\* So after every number of messages.
LEMMA PairedSieves ==
  ASSUME NEW s, IsQueue(s)
  PROVE  \A k \in 0..Len(s) : \E g : Sieves(PairedUpTo(s)[k], s, g, k)
<1>1. PICK n \in Nat : n = Len(s)
  BY Queued
<1>. DEFINE Good == {k \in Nat : k <= n => \E g : Sieves(PairedUpTo(s)[k], s, g, k)}
<1>2. DOMAIN s = 1..n
  BY <1>1, Queued
<1>3. 0 \in Good
  <2>1. 0 \in 0..Len(s)
    BY <1>1
  <2>2. PairedUpTo(s)[0] = <<>>
    BY <1>1, <2>1, PairedStep
  <2>3. [i \in {} |-> 0] \in [{} -> DOMAIN s]
    OBVIOUS
  <2>4. Sieves(<<>>, s, [i \in {} |-> 0], 0)
    BY <2>3, EmptyQueue DEF Sieves, Picks
  <2>. QED  BY <2>2, <2>4
<1>4. ASSUME NEW k \in Nat, k \in Good PROVE k + 1 \in Good
  <2>. SUFFICES ASSUME k + 1 <= n PROVE \E g : Sieves(PairedUpTo(s)[k + 1], s, g, k + 1)
    OBVIOUS
  <2>1. PICK t : t = PairedUpTo(s)[k]
    OBVIOUS
  <2>2. PICK g : Sieves(t, s, g, k)
    BY <1>4, <2>1
  <2>3. /\ k + 1 \in 0..Len(s) /\ k + 1 > 0 /\ (k + 1) - 1 = k /\ k + 1 # 0
        /\ k + 1 \in DOMAIN s
    BY <1>1, <1>2
  <2>4. PairedUpTo(s)[k + 1] = IF OrphanAt(s, k + 1) THEN t ELSE Append(t, s[k + 1])
    BY <1>1, <2>1, <2>3, PairedStep
  <2>5. \A p \in 1..(k + 1) : p = k + 1 \/ p \in 1..k
    OBVIOUS
  <2>6. \A i \in DOMAIN t : g[i] \in DOMAIN s /\ g[i] \in Nat /\ g[i] <= k
    BY <1>2, <2>2 DEF Sieves, Picks
  <2>7. CASE OrphanAt(s, k + 1)
    <3>1. \A i \in DOMAIN t : g[i] <= k + 1
      BY <2>6
    <3>2. Sieves(t, s, g, k + 1)
      BY <2>2, <2>5, <2>7, <3>1 DEF Sieves
    <3>. QED  BY <2>4, <2>7, <3>2
  <2>8. CASE ~OrphanAt(s, k + 1)
    <3>1. PICK u : u = Append(t, s[k + 1])
      OBVIOUS
    <3>2. PICK l \in Nat : l = Len(t) /\ IsQueue(t)
      BY <2>2, Queued DEF Sieves, Picks
    <3>3. Longer(t, s[k + 1], u, l)
      BY <3>1, <3>2, OneMore
    <3>4. /\ IsQueue(u) /\ DOMAIN u = 1..(l + 1) /\ DOMAIN t = 1..l
          /\ u[l + 1] = s[k + 1] /\ \A i \in 1..l : u[i] = t[i]
      BY <3>3 DEF Longer
    <3>. DEFINE h == [i \in DOMAIN u |-> IF i \in DOMAIN t THEN g[i] ELSE k + 1]
    <3>5. PICK f : f = h
      OBVIOUS
    <3>6. /\ f \in [DOMAIN u -> DOMAIN s] /\ f[l + 1] = k + 1
          /\ \A i \in DOMAIN t : i \in DOMAIN u /\ f[i] = g[i]
      BY <2>3, <2>6, <3>4, <3>5
    <3>. HIDE DEF h
    <3>7. \A i \in DOMAIN u : i = l + 1 \/ i \in DOMAIN t
      BY <3>4
    <3>8. ASSUME NEW i \in DOMAIN u, NEW j \in DOMAIN u, i < j PROVE f[i] < f[j]
      <4>1. i \in DOMAIN t
        BY <3>4, <3>7, <3>8
      <4>2. CASE j \in DOMAIN t
        BY <2>2, <3>6, <3>8, <4>1, <4>2 DEF Sieves, Picks
      <4>3. CASE j = l + 1
        BY <2>6, <3>6, <4>1, <4>3
      <4>. QED  BY <3>7, <4>2, <4>3
    <3>9. \A i \in DOMAIN u : u[i] = s[f[i]] /\ f[i] <= k + 1 /\ ~OrphanAt(s, f[i])
      <4>1. \A i \in DOMAIN t : t[i] = s[g[i]] /\ g[i] <= k + 1 /\ ~OrphanAt(s, g[i])
        BY <2>2, <2>6 DEF Sieves, Picks
      <4>. QED  BY <2>8, <3>4, <3>6, <3>7, <4>1
    <3>10. \A p \in 1..(k + 1) : OrphanAt(s, p) \/ \E i \in DOMAIN u : f[i] = p
      <4>1. l + 1 \in DOMAIN u
        BY <3>4
      <4>2. \A p \in 1..k : OrphanAt(s, p) \/ \E i \in DOMAIN t : g[i] = p
        BY <2>2 DEF Sieves
      <4>. QED  BY <2>5, <3>6, <4>1, <4>2
    <3>11. Sieves(u, s, f, k + 1)
      BY <3>4, <3>6, <3>8, <3>9, <3>10 DEF Sieves, Picks
    <3>. QED  BY <2>4, <2>8, <3>1, <3>11
  <2>. QED  BY <2>7, <2>8
<1>. HIDE DEF Good
<1>5. Nat \subseteq Good
  BY <1>3, <1>4, Induction
<1>. QED  BY <1>1, <1>5 DEF Good

\* remove_orphan_tool_results leaves no orphan, and every other message.
LEMMA PairedKeeps ==
  ASSUME NEW s, IsQueue(s), NEW t, t = PairedUpTo(s)[Len(s)]
  PROVE  /\ PartOf(t, s) /\ Orphans(t) = {}
         /\ Len(s) > 0 /\ ~IsResult(s[Len(s)]) => t # <<>> /\ t[Len(t)] = s[Len(s)]
<1>1. PICK n \in Nat : n = Len(s) /\ DOMAIN s = 1..n
  BY Queued
<1>2. n \in 0..Len(s)
  BY <1>1
<1>3. PICK g : Sieves(t, s, g, n)
  BY <1>1, <1>2, PairedSieves
<1>4. /\ IsQueue(t) /\ g \in [DOMAIN t -> 1..n]
      /\ \A i, j \in DOMAIN t : i < j => g[i] < g[j]
      /\ \A i \in DOMAIN t : t[i] = s[g[i]] /\ ~OrphanAt(s, g[i])
      /\ \A p \in 1..n : OrphanAt(s, p) \/ \E i \in DOMAIN t : g[i] = p
  BY <1>1, <1>3 DEF Sieves, Picks
<1>5. Len(t) \in Nat /\ DOMAIN t = 1..Len(t)
  BY <1>4, Queued
<1>6. ASSUME NEW i \in DOMAIN t, OrphanAt(t, i) PROVE FALSE
  <2>1. i \in Nat /\ g[i] \in 1..n /\ g[i] \in Nat /\ t[i] = s[g[i]] /\ ~OrphanAt(s, g[i])
    BY <1>4, <1>5
  <2>2. IsResult(s[g[i]])
    BY <1>6, <2>1 DEF OrphanAt
  <2>3. PICK j \in 1..(g[i] - 1) : Answers(s, j, g[i])
    BY <2>1, <2>2, OrphanIs
  <2>4. j \in 1..n /\ j < g[i] /\ ~OrphanAt(s, j)
    BY <2>1, <2>3 DEF Answers, OrphanAt, IsResult, HasCalls
  <2>5. PICK k \in DOMAIN t : g[k] = j
    BY <1>4, <2>4
  <2>6. k < i
    <3>1. k = i \/ i < k \/ k < i
      BY <1>5
    <3>2. ~(g[k] > g[i]) /\ g[k] # g[i]
      BY <2>1, <2>4, <2>5
    <3>3. g[k] \in Nat
      BY <2>4, <2>5
    <3>. QED  BY <1>4, <2>1, <3>1, <3>2, <3>3
  <2>7. Answers(t, k, i)
    BY <1>4, <2>1, <2>3, <2>5, <2>6 DEF Answers
  <2>8. k \in 1..(i - 1)
    BY <1>5, <2>6
  <2>. QED  BY <1>6, <2>1, <2>7, <2>8, OrphanIs
<1>7. Orphans(t) = {}
  BY <1>6 DEF Orphans
<1>8. ASSUME n > 0, ~IsResult(s[n]) PROVE t # <<>> /\ t[Len(t)] = s[n]
  <2>1. n \in 0..Len(s) /\ n # 0 /\ ~OrphanAt(s, n)
    BY <1>1, <1>8 DEF OrphanAt
  <2>2. t = Append(PairedUpTo(s)[n - 1], s[n])
    BY <1>1, <2>1, PairedStep
  <2>3. PICK u : u = PairedUpTo(s)[n - 1]
    OBVIOUS
  <2>4. IsQueue(u)
    <3>1. n - 1 \in 0..Len(s)
      BY <1>1, <1>8
    <3>. QED  BY <2>3, <3>1, PairedSieves DEF Sieves, Picks
  <2>5. PICK l \in Nat : l = Len(u)
    BY <2>4, Queued
  <2>6. Longer(u, s[n], t, l)
    BY <2>2, <2>3, <2>4, <2>5, OneMore
  <2>. QED  BY <2>6, EmptyQueue DEF Longer
<1>9. PartOf(t, s)
  BY <1>3 DEF Sieves, PartOf
<1>. QED  BY <1>1, <1>7, <1>8, <1>9

\* What apply_policy leaves.
LEMMA GuardKeeps ==
  ASSUME NEW s, IsQueue(s), s # <<>>, Together(s), NEW t, t = Guarded(s)
  PROVE  /\ IsQueue(t) /\ Together(t) /\ Orphans(t) \subseteq Orphans(s)
         /\ s[Len(s)].role = "user" => t # <<>> /\ t[Len(t)] = s[Len(s)]
<1>1. PICK n \in Nat : n = Len(s) /\ n >= 1 /\ DOMAIN s = 1..n
  BY Taken
<1>2. CASE Tokens(s) <= Window - Headroom
  BY <1>2 DEF Guarded
<1>3. CASE ~(Tokens(s) <= Window - Headroom)
  <2>. DEFINE H == {h \in DOMAIN s : \/ h = Len(s)
                                     \/ Tokens(From(s, h)) <= Window - Headroom}
  <2>1. n \in H /\ H \subseteq Nat
    BY <1>1
  <2>2. PICK h : h = Min(H)
    OBVIOUS
  <2>3. h \in H
    <3>. HIDE DEF H
    <3>. QED  BY <2>1, <2>2, Smallest
  <2>4. h \in 1..n /\ h \in Nat \ {0} /\ h <= n + 1
    BY <1>1, <2>3
  <2>5. PICK k : k = From(s, h)
    OBVIOUS
  <2>6. t = PairedUpTo(k)[Len(k)]
    BY <1>3, <2>2, <2>5 DEF Guarded
  <2>7. /\ PartOf(k, s) /\ IsQueue(k) /\ Len(k) = n + 1 - h /\ DOMAIN k = 1..(n + 1 - h)
        /\ \A i \in DOMAIN k : k[i] = s[h + i - 1]
    BY <1>1, <2>4, <2>5, Rest
  <2>8. Together(k)
    BY <2>7, PartPaired
  <2>9. /\ PartOf(t, k) /\ Orphans(t) = {}
        /\ Len(k) > 0 /\ ~IsResult(k[Len(k)]) => t # <<>> /\ t[Len(t)] = k[Len(k)]
    BY <2>6, <2>7, PairedKeeps
  <2>10. IsQueue(t) /\ Together(t)
    BY <2>7, <2>8, <2>9, PartPaired
  <2>11. Len(k) > 0 /\ k[Len(k)] = s[n]
    <3>1. Len(k) \in 1..(n + 1 - h) /\ h + Len(k) - 1 = n
      BY <2>4, <2>7
    <3>. QED  BY <2>7, <3>1
  <2>12. s[n].role = "user" => ~IsResult(k[Len(k)])
    BY <2>11 DEF IsResult
  <2>. QED  BY <1>1, <2>9, <2>10, <2>11, <2>12
<1>. QED  BY <1>2, <1>3

-----------------------------------------------------------------------------
(***************************************************************************)
(* Entries before a place                                                  *)
(***************************************************************************)

\* Each place has as many entries in front as the one before it, and it.
LEMMA BeforeStep ==
  ASSUME NEW b, IsQueue(b), NEW n \in Nat, n = Len(b)
  PROVE  /\ \A k \in 1..(n + 1) : Before(b, k) \in Nat
         /\ Before(b, 1) = 0
         /\ \A k \in 1..n : Before(b, k + 1) = Before(b, k) + (IF Contributes(b[k]) THEN 1 ELSE 0)
<1>. DEFINE Up(k) == {i \in Contributing(b) : i < k}
<1>1. DOMAIN b = 1..n /\ Contributing(b) \subseteq 1..n
  BY Queued DEF Contributing
<1>2. \A k : IsFiniteSet(Up(k)) /\ Cardinality(Up(k)) \in Nat /\ Before(b, k) = Cardinality(Up(k))
  <2>. TAKE k
  <2>1. IsFiniteSet(1..n)
    <3>1. 1 \in Int /\ n \in Int
      OBVIOUS
    <3>. QED  BY <3>1, FS_Interval
  <2>2. Up(k) \subseteq 1..n
    BY <1>1
  <2>3. IsFiniteSet(Up(k))
    BY <2>1, <2>2, FS_Subset
  <2>. QED  BY <2>3, FS_CardinalityType DEF Before
<1>3. Up(1) = {}
  BY <1>1
<1>4. Before(b, 1) = 0
  BY <1>2, <1>3, FS_EmptySet
<1>5. ASSUME NEW k \in 1..n PROVE Before(b, k + 1) = Before(b, k) + (IF Contributes(b[k]) THEN 1 ELSE 0)
  <2>1. \A i \in Contributing(b) : i < k + 1 <=> i < k \/ i = k
    BY <1>1
  <2>2. k \in Contributing(b) <=> Contributes(b[k])
    BY <1>1 DEF Contributing
  <2>3. CASE Contributes(b[k])
    <3>1. Up(k + 1) = Up(k) \cup {k} /\ k \notin Up(k)
      BY <2>1, <2>2, <2>3
    <3>2. Cardinality(Up(k) \cup {k}) = Cardinality(Up(k)) + 1
      <4>. HIDE DEF Up
      <4>. QED  BY <1>2, <3>1, FS_AddElement
    <3>. QED  BY <1>2, <2>3, <3>1, <3>2
  <2>4. CASE ~Contributes(b[k])
    <3>1. Up(k + 1) = Up(k)
      BY <2>1, <2>2, <2>4
    <3>2. Before(b, k + 1) = Before(b, k) /\ Before(b, k) \in Nat
      <4>. HIDE DEF Up
      <4>. QED  BY <1>2, <3>1
    <3>. QED  BY <2>4, <3>2
  <2>. QED  BY <2>3, <2>4
<1>. QED  BY <1>2, <1>4, <1>5

\* Later places have no fewer.
LEMMA BeforeGrows ==
  ASSUME NEW b, IsQueue(b), NEW n \in Nat, n = Len(b)
  PROVE  \A j, k \in 1..(n + 1) : j <= k => Before(b, j) <= Before(b, k)
<1>. SUFFICES ASSUME NEW j \in 1..(n + 1) PROVE \A k \in 1..(n + 1) : j <= k => Before(b, j) <= Before(b, k)
  OBVIOUS
<1>. DEFINE Good == {d \in Nat : j + d <= n + 1 => Before(b, j) <= Before(b, j + d)}
<1>1. \A k \in 1..(n + 1) : Before(b, k) \in Nat
  BY BeforeStep
<1>2. 0 \in Good
  <2>1. j + 0 = j /\ Before(b, j) \in Nat
    BY <1>1
  <2>. QED  BY <2>1
<1>3. ASSUME NEW d \in Nat, d \in Good PROVE d + 1 \in Good
  <2>. SUFFICES ASSUME j + (d + 1) <= n + 1 PROVE Before(b, j) <= Before(b, j + (d + 1))
    OBVIOUS
  <2>1. PICK k \in 1..n : k = j + d /\ k + 1 = j + (d + 1) /\ k \in 1..(n + 1) /\ k + 1 \in 1..(n + 1)
    OBVIOUS
  <2>2. Before(b, j) <= Before(b, k)
    BY <1>3, <2>1
  <2>3. Before(b, k + 1) = Before(b, k) + (IF Contributes(b[k]) THEN 1 ELSE 0)
    BY BeforeStep
  <2>4. Before(b, j) \in Nat /\ Before(b, k) \in Nat
    BY <1>1, <2>1
  <2>. QED  BY <2>1, <2>2, <2>3, <2>4
<1>. HIDE DEF Good
<1>4. Nat \subseteq Good
  BY <1>2, <1>3, Induction
<1>5. ASSUME NEW k \in 1..(n + 1), j <= k PROVE Before(b, j) <= Before(b, k)
  <2>1. k - j \in Nat /\ j + (k - j) = k
    BY <1>5
  <2>2. k - j \in Good
    BY <1>4, <2>1
  <2>. QED  BY <2>1, <2>2 DEF Good
<1>. QED  BY <1>5

\* What stands before a place is not changed by what is appended.
LEMMA BeforeSame ==
  ASSUME NEW b, NEW n \in Nat, NEW e, NEW d, Longer(b, e, d, n)
  PROVE  \A k \in 1..(n + 1) : Before(d, k) = Before(b, k)
<1>. SUFFICES ASSUME NEW k \in 1..(n + 1) PROVE Before(d, k) = Before(b, k)
  OBVIOUS
<1>2. DOMAIN d = 1..(n + 1) /\ DOMAIN b = 1..n /\ \A i \in 1..n : d[i] = b[i]
  BY DEF Longer
<1>3. \A i : i \in DOMAIN d /\ i < k <=> i \in DOMAIN b /\ i < k
  BY <1>2
<1>4. {i \in Contributing(d) : i < k} = {i \in Contributing(b) : i < k}
  BY <1>2, <1>3 DEF Contributing
<1>. QED  BY <1>4 DEF Before

\* Every number of entries before some place is that of a contributing place.
LEMMA BeforeAll ==
  ASSUME NEW b, IsQueue(b), NEW n \in Nat, n = Len(b), NEW m \in Nat, NEW k \in 1..(n + 1),
         m < Before(b, k)
  PROVE  \E i \in 1..(k - 1) : Contributes(b[i]) /\ Before(b, i) = m
<1>. DEFINE Good == {j \in Nat : j + 1 <= n + 1 /\ m < Before(b, j + 1) =>
                       \E i \in 1..j : Contributes(b[i]) /\ Before(b, i) = m}
<1>1. 0 \in Good
  BY BeforeStep
<1>2. ASSUME NEW j \in Nat, j \in Good PROVE j + 1 \in Good
  <2>. SUFFICES ASSUME (j + 1) + 1 <= n + 1, m < Before(b, (j + 1) + 1)
                PROVE  \E i \in 1..(j + 1) : Contributes(b[i]) /\ Before(b, i) = m
    OBVIOUS
  <2>1. PICK l \in 1..n : l = j + 1 /\ l \in 1..(n + 1)
    OBVIOUS
  <2>2. Before(b, l + 1) = Before(b, l) + (IF Contributes(b[l]) THEN 1 ELSE 0) /\ Before(b, l) \in Nat
    BY <2>1, BeforeStep
  <2>3. CASE m < Before(b, l)
    <3>1. PICK i \in 1..j : Contributes(b[i]) /\ Before(b, i) = m
      BY <1>2, <2>1, <2>3
    <3>2. i \in 1..(j + 1)
      OBVIOUS
    <3>. QED  BY <3>1, <3>2
  <2>4. CASE ~(m < Before(b, l))
    <3>1. Contributes(b[l]) /\ Before(b, l) = m
      BY <2>1, <2>2, <2>4
    <3>2. l \in 1..(j + 1)
      BY <2>1
    <3>. QED  BY <3>1, <3>2
  <2>. QED  BY <2>3, <2>4
<1>. HIDE DEF Good
<1>3. Nat \subseteq Good
  BY <1>1, <1>2, Induction
<1>4. k - 1 \in Nat /\ (k - 1) + 1 = k
  OBVIOUS
<1>5. k - 1 \in Good
  BY <1>3, <1>4
<1>. QED  BY <1>4, <1>5 DEF Good

-----------------------------------------------------------------------------
(***************************************************************************)
(* What a branch shows                                                     *)
(***************************************************************************)

\* The messages of the entries from i to j, each with at least as many in front.
Stretches(t, b, g, i, j) ==
  /\ Picks(t, Line(b), g)
  /\ \A k \in DOMAIN t : /\ g[k] \in i..j /\ b[g[k]].kind = "message" /\ t[k] = b[g[k]].msg
                         /\ Before(b, i) + k <= Before(b, g[k]) + 1
  /\ \A p \in i..j : b[p].kind = "message" => \E k \in DOMAIN t : g[k] = p
  /\ Before(b, i) + Len(t) <= Before(b, j + 1)

\* The kinds of entries of this model.
LEMMA BranchShows ==
  ASSUME NEW b, IsBranch(b)
  PROVE  /\ \A k \in DOMAIN b : /\ IsShown(b[k]) <=> b[k].kind = "message"
                                /\ b[k].kind \in {"message", "compaction"} <=> Contributes(b[k])
         /\ IsQueue(Line(b)) /\ DOMAIN Line(b) = DOMAIN b /\ Len(Line(b)) = Len(b)
         /\ \A k \in DOMAIN b : Line(b)[k] = IF b[k].kind = "message" THEN b[k].msg ELSE Gap
<1>1. PICK n \in Nat : n = Len(b) /\ DOMAIN b = 1..n
  BY Queued DEF IsBranch, IsEntry
<1>2. \A k \in DOMAIN b : b[k].kind \in {"message", "setting", "compaction"}
  BY DEF IsBranch, IsEntry
<1>. DEFINE T == {Line(b)[k] : k \in 1..n}
<1>3. PICK t : t = Line(b)
  OBVIOUS
<1>4. DOMAIN t = 1..n /\ t = [k \in 1..n |-> t[k]]
  BY <1>1, <1>3 DEF Line
<1>5. t \in [1..n -> {t[k] : k \in DOMAIN t}]
  BY <1>4
<1>6. t \in Seq({t[k] : k \in DOMAIN t})
  BY <1>5
<1>7. IsQueue(t) /\ Len(t) = n
  BY <1>4, <1>6 DEF IsQueue
<1>8. \A k \in DOMAIN b : Line(b)[k] = IF b[k].kind = "message" THEN b[k].msg ELSE Gap
  BY DEF Line
<1>. QED  BY <1>1, <1>2, <1>3, <1>4, <1>7, <1>8 DEF IsShown, Contributes

\* An empty stretch.
LEMMA NothingStretches ==
  ASSUME NEW b, IsBranch(b), NEW i \in 1..(Len(b) + 1)
  PROVE  \E g : Stretches(<<>>, b, g, i, i - 1)
<1>1. PICK n \in Nat : n = Len(b) /\ i \in 1..(n + 1)
  BY Queued DEF IsBranch, IsEntry
<1>2. [k \in {} |-> 0] \in [{} -> DOMAIN Line(b)]
  OBVIOUS
<1>3. Picks(<<>>, Line(b), [k \in {} |-> 0])
  BY <1>2, EmptyQueue DEF Picks
<1>4. i..(i - 1) = {} /\ (i - 1) + 1 = i /\ Before(b, i) \in Nat
  <2>1. Before(b, i) \in Nat
    BY <1>1, BeforeStep DEF IsBranch, IsEntry
  <2>. QED  BY <1>1, <2>1
<1>5. Before(b, i) + 0 <= Before(b, (i - 1) + 1)
  BY <1>4
<1>6. Stretches(<<>>, b, [k \in {} |-> 0], i, i - 1)
  BY <1>3, <1>4, <1>5, EmptyQueue DEF Stretches
<1>. QED  BY <1>6

\* An entry more: it shows nothing.
LEMMA StretchesOver ==
  ASSUME NEW b, IsBranch(b), NEW n \in Nat, n = Len(b), NEW i \in Nat \ {0}, NEW j \in Nat,
         i <= j + 1, j + 1 <= n, NEW t, NEW g, Stretches(t, b, g, i, j), b[j + 1].kind # "message"
  PROVE  Stretches(t, b, g, i, j + 1)
<1>1. \A p \in i..(j + 1) : p = j + 1 \/ p \in i..j
  OBVIOUS
<1>2. \A p \in i..j : p \in i..(j + 1)
  OBVIOUS
<1>3. Before(b, j + 1) <= Before(b, (j + 1) + 1)
  <2>1. j + 1 \in 1..(n + 1) /\ (j + 1) + 1 \in 1..(n + 1) /\ j + 1 <= (j + 1) + 1
    OBVIOUS
  <2>. QED  BY <2>1, BeforeGrows DEF IsBranch, IsEntry
<1>4. Before(b, j + 1) \in Nat /\ Before(b, (j + 1) + 1) \in Nat /\ Before(b, i) \in Nat /\ Len(t) \in Nat
  <2>1. j + 1 \in 1..(n + 1) /\ (j + 1) + 1 \in 1..(n + 1) /\ i \in 1..(n + 1)
    OBVIOUS
  <2>2. Len(t) \in Nat
    BY Queued DEF Stretches, Picks
  <2>. QED  BY <2>1, <2>2, BeforeStep DEF IsBranch, IsEntry
<1>5. Before(b, i) + Len(t) <= Before(b, (j + 1) + 1)
  <2>1. Before(b, i) + Len(t) <= Before(b, j + 1)
    BY DEF Stretches
  <2>. QED  BY <1>3, <1>4, <2>1
<1>6. Picks(t, Line(b), g)
  BY DEF Stretches
<1>7. \A k \in DOMAIN t : /\ g[k] \in i..(j + 1) /\ b[g[k]].kind = "message" /\ t[k] = b[g[k]].msg
                          /\ Before(b, i) + k <= Before(b, g[k]) + 1
  <2>. TAKE k \in DOMAIN t
  <2>1. /\ g[k] \in i..j /\ b[g[k]].kind = "message" /\ t[k] = b[g[k]].msg
        /\ Before(b, i) + k <= Before(b, g[k]) + 1
    BY DEF Stretches
  <2>. QED  BY <1>2, <2>1
<1>8. \A p \in i..(j + 1) : b[p].kind = "message" => \E k \in DOMAIN t : g[k] = p
  <2>1. \A p \in i..j : b[p].kind = "message" => \E k \in DOMAIN t : g[k] = p
    BY DEF Stretches
  <2>. QED  BY <1>1, <2>1
<1>. QED  BY <1>5, <1>6, <1>7, <1>8 DEF Stretches

\* It shows a message.
LEMMA StretchesOn ==
  ASSUME NEW b, IsBranch(b), NEW n \in Nat, n = Len(b), NEW i \in Nat \ {0}, NEW j \in Nat,
         i <= j + 1, j + 1 <= n, NEW t, NEW g, Stretches(t, b, g, i, j), b[j + 1].kind = "message",
         NEW u, u = Append(t, b[j + 1].msg)
  PROVE  \E f : Stretches(u, b, f, i, j + 1)
<1>1. PICK l \in Nat : l = Len(t) /\ IsQueue(t)
  BY Queued DEF Stretches, Picks
<1>2. Longer(t, b[j + 1].msg, u, l)
  BY <1>1, OneMore
<1>3. /\ IsQueue(u) /\ Len(u) = l + 1 /\ DOMAIN u = 1..(l + 1) /\ DOMAIN t = 1..l
      /\ u[l + 1] = b[j + 1].msg /\ \A k \in 1..l : u[k] = t[k]
  BY <1>2 DEF Longer
<1>4. PICK f : f = [k \in DOMAIN u |-> IF k \in DOMAIN t THEN g[k] ELSE j + 1]
  OBVIOUS
<1>5. /\ DOMAIN b = 1..n /\ j + 1 \in DOMAIN b /\ DOMAIN Line(b) = DOMAIN b
      /\ Line(b)[j + 1] = b[j + 1].msg
  <2>1. DOMAIN b = 1..n /\ j + 1 \in 1..n
    BY Queued DEF IsBranch, IsEntry
  <2>. QED  BY <2>1, BranchShows
<1>6. \A k \in DOMAIN t : g[k] \in DOMAIN b /\ g[k] \in i..j /\ g[k] \in Nat
  BY <1>5 DEF Stretches, Picks
<1>7. /\ f \in [DOMAIN u -> DOMAIN b] /\ f[l + 1] = j + 1
      /\ \A k \in DOMAIN t : k \in DOMAIN u /\ f[k] = g[k]
  <2>1. l + 1 \in DOMAIN u /\ ~(l + 1 \in DOMAIN t) /\ DOMAIN t \subseteq DOMAIN u
    BY <1>3
  <2>2. f[l + 1] = j + 1 /\ \A k \in DOMAIN t : k \in DOMAIN u /\ f[k] = g[k]
    BY <1>4, <2>1
  <2>3. \A k \in DOMAIN u : (IF k \in DOMAIN t THEN g[k] ELSE j + 1) \in DOMAIN b
    BY <1>5, <1>6
  <2>4. f \in [DOMAIN u -> DOMAIN b]
    BY ONLY <1>4, <2>3
  <2>. QED  BY <2>2, <2>4
<1>8. \A k \in DOMAIN u : k = l + 1 \/ k \in DOMAIN t
  BY <1>3
<1>9. ASSUME NEW k \in DOMAIN u, NEW m \in DOMAIN u, k < m PROVE f[k] < f[m]
  <2>1. k \in DOMAIN t
    BY <1>3, <1>8, <1>9
  <2>2. CASE m \in DOMAIN t
    BY <1>7, <1>9, <2>1, <2>2 DEF Stretches, Picks
  <2>3. CASE m = l + 1
    BY <1>6, <1>7, <2>1, <2>3
  <2>. QED  BY <1>8, <2>2, <2>3
<1>10. Picks(u, Line(b), f)
  <2>1. \A k \in DOMAIN t : t[k] = Line(b)[g[k]]
    BY DEF Stretches, Picks
  <2>2. \A k \in DOMAIN u : u[k] = Line(b)[f[k]]
    BY <1>3, <1>5, <1>7, <1>8, <2>1
  <2>. QED  BY <1>3, <1>5, <1>7, <1>9, <2>2 DEF Picks
<1>11. Before(b, i) \in Nat /\ Before(b, j + 1) \in Nat /\ Before(b, (j + 1) + 1) = Before(b, j + 1) + 1
  <2>1. i \in 1..(n + 1) /\ j + 1 \in 1..(n + 1) /\ j + 1 \in 1..n
    OBVIOUS
  <2>2. Contributes(b[j + 1])
    BY <1>5, BranchShows
  <2>. QED  BY <2>1, <2>2, BeforeStep DEF IsBranch, IsEntry
<1>12. Before(b, i) + l <= Before(b, j + 1)
  BY <1>1 DEF Stretches
<1>13. \A k \in DOMAIN u : /\ f[k] \in i..(j + 1) /\ b[f[k]].kind = "message" /\ u[k] = b[f[k]].msg
                           /\ Before(b, i) + k <= Before(b, f[k]) + 1
  <2>1. /\ f[l + 1] \in i..(j + 1) /\ b[f[l + 1]].kind = "message" /\ u[l + 1] = b[f[l + 1]].msg
        /\ Before(b, i) + (l + 1) <= Before(b, f[l + 1]) + 1
    BY <1>3, <1>7, <1>11, <1>12
  <2>2. ASSUME NEW k \in DOMAIN t
        PROVE  /\ f[k] \in i..(j + 1) /\ b[f[k]].kind = "message" /\ u[k] = b[f[k]].msg
               /\ Before(b, i) + k <= Before(b, f[k]) + 1
    <3>1. /\ b[g[k]].kind = "message" /\ t[k] = b[g[k]].msg
          /\ Before(b, i) + k <= Before(b, g[k]) + 1 /\ g[k] \in i..(j + 1)
      BY <1>6 DEF Stretches
    <3>. QED  BY <1>3, <1>7, <3>1
  <2>. QED  BY <1>8, <2>1, <2>2
<1>14. \A p \in i..(j + 1) : b[p].kind = "message" => \E k \in DOMAIN u : f[k] = p
  <2>1. \A p \in i..(j + 1) : p = j + 1 \/ p \in i..j
    OBVIOUS
  <2>2. l + 1 \in DOMAIN u
    BY <1>3
  <2>3. \A p \in i..j : b[p].kind = "message" => \E k \in DOMAIN t : g[k] = p
    BY DEF Stretches
  <2>. QED  BY <1>7, <2>1, <2>2, <2>3
<1>15. Before(b, i) + Len(u) <= Before(b, (j + 1) + 1)
  BY <1>3, <1>11, <1>12
<1>. QED  BY <1>10, <1>13, <1>14, <1>15 DEF Stretches

\* So of every stretch.
LEMMA ShownStretches ==
  ASSUME NEW b, IsBranch(b), NEW i \in 1..(Len(b) + 1)
  PROVE  \A j \in 0..Len(b) : i <= j + 1 => \E g : Stretches(Shown(b, i, j), b, g, i, j)
<1>1. PICK n \in Nat : n = Len(b) /\ i \in 1..(n + 1) /\ DOMAIN b = 1..n
  BY Queued DEF IsBranch, IsEntry
<1>2. i \in Nat \ {0} /\ Len(b) \in Nat
  BY <1>1
<1>. DEFINE Good == {j \in Nat : j <= n /\ i <= j + 1 => \E g : Stretches(Shown(b, i, j), b, g, i, j)}
<1>3. ASSUME NEW j \in 0..n, i = j + 1 PROVE \E g : Stretches(Shown(b, i, j), b, g, i, j)
  <2>1. Shown(b, i, j) = <<>> /\ i - 1 = j
    <3>1. j \in 0..Len(b) /\ j < i
      BY <1>1, <1>3
    <3>2. Shown(b, i, j) = <<>>
      BY <1>2, <3>1, ShownStep
    <3>. QED  BY <1>3, <3>2
  <2>. QED  BY <2>1, NothingStretches
<1>4. 0 \in Good
  <2>. SUFFICES ASSUME i <= 0 + 1 PROVE \E g : Stretches(Shown(b, i, 0), b, g, i, 0)
    OBVIOUS
  <2>1. i = 0 + 1 /\ 0 \in 0..n
    BY <1>1
  <2>. QED  BY <1>3, <2>1
<1>5. ASSUME NEW j \in Nat, j \in Good PROVE j + 1 \in Good
  <2>. SUFFICES ASSUME j + 1 <= n, i <= (j + 1) + 1
                PROVE  \E g : Stretches(Shown(b, i, j + 1), b, g, i, j + 1)
    OBVIOUS
  <2>1. PICK k \in 0..n : k = j + 1 /\ k \in DOMAIN b
    BY <1>1
  <2>2. CASE i = k + 1
    BY <1>3, <2>1, <2>2
  <2>3. CASE i # k + 1
    <3>1. i <= j + 1 /\ j <= n /\ ~(k < i) /\ k - 1 = j
      BY <1>1, <2>1, <2>3
    <3>2. PICK g : Stretches(Shown(b, i, j), b, g, i, j)
      BY <1>5, <3>1
    <3>3. Shown(b, i, k) = Shown(b, i, j) \o MessagesOf(b[k])
      <4>1. k \in 0..Len(b)
        BY <1>1, <2>1
      <4>2. Shown(b, i, k) = IF k < i THEN <<>> ELSE Shown(b, i, k - 1) \o MessagesOf(b[k])
        BY <1>2, <4>1, ShownStep
      <4>. QED  BY <3>1, <4>2
    <3>4. PICK t : t = Shown(b, i, j)
      OBVIOUS
    <3>5. IsQueue(t)
      BY <3>2, <3>4 DEF Stretches, Picks
    <3>6. CASE b[k].kind = "message"
      <4>1. MessagesOf(b[k]) = <<b[k].msg>>
        BY <2>1, <3>6, BranchShows DEF MessagesOf
      <4>2. Shown(b, i, k) = Append(t, b[k].msg)
        BY <3>3, <3>4, <3>5, <4>1, Appended
      <4>. QED  BY <1>1, <1>2, <2>1, <3>1, <3>2, <3>4, <3>6, <4>2, StretchesOn
    <3>7. CASE b[k].kind # "message"
      <4>1. MessagesOf(b[k]) = <<>>
        BY <2>1, <3>7, BranchShows DEF MessagesOf
      <4>2. Shown(b, i, k) = t
        BY <3>3, <3>4, <3>5, <4>1, EmptyQueue, Concats
      <4>. QED  BY <1>1, <1>2, <2>1, <3>1, <3>2, <3>4, <3>7, <4>2, StretchesOver
    <3>. QED  BY <3>6, <3>7
  <2>. QED  BY <2>2, <2>3
<1>. HIDE DEF Good
<1>6. Nat \subseteq Good
  BY <1>4, <1>5, Induction
<1>. QED  BY <1>1, <1>6 DEF Good

-----------------------------------------------------------------------------
(***************************************************************************)
(* A context that is rebuilt                                               *)
(***************************************************************************)

\* Two parts of a sequence, one behind the other.
LEMMA PartsJoin ==
  ASSUME NEW s, IsQueue(s), NEW p, NEW g, Picks(p, s, g), NEW q, NEW h, Picks(q, s, h),
         \A i \in DOMAIN p, j \in DOMAIN q : g[i] < h[j], NEW t, t = p \o q
  PROVE  PartOf(t, s)
<1>1. PICK a \in Nat : a = Len(p) /\ DOMAIN p = 1..a /\ IsQueue(p)
  BY Queued DEF Picks
<1>2. PICK b \in Nat : b = Len(q) /\ DOMAIN q = 1..b /\ IsQueue(q)
  BY Queued DEF Picks
<1>3. /\ IsQueue(t) /\ Len(t) = a + b
      /\ \A i \in 1..a : t[i] = p[i]
      /\ \A i \in 1..b : t[a + i] = q[i]
  BY <1>1, <1>2, Concats
<1>4. DOMAIN t = 1..(a + b)
  BY <1>3, Queued
<1>5. PICK f : f = [k \in DOMAIN t |-> IF k \in 1..a THEN g[k] ELSE h[k - a]]
  OBVIOUS
<1>6. \A k \in DOMAIN t : \/ k \in 1..a /\ f[k] = g[k] /\ t[k] = p[k]
                          \/ /\ k - a \in 1..b /\ ~(k \in 1..a)
                             /\ f[k] = h[k - a] /\ t[k] = q[k - a]
  <2>. TAKE k \in DOMAIN t
  <2>1. CASE k \in 1..a
    BY <1>3, <1>5, <2>1
  <2>2. CASE ~(k \in 1..a)
    <3>1. k - a \in 1..b /\ a + (k - a) = k
      BY <1>4, <2>2
    <3>. QED  BY <1>3, <1>5, <2>2, <3>1
  <2>. QED  BY <2>1, <2>2
<1>7. /\ \A i \in 1..a : g[i] \in DOMAIN s /\ p[i] = s[g[i]]
      /\ \A i \in 1..b : h[i] \in DOMAIN s /\ q[i] = s[h[i]]
      /\ \A i, j \in 1..a : i < j => g[i] < g[j]
      /\ \A i, j \in 1..b : i < j => h[i] < h[j]
      /\ \A i \in 1..a, j \in 1..b : g[i] < h[j]
  BY <1>1, <1>2 DEF Picks
<1>8. \A k \in DOMAIN t : f[k] \in DOMAIN s /\ t[k] = s[f[k]]
  BY <1>6, <1>7
<1>9. ASSUME NEW i \in DOMAIN t, NEW j \in DOMAIN t, i < j PROVE f[i] < f[j]
  <2>1. CASE i \in 1..a /\ j \in 1..a
    BY <1>6, <1>7, <1>9, <2>1
  <2>2. CASE i \in 1..a /\ ~(j \in 1..a)
    BY <1>6, <1>7, <2>2
  <2>3. CASE ~(i \in 1..a)
    <3>1. ~(j \in 1..a) /\ i - a < j - a
      BY <1>4, <1>9, <2>3
    <3>. QED  BY <1>6, <1>7, <2>3, <3>1, SMTT(30), ZenonT(30)
  <2>. QED  BY <2>1, <2>2, <2>3
<1>10. f \in [DOMAIN t -> DOMAIN s]
  <2>1. DOMAIN f = DOMAIN t /\ f = [k \in DOMAIN t |-> f[k]]
    BY <1>5
  <2>. QED  BY <1>8, <2>1
<1>. QED  BY <1>3, <1>8, <1>9, <1>10, SMTT(30), ZenonT(30) DEF Picks, PartOf

\* A context is a summary and two stretches, or one stretch.
Folds(t, b, c, A, B, g, h) ==
  /\ Stretches(A, b, g, Kept(b), c - 1) /\ Stretches(B, b, h, c + 1, Len(b))
  /\ t = <<b[c].msg>> \o (A \o B)

\* Every context is one of the two.
LEMMA ContextParts ==
  ASSUME NEW b, IsBranch(b), NEW n \in Nat, n = Len(b), NEW c, c = LastCompaction(b),
         NEW t, t = ContextMessages(b)
  PROVE  /\ c = 0 => Kept(b) = 1 /\ \E g : Stretches(t, b, g, 1, n)
         /\ c # 0 => /\ c \in 1..n /\ b[c].kind = "compaction" /\ Kept(b) \in 1..c
                     /\ \E A, B, g, h : Folds(t, b, c, A, B, g, h)
<1>1. DOMAIN b = 1..n /\ IsQueue(b)
  BY Queued DEF IsBranch, IsEntry
<1>2. c \in 0..n /\ (c # 0 => b[c].kind = "compaction")
  BY <1>1, LastOne
<1>3. CASE c = 0
  <2>1. t = Shown(b, 1, n) /\ Kept(b) = 1
    BY <1>3 DEF ContextMessages, Kept
  <2>2. 1 \in 1..(Len(b) + 1) /\ n \in 0..Len(b) /\ 1 <= n + 1
    OBVIOUS
  <2>3. \E g : Stretches(Shown(b, 1, n), b, g, 1, n)
    BY <2>2, ShownStretches
  <2>. QED  BY <1>3, <2>1, <2>3
<1>4. CASE c # 0
  <2>1. PICK k : k = Kept(b)
    OBVIOUS
  <2>2. k = KeptFrom(b, c) /\ c \in Nat \ {0}
    BY <1>2, <1>4, <2>1 DEF Kept
  <2>3. k \in 1..c /\ c \in 1..n
    BY <1>2, <2>2, KeptPlace
  <2>4. PICK A : A = Shown(b, k, c - 1)
    OBVIOUS
  <2>5. PICK B : B = Shown(b, c + 1, n)
    OBVIOUS
  <2>6. \E g : Stretches(A, b, g, k, c - 1)
    <3>1. k \in 1..(Len(b) + 1) /\ c - 1 \in 0..Len(b) /\ k <= (c - 1) + 1
      BY <2>3
    <3>. QED  BY <2>4, <3>1, ShownStretches
  <2>7. \E h : Stretches(B, b, h, c + 1, n)
    <3>1. c + 1 \in 1..(Len(b) + 1) /\ n \in 0..Len(b) /\ c + 1 <= n + 1
      BY <2>3
    <3>. QED  BY <2>5, <3>1, ShownStretches
  <2>8. t = (<<b[c].msg>> \o A) \o B
    BY <1>4, <2>2, <2>4, <2>5 DEF ContextMessages
  <2>9. IsQueue(A) /\ IsQueue(B) /\ IsQueue(<<b[c].msg>>)
    BY <2>6, <2>7, One DEF Stretches, Picks
  <2>10. t = <<b[c].msg>> \o (A \o B)
    BY <2>8, <2>9, Assoc
  <2>. QED  BY <1>2, <1>4, <2>1, <2>3, <2>6, <2>7, <2>10 DEF Folds
<1>. QED  BY <1>3, <1>4

\* What holds of a branch's calls and results holds of its context.
LEMMA ContextPaired ==
  ASSUME NEW b, IsBranch(b), Paired(Line(b), created), NEW t, t = ContextMessages(b)
  PROVE  Paired(t, created) /\ \A i \in DOMAIN t : IsMessage(t[i])
<1>1. PICK n \in Nat : n = Len(b) /\ DOMAIN b = 1..n
  BY Queued DEF IsBranch, IsEntry
<1>2. PICK c : c = LastCompaction(b)
  OBVIOUS
<1>3. IsQueue(Line(b)) /\ Together(Line(b)) /\ Apart(Line(b)) /\ Numbered(Line(b), created)
  BY DEF Paired
<1>4. \A k \in DOMAIN b : b[k].kind = "message" => IsMessage(b[k].msg)
  BY DEF IsBranch, IsEntry
<1>5. ASSUME NEW s, NEW g, NEW i, NEW j, Stretches(s, b, g, i, j)
      PROVE  IsQueue(s) /\ Picks(s, Line(b), g) /\ \A k \in DOMAIN s : IsMessage(s[k])
  <2>1. \A k \in DOMAIN s : g[k] \in DOMAIN b /\ s[k] = b[g[k]].msg /\ b[g[k]].kind = "message"
    BY <1>5, BranchShows DEF Stretches, Picks
  <2>. QED  BY <1>4, <1>5, <2>1 DEF Stretches, Picks
<1>6. CASE c = 0
  <2>1. PICK g : Stretches(t, b, g, 1, n)
    BY <1>1, <1>2, <1>6, ContextParts
  <2>2. PartOf(t, Line(b)) /\ \A k \in DOMAIN t : IsMessage(t[k])
    BY <1>5, <2>1 DEF PartOf
  <2>. QED  BY <1>3, <2>2, PartPaired DEF Paired
<1>7. CASE c # 0
  <2>1. PICK A, B, g, h : Folds(t, b, c, A, B, g, h)
    BY <1>1, <1>2, <1>7, ContextParts
  <2>2. c \in 1..n /\ b[c].kind = "compaction"
    BY <1>1, <1>2, <1>7, ContextParts
  <2>3. /\ IsQueue(A) /\ Picks(A, Line(b), g) /\ \A k \in DOMAIN A : IsMessage(A[k])
        /\ IsQueue(B) /\ Picks(B, Line(b), h) /\ \A k \in DOMAIN B : IsMessage(B[k])
    BY <1>5, <2>1 DEF Folds
  <2>4. \A i \in DOMAIN A, j \in DOMAIN B : g[i] < h[j]
    <3>1. \A i \in DOMAIN A, j \in DOMAIN B : g[i] \in Kept(b)..(c - 1) /\ h[j] \in (c + 1)..n
      BY <1>1, <2>1 DEF Folds, Stretches
    <3>2. \A i, j : i \in Kept(b)..(c - 1) /\ j \in (c + 1)..n => i < j
      BY <2>2
    <3>. QED  BY <3>1, <3>2
  <2>5. PICK s : s = A \o B
    OBVIOUS
  <2>6. PartOf(s, Line(b))
    BY <1>3, <2>3, <2>4, <2>5, PartsJoin
  <2>7. IsQueue(s) /\ Together(s) /\ Apart(s) /\ Numbered(s, created)
    BY <1>3, <2>6, PartPaired
  <2>8. PICK m : m = b[c].msg
    OBVIOUS
  <2>9. IsMessage(m) /\ m.role = "custom"
    BY <1>1, <2>2, <2>8 DEF IsBranch, IsEntry
  <2>10. ~HasCalls(m) /\ ~IsResult(m)
    BY <2>9 DEF HasCalls, IsResult
  <2>11. t = <<m>> \o s
    BY <2>1, <2>5, <2>8 DEF Folds
  <2>12. /\ IsQueue(t) /\ Together(t) /\ Apart(t) /\ Numbered(t, created)
         /\ Len(t) = Len(s) + 1 /\ t[1] = m /\ \A i \in 1..Len(s) : t[i + 1] = s[i]
    <3>1. Fronted(m, s, t) /\ Together(t) /\ Apart(t) /\ Numbered(t, created)
      BY <2>7, <2>10, <2>11, PutInFront
    <3>. QED  BY <3>1 DEF Fronted
  <2>13. \A i \in DOMAIN s : IsMessage(s[i])
    <3>1. /\ Len(A) \in Nat /\ Len(B) \in Nat /\ DOMAIN A = 1..Len(A) /\ DOMAIN B = 1..Len(B)
          /\ Len(s) = Len(A) + Len(B) /\ DOMAIN s = 1..Len(s)
          /\ \A i \in 1..Len(A) : s[i] = A[i]
          /\ \A i \in 1..Len(B) : s[Len(A) + i] = B[i]
      BY <2>3, <2>5, <2>7, Queued, Concats
    <3>2. ASSUME NEW i \in DOMAIN s PROVE IsMessage(s[i])
      <4>1. PICK a \in Nat, d \in Nat : a = Len(A) /\ d = Len(B)
        BY <3>1
      <4>2. i \in 1..a \/ (i - a \in 1..d /\ a + (i - a) = i)
        BY <3>1, <4>1
      <4>. QED  BY <2>3, <3>1, <4>1, <4>2
    <3>. QED  BY <3>2
  <2>14. \A i \in DOMAIN t : IsMessage(t[i])
    <3>1. PICK l \in Nat : l = Len(s) /\ DOMAIN s = 1..l /\ DOMAIN t = 1..(l + 1)
      BY <2>7, <2>12, Queued
    <3>2. ASSUME NEW i \in DOMAIN t PROVE IsMessage(t[i])
      <4>1. i = 1 \/ (i - 1 \in 1..l /\ (i - 1) + 1 = i)
        BY <3>1
      <4>. QED  BY <2>9, <2>12, <2>13, <3>1, <4>1
    <3>. QED  BY <3>2
  <2>. QED  BY <2>12, <2>14 DEF Paired
<1>. QED  BY <1>6, <1>7

\* Every message of a rebuilt context has its place, late enough.
LEMMA ContextPlaces ==
  ASSUME NEW b, IsBranch(b), NEW n \in Nat, n = Len(b),
         LastCompaction(b) > 0 => Before(b, Kept(b)) > 0, NEW t, t = ContextMessages(b)
  PROVE  /\ \A i \in DOMAIN t : t[i].role = "custom" \/
              \E p \in Kept(b)..n : b[p].kind = "message" /\ b[p].msg = t[i] /\ i <= Before(b, p) + 1
         /\ Len(t) <= Before(b, n + 1)
<1>1. PICK c : c = LastCompaction(b)
  OBVIOUS
<1>2. DOMAIN b = 1..n /\ IsQueue(b)
  BY Queued DEF IsBranch, IsEntry
<1>3. \A k \in 1..(n + 1) : Before(b, k) \in Nat
  BY <1>2, BeforeStep
<1>4. CASE c = 0
  <2>1. PICK g : Stretches(t, b, g, 1, n) /\ Kept(b) = 1
    BY <1>1, <1>4, ContextParts
  <2>2. Before(b, 1) = 0 /\ IsQueue(t) /\ Len(t) \in Nat /\ DOMAIN t = 1..Len(t)
    BY <1>2, <2>1, BeforeStep, Queued DEF Stretches, Picks
  <2>3. Len(t) <= Before(b, n + 1)
    BY <2>1, <2>2 DEF Stretches
  <2>4. ASSUME NEW i \in DOMAIN t
        PROVE  \E p \in Kept(b)..n : b[p].kind = "message" /\ b[p].msg = t[i] /\ i <= Before(b, p) + 1
    <3>1. g[i] \in 1..n /\ b[g[i]].kind = "message" /\ t[i] = b[g[i]].msg /\ 0 + i <= Before(b, g[i]) + 1
      BY <2>1, <2>2 DEF Stretches
    <3>. QED  BY <2>1, <2>2, <3>1
  <2>. QED  BY <2>3, <2>4
<1>5. CASE c # 0
  <2>1. PICK A, B, g, h : Folds(t, b, c, A, B, g, h)
    BY <1>1, <1>5, ContextParts
  <2>2. PICK k : k = Kept(b)
    OBVIOUS
  <2>3. c \in 1..n /\ b[c].kind = "compaction" /\ k \in 1..c
    BY <1>1, <1>5, <2>2, ContextParts
  <2>4. Stretches(A, b, g, k, c - 1) /\ Stretches(B, b, h, c + 1, n)
    BY <2>1, <2>2 DEF Folds
  <2>5. PICK x \in Nat : x = Before(b, k) /\ x > 0
    BY <1>1, <1>3, <1>5, <2>2, <2>3
  <2>6. PICK y \in Nat : y = Before(b, c)
    BY <1>3, <2>3
  <2>7. Before(b, c + 1) = y + 1
    <3>1. Contributes(b[c])
      BY <2>3 DEF Contributes
    <3>. QED  BY <1>2, <2>3, <2>6, <3>1, BeforeStep
  <2>8. PICK a \in Nat : a = Len(A) /\ DOMAIN A = 1..a /\ IsQueue(A)
    BY <2>4, Queued DEF Stretches, Picks
  <2>9. PICK d \in Nat : d = Len(B) /\ DOMAIN B = 1..d /\ IsQueue(B)
    BY <2>4, Queued DEF Stretches, Picks
  <2>10. x + a <= y
    <3>1. (c - 1) + 1 = c
      BY <2>3
    <3>. QED  BY <2>4, <2>5, <2>6, <2>8, <3>1 DEF Stretches
  <2>11. PICK z \in Nat : z = Before(b, n + 1) /\ y + 1 + d <= z
    <3>1. n + 1 \in 1..(n + 1)
      OBVIOUS
    <3>. QED  BY <1>3, <2>4, <2>7, <2>9, <3>1 DEF Stretches
  <2>12. PICK m : m = b[c].msg /\ m.role = "custom"
    BY <1>2, <2>3 DEF IsBranch, IsEntry
  <2>13. PICK s : s = A \o B
    OBVIOUS
  <2>14. /\ IsQueue(s) /\ Len(s) = a + d
         /\ \A i \in 1..a : s[i] = A[i]
         /\ \A i \in 1..d : s[a + i] = B[i]
    BY <2>8, <2>9, <2>13, Concats
  <2>15. t = <<m>> \o s
    BY <2>1, <2>12, <2>13 DEF Folds
  <2>16. IsQueue(t) /\ Len(t) = (a + d) + 1 /\ t[1] = m /\ \A i \in 1..(a + d) : t[i + 1] = s[i]
    <3>1. ~HasCalls(m) /\ ~IsResult(m)
      BY <2>12 DEF HasCalls, IsResult
    <3>2. Fronted(m, s, t)
      BY <2>14, <2>15, <3>1, PutInFront
    <3>. QED  BY <2>14, <3>2 DEF Fronted
  <2>17. DOMAIN t = 1..((a + d) + 1)
    BY <2>16, Queued
  <2>18. Len(t) <= Before(b, n + 1)
    BY <2>5, <2>10, <2>11, <2>16
  <2>19. ASSUME NEW i \in DOMAIN t, i # 1
         PROVE  \E p \in k..n : b[p].kind = "message" /\ b[p].msg = t[i] /\ i <= Before(b, p) + 1
    <3>1. CASE i - 1 \in 1..a
      <4>1. PICK e \in 1..a : e = i - 1 /\ e + 1 = i
        BY <2>17, <3>1
      <4>2. t[i] = A[e]
        BY <2>14, <2>16, <4>1
      <4>3. /\ g[e] \in k..(c - 1) /\ b[g[e]].kind = "message" /\ A[e] = b[g[e]].msg
            /\ x + e <= Before(b, g[e]) + 1
        BY <2>4, <2>5, <2>8 DEF Stretches
      <4>4. g[e] \in k..n /\ Before(b, g[e]) \in Nat
        BY <1>3, <2>3, <4>3
      <4>5. i <= Before(b, g[e]) + 1
        BY <2>5, <4>1, <4>3, <4>4
      <4>. QED  BY <4>2, <4>3, <4>4, <4>5
    <3>2. CASE ~(i - 1 \in 1..a)
      <4>1. PICK e \in 1..d : e = (i - 1) - a /\ (a + e) + 1 = i
        BY <2>17, <2>19, <3>2
      <4>2. t[i] = B[e]
        BY <2>14, <2>16, <4>1, SMTT(30), ZenonT(30)
      <4>3. /\ h[e] \in (c + 1)..n /\ b[h[e]].kind = "message" /\ B[e] = b[h[e]].msg
            /\ (y + 1) + e <= Before(b, h[e]) + 1
        BY <2>4, <2>7, <2>9 DEF Stretches
      <4>4. h[e] \in k..n /\ Before(b, h[e]) \in Nat
        BY <1>3, <2>3, <4>3
      <4>5. i <= Before(b, h[e]) + 1
        BY <2>5, <2>10, <4>1, <4>3, <4>4, SMTT(30), ZenonT(30)
      <4>. QED  BY <4>2, <4>3, <4>4, <4>5
    <3>. QED  BY <3>1, <3>2
  <2>. QED  BY <2>2, <2>12, <2>16, <2>18, <2>19
<1>. QED  BY <1>4, <1>5

\* And what has a place late enough is part of the context.
LEMMA ContextHas ==
  ASSUME NEW b, IsBranch(b), NEW p \in Kept(b)..Len(b), b[p].kind = "message"
  PROVE  b[p].msg.id \in Ids(ContextMessages(b))
<1>1. PICK n \in Nat : n = Len(b)
  BY Queued DEF IsBranch, IsEntry
<1>2. PICK c : c = LastCompaction(b)
  OBVIOUS
<1>3. PICK t : t = ContextMessages(b)
  OBVIOUS
<1>4. CASE c = 0
  <2>1. PICK g : Stretches(t, b, g, 1, n) /\ Kept(b) = 1
    BY <1>1, <1>2, <1>3, <1>4, ContextParts
  <2>2. p \in 1..n
    BY <1>1, <2>1
  <2>3. PICK k \in DOMAIN t : g[k] = p /\ t[k] = b[g[k]].msg
    BY <2>1, <2>2 DEF Stretches
  <2>. QED  BY <1>3, <2>3 DEF Ids
<1>5. CASE c # 0
  <2>1. PICK A, B, g, h : Folds(t, b, c, A, B, g, h)
    BY <1>1, <1>2, <1>3, <1>5, ContextParts
  <2>2. PICK k : k = Kept(b)
    OBVIOUS
  <2>3. c \in 1..n /\ b[c].kind = "compaction" /\ k \in 1..c
    BY <1>1, <1>2, <1>3, <1>5, <2>2, ContextParts
  <2>4. Stretches(A, b, g, k, c - 1) /\ Stretches(B, b, h, c + 1, n)
    BY <1>1, <2>1, <2>2 DEF Folds
  <2>5. p \in k..(c - 1) \/ p \in (c + 1)..n
    <3>1. p # c
      BY <2>3
    <3>2. p \in k..n
      BY <1>1, <2>2
    <3>. QED  BY <2>3, <3>1, <3>2
  <2>6. PICK s : s = A \o B
    OBVIOUS
  <2>7. PICK m : m = b[c].msg
    OBVIOUS
  <2>8. t = <<m>> \o s
    BY <2>1, <2>6, <2>7 DEF Folds
  <2>9. PICK a \in Nat : a = Len(A) /\ DOMAIN A = 1..a /\ IsQueue(A)
    BY <2>4, Queued DEF Stretches, Picks
  <2>10. PICK d \in Nat : d = Len(B) /\ DOMAIN B = 1..d /\ IsQueue(B)
    BY <2>4, Queued DEF Stretches, Picks
  <2>11. /\ IsQueue(s) /\ Len(s) = a + d
         /\ \A i \in 1..a : s[i] = A[i]
         /\ \A i \in 1..d : s[a + i] = B[i]
    BY <2>6, <2>9, <2>10, Concats
  <2>12. PICK o : o = <<m>> /\ IsQueue(o) /\ Len(o) = 1
    BY One
  <2>13. t = o \o s
    BY <2>8, <2>12
  <2>14. IsQueue(t) /\ Len(t) = Len(o) + Len(s) /\ \A i \in 1..Len(s) : t[Len(o) + i] = s[i]
    BY <2>11, <2>12, <2>13, Concats, SMTT(30), ZenonT(30)
  <2>15. DOMAIN t = 1..((a + d) + 1) /\ \A i \in 1..(a + d) : t[1 + i] = s[i]
    <3>1. Len(t) = (a + d) + 1
      BY <2>11, <2>12, <2>14
    <3>. QED  BY <2>11, <2>12, <2>14, <3>1, Queued
  <2>16. CASE p \in k..(c - 1)
    <3>1. PICK e \in 1..a : g[e] = p /\ A[e] = b[g[e]].msg
      BY <2>4, <2>9, <2>16 DEF Stretches
    <3>2. e \in 1..(a + d) /\ 1 + e \in DOMAIN t
      BY <2>15
    <3>3. t[1 + e] = b[p].msg
      BY <2>11, <2>15, <3>1, <3>2
    <3>. QED  BY <1>3, <3>2, <3>3 DEF Ids
  <2>17. CASE p \in (c + 1)..n
    <3>1. PICK e \in 1..d : h[e] = p /\ B[e] = b[h[e]].msg
      BY <2>4, <2>10, <2>17 DEF Stretches
    <3>2. a + e \in 1..(a + d) /\ 1 + (a + e) \in DOMAIN t
      BY <2>15
    <3>3. t[1 + (a + e)] = b[p].msg
      BY <2>11, <2>15, <3>1, <3>2
    <3>. QED  BY <1>3, <3>2, <3>3 DEF Ids
  <2>. QED  BY <2>5, <2>16, <2>17
<1>. QED  BY <1>4, <1>5

-----------------------------------------------------------------------------
(***************************************************************************)
(* Truncation                                                              *)
(***************************************************************************)

\* A truncated message; once is enough.
Capped(m) == IF IsResult(m) THEN [m EXCEPT !.size = AtMost(@, ResultCap)] ELSE m

\* It keeps what pairs and places depend on.
LEMMA CappedIs ==
  ASSUME NEW m, IsMessage(m), NEW n, n = Capped(m)
  PROVE  /\ IsMessage(n) /\ n.role = m.role /\ n.id = m.id
         /\ IsResult(n) <=> IsResult(m)
         /\ HasCalls(n) <=> HasCalls(m)
         /\ HasCalls(m) => n.calls = m.calls
         /\ IsResult(m) => n.call = m.call
         /\ Capped(n) = n
<1>1. CASE ~IsResult(m)
  BY <1>1 DEF Capped
<1>2. CASE IsResult(m)
  <2>1. {"role", "id", "call", "size"} \subseteq DOMAIN m
    BY <1>2 DEF IsMessage
  <2>2. n = [f \in DOMAIN m |-> IF f = "size" THEN AtMost(m.size, ResultCap) ELSE m[f]]
    BY <1>2 DEF Capped
  <2>3. DOMAIN n = DOMAIN m /\ n.role = m.role /\ n.id = m.id /\ n.call = m.call
        /\ n.size = AtMost(m.size, ResultCap)
    BY <2>1, <2>2
  <2>4. IsMessage(n) /\ IsResult(n) /\ ~HasCalls(n) /\ ~HasCalls(m)
    BY <1>2, <2>1, <2>3 DEF IsMessage, IsResult, HasCalls
  <2>5. ResultCap \in Nat
    BY WindowAssumption
  <2>6. AtMost(n.size, ResultCap) = n.size
    <3>1. \/ AtMost(m.size, ResultCap) = m.size /\ m.size < ResultCap
          \/ AtMost(m.size, ResultCap) = ResultCap
      BY DEF AtMost
    <3>2. ~(ResultCap < ResultCap)
      BY <2>5
    <3>. QED  BY <2>3, <3>1, <3>2 DEF AtMost
  <2>7. Capped(n) = [f \in DOMAIN n |-> IF f = "size" THEN AtMost(n.size, ResultCap) ELSE n[f]]
    BY <2>4 DEF Capped
  <2>8. Capped(n) = n
    <3>1. \A f \in DOMAIN n : (IF f = "size" THEN AtMost(n.size, ResultCap) ELSE n[f]) = n[f]
      BY <2>6
    <3>2. n = [f \in DOMAIN n |-> n[f]]
      BY <2>2, <2>3
    <3>. QED  BY <2>7, <3>1, <3>2
  <2>. QED  BY <1>2, <2>3, <2>4, <2>8
<1>. QED  BY <1>1, <1>2

\* A sequence of messages keeps its calls and results in their places.
LEMMA TruncatedIs ==
  ASSUME NEW s, IsQueue(s), \A i \in DOMAIN s : IsMessage(s[i]), NEW t, t = Truncated(s)
  PROVE  /\ IsQueue(t) /\ Len(t) = Len(s) /\ DOMAIN t = DOMAIN s
         /\ \A i \in DOMAIN s : t[i] = Capped(s[i])
<1>1. PICK n \in Nat : n = Len(s) /\ DOMAIN s = 1..n
  BY Queued
<1>2. DOMAIN t = 1..n /\ t = [i \in 1..n |-> t[i]] /\ \A i \in DOMAIN s : t[i] = Capped(s[i])
  BY <1>1 DEF Truncated, Capped
<1>3. t \in Seq({t[i] : i \in DOMAIN t})
  BY <1>2
<1>4. IsQueue(t) /\ Len(t) = n
  BY <1>2, <1>3 DEF IsQueue
<1>. QED  BY <1>1, <1>2, <1>4

\* So the pairs stay, and an orphan is one truncated.
LEMMA TruncatedPaired ==
  ASSUME NEW s, Paired(s, created), \A i \in DOMAIN s : IsMessage(s[i]), NEW t, t = Truncated(s)
  PROVE  /\ Paired(t, created) /\ \A i \in DOMAIN t : IsMessage(t[i])
         /\ \A o \in Orphans(t) : \E m \in Orphans(s) : IsMessage(m) /\ o = Capped(m)
<1>1. IsQueue(s)
  BY DEF Paired
<1>2. /\ IsQueue(t) /\ Len(t) = Len(s) /\ DOMAIN t = DOMAIN s
      /\ \A i \in DOMAIN s : t[i] = Capped(s[i])
  BY <1>1, TruncatedIs
<1>3. \A i \in DOMAIN s : /\ IsMessage(t[i])
                          /\ IsResult(t[i]) <=> IsResult(s[i])
                          /\ HasCalls(t[i]) <=> HasCalls(s[i])
                          /\ HasCalls(s[i]) => t[i].calls = s[i].calls
                          /\ IsResult(s[i]) => t[i].call = s[i].call
  BY <1>2, CappedIs
<1>4. PICK n \in Nat : n = Len(s) /\ DOMAIN s = 1..n
  BY <1>1, Queued
<1>5. \A j, i \in DOMAIN s : Answers(t, j, i) <=> Answers(s, j, i)
  BY <1>3 DEF Answers
<1>6. \A j, i \in DOMAIN s : \A k \in (j + 1)..i : k \in DOMAIN s
  BY <1>4
<1>7. Together(t)
  BY <1>2, <1>5, <1>6 DEF Paired, Together
<1>8. Apart(t) /\ Numbered(t, created)
  BY <1>2, <1>3 DEF Paired, Apart, Numbered
<1>9. ASSUME NEW i \in DOMAIN t, OrphanAt(t, i) PROVE OrphanAt(s, i)
  <2>1. \A j \in 1..(i - 1) : j \in DOMAIN s /\ i \in Nat
    BY <1>2, <1>4
  <2>2. i \in Nat /\ i \in DOMAIN s
    BY <1>2, <1>4
  <2>3. IsResult(t[i]) /\ \A j \in 1..(i - 1) : ~Answers(t, j, i)
    BY <1>9, <2>2, OrphanIs
  <2>4. IsResult(s[i]) /\ \A j \in 1..(i - 1) : ~Answers(s, j, i)
    BY <1>3, <1>5, <2>1, <2>2, <2>3
  <2>. QED  BY <2>2, <2>4, OrphanIs
<1>10. \A o \in Orphans(t) : \E m \in Orphans(s) : IsMessage(m) /\ o = Capped(m)
  <2>. TAKE o \in Orphans(t)
  <2>1. PICK i \in DOMAIN t : OrphanAt(t, i) /\ o = t[i]
    BY DEF Orphans
  <2>2. OrphanAt(s, i) /\ i \in DOMAIN s
    BY <1>2, <1>9, <2>1
  <2>3. s[i] \in Orphans(s)
    BY <2>2 DEF Orphans
  <2>. QED  BY <1>2, <2>1, <2>2, <2>3
<1>. QED  BY <1>2, <1>3, <1>7, <1>8, <1>10 DEF Paired

-----------------------------------------------------------------------------
(***************************************************************************)
(* An entry more                                                           *)
(***************************************************************************)

\* The line of a branch with one more entry.
LEMMA LineGrows ==
  ASSUME NEW b, IsBranch(b), NEW n \in Nat, n = Len(b), NEW e, IsEntry(e, n + 1),
         NEW d, Longer(b, e, d, n)
  PROVE  /\ IsBranch(d)
         /\ Line(d) = Append(Line(b), IF e.kind = "message" THEN e.msg ELSE Gap)
<1>1. IsQueue(b)
  BY DEF IsBranch, IsEntry
<1>2. Longer(b, e, d, n)
  OBVIOUS
<1>3. /\ IsQueue(d) /\ DOMAIN d = 1..(n + 1) /\ DOMAIN b = 1..n
      /\ d[n + 1] = e /\ \A i \in 1..n : d[i] = b[i]
  BY <1>2 DEF Longer
<1>4. \A k \in DOMAIN d : k = n + 1 \/ k \in DOMAIN b
  BY <1>3
<1>5. IsBranch(d)
  BY <1>1, <1>3, <1>4 DEF IsBranch, IsEntry
<1>6. PICK m : m = IF e.kind = "message" THEN e.msg ELSE Gap
  OBVIOUS
<1>7. PICK t : t = Append(Line(b), m)
  OBVIOUS
<1>8. /\ IsQueue(Line(b)) /\ Len(Line(b)) = n
      /\ \A k \in DOMAIN b : Line(b)[k] = IF b[k].kind = "message" THEN b[k].msg ELSE Gap
  BY BranchShows
<1>9. Longer(Line(b), m, t, n)
  BY <1>7, <1>8, OneMore
<1>10. IsQueue(t) /\ Len(t) = n + 1 /\ t[n + 1] = m /\ \A k \in 1..n : t[k] = Line(b)[k]
  BY <1>9 DEF Longer
<1>11. /\ IsQueue(Line(d)) /\ Len(Line(d)) = n + 1
       /\ \A k \in DOMAIN d : Line(d)[k] = IF d[k].kind = "message" THEN d[k].msg ELSE Gap
  <2>1. Len(d) = n + 1
    BY <1>2 DEF Longer
  <2>. QED  BY <1>5, <2>1, BranchShows
<1>12. \A k \in 1..(n + 1) : Line(d)[k] = t[k]
  BY <1>3, <1>4, <1>6, <1>8, <1>10, <1>11
<1>13. Line(d) = t
  BY <1>10, <1>11, <1>12, SameQueue
<1>. QED  BY <1>5, <1>6, <1>7, <1>13

\* A gap says nothing.
LEMMA GapPaired ==
  ASSUME NEW s, Paired(s, created), NEW m, m.role \notin {"toolResult", "assistant"}, NEW t, t = Append(s, m)
  PROVE  Paired(t, created)
<1>1. PICK n \in Nat : n = Len(s) /\ IsQueue(s)
  BY Queued DEF Paired
<1>2. Longer(s, m, t, n)
  BY <1>1, OneMore
<1>3. /\ IsQueue(t) /\ DOMAIN t = 1..(n + 1) /\ DOMAIN s = 1..n /\ t[n + 1] = m
      /\ \A i \in 1..n : t[i] = s[i]
      /\ \A j, i \in 1..n : Answers(t, j, i) <=> Answers(s, j, i)
  BY <1>2 DEF Longer
<1>4. ~HasCalls(m) /\ ~IsResult(m)
  BY DEF HasCalls, IsResult
<1>5. \A i \in DOMAIN t : i = n + 1 \/ i \in 1..n
  BY <1>3
<1>6. Together(t)
  <2>. SUFFICES ASSUME NEW j \in DOMAIN t, NEW i \in DOMAIN t, Answers(t, j, i), NEW k \in (j + 1)..i
                PROVE  Answers(t, j, k)
    BY DEF Together
  <2>1. i # n + 1
    BY <1>3, <1>4 DEF Answers
  <2>2. i \in 1..n /\ j \in 1..n /\ k \in 1..n
    BY <1>3, <1>5, <2>1 DEF Answers
  <2>. QED  BY <1>3, <2>2 DEF Paired, Together
<1>7. Apart(t) /\ Numbered(t, created)
  <2>1. \A i \in DOMAIN t : HasCalls(t[i]) => i \in DOMAIN s /\ t[i] = s[i]
    BY <1>3, <1>4, <1>5
  <2>. QED  BY <2>1 DEF Paired, Apart, Numbered
<1>. QED  BY <1>3, <1>6, <1>7 DEF Paired

\* Where the context begins, if the entry is no compaction.
LEMMA KeptSame ==
  ASSUME NEW b, IsQueue(b), NEW n \in Nat, n = Len(b), NEW e, e.kind # "compaction",
         NEW d, Longer(b, e, d, n)
  PROVE  LastCompaction(d) = LastCompaction(b) /\ Kept(d) = Kept(b)
<1>3. /\ IsQueue(d) /\ DOMAIN d = 1..(n + 1) /\ DOMAIN b = 1..n /\ Len(d) = n + 1
      /\ d[n + 1] = e /\ \A i \in 1..n : d[i] = b[i]
  BY DEF Longer
<1>4. PICK c : c = LastCompaction(b)
  OBVIOUS
<1>5. /\ c \in 0..n /\ (c # 0 => b[c].kind = "compaction")
      /\ \A i \in DOMAIN b : b[i].kind = "compaction" => i <= c
  BY <1>4, LastOne
<1>6. LastCompaction(d) = c
  <2>1. c \in 0..Len(d) /\ (c # 0 => d[c].kind = "compaction")
    BY <1>3, <1>5
  <2>2. \A i \in DOMAIN d : d[i].kind = "compaction" => i <= c
    <3>1. \A i \in DOMAIN d : i = n + 1 \/ i \in DOMAIN b
      BY <1>3
    <3>. QED  BY <1>3, <1>5, <3>1
  <2>. QED  BY <1>3, <2>1, <2>2, LastIs
<1>7. c # 0 => KeptFrom(d, c) = KeptFrom(b, c)
  <2>. SUFFICES ASSUME c # 0 PROVE KeptFrom(d, c) = KeptFrom(b, c)
    OBVIOUS
  <2>1. d[c] = b[c] /\ \A i \in 1..(c - 1) : d[i] = b[i]
    BY <1>3, <1>5
  <2>2. {i \in 1..(c - 1) : d[i].id = d[c].first} = {i \in 1..(c - 1) : b[i].id = b[c].first}
    BY <2>1
  <2>. QED  BY <2>2 DEF KeptFrom
<1>. QED  BY <1>4, <1>6, <1>7 DEF Kept

\* The context begins in the branch, or behind it if it is empty.
LEMMA KeptIs ==
  ASSUME NEW b, IsBranch(b), NEW n \in Nat, n = Len(b)
  PROVE  Kept(b) \in 1..(n + 1)
<1>1. PICK c, t : c = LastCompaction(b) /\ t = ContextMessages(b)
  OBVIOUS
<1>2. c \in 0..n
  <2>1. IsQueue(b)
    BY DEF IsBranch, IsEntry
  <2>. QED  BY <1>1, <2>1, LastOne
<1>3. /\ c = 0 => Kept(b) = 1
      /\ c # 0 => c \in 1..n /\ Kept(b) \in 1..c
  BY <1>1, ContextParts
<1>. QED  BY <1>2, <1>3

\* An entry that is no compaction moves no message.
LEMMA PlacesStay ==
  ASSUME NEW b, IsBranch(b), NEW n \in Nat, n = Len(b), NEW s, IsQueue(s), Placed(s, b),
         NEW e, e.kind # "compaction", NEW d, Longer(b, e, d, n)
  PROVE  /\ Kept(d) = Kept(b) /\ (LastCompaction(d) > 0 => Before(d, Kept(d)) > 0)
         /\ IsQueue(d) /\ Len(d) = n + 1 /\ d[n + 1] = e
         /\ Before(d, n + 1) = Before(b, n + 1) /\ Before(d, n + 1) \in Nat
         /\ Before(d, n + 2) = Before(d, n + 1) + (IF Contributes(e) THEN 1 ELSE 0)
         /\ \A i \in DOMAIN s : s[i].role # "custom" =>
              \E p \in Kept(d)..Len(d) : PlaceOf(s, i, d, p)
<1>1. IsQueue(b)
  BY DEF IsBranch, IsEntry
<1>2. /\ IsQueue(d) /\ DOMAIN b = 1..n /\ DOMAIN d = 1..(n + 1) /\ d[n + 1] = e
      /\ \A i \in 1..n : d[i] = b[i]
  BY DEF Longer
<1>3. Len(d) = n + 1
  <2>1. Len(d) \in Nat /\ DOMAIN d = 1..Len(d)
    BY <1>2, Queued
  <2>. QED  BY <1>2, <2>1
<1>4. LastCompaction(d) = LastCompaction(b) /\ Kept(d) = Kept(b)
  BY <1>1, KeptSame
<1>5. \A k \in 1..(n + 1) : Before(d, k) = Before(b, k)
  BY BeforeSame
<1>6. Kept(b) \in 1..(n + 1)
  BY KeptIs
<1>7. LastCompaction(d) > 0 => Before(d, Kept(d)) > 0
  BY <1>4, <1>5, <1>6 DEF Placed
<1>8. ASSUME NEW i \in DOMAIN s, s[i].role # "custom"
      PROVE  \E p \in Kept(d)..Len(d) : PlaceOf(s, i, d, p)
  <2>1. PICK p \in Kept(b)..n : PlaceOf(s, i, b, p)
    BY <1>8 DEF Placed
  <2>2. p \in 1..n /\ p \in 1..(n + 1) /\ p \in Kept(d)..Len(d)
    BY <1>3, <1>4, <1>6
  <2>3. PlaceOf(s, i, d, p)
    BY <1>2, <1>5, <2>1, <2>2 DEF PlaceOf
  <2>. QED  BY <2>2, <2>3
<1>9. /\ Before(d, n + 1) = Before(b, n + 1) /\ Before(d, n + 1) \in Nat
      /\ Before(d, n + 2) = Before(d, n + 1) + (IF Contributes(e) THEN 1 ELSE 0)
  <2>1. n + 1 \in Nat /\ n + 1 = Len(d) /\ n + 1 \in 1..(n + 1) /\ n + 1 \in 1..((n + 1) + 1)
        /\ (n + 1) + 1 = n + 2
    BY <1>3
  <2>2. PICK N \in Nat : N = n + 1 /\ N = Len(d)
    BY <2>1
  <2>3. /\ \A k \in 1..(N + 1) : Before(d, k) \in Nat
        /\ \A k \in 1..N : Before(d, k + 1) = Before(d, k) + (IF Contributes(d[k]) THEN 1 ELSE 0)
    BY <1>2, <2>2, BeforeStep
  <2>. QED  BY <1>2, <1>5, <2>1, <2>2, <2>3
<1>. QED  BY <1>2, <1>3, <1>4, <1>7, <1>8, <1>9

\* A setting.
LEMMA SettingPlaced ==
  ASSUME NEW b, IsBranch(b), NEW s, IsQueue(s), Placed(s, b), NEW e, e.kind = "setting",
         NEW d, d = Append(b, e)
  PROVE  Placed(s, d)
<1>1. PICK n \in Nat : n = Len(b)
  BY Queued DEF IsBranch, IsEntry
<1>2. /\ LastCompaction(d) > 0 => Before(d, Kept(d)) > 0
      /\ Len(d) = n + 1
      /\ Before(d, n + 1) = Before(b, n + 1) /\ Before(d, n + 1) \in Nat
      /\ Before(d, n + 2) = Before(d, n + 1) + (IF Contributes(e) THEN 1 ELSE 0)
      /\ \A i \in DOMAIN s : s[i].role # "custom" =>
           \E p \in Kept(d)..Len(d) : PlaceOf(s, i, d, p)
  <2>1. Longer(b, e, d, n)
    BY <1>1, OneMore DEF IsBranch, IsEntry
  <2>. QED  BY <1>1, <2>1, PlacesStay
<1>3. Len(s) <= Before(d, Len(d) + 1)
  <2>1. Len(d) + 1 = n + 2 /\ Len(s) <= Before(b, n + 1) /\ ~Contributes(e)
    BY <1>1, <1>2 DEF Placed, Contributes
  <2>. QED  BY <1>2, <2>1
<1>. QED  BY <1>2, <1>3 DEF Placed

\* A message that enters the transcript and the branch.
LEMMA SayPlaced ==
  ASSUME NEW b, IsBranch(b), NEW s, IsQueue(s), Placed(s, b),
         NEW m, NEW e, e.kind = "message", e.msg = m,
         NEW d, d = Append(b, e), NEW t, t = Append(s, m)
  PROVE  Placed(t, d)
<1>1. PICK n \in Nat : n = Len(b)
  BY Queued DEF IsBranch, IsEntry
<1>2. /\ Kept(d) = Kept(b) /\ (LastCompaction(d) > 0 => Before(d, Kept(d)) > 0)
      /\ IsQueue(d) /\ Len(d) = n + 1 /\ d[n + 1] = e
      /\ Before(d, n + 1) = Before(b, n + 1) /\ Before(d, n + 1) \in Nat
      /\ Before(d, n + 2) = Before(d, n + 1) + (IF Contributes(e) THEN 1 ELSE 0)
      /\ \A i \in DOMAIN s : s[i].role # "custom" =>
           \E p \in Kept(d)..Len(d) : PlaceOf(s, i, d, p)
  <2>1. Longer(b, e, d, n)
    BY <1>1, OneMore DEF IsBranch, IsEntry
  <2>2. IsBranch(b) /\ n \in Nat /\ n = Len(b) /\ IsQueue(s) /\ Placed(s, b) /\ e.kind # "compaction"
    BY <1>1
  <2>. QED  BY ONLY <2>1, <2>2, PlacesStay
<1>3. PICK l \in Nat : l = Len(s)
  BY Queued
<1>4. /\ IsQueue(t) /\ DOMAIN s = 1..l /\ DOMAIN t = 1..(l + 1) /\ t[l + 1] = m
      /\ \A i \in 1..l : t[i] = s[i]
  BY <1>3, Queued
<1>5. Len(t) = l + 1
  <2>1. Len(t) \in Nat /\ DOMAIN t = 1..Len(t)
    BY <1>4, Queued
  <2>. QED  BY <1>4, <2>1
<1>6. l <= Before(d, n + 1)
  BY <1>1, <1>2, <1>3 DEF Placed
<1>7. Len(t) <= Before(d, Len(d) + 1)
  <2>1. Len(d) + 1 = n + 2 /\ Contributes(e)
    BY <1>2 DEF Contributes
  <2>. QED  BY <1>2, <1>5, <1>6, <2>1
<1>8. ASSUME NEW i \in DOMAIN t, t[i].role # "custom"
      PROVE  \E p \in Kept(d)..Len(d) : PlaceOf(t, i, d, p)
  <2>1. CASE i \in 1..l
    <3>1. PICK p \in Kept(d)..Len(d) : PlaceOf(s, i, d, p)
      BY <1>2, <1>4, <1>8, <2>1
    <3>2. PlaceOf(t, i, d, p)
      BY <1>4, <2>1, <3>1 DEF PlaceOf
    <3>. QED  BY <3>2
  <2>2. CASE i = l + 1
    <3>1. n + 1 \in Kept(d)..Len(d)
      <4>1. Kept(b) \in 1..(n + 1)
        BY <1>1, KeptIs
      <4>. QED  BY <1>2, <4>1
    <3>2. PlaceOf(t, i, d, n + 1)
      BY <1>2, <1>4, <1>6, <2>2 DEF PlaceOf
    <3>. QED  BY <3>1, <3>2
  <2>. QED  BY <1>4, <2>1, <2>2
<1>. QED  BY <1>2, <1>7, <1>8 DEF Placed

\* What is rebuilt from the branch.
LEMMA ContextPlaced ==
  ASSUME NEW b, IsBranch(b), LastCompaction(b) > 0 => Before(b, Kept(b)) > 0,
         NEW t, t = ContextMessages(b)
  PROVE  Placed(t, b)
<1>1. PICK n \in Nat : n = Len(b)
  BY Queued DEF IsBranch, IsEntry
<1>2. /\ \A i \in DOMAIN t : t[i].role = "custom" \/
           \E p \in Kept(b)..n : b[p].kind = "message" /\ b[p].msg = t[i] /\ i <= Before(b, p) + 1
      /\ Len(t) <= Before(b, n + 1)
  BY <1>1, ContextPlaces
<1>3. \A i \in DOMAIN t : t[i].role # "custom" => \E p \in Kept(b)..Len(b) : PlaceOf(t, i, b, p)
  BY <1>1, <1>2 DEF PlaceOf
<1>. QED  BY <1>1, <1>2, <1>3 DEF Placed

\* What truncation leaves.
LEMMA TruncatedPlaced ==
  ASSUME NEW b, NEW s, IsQueue(s), \A i \in DOMAIN s : IsMessage(s[i]), Placed(s, b),
         NEW t, t = Truncated(s)
  PROVE  Placed(t, b)
<1>1. /\ Len(t) = Len(s) /\ DOMAIN t = DOMAIN s
      /\ \A i \in DOMAIN s : t[i] = Capped(s[i])
  BY TruncatedIs
<1>2. ASSUME NEW i \in DOMAIN s PROVE t[i].role = s[i].role /\ t[i].id = s[i].id
  <2>1. PICK m, n : m = s[i] /\ n = Capped(m)
    OBVIOUS
  <2>2. IsMessage(m)
    BY <2>1
  <2>3. n.role = m.role /\ n.id = m.id
    BY <2>1, <2>2, CappedIs
  <2>. QED  BY <1>1, <2>1, <2>3
<1>3. \A i \in DOMAIN s, p \in Kept(b)..Len(b) : PlaceOf(s, i, b, p) => PlaceOf(t, i, b, p)
  BY <1>2 DEF PlaceOf
<1>. QED  BY <1>1, <1>2, <1>3 DEF Placed

\* What a compaction leaves of the transcript.
Compacts(s, n, m, t) ==
  IsQueue(s) /\ n \in 2..Len(s) /\ m.role = "custom" /\ t = <<m>> \o From(s, n + 1)

LEMMA Compacted ==
  ASSUME NEW s, NEW n, NEW m, NEW t, Compacts(s, n, m, t)
  PROVE  /\ IsQueue(t) /\ Len(t) \in Nat /\ Len(s) \in Nat /\ Len(t) = Len(s) + 1 - n
         /\ DOMAIN t = 1..Len(t) /\ DOMAIN s = 1..Len(s) /\ t[1] = m
         /\ \A i \in 2..Len(t) : t[i] = s[n + i - 1] /\ n + i - 1 \in 1..Len(s)
<1>1. PICK l \in Nat : l = Len(s) /\ DOMAIN s = 1..l
  BY Queued DEF Compacts
<1>8. IsQueue(s) /\ n \in 2..l
  BY <1>1 DEF Compacts
<1>2. PICK u, k : u = From(s, k) /\ k = n + 1
  OBVIOUS
<1>3. IsQueue(u) /\ Len(u) = l + 1 - k /\ DOMAIN u = 1..(l + 1 - k)
      /\ \A i \in DOMAIN u : u[i] = s[k + i - 1]
  <2>1. k \in Nat \ {0} /\ k <= Len(s) + 1
    BY <1>1, <1>2, <1>8
  <2>. QED  BY <1>1, <1>2, <1>8, <2>1, Rest
<1>4. Fronted(m, u, t)
  <2>1. t = <<m>> \o u /\ ~HasCalls(m) /\ ~IsResult(m)
    BY <1>2 DEF Compacts, HasCalls, IsResult
  <2>. QED  BY <1>3, <2>1, PutInFront
<1>5. IsQueue(t) /\ Len(t) = l + 1 - n /\ t[1] = m /\ \A i \in 1..(l - n) : t[i + 1] = s[n + i]
  <2>3. Len(u) = l - n
    BY <1>2, <1>3, <1>8
  <2>1. Len(u) = l - n /\ Len(t) = (l - n) + 1 /\ IsQueue(t) /\ t[1] = m
        /\ \A i \in 1..(l - n) : t[i + 1] = u[i]
    BY <1>4, <2>3 DEF Fronted
  <2>2. \A i \in 1..(l - n) : u[i] = s[n + i]
    <3>1. \A i \in 1..(l - n) : i \in DOMAIN u /\ k + i - 1 = n + i
      BY <1>2, <1>3, <1>8
    <3>. QED  BY <1>3, <3>1
  <2>4. (l - n) + 1 = l + 1 - n
    BY <1>8
  <2>. QED  BY <2>1, <2>2, <2>4
<1>6. ASSUME NEW i \in 2..Len(t) PROVE t[i] = s[n + i - 1] /\ n + i - 1 \in 1..Len(s)
  <2>1. i - 1 \in 1..(l - n) /\ (i - 1) + 1 = i /\ n + (i - 1) = n + i - 1 /\ n + i - 1 \in 1..l
    BY <1>5, <1>8
  <2>. QED  BY <1>1, <1>5, <2>1
<1>7. Len(t) \in Nat /\ DOMAIN t = 1..Len(t)
  BY <1>5, Queued
<1>. QED  BY <1>1, <1>5, <1>6, <1>7, <1>8

\* Its entry was not written.
LEMMA UnwrittenPlaced ==
  ASSUME NEW b, IsBranch(b), NEW s, Placed(s, b), NEW n, NEW m, NEW t, Compacts(s, n, m, t)
  PROVE  Placed(t, b)
<1>1. n \in 2..Len(s) /\ m.role = "custom"
  BY DEF Compacts
<1>2. /\ Len(t) \in Nat /\ Len(s) \in Nat /\ Len(t) = Len(s) + 1 - n
      /\ DOMAIN t = 1..Len(t) /\ DOMAIN s = 1..Len(s) /\ t[1] = m
      /\ \A i \in 2..Len(t) : t[i] = s[n + i - 1] /\ n + i - 1 \in 1..Len(s)
  BY Compacted
<1>3. PICK N \in Nat : N = Len(b)
  BY Queued DEF IsBranch, IsEntry
<1>4. Kept(b) \in 1..(N + 1) /\ \A k \in 1..(N + 1) : Before(b, k) \in Nat
  <2>1. IsQueue(b)
    BY DEF IsBranch, IsEntry
  <2>. QED  BY <1>3, <2>1, KeptIs, BeforeStep
<1>5. ASSUME NEW i \in DOMAIN t, t[i].role # "custom"
      PROVE  \E p \in Kept(b)..Len(b) : PlaceOf(t, i, b, p)
  <2>1. i \in 2..Len(t)
    BY <1>1, <1>2, <1>5
  <2>2. PICK j \in 1..Len(s) : j = n + i - 1 /\ t[i] = s[j]
    BY <1>2, <2>1
  <2>3. PICK p \in Kept(b)..Len(b) : PlaceOf(s, j, b, p)
    BY <1>2, <1>5, <2>2 DEF Placed
  <2>4. p \in 1..(N + 1)
    BY <1>3, <1>4
  <2>5. i <= Before(b, p) + 1
    BY <1>1, <1>2, <1>4, <2>1, <2>2, <2>3, <2>4, SMTT(30), ZenonT(30) DEF PlaceOf
  <2>. QED  BY <2>2, <2>3, <2>5 DEF PlaceOf
<1>6. Len(t) <= Before(b, Len(b) + 1)
  <2>1. Len(s) <= Before(b, N + 1) /\ Before(b, N + 1) \in Nat
    BY <1>3, <1>4 DEF Placed
  <2>. QED  BY <1>1, <1>2, <1>3, <2>1
<1>. QED  BY <1>5, <1>6 DEF Placed

\* The entry that a compaction records as the first one kept, and how many
\* contribute before it.
LEMMA FirstKeptIs ==
  ASSUME NEW b, IsBranch(b), NEW N \in Nat, N = Len(b), NEW n \in Nat, n >= 2, n <= Before(b, N + 1)
  PROVE  \E q \in 1..N : /\ FirstKept(b, n) = q /\ Before(b, q) > 0
                         /\ n < Before(b, N + 1) => Before(b, q) = n
<1>1. IsQueue(b) /\ DOMAIN b = 1..N
  BY Queued DEF IsBranch, IsEntry
<1>2. /\ \A k \in 1..(N + 1) : Before(b, k) \in Nat
      /\ Before(b, 1) = 0
      /\ \A k \in 1..N : Before(b, k + 1) = Before(b, k) + (IF Contributes(b[k]) THEN 1 ELSE 0)
  BY <1>1, BeforeStep
<1>3. N \in 1..N /\ N \in DOMAIN b
  BY <1>1, <1>2
<1>4. PICK F : F = Positions(b, n)
  OBVIOUS
<1>5. F = {k \in DOMAIN b : Contributes(b[k]) /\ Before(b, k) = n}
  BY <1>4 DEF Positions, Before, Contributing
<1>6. CASE F # {}
  <2>1. F \subseteq Nat
    BY <1>1, <1>5
  <2>2. PICK q : q = Min(F) /\ q \in F
    BY <1>6, <2>1, Smallest
  <2>3. q \in 1..N /\ Before(b, q) = n
    BY <1>1, <1>5, <2>2
  <2>4. FirstKept(b, n) = b[q].id
    BY <1>4, <1>6, <2>2 DEF FirstKept
  <2>5. b[q].id = q
    BY <1>1, <2>3 DEF IsBranch, IsEntry
  <2>. QED  BY <2>3, <2>4, <2>5
<1>7. CASE F = {}
  <2>1. ~(n < Before(b, N + 1))
    <3>1. SUFFICES ASSUME n < Before(b, N + 1) PROVE FALSE
      OBVIOUS
    <3>2. N + 1 \in 1..(N + 1)
      OBVIOUS
    <3>3. \E i \in 1..((N + 1) - 1) : Contributes(b[i]) /\ Before(b, i) = n
      BY <1>1, <3>1, <3>2, BeforeAll
    <3>. QED  BY <1>1, <1>5, <1>7, <3>3
  <2>2. b # <<>>
    BY <1>1, <1>3, EmptyQueue
  <2>3. FirstKept(b, n) = b[N].id
    BY <1>4, <1>7, <2>2 DEF FirstKept
  <2>4. b[N].id = N
    BY <1>3 DEF IsBranch, IsEntry
  <2>5. Before(b, N) > 0
    <3>1. Before(b, N + 1) <= Before(b, N) + 1 /\ Before(b, N) \in Nat /\ Before(b, N + 1) \in Nat
      BY <1>2, <1>3
    <3>. QED  BY <3>1
  <2>. QED  BY <1>3, <2>1, <2>3, <2>4, <2>5
<1>. QED  BY <1>6, <1>7

\* Its entry was written: the context begins at the first message that was kept,
\* or earlier.
LEMMA WrittenPlaced ==
  ASSUME NEW b, IsBranch(b), NEW s, Placed(s, b), NEW n, NEW m, NEW t, Compacts(s, n, m, t),
         NEW e, e.kind = "compaction", e.first = FirstKept(b, n), NEW d, d = Append(b, e)
  PROVE  Placed(t, d)
<1>1. n \in 2..Len(s) /\ m.role = "custom"
  BY DEF Compacts
<1>2. /\ Len(t) \in Nat /\ Len(s) \in Nat /\ Len(t) = Len(s) + 1 - n
      /\ DOMAIN t = 1..Len(t) /\ DOMAIN s = 1..Len(s) /\ t[1] = m
      /\ \A i \in 2..Len(t) : t[i] = s[n + i - 1] /\ n + i - 1 \in 1..Len(s)
  BY Compacted
<1>3. PICK N \in Nat : N = Len(b)
  BY Queued DEF IsBranch, IsEntry
<1>4. IsQueue(b)
  BY DEF IsBranch, IsEntry
<1>5. /\ IsQueue(d) /\ DOMAIN b = 1..N /\ DOMAIN d = 1..(N + 1) /\ d[N + 1] = e
      /\ \A i \in 1..N : d[i] = b[i]
  BY <1>3, <1>4, Queued
<1>6. Len(d) = N + 1
  <2>1. Len(d) \in Nat /\ DOMAIN d = 1..Len(d)
    BY <1>5, Queued
  <2>. QED  BY <1>5, <2>1
<1>7. /\ \A k \in 1..(N + 1) : Before(b, k) \in Nat /\ Before(d, k) = Before(b, k)
      /\ \A k \in 1..N : Before(b, k + 1) = Before(b, k) + (IF Contributes(b[k]) THEN 1 ELSE 0)
      /\ \A j, k \in 1..(N + 1) : j <= k => Before(b, j) <= Before(b, k)
  <2>1. Longer(b, e, d, N)
    BY <1>3, <1>4, OneMore
  <2>2. \A k \in 1..(N + 1) : Before(d, k) = Before(b, k)
    BY <2>1, BeforeSame
  <2>3. \A j, k \in 1..(N + 1) : j <= k => Before(b, j) <= Before(b, k)
    BY <1>3, <1>4, BeforeGrows
  <2>4. /\ \A k \in 1..(N + 1) : Before(b, k) \in Nat
        /\ \A k \in 1..N : Before(b, k + 1) = Before(b, k) + (IF Contributes(b[k]) THEN 1 ELSE 0)
    BY <1>3, <1>4, BeforeStep
  <2>. QED  BY <2>2, <2>3, <2>4
<1>8. Len(s) <= Before(b, N + 1) /\ Kept(b) \in 1..(N + 1)
  BY <1>3, KeptIs DEF Placed
<1>9. PICK q \in 1..N : /\ FirstKept(b, n) = q /\ Before(b, q) > 0
                        /\ n < Before(b, N + 1) => Before(b, q) = n
  <2>1. n \in Nat /\ n >= 2 /\ n <= Before(b, N + 1)
    BY <1>1, <1>2, <1>7, <1>8
  <2>. QED  BY <1>3, <2>1, FirstKeptIs
<1>10. LastCompaction(d) = N + 1
  <2>1. N + 1 \in 0..Len(d) /\ d[N + 1].kind = "compaction" /\ \A i \in DOMAIN d : i <= N + 1
    BY <1>5, <1>6
  <2>. QED  BY <1>5, <2>1, LastIs
<1>11. Kept(d) = q
  <2>1. KeptFrom(d, N + 1) = Min({i \in 1..N : d[i].id = q} \cup {N + 1})
    <3>1. (N + 1) - 1 = N /\ d[N + 1].first = q
      BY <1>5, <1>9
    <3>. QED  BY <3>1 DEF KeptFrom
  <2>2. {i \in 1..N : d[i].id = q} = {q}
    <3>1. \A i \in 1..N : d[i].id = i
      BY <1>5 DEF IsBranch, IsEntry
    <3>. QED  BY <3>1
  <2>3. PICK S : S = {q} \cup {N + 1}
    OBVIOUS
  <2>4. Min(S) \in S /\ \A y \in S : Min(S) <= y
    <3>1. S \subseteq Nat /\ S # {}
      BY <2>3
    <3>. QED  BY <3>1, Smallest
  <2>5. Min(S) = q
    BY <2>3, <2>4
  <2>6. PICK c : c = N + 1
    OBVIOUS
  <2>7. c = LastCompaction(d) /\ c # 0
    BY <1>10, <2>6
  <2>8. KeptFrom(d, c) = Min({q} \cup {N + 1})
    BY <2>1, <2>2, <2>6
  <2>9. KeptFrom(d, c) = q
    BY <2>3, <2>5, <2>8
  <2>. QED  BY <2>7, <2>9 DEF Kept
<1>12. Before(d, Kept(d)) > 0
  BY <1>7, <1>9, <1>11
<1>13. ASSUME NEW i \in DOMAIN t, t[i].role # "custom"
       PROVE  \E p \in Kept(d)..Len(d) : PlaceOf(t, i, d, p)
  <2>1. i \in 2..Len(t)
    BY <1>1, <1>2, <1>13
  <2>2. PICK j \in 1..Len(s) : j = n + i - 1 /\ t[i] = s[j]
    BY <1>2, <2>1
  <2>3. PICK p \in Kept(b)..N : PlaceOf(s, j, b, p)
    BY <1>2, <1>3, <1>13, <2>2 DEF Placed
  <2>4. p \in 1..N /\ p \in 1..(N + 1)
    BY <1>8
  <2>5. Before(b, p) \in Nat /\ j <= Before(b, p) + 1 /\ b[p].kind = "message"
    BY <1>7, <2>3, <2>4 DEF PlaceOf
  <2>6. n <= Before(b, p) /\ i <= Before(b, p) + 1
    BY <1>1, <1>2, <2>1, <2>2, <2>5
  <2>7. Before(b, p + 1) = Before(b, p) + 1
    BY <1>7, <2>4, <2>5 DEF Contributes
  <2>8. Before(b, q) = n
    <3>1. p + 1 \in 1..(N + 1) /\ N + 1 \in 1..(N + 1) /\ p + 1 <= N + 1
      BY <2>4
    <3>2. Before(b, p + 1) <= Before(b, N + 1) /\ Before(b, N + 1) \in Nat
      BY <1>7, <3>1
    <3>3. n < Before(b, N + 1)
      BY <1>1, <1>2, <2>5, <2>6, <2>7, <3>2
    <3>. QED  BY <1>9, <3>3
  <2>9. p >= q
    <3>1. SUFFICES ASSUME p + 1 <= q PROVE FALSE
      BY <2>4
    <3>2. p + 1 \in 1..(N + 1) /\ q \in 1..(N + 1)
      BY <2>4
    <3>3. Before(b, p + 1) <= Before(b, q)
      BY <1>7, <3>1, <3>2
    <3>. QED  BY <1>1, <1>2, <2>5, <2>6, <2>7, <2>8, <3>3
  <2>10. p \in Kept(d)..Len(d)
    BY <1>6, <1>11, <2>4, <2>9
  <2>11. PlaceOf(t, i, d, p)
    BY <1>5, <1>7, <2>2, <2>3, <2>4, <2>6 DEF PlaceOf
  <2>. QED  BY <2>10, <2>11
<1>14. Len(t) <= Before(d, Len(d) + 1)
  <2>1. PICK M \in Nat : M = N + 1
    OBVIOUS
  <2>2. \A j, k \in 1..(M + 1) : j <= k => Before(d, j) <= Before(d, k)
    BY <1>5, <1>6, <2>1, BeforeGrows
  <2>3. \A k \in 1..(M + 1) : Before(d, k) \in Nat
    BY <1>5, <1>6, <2>1, BeforeStep
  <2>4. M \in 1..(M + 1) /\ M + 1 \in 1..(M + 1) /\ M <= M + 1
    BY <2>1
  <2>5. Before(d, M) <= Before(d, M + 1) /\ Before(d, M) \in Nat /\ Before(d, M + 1) \in Nat
    BY <2>2, <2>3, <2>4
  <2>6. Len(s) <= Before(d, M)
    BY <1>7, <1>8, <2>1
  <2>. QED  BY <1>1, <1>2, <1>6, <2>1, <2>5, <2>6
<1>. QED  BY <1>12, <1>13, <1>14 DEF Placed

-----------------------------------------------------------------------------
(***************************************************************************)
(* Compaction                                                              *)
(***************************************************************************)

\* A summary takes the place of a safe prefix.
LEMMA CompactedPaired ==
  ASSUME NEW s, Paired(s, created), \A i \in DOMAIN s : IsMessage(s[i]),
         NEW n, SafeCut(s, n), NEW m, IsMessage(m), NEW t, Compacts(s, n, m, t)
  PROVE  /\ Paired(t, created) /\ Orphans(t) \subseteq Orphans(s)
         /\ \A i \in DOMAIN t : IsMessage(t[i])
<1>1. IsQueue(s) /\ n \in 2..Len(s) /\ Together(s) /\ Apart(s) /\ Numbered(s, created)
  BY DEF Compacts, Paired
<1>2. ~HasCalls(m) /\ ~IsResult(m)
  BY DEF Compacts, HasCalls, IsResult
<1>3. PICK l \in Nat : l = Len(s) /\ DOMAIN s = 1..l
  BY <1>1, Queued
<1>4. PICK u : u = From(s, n + 1)
  OBVIOUS
<1>5. PartOf(u, s) /\ IsQueue(u)
  <2>1. PICK k \in Nat \ {0} : k = n + 1 /\ k <= Len(s) + 1
    BY <1>1, <1>3
  <2>2. u = From(s, k)
    BY <1>4, <2>1
  <2>. QED  BY <1>1, <2>1, <2>2, Rest
<1>6. Together(u) /\ Apart(u) /\ Numbered(u, created)
  BY <1>1, <1>5, PartPaired
<1>7. Orphans(u) \subseteq Orphans(s)
  <2>1. n \in 0..Len(s)
    BY <1>1, <1>3
  <2>2. \A j \in 1..n, i \in (n + 1)..Len(s) : ~Answers(s, j, i)
    BY <1>1, <2>1, SafeCutUncrossed
  <2>. QED  BY <1>1, <1>4, <2>1, <2>2, CutOrphans
<1>8. Fronted(m, u, t) /\ Together(t) /\ Apart(t) /\ Numbered(t, created)
  <2>1. t = <<m>> \o u
    BY <1>4 DEF Compacts
  <2>. QED  BY <1>2, <1>5, <1>6, <2>1, PutInFront
<1>9. PICK h \in Nat : h = Len(u) /\ DOMAIN u = 1..h
  BY <1>5, Queued
<1>10. /\ IsQueue(t) /\ DOMAIN t = 1..(h + 1) /\ t[1] = m
       /\ \A i \in 1..h : t[i + 1] = u[i]
  <2>1. IsQueue(t) /\ Len(t) = h + 1 /\ t[1] = m /\ \A i \in 1..h : t[i + 1] = u[i]
    BY <1>8, <1>9 DEF Fronted
  <2>2. Len(t) \in Nat /\ DOMAIN t = 1..Len(t)
    BY <2>1, Queued
  <2>. QED  BY <2>1, <2>2
<1>11. ASSUME NEW k \in DOMAIN t, OrphanAt(t, k) PROVE t[k] \in Orphans(u)
  <2>1. k # 1
    BY <1>2, <1>10, <1>11 DEF OrphanAt
  <2>2. PICK i \in 1..h : k = i + 1 /\ t[k] = u[i]
    <3>1. k - 1 \in 1..h /\ (k - 1) + 1 = k
      BY <1>10, <2>1
    <3>. QED  BY <1>10, <3>1
  <2>3. ASSUME NEW j \in 1..(i - 1) PROVE ~(HasCalls(u[j]) /\ u[i].call \in u[j].calls)
    <3>1. j + 1 \in 1..(k - 1) /\ t[j + 1] = u[j]
      BY <1>10, <2>2
    <3>. QED  BY <1>11, <2>2, <3>1 DEF OrphanAt
  <2>4. OrphanAt(u, i)
    BY <1>11, <2>2, <2>3 DEF OrphanAt
  <2>. QED  BY <1>9, <2>2, <2>4 DEF Orphans
<1>12. Orphans(t) \subseteq Orphans(u)
  BY <1>11 DEF Orphans
<1>13. \A i \in DOMAIN u : IsMessage(u[i])
  <2>1. PICK g : Picks(u, s, g)
    BY <1>5 DEF PartOf
  <2>. QED  BY <2>1 DEF Picks
<1>14. ASSUME NEW i \in DOMAIN t PROVE IsMessage(t[i])
  <2>1. CASE i = 1
    BY <1>10, <2>1
  <2>2. CASE i # 1
    <3>1. i - 1 \in 1..h /\ (i - 1) + 1 = i
      BY <1>10, <2>2
    <3>. QED  BY <1>9, <1>10, <1>13, <3>1
  <2>. QED  BY <2>1, <2>2
<1>. QED  BY <1>7, <1>8, <1>10, <1>12, <1>14 DEF Paired

\* Where snap_to_safe_boundary ends, the cut is safe.
LEMMA SnapSafe ==
  ASSUME NEW s, NEW l \in Nat, l = Len(s), NEW n \in 0..l, NEW k, k = Snap(s, n)
  PROVE  k \in n..l /\ SafeCut(s, k)
<1>1. PICK S : S = {i \in n..Len(s) : SafeCut(s, i)}
  OBVIOUS
<1>2. S \subseteq Nat /\ S # {}
  <2>1. l \in n..Len(s) /\ SafeCut(s, l)
    BY DEF SafeCut
  <2>. QED  BY <1>1, <2>1
<1>3. k = Min(S)
  BY <1>1 DEF Snap
<1>4. k \in S
  BY <1>2, <1>3, Smallest
<1>. QED  BY <1>1, <1>4

\* A prefix that is to be folded ends at a safe cut.
LEMMA EvaluateSafe ==
  ASSUME NEW s, IsQueue(s), NEW n, n = Evaluate(s), n # 0
  PROVE  n \in 2..Len(s) /\ SafeCut(s, n)
<1>1. PICK l \in Nat : l = Len(s) /\ DOMAIN s = 1..l
  BY Queued
<1>. DEFINE long == {i \in DOMAIN s : Tokens(From(s, i)) >= KeepRecent /\ ~Pinned(s[i])}
            start == Max(long \cup {1})
            pulled == Min({i \in 1..start : i = start \/ Pinned(s[i])})
<1>2. long \subseteq 1..l
  BY <1>1
<1>3. n = Snap(s, pulled - 1) /\ n >= 2
  BY DEF Evaluate
<1>. HIDE DEF long
<1>4. start \in Nat /\ start >= 1 /\ (start <= l \/ start = 1)
  <2>. HIDE DEF start
  <2>0. PICK m \in Nat : m = l + 1
    OBVIOUS
  <2>1. PICK T : T = long \cup {1}
    OBVIOUS
  <2>2. T \subseteq 0..m /\ T # {} /\ \A y \in T : y \in 1..l \/ y = 1
    BY <1>2, <2>0, <2>1
  <2>3. Max(T) \in T
    BY <2>2, Greatest
  <2>4. start = Max(T)
    BY <2>1 DEF start
  <2>5. start \in 1..l \/ start = 1
    BY <2>2, <2>3, <2>4
  <2>. QED  BY <1>1, <2>5
<1>. HIDE DEF start
<1>5. pulled \in 1..start
  <2>1. PICK P : P = {i \in 1..start : i = start \/ Pinned(s[i])}
    OBVIOUS
  <2>2. P \subseteq Nat /\ start \in P
    BY <1>4, <2>1
  <2>3. Min(P) \in P
    BY <2>2, Smallest
  <2>. QED  BY <2>1, <2>3
<1>. HIDE DEF pulled
<1>6. PICK p : p = pulled - 1 /\ p \in 0..l
  BY <1>4, <1>5
<1>7. n \in p..l /\ SafeCut(s, n)
  BY <1>1, <1>3, <1>6, SnapSafe
<1>. QED  BY <1>1, <1>3, <1>6, <1>7

\* Of one message, truncation makes what it makes of it among others.
LEMMA OneTruncated ==
  ASSUME NEW m
  PROVE  Truncated(<<m>>)[1] = Capped(m)
BY One DEF Truncated, Capped

-----------------------------------------------------------------------------
(***************************************************************************)
(* The steps                                                               *)
(***************************************************************************)

\* No request, no orphan.
LEMMA NoRequest ==
  ASSUME request' = <<>>, phase' # "sent", phase' = "request" => messages' # <<>>
  PROVE  RequestInv'
<1>1. \A r : r = <<>> => IsQueue(r) /\ Together(r) /\ Orphans(r) = {}
  BY EmptyQueue DEF Together, Orphans
<1>2. IsQueue(request') /\ Together(request') /\ Orphans(request') = {}
  BY <1>1
<1>3. TrimsKeepPairs' /\ NewestPromptSent'
  BY <1>2 DEF TrimsKeepPairs, NewestPromptSent
<1>. QED  BY <1>2, <1>3 DEF RequestInv

\* A step that leaves transcript and branch alone.
LEMMA TranscriptSame ==
  ASSUME TranscriptInv, PlacesInv, UNCHANGED <<branch, messages, created, adopted>>
  PROVE  TranscriptInv' /\ PlacesInv'
BY DEF TranscriptInv, PlacesInv, CutsKeepPairs

\* The last reply has calls: there is a message.
LEMMA CallingSomething ==
  ASSUME NEW s, Calling(s)
  PROVE  s # <<>>
<1>. SUFFICES ASSUME s = <<>> PROVE FALSE
  OBVIOUS
<1>1. {0} \cup {i \in DOMAIN s : s[i].role = "assistant"} = {0}
  BY EmptyQueue
<1>2. PICK T : T = {0}
  OBVIOUS
<1>3. Max(T) \in T
  <2>1. PICK z \in Nat : z = 0
    OBVIOUS
  <2>2. T \subseteq 0..z /\ T # {}
    BY <1>2, <2>1
  <2>. QED  BY <2>1, <2>2, Greatest
<1>4. LastReply(s) = 0
  BY <1>1, <1>2, <1>3 DEF LastReply
<1>. QED  BY <1>4 DEF Calling

\* A new session.
LEMMA InitWindow == Init => WindowInv
<1>. SUFFICES ASSUME Init PROVE WindowInv
  OBVIOUS
<1>1. PICK z : z = <<>> /\ DOMAIN z = {} /\ IsQueue(z) /\ Len(z) = 0
  BY EmptyQueue
<1>2. /\ branch = z /\ messages = z /\ request = z /\ owed = z
      /\ phase = "idle" /\ created = 0 /\ adopted = {}
  BY <1>1 DEF Init
<1>3. IsBranch(z)
  BY <1>1 DEF IsBranch, IsEntry
<1>4. IsQueue(Line(z)) /\ DOMAIN Line(z) = {}
  BY <1>1, <1>3, BranchShows
<1>5. \A s : IsQueue(s) /\ DOMAIN s = {} => Paired(s, 0) /\ Orphans(s) = {}
  BY DEF Paired, Together, Apart, Numbered, Orphans
<1>6. TranscriptInv
  BY <1>1, <1>2, <1>3, <1>4, <1>5 DEF TranscriptInv, CutsKeepPairs
<1>7. TurnInv
  BY <1>1, <1>2 DEF TurnInv
<1>8. RequestInv
  BY <1>1, <1>2, <1>5 DEF RequestInv, TrimsKeepPairs, NewestPromptSent, Paired
<1>9. Placed(z, z)
  <2>1. LastCompaction(z) = 0
    <3>1. 0 \in 0..Len(z)
      BY <1>1
    <3>. QED  BY <1>1, <3>1, LastIs
  <2>2. Before(z, 1) = 0
    BY <1>1, BeforeStep
  <2>. QED  BY <1>1, <2>1, <2>2 DEF Placed
<1>. QED  BY <1>2, <1>6, <1>7, <1>8, <1>9 DEF WindowInv, PlacesInv

\* What holds of transcript and branch after a message that is no result.
LEMMA Speaks ==
  ASSUME TranscriptInv, PlacesInv, NEW m, IsMessage(m), ~IsResult(m),
         HasCalls(m) => \A x \in m.calls : x[1] = created + 1, Say(m), adopted' = adopted
  PROVE  /\ TranscriptInv' /\ PlacesInv'
         /\ messages' = Append(messages, m) /\ Line(branch') = Append(Line(branch), m)
         /\ IsQueue(messages) /\ IsQueue(Line(branch))
<1>1. /\ IsBranch(branch) /\ created \in Nat /\ Paired(messages, created)
      /\ Paired(Line(branch), created) /\ CutsKeepPairs
      /\ \A i \in DOMAIN messages : IsMessage(messages[i])
  BY DEF TranscriptInv
<1>2. IsQueue(messages) /\ IsQueue(Line(branch)) /\ IsQueue(branch)
  BY <1>1 DEF Paired, IsBranch, IsEntry
<1>3. PICK e : e = Entry("message", m)
  OBVIOUS
<1>4. e.kind = "message" /\ e.msg = m /\ IsEntry(e, Len(branch) + 1)
  BY <1>3 DEF Entry, IsEntry
<1>5. created' = created + 1 /\ messages' = Append(messages, m) /\ branch' = Append(branch, e)
  BY <1>3 DEF Say
<1>6. PICK b, d : b = branch /\ d = branch'
  OBVIOUS
<1>7. IsBranch(d) /\ Line(d) = Append(Line(b), m)
  <2>1. PICK n \in Nat : n = Len(b)
    BY <1>2, <1>6, Queued
  <2>2. Longer(b, e, d, n)
    BY <1>2, <1>5, <1>6, <2>1, OneMore
  <2>3. IsBranch(d) /\ Line(d) = Append(Line(b), IF e.kind = "message" THEN e.msg ELSE Gap)
    BY <1>1, <1>4, <1>6, <2>1, <2>2, LineGrows
  <2>. QED  BY <1>4, <2>3
<1>0. PICK s, t : s = messages /\ t = messages'
  OBVIOUS
<1>8. PICK c \in Nat : c = created + 1 /\ s = messages /\ t = messages'
  BY <1>0, <1>1
<1>9. Paired(t, c) /\ Orphans(t) = Orphans(s)
  <2>1. Paired(s, created) /\ t = Append(s, m) /\ c > created /\ (HasCalls(m) => \A x \in m.calls : x[1] = c)
    BY <1>1, <1>5, <1>8
  <2>. QED  BY <1>1, <2>1, SaidPaired
<1>10. Paired(Line(d), c)
  <2>1. PICK g, h : g = Line(b) /\ h = Line(d)
    OBVIOUS
  <2>2. Paired(g, created) /\ h = Append(g, m) /\ c > created /\ (HasCalls(m) => \A x \in m.calls : x[1] = c)
    BY <1>1, <1>6, <1>7, <1>8, <2>1
  <2>3. Paired(h, c)
    BY <1>1, <2>2, SaidPaired
  <2>. QED  BY <2>1, <2>3
<1>11. \A i \in DOMAIN t : IsMessage(t[i])
  <2>1. /\ DOMAIN s = 1..Len(s) /\ DOMAIN t = 1..(Len(s) + 1) /\ t[Len(s) + 1] = m /\ Len(s) \in Nat
        /\ \A i \in 1..Len(s) : t[i] = s[i]
    BY <1>2, <1>5, <1>8, Queued
  <2>2. \A i \in DOMAIN s : IsMessage(s[i])
    BY <1>1, <1>8
  <2>3. \A i \in DOMAIN t : i \in DOMAIN s \/ i = Len(s) + 1
    BY <2>1
  <2>. QED  BY <2>1, <2>2, <2>3
<1>12. Placed(t, d)
  <2>1. IsBranch(b) /\ IsQueue(s) /\ Placed(s, b) /\ d = Append(b, e) /\ t = Append(s, m)
    BY <1>1, <1>2, <1>5, <1>6, <1>8 DEF PlacesInv
  <2>. QED  BY <1>4, <2>1, SayPlaced
<1>13. CutsKeepPairs'
  BY <1>1, <1>8, <1>9 DEF CutsKeepPairs
<1>14. TranscriptInv'
  BY <1>1, <1>5, <1>6, <1>7, <1>8, <1>9, <1>10, <1>11, <1>13 DEF TranscriptInv
<1>15. PlacesInv'
  BY <1>6, <1>8, <1>12 DEF PlacesInv
<1>. QED  BY <1>2, <1>5, <1>6, <1>7, <1>14, <1>15

\* A prompt.
LEMMA PromptKeeps ==
  ASSUME WindowInv, Prompt
  PROVE  WindowInv'
<1>1. PICK m : m = User(created + 1)
  OBVIOUS
<1>2. IsMessage(m) /\ ~IsResult(m) /\ ~HasCalls(m)
  BY <1>1 DEF User, IsMessage, IsResult, HasCalls
<1>3. Say(m) /\ adopted' = adopted
  BY <1>1 DEF Prompt
<1>4. TranscriptInv /\ PlacesInv /\ TurnInv /\ RequestInv
  BY DEF WindowInv
<1>5. /\ TranscriptInv' /\ PlacesInv' /\ messages' = Append(messages, m)
      /\ IsQueue(messages)
  BY <1>2, <1>3, <1>4, Speaks
<1>6. messages' # <<>>
  <2>1. DOMAIN messages' = 1..(Len(messages) + 1) /\ Len(messages) \in Nat
    BY <1>5, Queued
  <2>2. Len(messages) + 1 \in DOMAIN messages'
    BY <2>1
  <2>. QED  BY <2>2, EmptyQueue
<1>7. /\ phase = "idle" /\ phase' = "request" /\ request' = request /\ owed' = owed
  BY DEF Prompt
<1>8. TurnInv'
  BY <1>4, <1>7 DEF TurnInv
<1>9. RequestInv'
  BY <1>4, <1>6, <1>7, NoRequest DEF RequestInv
<1>. QED  BY <1>5, <1>8, <1>9 DEF WindowInv

\* A reply that is an error.
LEMMA FailureKeeps ==
  ASSUME WindowInv, ProviderFails
  PROVE  WindowInv'
<1>1. PICK m : m = Reply(created + 1, 0)
  OBVIOUS
<1>2. IsMessage(m) /\ ~IsResult(m) /\ ~HasCalls(m)
  <2>1. 1..0 = {}
    OBVIOUS
  <2>. QED  BY <1>1, <2>1 DEF Reply, IsMessage, IsResult, HasCalls
<1>3. Say(m) /\ adopted' = adopted
  BY <1>1 DEF ProviderFails
<1>4. TranscriptInv /\ PlacesInv /\ TurnInv /\ RequestInv
  BY DEF WindowInv
<1>5. TranscriptInv' /\ PlacesInv'
  BY <1>2, <1>3, <1>4, Speaks
<1>6. phase' = "idle" /\ request' = <<>> /\ owed' = owed
  BY DEF ProviderFails
<1>7. TurnInv'
  BY <1>4, <1>6 DEF TurnInv
<1>8. RequestInv'
  BY <1>6, NoRequest
<1>. QED  BY <1>5, <1>7, <1>8 DEF WindowInv

\* The last reply, with calls, is at the end.
LEMMA AsksAtEnd ==
  ASSUME NEW s, IsQueue(s), NEW m, HasCalls(m), NEW q, \A k \in DOMAIN q : q[k] \in m.calls,
         NEW t, t = Append(s, m)
  PROVE  Unanswered(t, q)
<1>1. PICK n \in Nat : n = Len(s)
  BY Queued
<1>2. Longer(s, m, t, n)
  BY <1>1, OneMore
<1>3. n + 1 \in DOMAIN t /\ t[n + 1] = m /\ Len(t) = n + 1
  BY <1>2 DEF Longer
<1>4. ~ \E k : k \in ((n + 1) + 1)..Len(t)
  BY <1>3
<1>. QED  BY <1>3, <1>4 DEF Unanswered

\* A reply, and what it asks for.
LEMMA ReplyKeeps ==
  ASSUME WindowInv, ProviderReplies
  PROVE  WindowInv'
<1>1. PICK n \in 0..MaxCalls : /\ Say(Reply(created + 1, n))
                               /\ owed' = [k \in 1..n |-> <<created + 1, k>>]
  BY DEF ProviderReplies
<1>2. PICK m : m = Reply(created + 1, n)
  OBVIOUS
<1>3. IsMessage(m) /\ ~IsResult(m) /\ m.calls = {<<created + 1, k>> : k \in 1..n} /\ m.role = "assistant"
  BY <1>2 DEF Reply, IsMessage, IsResult
<1>4. \A x \in m.calls : x[1] = created + 1
  BY <1>3
<1>5. Say(m) /\ adopted' = adopted
  BY <1>1, <1>2 DEF ProviderReplies
<1>6. TranscriptInv /\ PlacesInv /\ TurnInv /\ RequestInv
  BY DEF WindowInv
<1>7. /\ TranscriptInv' /\ PlacesInv'
      /\ messages' = Append(messages, m) /\ Line(branch') = Append(Line(branch), m)
      /\ IsQueue(messages) /\ IsQueue(Line(branch))
  BY <1>3, <1>4, <1>5, <1>6, Speaks
<1>8. phase' = "tools" /\ request' = <<>>
  BY DEF ProviderReplies
<1>9. RequestInv'
  BY <1>8, NoRequest
<1>10. PICK q : q = [k \in 1..n |-> <<created + 1, k>>] /\ q = owed'
  BY <1>1
<1>11. DOMAIN q = 1..n /\ \A k \in DOMAIN q : q[k] \in m.calls
  BY <1>3, <1>10
<1>12. IsQueue(q)
  <2>1. q \in [1..n -> {q[i] : i \in DOMAIN q}] /\ n \in Nat
    BY <1>10, <1>11
  <2>. QED  BY <2>1, SeqDef DEF IsQueue
<1>13. ASSUME q # <<>>
       PROVE  Unanswered(messages', q) /\ Unanswered(Line(branch'), q)
  <2>1. 1 \in DOMAIN q
    BY <1>12, <1>13, Taken
  <2>2. HasCalls(m)
    BY <1>3, <1>11, <2>1 DEF HasCalls
  <2>3. PICK s, t, g, h : s = messages /\ t = messages' /\ g = Line(branch) /\ h = Line(branch')
    OBVIOUS
  <2>4. Unanswered(t, q)
    BY <1>7, <1>11, <2>2, <2>3, AsksAtEnd
  <2>5. Unanswered(h, q)
    BY <1>7, <1>11, <2>2, <2>3, AsksAtEnd
  <2>. QED  BY <2>3, <2>4, <2>5
<1>14. TurnInv'
  BY <1>8, <1>10, <1>12, <1>13 DEF TurnInv
<1>. QED  BY <1>7, <1>9, <1>14 DEF WindowInv

\* A result that is owed: nothing is orphaned, and the rest is still owed.
LEMMA AnswerKeepsOwed ==
  ASSUME NEW s, Paired(s, created), NEW q, IsQueue(q), q # <<>>, Unanswered(s, q),
         NEW m, IsResult(m), m.call = Head(q), NEW t, t = Append(s, m)
  PROVE  Paired(t, created) /\ Orphans(t) = Orphans(s) /\ Unanswered(t, Tail(q))
<1>1. PICK r \in DOMAIN s : /\ HasCalls(s[r])
                            /\ \A k \in DOMAIN q : q[k] \in s[r].calls
                            /\ \A k \in (r + 1)..Len(s) : Answers(s, r, k)
  BY DEF Unanswered
<1>0. PICK l \in Nat : l = Len(q) /\ l >= 1
  BY Taken
<1>2. PICK u : /\ u = Tail(q) /\ DOMAIN q = 1..l
               /\ DOMAIN u = 1..(l - 1) /\ \A i \in 1..(l - 1) : u[i] = q[i + 1]
               /\ Head(q) = q[1]
  BY <1>0, Taken
<1>3. m.call \in s[r].calls
  <2>1. 1 \in DOMAIN q
    BY <1>0, <1>2
  <2>2. q[1] \in s[r].calls
    BY <1>1, <2>1, Zenon
  <2>. QED  BY <1>2, <2>2, Zenon
<1>4. /\ Paired(t, created) /\ Orphans(t) = Orphans(s)
      /\ r \in DOMAIN t /\ t[r] = s[r] /\ \A k \in (r + 1)..Len(t) : Answers(t, r, k)
  BY <1>1, <1>3, AnswerPaired
<1>5. \A k \in DOMAIN u : u[k] \in t[r].calls
  <2>. SUFFICES ASSUME NEW k \in DOMAIN u PROVE u[k] \in t[r].calls
    OBVIOUS
  <2>1. k + 1 \in DOMAIN q /\ u[k] = q[k + 1]
    BY <1>0, <1>2
  <2>. QED  BY <1>1, <1>4, <2>1
<1>6. Unanswered(t, u)
  BY <1>1, <1>4, <1>5 DEF Unanswered
<1>. QED  BY <1>2, <1>4, <1>6

\* What Append adds stands at the end of a queue of messages.
LEMMA MessagesAppended ==
  ASSUME NEW s, IsQueue(s), \A i \in DOMAIN s : IsMessage(s[i]), NEW m, IsMessage(m),
         NEW t, t = Append(s, m)
  PROVE  t # <<>> /\ \A i \in DOMAIN t : IsMessage(t[i])
<1>1. PICK n \in Nat : n = Len(s)
  BY Queued
<1>2. Longer(s, m, t, n)
  BY <1>1, OneMore
<1>3. /\ DOMAIN s = 1..n /\ DOMAIN t = 1..(n + 1) /\ t[n + 1] = m /\ n + 1 \in DOMAIN t
      /\ \A i \in 1..n : t[i] = s[i]
  BY <1>2 DEF Longer
<1>4. t # <<>>
  BY <1>3, EmptyQueue
<1>5. \A i \in DOMAIN t : i \in DOMAIN s \/ i = n + 1
  BY <1>3
<1>. QED  BY <1>3, <1>4, <1>5

\* A tool result.
LEMMA AnswerKeeps ==
  ASSUME WindowInv, ToolAnswers
  PROVE  WindowInv'
<1>1. PICK z \in ResultSizes, x \in BOOLEAN : Say(Result(created + 1, Head(owed), z, x))
  BY DEF ToolAnswers
<1>2. PICK m : m = Result(created + 1, Head(owed), z, x)
  OBVIOUS
<1>3. IsMessage(m) /\ IsResult(m) /\ m.call = Head(owed)
  BY <1>2 DEF Result, IsMessage, IsResult
<1>4. TranscriptInv /\ PlacesInv /\ TurnInv /\ RequestInv
  BY DEF WindowInv
<1>5. /\ phase = "tools" /\ owed # <<>> /\ owed' = Tail(owed)
      /\ request' = request /\ phase' = phase /\ adopted' = adopted
  BY DEF ToolAnswers
<1>6. PICK e : e = Entry("message", m)
  OBVIOUS
<1>7. e.kind = "message" /\ e.msg = m /\ IsEntry(e, Len(branch) + 1)
  BY <1>3, <1>6 DEF Entry, IsEntry
<1>8. created' = created + 1 /\ messages' = Append(messages, m) /\ branch' = Append(branch, e)
  BY <1>1, <1>2, <1>6 DEF Say
<1>9. PICK b, d : b = branch /\ d = branch'
  OBVIOUS
<1>10. PICK s, t : s = messages /\ t = messages'
  OBVIOUS
<1>11. PICK q : q = owed
  OBVIOUS
<1>12. /\ IsBranch(b) /\ Paired(s, created) /\ created \in Nat /\ Paired(Line(b), created)
       /\ IsQueue(b) /\ IsQueue(s) /\ \A i \in DOMAIN s : IsMessage(s[i])
  BY <1>4, <1>9, <1>10 DEF TranscriptInv, Paired, IsBranch
<1>13. IsQueue(q) /\ q # <<>> /\ Unanswered(s, q) /\ Unanswered(Line(b), q) /\ m.call = Head(q)
  BY <1>3, <1>4, <1>5, <1>9, <1>10, <1>11 DEF TurnInv
<1>14. Paired(t, created) /\ Orphans(t) = Orphans(s) /\ Unanswered(t, Tail(q))
  <2>1. t = Append(s, m)
    BY <1>8, <1>10
  <2>. QED  BY <1>3, <1>12, <1>13, <2>1, AnswerKeepsOwed
<1>15. IsBranch(d) /\ Line(d) = Append(Line(b), m)
  <2>1. PICK n \in Nat : n = Len(b)
    BY <1>12, Queued
  <2>2. Longer(b, e, d, n)
    BY <1>8, <1>9, <1>12, <2>1, OneMore
  <2>3. IsBranch(d) /\ Line(d) = Append(Line(b), IF e.kind = "message" THEN e.msg ELSE Gap)
    BY <1>7, <1>9, <1>12, <2>1, <2>2, LineGrows
  <2>. QED  BY <1>7, <2>3
<1>16. Paired(Line(d), created) /\ Unanswered(Line(d), Tail(q))
  <2>1. PICK g, h : g = Line(b) /\ h = Line(d) /\ h = Append(g, m)
    BY <1>15
  <2>2. Paired(h, created) /\ Unanswered(h, Tail(q))
    BY <1>3, <1>12, <1>13, <2>1, AnswerKeepsOwed
  <2>. QED  BY <2>1, <2>2
<1>17. PICK c \in Nat : c = created + 1
  BY <1>12
<1>18. Paired(t, c) /\ Paired(Line(d), c)
  <2>1. created \in Nat /\ c >= created
    BY <1>12, <1>17
  <2>2. Paired(t, c)
    BY <1>14, <2>1, PairedMore
  <2>3. PICK h : h = Line(d)
    OBVIOUS
  <2>4. Paired(h, c)
    BY <1>16, <2>1, <2>3, PairedMore
  <2>. QED  BY <2>2, <2>3, <2>4
<1>19. t # <<>> /\ \A i \in DOMAIN t : IsMessage(t[i])
  BY <1>3, <1>8, <1>10, <1>12, MessagesAppended
<1>20. Placed(t, d)
  <2>1. Placed(s, b) /\ d = Append(b, e) /\ t = Append(s, m)
    BY <1>4, <1>8, <1>9, <1>10 DEF PlacesInv
  <2>. QED  BY <1>7, <1>12, <2>1, SayPlaced
<1>21. CutsKeepPairs'
  BY <1>4, <1>5, <1>10, <1>14 DEF CutsKeepPairs, TranscriptInv
<1>22. TranscriptInv'
  BY <1>4, <1>5, <1>8, <1>9, <1>10, <1>15, <1>17, <1>18, <1>19, <1>21 DEF TranscriptInv
<1>23. TurnInv'
  <2>1. IsQueue(Tail(q))
    BY <1>13, Taken
  <2>. QED  BY <1>5, <1>9, <1>10, <1>11, <1>14, <1>16, <2>1 DEF TurnInv
<1>24. RequestInv'
  BY <1>4, <1>5, NoRequest DEF RequestInv
<1>25. PlacesInv'
  BY <1>9, <1>10, <1>20 DEF PlacesInv
<1>. QED  BY <1>22, <1>23, <1>24, <1>25 DEF WindowInv

\* A setting is recorded.
LEMMA SettingKeeps ==
  ASSUME WindowInv, RecordSetting
  PROVE  WindowInv'
<1>1. PICK e : e = [id |-> Len(branch) + 1, kind |-> "setting"]
  OBVIOUS
<1>2. e.kind = "setting" /\ IsEntry(e, Len(branch) + 1)
  BY <1>1 DEF IsEntry
<1>3. TranscriptInv /\ PlacesInv /\ TurnInv /\ RequestInv
  BY DEF WindowInv
<1>4. /\ phase = "idle" /\ phase' = phase /\ branch' = Append(branch, e)
      /\ UNCHANGED <<messages, request, owed, created, adopted>>
  BY <1>1 DEF RecordSetting
<1>5. PICK b, d : b = branch /\ d = branch'
  OBVIOUS
<1>6. IsBranch(b) /\ IsQueue(b) /\ Paired(Line(b), created) /\ IsQueue(messages)
  BY <1>3, <1>5 DEF TranscriptInv, IsBranch, Paired
<1>7. IsBranch(d) /\ Line(d) = Append(Line(b), Gap)
  <2>1. PICK n \in Nat : n = Len(b)
    BY <1>6, Queued
  <2>2. Longer(b, e, d, n)
    BY <1>4, <1>5, <1>6, <2>1, OneMore
  <2>3. IsBranch(d) /\ Line(d) = Append(Line(b), IF e.kind = "message" THEN e.msg ELSE Gap)
    BY <1>2, <1>5, <1>6, <2>1, <2>2, LineGrows
  <2>. QED  BY <1>2, <2>3
<1>8. Paired(Line(d), created)
  <2>1. PICK g, h, m : g = Line(b) /\ h = Line(d) /\ h = Append(g, m) /\ m = Gap
    BY <1>7
  <2>2. m.role \notin {"toolResult", "assistant"}
    BY <2>1 DEF Gap
  <2>3. Paired(h, created)
    BY <1>6, <2>1, <2>2, GapPaired
  <2>. QED  BY <2>1, <2>3
<1>9. PICK s : s = messages
  OBVIOUS
<1>10. Placed(s, d)
  <2>1. IsQueue(s) /\ Placed(s, b) /\ d = Append(b, e)
    BY <1>3, <1>4, <1>5, <1>6, <1>9 DEF PlacesInv
  <2>. QED  BY <1>2, <1>6, <2>1, SettingPlaced
<1>11. TranscriptInv'
  BY <1>3, <1>4, <1>5, <1>7, <1>8 DEF TranscriptInv, CutsKeepPairs
<1>12. PlacesInv'
  BY <1>4, <1>5, <1>9, <1>10 DEF PlacesInv
<1>13. TurnInv' /\ RequestInv'
  <2>1. TurnInv'
    BY <1>3, <1>4 DEF TurnInv
  <2>2. RequestInv'
    BY <1>3, <1>4, NoRequest DEF RequestInv
  <2>. QED  BY <2>1, <2>2
<1>. QED  BY <1>11, <1>12, <1>13 DEF WindowInv

\* The transcript is rebuilt.
LEMMA ResumeKeeps ==
  ASSUME WindowInv, Resume
  PROVE  WindowInv'
<1>1. TranscriptInv /\ PlacesInv /\ TurnInv /\ RequestInv
  BY DEF WindowInv
<1>2. /\ phase = "idle" /\ phase' = phase /\ messages' = ContextMessages(branch)
      /\ adopted' = Orphans(messages')
      /\ UNCHANGED <<branch, request, owed, created>>
  BY DEF Resume
<1>3. PICK b, t : b = branch /\ t = messages' /\ t = ContextMessages(b)
  BY <1>2
<1>4. IsBranch(b) /\ Paired(Line(b), created)
  BY <1>1, <1>3 DEF TranscriptInv
<1>5. Paired(t, created) /\ \A i \in DOMAIN t : IsMessage(t[i])
  BY <1>3, <1>4, ContextPaired
<1>6. Placed(t, b)
  <2>1. LastCompaction(b) > 0 => Before(b, Kept(b)) > 0
    BY <1>1, <1>3 DEF PlacesInv, Placed
  <2>. QED  BY <1>3, <1>4, <2>1, ContextPlaced
<1>7. \A m \in Orphans(t) : IsMessage(m)
  BY <1>5 DEF Orphans
<1>8. CutsKeepPairs'
  BY <1>2 DEF CutsKeepPairs
<1>9. TranscriptInv'
  BY <1>1, <1>2, <1>3, <1>5, <1>7, <1>8 DEF TranscriptInv
<1>10. PlacesInv'
  BY <1>2, <1>3, <1>6 DEF PlacesInv
<1>11. TurnInv'
  BY <1>1, <1>2 DEF TurnInv
<1>12. RequestInv'
  BY <1>1, <1>2, NoRequest DEF RequestInv
<1>. QED  BY <1>9, <1>10, <1>11, <1>12 DEF WindowInv

\* A request passes the guard.
LEMMA SendKeeps ==
  ASSUME WindowInv, SendRequest
  PROVE  WindowInv'
<1>1. TranscriptInv /\ PlacesInv /\ TurnInv /\ RequestInv
  BY DEF WindowInv
<1>2. /\ phase = "request" /\ phase' = "sent" /\ request' = Guarded(messages)
      /\ UNCHANGED <<branch, messages, owed, created, adopted>>
  BY DEF SendRequest
<1>3. TranscriptInv' /\ PlacesInv'
  BY <1>1, <1>2, TranscriptSame
<1>4. TurnInv'
  BY <1>1, <1>2 DEF TurnInv
<1>5. PICK s, t : s = messages /\ t = request' /\ t = Guarded(s)
  BY <1>2
<1>6. IsQueue(s) /\ s # <<>> /\ Together(s)
  BY <1>1, <1>2, <1>5 DEF TranscriptInv, RequestInv, Paired
<1>7. /\ IsQueue(t) /\ Together(t) /\ Orphans(t) \subseteq Orphans(s)
      /\ s[Len(s)].role = "user" => t # <<>> /\ t[Len(t)] = s[Len(s)]
  BY <1>5, <1>6, GuardKeeps
<1>8. TrimsKeepPairs' /\ NewestPromptSent'
  BY <1>2, <1>5, <1>7 DEF TrimsKeepPairs, NewestPromptSent
<1>9. RequestInv'
  BY <1>2, <1>5, <1>6, <1>7, <1>8 DEF RequestInv
<1>. QED  BY <1>3, <1>4, <1>9 DEF WindowInv

\* The floor keeps a message, and the last one is dropped last.
LEMMA RetryKeeps ==
  ASSUME WindowInv, RetryOnOverflow
  PROVE  WindowInv'
<1>1. TranscriptInv /\ PlacesInv /\ TurnInv /\ RequestInv
  BY DEF WindowInv
<1>2. /\ phase = "sent" /\ phase' = phase /\ request' = DropOldest(request)
      /\ Len(request) > MinMessages
      /\ UNCHANGED <<branch, messages, owed, created, adopted>>
  BY DEF RetryOnOverflow
<1>3. TranscriptInv' /\ PlacesInv'
  BY <1>1, <1>2, TranscriptSame
<1>4. TurnInv'
  BY <1>1, <1>2 DEF TurnInv
<1>5. PICK s, t : s = request /\ t = request' /\ t = DropOldest(s)
  BY <1>2
<1>6. IsQueue(s) /\ Together(s)
  BY <1>1, <1>5 DEF RequestInv
<1>7. s # <<>> /\ (MinMessages > 0 => Len(s) > 1)
  <2>1. MinMessages \in Nat /\ Len(s) \in Nat
    BY <1>6, WindowAssumption, Queued
  <2>2. Len(s) > 0 /\ (MinMessages > 0 => Len(s) > 1)
    BY <1>2, <1>5, <2>1
  <2>. QED  BY <2>2, EmptyQueue
<1>8. /\ IsQueue(t) /\ Together(t) /\ Orphans(t) \subseteq Orphans(s)
      /\ Len(s) > 1 /\ s[Len(s)].role = "user" => t # <<>> /\ t[Len(t)] = s[Len(s)]
  BY <1>5, <1>6, <1>7, DropKeeps
<1>9. TrimsKeepPairs'
  BY <1>1, <1>2, <1>5, <1>8 DEF TrimsKeepPairs, RequestInv
<1>10. MinMessages > 0 => NewestPromptSent'
  <2>. SUFFICES ASSUME MinMessages > 0, messages[Len(messages)].role = "user"
                PROVE  t # <<>> /\ t[Len(t)] = messages[Len(messages)]
    BY <1>2, <1>5 DEF NewestPromptSent
  <2>1. s[Len(s)] = messages[Len(messages)]
    BY <1>1, <1>2, <1>5 DEF RequestInv, NewestPromptSent
  <2>. QED  BY <1>7, <1>8, <2>1
<1>11. RequestInv'
  BY <1>1, <1>2, <1>5, <1>8, <1>9, <1>10 DEF RequestInv
<1>. QED  BY <1>3, <1>4, <1>11 DEF WindowInv

\* What truncation leaves is a transcript still.
LEMMA TruncationKeeps ==
  ASSUME TranscriptInv, PlacesInv, messages' = Truncated(messages),
         UNCHANGED <<branch, created, adopted>>
  PROVE  TranscriptInv' /\ PlacesInv' /\ IsQueue(messages')
<1>1. PICK s, t : s = messages /\ t = messages' /\ t = Truncated(s)
  OBVIOUS
<1>2. Paired(s, created) /\ IsQueue(s) /\ \A i \in DOMAIN s : IsMessage(s[i])
  BY <1>1 DEF TranscriptInv, Paired
<1>3. /\ Paired(t, created) /\ \A i \in DOMAIN t : IsMessage(t[i])
      /\ \A o \in Orphans(t) : \E m \in Orphans(s) : IsMessage(m) /\ o = Capped(m)
  BY <1>1, <1>2, TruncatedPaired
<1>4. PICK b : b = branch
  OBVIOUS
<1>5. Placed(t, b)
  <2>1. Placed(s, b)
    BY <1>1, <1>4 DEF PlacesInv
  <2>. QED  BY <1>1, <1>2, <2>1, TruncatedPlaced
<1>6. PICK A : A = adopted
  OBVIOUS
<1>7. Orphans(s) \subseteq {Truncated(<<a>>)[1] : a \in A} \cup A /\ \A a \in A : IsMessage(a)
  BY <1>1, <1>6 DEF TranscriptInv, CutsKeepPairs
<1>8. ASSUME NEW o \in Orphans(t) PROVE o \in {Truncated(<<a>>)[1] : a \in A}
  <2>1. PICK m \in Orphans(s) : o = Capped(m)
    BY <1>3
  <2>2. CASE m \in A
    <3>1. o = Truncated(<<m>>)[1]
      BY <2>1, OneTruncated
    <3>. QED  BY <2>2, <3>1
  <2>3. CASE m \notin A
    <3>1. PICK a \in A : m = Truncated(<<a>>)[1]
      BY <1>7, <2>3
    <3>2. m = Capped(a)
      BY <3>1, OneTruncated
    <3>3. IsMessage(a)
      BY <1>7
    <3>4. Capped(m) = m
      BY <3>2, <3>3, CappedIs
    <3>. QED  BY <2>1, <3>1, <3>4
  <2>. QED  BY <2>2, <2>3
<1>9. CutsKeepPairs'
  BY <1>1, <1>6, <1>8 DEF CutsKeepPairs
<1>10. TranscriptInv'
  BY <1>1, <1>3, <1>9 DEF TranscriptInv
<1>11. PlacesInv'
  BY <1>1, <1>4, <1>5 DEF PlacesInv
<1>. QED  BY <1>1, <1>3, <1>10, <1>11 DEF Paired

\* A turn ends without a compaction.
LEMMA SkipKeeps ==
  ASSUME WindowInv, SkipCompaction
  PROVE  WindowInv'
<1>1. TranscriptInv /\ PlacesInv /\ TurnInv /\ RequestInv
  BY DEF WindowInv
<1>2. /\ phase = "tools" /\ messages' = Truncated(messages)
      /\ UNCHANGED <<branch, request, owed, created, adopted>>
  BY DEF SkipCompaction
<1>3. phase' \in {"request", "idle"} /\ (phase' = "request" => Calling(messages))
  BY DEF SkipCompaction, EscalateAndGoOn
<1>4. TranscriptInv' /\ PlacesInv' /\ IsQueue(messages')
  BY <1>1, <1>2, TruncationKeeps
<1>5. TurnInv'
  BY <1>1, <1>2, <1>3 DEF TurnInv
<1>6. phase' = "request" => messages' # <<>>
  <2>. SUFFICES ASSUME phase' = "request" PROVE messages' # <<>>
    OBVIOUS
  <2>1. PICK s, t : s = messages /\ t = messages' /\ t = Truncated(s)
    BY <1>2
  <2>2. s # <<>> /\ IsQueue(s) /\ \A i \in DOMAIN s : IsMessage(s[i])
    BY <1>1, <1>3, <2>1, CallingSomething DEF TranscriptInv, Paired
  <2>3. 1 \in DOMAIN s
    BY <2>2, Taken
  <2>4. DOMAIN t = DOMAIN s
    BY <2>1, <2>2, TruncatedIs
  <2>. QED  BY <2>1, <2>3, <2>4, EmptyQueue
<1>7. RequestInv'
  BY <1>1, <1>2, <1>3, <1>6, NoRequest DEF RequestInv
<1>. QED  BY <1>4, <1>5, <1>7 DEF WindowInv

\* A turn ends with one: the cut is safe.
LEMMA StartKeeps ==
  ASSUME WindowInv, StartCompaction
  PROVE  WindowInv'
<1>1. TranscriptInv /\ PlacesInv /\ TurnInv /\ RequestInv
  BY DEF WindowInv
<1>2. /\ phase = "tools" /\ phase' = "summarising" /\ messages' = Truncated(messages)
      /\ prefix' = Evaluate(messages') /\ prefix' > 0
      /\ UNCHANGED <<branch, request, owed, created, adopted>>
  BY DEF StartCompaction
<1>3. TranscriptInv' /\ PlacesInv' /\ IsQueue(messages')
  BY <1>1, <1>2, TruncationKeeps
<1>4. prefix' \in 2..Len(messages') /\ SafeCut(messages', prefix')
  <2>1. PICK t, n : t = messages' /\ n = prefix' /\ n = Evaluate(t)
    BY <1>2
  <2>2. n # 0
    BY <1>2, <2>1
  <2>3. n \in 2..Len(t) /\ SafeCut(t, n)
    BY <1>3, <2>1, <2>2, EvaluateSafe
  <2>. QED  BY <2>1, <2>3
<1>5. TurnInv'
  BY <1>1, <1>2, <1>4 DEF TurnInv
<1>6. RequestInv'
  BY <1>1, <1>2, NoRequest DEF RequestInv
<1>. QED  BY <1>3, <1>5, <1>6 DEF WindowInv

\* The transcript stays as it is.
LEMMA SummaryFailsKeeps ==
  ASSUME WindowInv, SummaryFails
  PROVE  WindowInv'
<1>1. TranscriptInv /\ PlacesInv /\ TurnInv /\ RequestInv
  BY DEF WindowInv
<1>2. phase = "summarising" /\ UNCHANGED <<branch, messages, request, owed, created, adopted>>
  BY DEF SummaryFails
<1>3. phase' \in {"request", "idle"} /\ (phase' = "request" => Calling(messages))
  BY DEF SummaryFails, EscalateAndGoOn
<1>4. TranscriptInv' /\ PlacesInv'
  BY <1>1, <1>2, TranscriptSame
<1>5. TurnInv'
  BY <1>1, <1>2, <1>3 DEF TurnInv
<1>6. phase' = "request" => messages' # <<>>
  BY <1>2, <1>3, CallingSomething
<1>7. RequestInv'
  BY <1>1, <1>2, <1>3, <1>6, NoRequest DEF RequestInv
<1>. QED  BY <1>4, <1>5, <1>7 DEF WindowInv

\* The summary takes its place, and the entry in the branch, or not.
LEMMA SummaryKeeps ==
  ASSUME WindowInv, SummaryArrives
  PROVE  WindowInv'
<1>1. TranscriptInv /\ PlacesInv /\ TurnInv /\ RequestInv
  BY DEF WindowInv
<1>2. PICK m : m = Summary(created + 1)
  OBVIOUS
<1>3. IsMessage(m) /\ m.role = "custom"
  BY <1>2 DEF Summary, IsMessage, IsResult
<1>4. PICK e : e = [id |-> Len(branch) + 1, kind |-> "compaction", msg |-> m,
                    first |-> FirstKept(branch, prefix)]
  OBVIOUS
<1>5. e.kind = "compaction" /\ e.first = FirstKept(branch, prefix) /\ IsEntry(e, Len(branch) + 1)
  BY <1>3, <1>4 DEF IsEntry
<1>6. /\ phase = "summarising" /\ created' = created + 1
      /\ branch' = Append(branch, e) \/ branch' = branch
      /\ messages' = <<m>> \o From(messages, prefix + 1)
      /\ UNCHANGED <<request, owed, adopted>>
  BY <1>2, <1>4 DEF SummaryArrives
<1>7. phase' \in {"request", "idle"}
  BY DEF SummaryArrives, EscalateAndGoOn
<1>8. PICK b, d, s, t, n : /\ b = branch /\ d = branch' /\ s = messages /\ t = messages' /\ n = prefix
  OBVIOUS
<1>9. /\ IsBranch(b) /\ IsQueue(b) /\ created \in Nat /\ Paired(s, created) /\ IsQueue(s)
      /\ Paired(Line(b), created) /\ \A i \in DOMAIN s : IsMessage(s[i])
  BY <1>1, <1>8 DEF TranscriptInv, Paired, IsBranch
<1>10. SafeCut(s, n) /\ Compacts(s, n, m, t)
  BY <1>1, <1>3, <1>6, <1>8, <1>9 DEF TurnInv, Compacts
<1>11. /\ Paired(t, created) /\ Orphans(t) \subseteq Orphans(s)
       /\ \A i \in DOMAIN t : IsMessage(t[i])
  BY <1>3, <1>9, <1>10, CompactedPaired
<1>12. PICK c \in Nat : c = created + 1
  BY <1>9
<1>13. created \in Nat /\ c >= created
  BY <1>9, <1>12
<1>14. Paired(t, c)
  BY <1>11, <1>13, PairedMore
<1>15. Placed(s, b)
  BY <1>1, <1>8 DEF PlacesInv
<1>16. IsBranch(d) /\ Paired(Line(d), created) /\ Placed(t, d)
  <2>1. CASE d = b
    <3>1. Placed(t, b)
      BY <1>9, <1>10, <1>15, UnwrittenPlaced
    <3>. QED  BY <1>9, <2>1, <3>1
  <2>2. CASE d = Append(b, e)
    <3>1. PICK l \in Nat : l = Len(b)
      BY <1>9, Queued
    <3>2. Longer(b, e, d, l)
      BY <1>9, <2>2, <3>1, OneMore
    <3>3. IsBranch(d) /\ Line(d) = Append(Line(b), IF e.kind = "message" THEN e.msg ELSE Gap)
      BY <1>5, <1>8, <1>9, <3>1, <3>2, LineGrows
    <3>4. PICK g, h, x : g = Line(b) /\ h = Line(d) /\ h = Append(g, x) /\ x = Gap
      BY <1>5, <3>3
    <3>5. x.role \notin {"toolResult", "assistant"}
      BY <3>4 DEF Gap
    <3>6. Paired(h, created)
      BY <1>9, <3>4, <3>5, GapPaired
    <3>7. Placed(t, d)
      BY <1>5, <1>8, <1>9, <1>10, <1>15, <2>2, WrittenPlaced
    <3>. QED  BY <3>3, <3>4, <3>6, <3>7
  <2>. QED  BY <1>6, <1>8, <2>1, <2>2
<1>17. Paired(Line(d), c)
  <2>1. PICK h : h = Line(d)
    OBVIOUS
  <2>2. Paired(h, c)
    BY <1>13, <1>16, <2>1, PairedMore
  <2>. QED  BY <2>1, <2>2
<1>18. CutsKeepPairs'
  BY <1>1, <1>6, <1>8, <1>11 DEF TranscriptInv, CutsKeepPairs
<1>19. TranscriptInv'
  BY <1>1, <1>6, <1>8, <1>11, <1>12, <1>14, <1>16, <1>17, <1>18 DEF TranscriptInv
<1>20. PlacesInv'
  BY <1>8, <1>16 DEF PlacesInv
<1>21. TurnInv'
  BY <1>1, <1>6, <1>7 DEF TurnInv
<1>22. t # <<>>
  <2>1. Len(s) \in Nat /\ Len(t) = Len(s) + 1 - n
    BY <1>10, Compacted
  <2>2. n \in 2..Len(s)
    BY <1>10 DEF Compacts
  <2>3. Len(t) # 0
    BY <2>1, <2>2
  <2>. QED  BY <2>3, EmptyQueue
<1>23. RequestInv'
  BY <1>1, <1>6, <1>7, <1>8, <1>22, NoRequest DEF RequestInv
<1>. QED  BY <1>19, <1>20, <1>21, <1>23 DEF WindowInv

\* Every step.
LEMMA WindowStep ==
  ASSUME WindowInv, [Next]_windowVars
  PROVE  WindowInv'
<1>1. CASE UNCHANGED windowVars
  <2>1. UNCHANGED <<branch, messages, request, phase, owed, prefix, created, adopted>>
    BY <1>1 DEF windowVars
  <2>2. TranscriptInv' /\ PlacesInv'
    BY <2>1, TranscriptSame DEF WindowInv
  <2>3. TurnInv'
    BY <2>1 DEF WindowInv, TurnInv
  <2>4. RequestInv'
    BY <2>1 DEF WindowInv, RequestInv, TrimsKeepPairs, NewestPromptSent
  <2>. QED  BY <2>2, <2>3, <2>4 DEF WindowInv
<1>2. CASE Next
  <2>1. CASE Prompt
    BY <2>1, PromptKeeps
  <2>2. CASE RecordSetting
    BY <2>2, SettingKeeps
  <2>3. CASE Resume
    BY <2>3, ResumeKeeps
  <2>4. CASE SendRequest
    BY <2>4, SendKeeps
  <2>5. CASE RetryOnOverflow
    BY <2>5, RetryKeeps
  <2>6. CASE ProviderFails
    BY <2>6, FailureKeeps
  <2>7. CASE ProviderReplies
    BY <2>7, ReplyKeeps
  <2>8. CASE ToolAnswers
    BY <2>8, AnswerKeeps
  <2>9. CASE SkipCompaction
    BY <2>9, SkipKeeps
  <2>10. CASE StartCompaction
    BY <2>10, StartKeeps
  <2>11. CASE SummaryArrives
    BY <2>11, SummaryKeeps
  <2>12. CASE SummaryFails
    BY <2>12, SummaryFailsKeeps
  <2>13. CASE Exhausted
    BY <1>1, <2>13 DEF Exhausted
  <2>. QED  BY <1>2, <2>1, <2>2, <2>3, <2>4, <2>5, <2>6, <2>7, <2>8, <2>9, <2>10, <2>11,
               <2>12, <2>13 DEF Next
<1>. QED  BY <1>1, <1>2

-----------------------------------------------------------------------------
(***************************************************************************)
(* The theorems                                                            *)
(***************************************************************************)

\* Calls and results, requests and places are sound whatever is said, cut,
\* retried and reopened.
THEOREM WindowInvHolds == WindowSpec => []WindowInv
<1>1. Init => WindowInv
  BY InitWindow
<1>2. WindowInv /\ [Next]_windowVars => WindowInv'
  BY WindowStep
<1>. QED  BY <1>1, <1>2, PTL DEF WindowSpec

\* What the agent remembers, a reopened session remembers: the first entry a
\* compaction records as kept (first_kept_context_entry_id) is never too late.
THEOREM NothingForgottenHolds == WindowSpec => []NothingForgotten
<1>1. WindowInv => NothingForgotten
  <2>. SUFFICES ASSUME WindowInv, NEW i \in DOMAIN messages, messages[i].role # "custom"
                PROVE  messages[i].id \in Ids(ContextMessages(branch))
    BY DEF NothingForgotten
  <2>1. PICK b : b = branch
    OBVIOUS
  <2>2. IsBranch(b)
    BY <2>1 DEF WindowInv, TranscriptInv
  <2>3. PICK p \in Kept(b)..Len(b) : b[p].kind = "message" /\ b[p].msg.id = messages[i].id
    BY <2>1 DEF WindowInv, PlacesInv, Placed, PlaceOf
  <2>4. b[p].msg.id \in Ids(ContextMessages(b))
    BY <2>2, <2>3, ContextHas
  <2>. QED  BY <2>1, <2>3, <2>4
<1>. QED  BY <1>1, WindowInvHolds, PTL

\* No compaction (snap_to_safe_boundary), truncation, guard
\* (remove_orphan_tool_results) or retry (drop_oldest_safe) parts a tool result
\* from the call it answers.
THEOREM PairsKeptHolds == WindowSpec => []PairsKept
<1>1. WindowInv => PairsKept
  BY DEF WindowInv, TranscriptInv, RequestInv, PairsKept
<1>. QED  BY <1>1, WindowInvHolds, PTL

\* What the user said last is in the request, however it was trimmed
\* (apply_policy, drop_oldest_safe), if the retries leave a message
\* (min_messages).
THEOREM NewestPromptSentHolds ==
  ASSUME MinMessages > 0
  PROVE  WindowSpec => []NewestPromptSent
<1>1. WindowInv => NewestPromptSent
  BY DEF WindowInv, RequestInv
<1>. QED  BY <1>1, WindowInvHolds, PTL
=============================================================================
