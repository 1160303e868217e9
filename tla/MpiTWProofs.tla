------------------------------ MODULE MpiTWProofs ------------------------------
(***************************************************************************)
(* No message and receive that fit wait side by side in the MPI replay, in *)
(* any timeline.                                                           *)
(*                                                                         *)
(* The queues of a rank after a rollback are what its reverse handlers     *)
(* make of them.  The invariant says for every uncommitted event what it   *)
(* did to the queues and to the stack of removed elements, as far up as    *)
(* the stack has not been collected.                                       *)
(***************************************************************************)
EXTENDS MpiTW, SequenceTheorems, WellFoundedInduction, TLAPS

-----------------------------------------------------------------------------
(* Numbers and sequences.                                                  *)

LEMMA Smallest ==
  ASSUME NEW T \in SUBSET Nat, T # {}
  PROVE  \E x \in T : \A y \in T : x <= y
<1> DEFINE R == OpToRel(<, Nat)
<1>1. IsWellFoundedOn(R, Nat)
  BY NatLessThanWellFounded
<1>2. \A x, y \in Nat : <<y, x>> \in R <=> y < x
  BY DEF OpToRel
<1> HIDE DEF R
<1>3. PICK x \in T : \A y \in T : ~ (<<y, x>> \in R)
  BY <1>1, WFMin
<1>4. ASSUME NEW y \in T PROVE x <= y
  <2>1. x \in Nat /\ y \in Nat
    OBVIOUS
  <2>2. ~(y < x)
    BY <2>1, <1>2, <1>3
  <2>. QED
    BY <2>1, <2>2
<1>. QED
  BY <1>4

LEMMA AppendFacts ==
  ASSUME NEW S, NEW q \in Seq(S), NEW x \in S
  PROVE  /\ Append(q, x) \in Seq(S) /\ Len(Append(q, x)) = Len(q) + 1 /\ Len(q) \in Nat
         /\ \A i \in 1 .. Len(q) : Append(q, x)[i] = q[i]
         /\ Append(q, x)[Len(q) + 1] = x
         /\ Front(Append(q, x)) = q
<1>1. /\ Append(q, x) \in Seq(S) /\ Len(Append(q, x)) = Len(q) + 1 /\ Len(q) \in Nat
      /\ \A i \in 1 .. Len(q) : Append(q, x)[i] = q[i]
      /\ Append(q, x)[Len(q) + 1] = x
  BY LenProperties
<1> DEFINE p == Append(q, x)
<1>2. Front(p) = SubSeq(p, 1, Len(q))
  BY <1>1 DEF Front
<1> HIDE DEF p
<1>3. \A i \in 1 .. Len(q) : p[i] \in S /\ p[i] = q[i]
  BY <1>1, ElementOfSeq DEF p
<1>4. /\ SubSeq(p, 1, Len(q)) \in Seq(S)
      /\ Len(SubSeq(p, 1, Len(q))) = IF 1 <= Len(q) THEN Len(q) - 1 + 1 ELSE 0
      /\ \A i \in 1 .. (Len(q) - 1 + 1) : SubSeq(p, 1, Len(q))[i] = p[1 + i - 1]
  BY <1>1, <1>3, SubSeqProperties
<1>5. SubSeq(p, 1, Len(q)) = q
  <2> DEFINE u == SubSeq(p, 1, Len(q))
  <2>1. u \in Seq(S) /\ Len(u) = Len(q)
    BY <1>1, <1>4
  <2>2. \A i \in 1 .. Len(u) : u[i] = q[i]
    BY <1>1, <1>3, <1>4, <2>1
  <2> HIDE DEF u
  <2>3. u = q
    BY ONLY <2>1, <2>2, q \in Seq(S), SeqEqual
  <2>. QED
    BY <2>3 DEF u
<1>. QED
  BY <1>1, <1>2, <1>5 DEF p

LEMMA PiecesOf ==
  ASSUME NEW S, NEW q \in Seq(S), NEW m \in 0 .. Len(q)
  PROVE  /\ Len(q) \in Nat
         /\ SubSeq(q, 1, m) \in Seq(S) /\ Len(SubSeq(q, 1, m)) = m
         /\ \A i \in 1 .. m : SubSeq(q, 1, m)[i] = q[i]
         /\ SubSeq(q, m + 1, Len(q)) \in Seq(S) /\ Len(SubSeq(q, m + 1, Len(q))) = Len(q) - m
         /\ \A i \in 1 .. (Len(q) - m) : SubSeq(q, m + 1, Len(q))[i] = q[m + i]
<1>1. Len(q) \in Nat /\ m \in Nat /\ m <= Len(q)
  BY LenProperties
<1>2. \A i \in 1 .. m : q[i] \in S
  BY <1>1, ElementOfSeq
<1>3. \A i \in (m + 1) .. Len(q) : q[i] \in S
  BY <1>1, ElementOfSeq
<1>4. /\ SubSeq(q, 1, m) \in Seq(S)
      /\ Len(SubSeq(q, 1, m)) = IF 1 <= m THEN m - 1 + 1 ELSE 0
      /\ \A i \in 1 .. (m - 1 + 1) : SubSeq(q, 1, m)[i] = q[1 + i - 1]
  BY <1>1, <1>2, SubSeqProperties
<1>5. /\ SubSeq(q, m + 1, Len(q)) \in Seq(S)
      /\ Len(SubSeq(q, m + 1, Len(q))) = IF m + 1 <= Len(q) THEN Len(q) - (m + 1) + 1 ELSE 0
      /\ \A i \in 1 .. (Len(q) - (m + 1) + 1) : SubSeq(q, m + 1, Len(q))[i] = q[(m + 1) + i - 1]
  BY <1>1, <1>3, SubSeqProperties
<1>6. Len(SubSeq(q, 1, m)) = m /\ Len(SubSeq(q, m + 1, Len(q))) = Len(q) - m
  BY <1>1, <1>4, <1>5
<1>7. \A i \in 1 .. m : SubSeq(q, 1, m)[i] = q[i]
  BY <1>1, <1>4
<1>8. \A i \in 1 .. (Len(q) - m) : SubSeq(q, m + 1, Len(q))[i] = q[m + i]
  BY <1>1, <1>5
<1>. QED
  BY <1>1, <1>4, <1>5, <1>6, <1>7, <1>8

\* what is taken out of a list, and put back where it was
LEMMA TakeOutPutBack ==
  ASSUME NEW S, NEW q \in Seq(S), NEW k \in 1 .. Len(q)
  PROVE  /\ RemoveAt(q, k) \in Seq(S) /\ Len(RemoveAt(q, k)) = Len(q) - 1
         /\ \A i \in 1 .. Len(RemoveAt(q, k)) : \E j \in 1 .. Len(q) : RemoveAt(q, k)[i] = q[j]
         /\ InsertAt(RemoveAt(q, k), k, q[k]) = q
<1> DEFINE n == Len(q)
           a == SubSeq(q, 1, k - 1)
           b == SubSeq(q, k + 1, n)
           p == a \o b
<1>1. n \in Nat /\ k \in 1 .. n /\ k - 1 \in 0 .. n /\ k \in 0 .. n
  BY LenProperties
<1>2. a \in Seq(S) /\ Len(a) = k - 1 /\ \A i \in 1 .. (k - 1) : a[i] = q[i]
  BY <1>1, PiecesOf
<1>3. b \in Seq(S) /\ Len(b) = n - k /\ \A i \in 1 .. (n - k) : b[i] = q[k + i]
  BY <1>1, PiecesOf
<1> HIDE DEF a, b
<1>4. /\ p \in Seq(S) /\ Len(p) = n - 1
      /\ \A i \in 1 .. (n - 1) : p[i] = IF i <= k - 1 THEN a[i] ELSE b[i - (k - 1)]
  <2>1. /\ p \in Seq(S) /\ Len(p) = Len(a) + Len(b)
        /\ \A i \in 1 .. (Len(a) + Len(b)) : p[i] = IF i <= Len(a) THEN a[i] ELSE b[i - Len(a)]
    BY ONLY <1>2, <1>3, ConcatProperties, ZenonT(30) DEF p
  <2>2. Len(a) = k - 1 /\ Len(a) + Len(b) = n - 1
    BY <1>1, <1>2, <1>3
  <2>. QED
    BY ONLY <2>1, <2>2
<1>5. RemoveAt(q, k) = p
  BY DEF RemoveAt, a, b
<1> HIDE DEF p
<1>6. \A i \in 1 .. (n - 1) : p[i] = IF i <= k - 1 THEN q[i] ELSE q[i + 1]
  <2> SUFFICES ASSUME NEW i \in 1 .. (n - 1)
               PROVE  p[i] = IF i <= k - 1 THEN q[i] ELSE q[i + 1]
    OBVIOUS
  <2>1. CASE i <= k - 1
    <3>1. i \in 1 .. (k - 1)
      BY <1>1, <2>1
    <3>. QED
      BY <1>2, <1>4, <2>1, <3>1
  <2>2. CASE ~(i <= k - 1)
    <3>1. i - (k - 1) \in 1 .. (n - k) /\ k + (i - (k - 1)) = i + 1
      BY <1>1, <2>2
    <3>. QED
      BY <1>3, <1>4, <2>2, <3>1
  <2>. QED
    BY <2>1, <2>2
<1>7. \A i \in 1 .. Len(p) : \E j \in 1 .. n : p[i] = q[j]
  <2> SUFFICES ASSUME NEW i \in 1 .. (n - 1) PROVE \E j \in 1 .. n : p[i] = q[j]
    BY <1>4
  <2>1. i \in 1 .. n /\ i + 1 \in 1 .. n
    BY <1>1
  <2>. QED
    BY <1>6, <2>1
<1>8. InsertAt(p, k, q[k]) = q
  <2> DEFINE c == SubSeq(p, 1, k - 1)
             d == SubSeq(p, k, Len(p))
             x == <<q[k]>>
             v == c \o x
             u == v \o d
  <2>1. k - 1 \in 0 .. Len(p) /\ (k - 1) + 1 = k
    BY <1>1, <1>4
  <2>2. c \in Seq(S) /\ Len(c) = k - 1 /\ \A i \in 1 .. (k - 1) : c[i] = p[i]
    BY <1>4, <2>1, PiecesOf
  <2>3. d \in Seq(S) /\ Len(d) = n - k /\ \A i \in 1 .. (n - k) : d[i] = p[(k - 1) + i]
    <3>1. /\ SubSeq(p, (k - 1) + 1, Len(p)) \in Seq(S)
          /\ Len(SubSeq(p, (k - 1) + 1, Len(p))) = Len(p) - (k - 1)
          /\ \A i \in 1 .. (Len(p) - (k - 1)) : SubSeq(p, (k - 1) + 1, Len(p))[i] = p[(k - 1) + i]
      BY <1>4, <2>1, PiecesOf
    <3>2. Len(p) - (k - 1) = n - k
      BY <1>1, <1>4
    <3>. QED
      BY <2>1, <3>1, <3>2
  <2>4. x \in Seq(S) /\ Len(x) = 1 /\ x[1] = q[k]
    BY ElementOfSeq
  <2> HIDE DEF c, d, x
  <2>5. v \in Seq(S) /\ Len(v) = k /\ \A i \in 1 .. k : v[i] = IF i <= k - 1 THEN c[i] ELSE x[i - (k - 1)]
    <3>1. /\ v \in Seq(S) /\ Len(v) = Len(c) + Len(x)
          /\ \A i \in 1 .. (Len(c) + Len(x)) : v[i] = IF i <= Len(c) THEN c[i] ELSE x[i - Len(c)]
      BY ONLY <2>2, <2>4, ConcatProperties, ZenonT(30) DEF v
    <3>2. Len(c) = k - 1 /\ Len(c) + Len(x) = k
      BY <1>1, <2>2, <2>4
    <3>. QED
      BY ONLY <3>1, <3>2
  <2> HIDE DEF v
  <2>6. u \in Seq(S) /\ Len(u) = n /\ \A i \in 1 .. n : u[i] = IF i <= k THEN v[i] ELSE d[i - k]
    <3>1. /\ u \in Seq(S) /\ Len(u) = Len(v) + Len(d)
          /\ \A i \in 1 .. (Len(v) + Len(d)) : u[i] = IF i <= Len(v) THEN v[i] ELSE d[i - Len(v)]
      BY ONLY <2>3, <2>5, ConcatProperties, ZenonT(30) DEF u
    <3>2. Len(v) = k /\ Len(v) + Len(d) = n
      BY <1>1, <2>3, <2>5
    <3>. QED
      BY ONLY <3>1, <3>2
  <2> HIDE DEF u
  <2>7. ASSUME NEW i \in 1 .. Len(u) PROVE u[i] = q[i]
    <3>1. i \in 1 .. n
      BY <2>6, <2>7
    <3>2. CASE i <= k - 1
      <4>1. i \in 1 .. (k - 1) /\ i \in 1 .. k /\ i <= k /\ i \in 1 .. (n - 1)
        BY <1>1, <3>1, <3>2
      <4>. QED
        BY <1>6, <2>2, <2>5, <2>6, <3>1, <3>2, <4>1
    <3>3. CASE i = k
      <4>1. i \in 1 .. k /\ ~(i <= k - 1) /\ i - (k - 1) = 1 /\ i <= k
        BY <1>1, <3>3
      <4>. QED
        BY <2>4, <2>5, <2>6, <3>1, <3>3, <4>1
    <3>4. CASE i > k
      <4>1. /\ ~(i <= k) /\ i - k \in 1 .. (n - k) /\ (k - 1) + (i - k) = i - 1
            /\ i - 1 \in 1 .. (n - 1) /\ ~(i - 1 <= k - 1) /\ (i - 1) + 1 = i
        BY <1>1, <3>1, <3>4
      <4>2. u[i] = d[i - k] /\ d[i - k] = p[i - 1]
        BY <2>3, <2>6, <3>1, <4>1
      <4>3. p[i - 1] = q[i]
        BY <1>6, <4>1
      <4>. QED
        BY <4>2, <4>3
    <3>. QED
      BY <1>1, <3>1, <3>2, <3>3, <3>4
  <2>8. u = q
    BY ONLY <2>6, <2>7, q \in Seq(S), SeqEqual DEF n
  <2>. QED
    BY <2>8 DEF InsertAt, u, v, c, d, x
<1>. QED
  BY <1>4, <1>5, <1>7, <1>8

-----------------------------------------------------------------------------
(* rc_stack_gc: entries below a time are dropped from the bottom.          *)

Timed(S) == \A x \in S : x.time \in Nat

\* the first n entries are those that go
Drops(q, g, n) ==
  /\ n \in 0 .. Len(q)
  /\ \A j \in 1 .. n : q[j].time < g
  /\ n < Len(q) => q[n + 1].time >= g

LEMMA DropsExists ==
  ASSUME NEW S, Timed(S), NEW q \in Seq(S), NEW g \in Nat
  PROVE  \E n \in 0 .. Len(q) : Drops(q, g, n)
<1> DEFINE T == {i \in 1 .. (Len(q) + 1) : i = Len(q) + 1 \/ q[i].time >= g}
<1>1. Len(q) \in Nat /\ \A i \in 1 .. Len(q) : q[i].time \in Nat
  BY LenProperties, ElementOfSeq DEF Timed
<1>2. T \in SUBSET Nat /\ T # {}
  <2>1. Len(q) + 1 \in T
    BY <1>1
  <2>. QED
    BY <2>1
<1>3. PICK m \in T : \A y \in T : m <= y
  BY <1>2, Smallest
<1>4. m \in Nat /\ m - 1 \in 0 .. Len(q) /\ (m - 1) + 1 = m
  BY <1>1
<1>5. ASSUME NEW j \in 1 .. (m - 1) PROVE q[j].time < g
  <2>1. j \in 1 .. Len(q) /\ j \in 1 .. (Len(q) + 1) /\ ~(m <= j)
    BY <1>1, <1>4
  <2>2. j \notin T
    BY <1>3, <2>1
  <2>3. ~(q[j].time >= g)
    BY <2>1, <2>2
  <2>. QED
    BY <1>1, <2>1, <2>3
<1>6. m - 1 < Len(q) => q[(m - 1) + 1].time >= g
  BY <1>1, <1>4
<1>7. Drops(q, g, m - 1)
  BY <1>4, <1>5, <1>6 DEF Drops
<1>. QED
  BY <1>4, <1>7

LEMMA GcIs ==
  ASSUME NEW S, Timed(S), NEW q \in Seq(S), NEW g \in Nat, NEW n, Drops(q, g, n)
  PROVE  rc_stack_gc(q, g) = SubSeq(q, n + 1, Len(q))
<1> DEFINE P(i) == /\ \A j \in 1 .. i : q[j].time < g
                   /\ i < Len(q) => q[i + 1].time >= g
           c == CHOOSE i \in 0 .. Len(q) : P(i)
<1>1. Len(q) \in Nat /\ \A i \in 1 .. Len(q) : q[i].time \in Nat
  BY LenProperties, ElementOfSeq DEF Timed
<1>2. n \in 0 .. Len(q) /\ P(n)
  BY DEF Drops
<1>3. c \in 0 .. Len(q) /\ P(c)
  BY <1>2
<1>4. rc_stack_gc(q, g) = SubSeq(q, c + 1, Len(q))
  BY Zenon DEF rc_stack_gc
<1> HIDE DEF c
<1>5. c = n
  <2>1. CASE c < n
    <3>1. c + 1 \in 1 .. n /\ c < Len(q) /\ c + 1 \in 1 .. Len(q)
      BY <1>1, <1>2, <1>3, <2>1
    <3>2. q[c + 1].time < g /\ q[c + 1].time >= g /\ q[c + 1].time \in Nat
      BY <1>1, <1>2, <1>3, <3>1
    <3>. QED
      BY <3>2
  <2>2. CASE n < c
    <3>1. n + 1 \in 1 .. c /\ n < Len(q) /\ n + 1 \in 1 .. Len(q)
      BY <1>1, <1>2, <1>3, <2>2
    <3>2. q[n + 1].time < g /\ q[n + 1].time >= g /\ q[n + 1].time \in Nat
      BY <1>1, <1>2, <1>3, <3>1
    <3>. QED
      BY <3>2
  <2>. QED
    BY <1>1, <1>2, <1>3, <2>1, <2>2
<1>. QED
  BY <1>4, <1>5

LEMMA GcType ==
  ASSUME NEW S, Timed(S), NEW q \in Seq(S), NEW g \in Nat
  PROVE  rc_stack_gc(q, g) \in Seq(S)
<1>1. PICK n \in 0 .. Len(q) : Drops(q, g, n)
  BY DropsExists
<1>2. rc_stack_gc(q, g) = SubSeq(q, n + 1, Len(q))
  BY <1>1, GcIs
<1>. QED
  BY <1>2, PiecesOf

\* collecting again, later: as if collected only then
LEMMA GcAgain ==
  ASSUME NEW S, Timed(S), NEW q \in Seq(S), NEW g \in Nat, NEW h \in Nat, g <= h
  PROVE  rc_stack_gc(rc_stack_gc(q, g), h) = rc_stack_gc(q, h)
<1> DEFINE p == rc_stack_gc(q, g)
           L == Len(q)
<1>1. PICK n \in 0 .. Len(q) : Drops(q, g, n)
  BY DropsExists
<1>2. L \in Nat /\ \A i \in 1 .. L : q[i].time \in Nat
  BY LenProperties, ElementOfSeq DEF Timed
<1>3. p \in Seq(S) /\ Len(p) = L - n /\ \A i \in 1 .. (L - n) : p[i] = q[n + i]
  <2>1. p = SubSeq(q, n + 1, Len(q))
    BY <1>1, GcIs
  <2>. QED
    BY <2>1, PiecesOf
<1> HIDE DEF p
<1>4. PICK m \in 0 .. Len(p) : Drops(p, h, m)
  BY <1>3, DropsExists
<1>5. n \in Nat /\ m \in Nat /\ n + m \in 0 .. L
  BY <1>2, <1>3
<1>6. Drops(q, h, n + m)
  <2>1. ASSUME NEW j \in 1 .. (n + m) PROVE q[j].time < h
    <3>1. j \in 1 .. L
      BY <1>2, <1>5
    <3>2. CASE j <= n
      <4>1. q[j].time < g
        BY <1>1, <1>5, <3>2 DEF Drops
      <4>. QED
        BY <1>2, <3>1, <4>1
    <3>3. CASE j > n
      <4>1. j - n \in 1 .. m /\ j - n \in 1 .. (L - n) /\ n + (j - n) = j
        BY <1>2, <1>5, <3>3
      <4>2. p[j - n].time < h
        BY <1>4, <4>1 DEF Drops
      <4>. QED
        BY <1>3, <4>1, <4>2
    <3>. QED
      BY <1>5, <3>2, <3>3
  <2>2. ASSUME n + m < L PROVE q[(n + m) + 1].time >= h
    <3>1. m < Len(p) /\ m + 1 \in 1 .. (L - n) /\ n + (m + 1) = (n + m) + 1
      BY <1>2, <1>3, <1>5, <2>2
    <3>2. p[m + 1].time >= h
      BY <1>4, <3>1 DEF Drops
    <3>. QED
      BY <1>3, <3>1, <3>2
  <2>. QED
    BY <1>5, <2>1, <2>2 DEF Drops
<1> DEFINE u == SubSeq(p, m + 1, Len(p))
           w == SubSeq(q, (n + m) + 1, Len(q))
<1>7. rc_stack_gc(p, h) = u /\ rc_stack_gc(q, h) = w
  BY <1>3, <1>4, <1>6, GcIs
<1>8. u \in Seq(S) /\ Len(u) = Len(p) - m /\ \A i \in 1 .. (Len(p) - m) : u[i] = p[m + i]
  BY <1>3, PiecesOf
<1>9. w \in Seq(S) /\ Len(w) = L - (n + m) /\ \A i \in 1 .. (L - (n + m)) : w[i] = q[(n + m) + i]
  BY <1>5, PiecesOf
<1> HIDE DEF u, w
<1>10. Len(u) = Len(w) /\ \A i \in 1 .. Len(u) : u[i] = w[i]
  <2>1. Len(u) = Len(w) /\ Len(p) - m = L - (n + m) /\ Len(u) = L - (n + m)
    BY <1>2, <1>3, <1>5, <1>8, <1>9
  <2>2. ASSUME NEW i \in 1 .. Len(u) PROVE u[i] = w[i]
    <3>1. /\ i \in 1 .. (Len(p) - m) /\ i \in 1 .. (L - (n + m)) /\ m + i \in 1 .. (L - n)
          /\ n + (m + i) = (n + m) + i
      BY <1>2, <1>3, <1>5, <2>1
    <3>. QED
      BY <1>3, <1>8, <1>9, <3>1
  <2>. QED
    BY <2>1, <2>2
<1>11. u = w
  BY ONLY <1>8, <1>9, <1>10, SeqEqual
<1>. QED
  BY <1>7, <1>11 DEF p

\* an entry that is not old enough stays on top
LEMMA GcPush ==
  ASSUME NEW S, Timed(S), NEW q \in Seq(S), NEW g \in Nat, NEW x \in S, x.time >= g
  PROVE  rc_stack_gc(Append(q, x), g) = Append(rc_stack_gc(q, g), x)
<1> DEFINE p == Append(q, x)
           L == Len(q)
<1>1. PICK n \in 0 .. Len(q) : Drops(q, g, n)
  BY DropsExists
<1>2. /\ p \in Seq(S) /\ Len(p) = L + 1 /\ L \in Nat
      /\ \A i \in 1 .. L : p[i] = q[i]
      /\ p[L + 1] = x
  BY AppendFacts
<1> HIDE DEF p
<1>3. Drops(p, g, n)
  <2>1. \A j \in 1 .. n : p[j].time < g
    BY <1>1, <1>2 DEF Drops
  <2>2. p[n + 1].time >= g
    <3>1. CASE n = L
      BY <1>2, <3>1
    <3>2. CASE n < L
      <4>1. n + 1 \in 1 .. L
        BY <1>2, <3>2
      <4>. QED
        BY <1>1, <1>2, <3>2, <4>1 DEF Drops
    <3>. QED
      BY <1>2, <3>1, <3>2
  <2>. QED
    BY <1>2, <2>1, <2>2 DEF Drops
<1> DEFINE a == SubSeq(q, n + 1, Len(q))
           b == SubSeq(p, n + 1, Len(p))
           c == Append(a, x)
<1>4. rc_stack_gc(q, g) = a /\ rc_stack_gc(p, g) = b
  BY <1>1, <1>2, <1>3, GcIs
<1>5. a \in Seq(S) /\ Len(a) = L - n /\ \A i \in 1 .. (L - n) : a[i] = q[n + i]
  BY PiecesOf
<1>6. b \in Seq(S) /\ Len(b) = (L + 1) - n /\ \A i \in 1 .. ((L + 1) - n) : b[i] = p[n + i]
  <2>1. n \in 0 .. Len(p)
    BY <1>2
  <2>2. b \in Seq(S) /\ Len(b) = Len(p) - n /\ \A i \in 1 .. (Len(p) - n) : b[i] = p[n + i]
    BY <1>2, <2>1, PiecesOf
  <2>. QED
    BY <1>2, <2>2
<1> HIDE DEF a, b
<1>7. /\ c \in Seq(S) /\ Len(c) = Len(a) + 1
      /\ \A i \in 1 .. Len(a) : c[i] = a[i]
      /\ c[Len(a) + 1] = x
  BY <1>5, AppendFacts
<1> HIDE DEF c
<1>8. Len(b) = Len(c) /\ \A i \in 1 .. Len(b) : b[i] = c[i]
  <2>1. Len(b) = Len(c) /\ Len(b) = (L + 1) - n /\ Len(a) = L - n
    BY <1>2, <1>5, <1>6, <1>7
  <2>2. ASSUME NEW i \in 1 .. Len(b) PROVE b[i] = c[i]
    <3>1. CASE i <= L - n
      <4>1. i \in 1 .. (L - n) /\ i \in 1 .. ((L + 1) - n) /\ n + i \in 1 .. L
        BY <1>2, <2>1, <3>1
      <4>. QED
        BY <1>2, <1>5, <1>6, <1>7, <2>1, <4>1
    <3>2. CASE i = (L - n) + 1
      <4>1. i \in 1 .. ((L + 1) - n) /\ n + i = L + 1 /\ i = Len(a) + 1
        BY <1>2, <2>1, <3>2
      <4>. QED
        BY <1>2, <1>6, <1>7, <4>1
    <3>. QED
      BY <1>2, <2>1, <3>1, <3>2
  <2>. QED
    BY <2>1, <2>2
<1>9. b = c
  BY ONLY <1>6, <1>7, <1>8, SeqEqual
<1>. QED
  BY <1>4, <1>9 DEF p, c

\* x is on top of q, and b what counts of the rest
OnTop(S, q, g, b, x) ==
  /\ q # << >> /\ Last(q) = x /\ Front(q) \in Seq(S)
  /\ rc_stack_gc(Front(q), g) = b

\* such an entry is what the reverse handler takes from the stack
LEMMA GcPop ==
  ASSUME NEW S, Timed(S), NEW q \in Seq(S), NEW b \in Seq(S), NEW g \in Nat,
         NEW x \in S, x.time >= g, rc_stack_gc(q, g) = Append(b, x)
  PROVE  OnTop(S, q, g, b, x)
<1> DEFINE L == Len(q)
<1>1. PICK n \in 0 .. Len(q) : Drops(q, g, n)
  BY DropsExists
<1> DEFINE a == SubSeq(q, n + 1, Len(q))
<1>2. rc_stack_gc(q, g) = a
  BY <1>1, GcIs
<1>3. a \in Seq(S) /\ Len(a) = L - n /\ L \in Nat /\ \A i \in 1 .. (L - n) : a[i] = q[n + i]
  BY PiecesOf
<1>4. /\ Len(Append(b, x)) = Len(b) + 1 /\ Len(b) \in Nat
      /\ Append(b, x)[Len(b) + 1] = x
  BY AppendFacts
<1>5. a = Append(b, x)
  BY <1>2
<1> HIDE DEF a
<1>6. L - n = Len(b) + 1 /\ a[L - n] = x /\ L - n \in 1 .. (L - n) /\ n + (L - n) = L /\ L > 0
  BY <1>3, <1>4, <1>5
<1>7. q[L] = x /\ q # << >> /\ Last(q) = x
  <2>1. q[L] = x
    BY <1>3, <1>6
  <2>2. q # << >>
    BY <1>6
  <2>. QED
    BY <2>1, <2>2 DEF Last
<1> DEFINE f == SubSeq(q, 1, L - 1)
<1>8. L - 1 \in 0 .. Len(q)
  BY <1>3, <1>6
<1>9. f \in Seq(S) /\ Len(f) = L - 1 /\ \A i \in 1 .. (L - 1) : f[i] = q[i]
  BY <1>8, PiecesOf, ZenonT(30)
<1>10. Front(q) = f
  BY DEF Front
<1> HIDE DEF f
<1> DEFINE c == Append(f, x)
<1>11. /\ c \in Seq(S) /\ Len(c) = Len(f) + 1
       /\ \A i \in 1 .. Len(f) : c[i] = f[i]
       /\ c[Len(f) + 1] = x
  BY <1>9, AppendFacts
<1> HIDE DEF c
<1>12. Len(c) = Len(q) /\ \A i \in 1 .. Len(c) : c[i] = q[i]
  <2>1. Len(c) = L /\ Len(f) = L - 1 /\ (L - 1) + 1 = L
    BY <1>3, <1>6, <1>9, <1>11
  <2>2. ASSUME NEW i \in 1 .. Len(c) PROVE c[i] = q[i]
    <3>1. CASE i <= L - 1
      <4>1. i \in 1 .. (L - 1)
        BY <1>3, <2>1, <3>1
      <4>. QED
        BY <1>9, <1>11, <2>1, <4>1
    <3>2. CASE i = L
      BY <1>7, <1>11, <2>1, <3>2
    <3>. QED
      BY <1>3, <2>1, <3>1, <3>2
  <2>. QED
    BY <2>1, <2>2
<1>13. c = q
  BY ONLY <1>11, <1>12, q \in Seq(S), SeqEqual
<1>14. rc_stack_gc(q, g) = Append(rc_stack_gc(f, g), x)
  BY <1>9, <1>13, GcPush DEF c
<1>15. rc_stack_gc(f, g) \in Seq(S)
  BY <1>9, GcType
<1>16. Append(rc_stack_gc(f, g), x) = Append(b, x)
  BY <1>14
<1>17. rc_stack_gc(f, g) = b
  BY ONLY <1>15, <1>16, b \in Seq(S), x \in S, AppendInjective
<1>. QED
  BY <1>7, <1>9, <1>10, <1>17 DEF OnTop

-----------------------------------------------------------------------------
(* Ranks, events, and what an event does to the queues of a rank.          *)

Item == [time : Nat, data : Message \cup Receive \cup Int]

Fields ==
  {"recv_req", "read", "lifo", "arrival_queue", "pending_recvs_queue", "completed_reqs",
   "wait_op", "processed_ops", "processed_wait_op", "matched_reqs", "recv_time", "wait_time",
   "send_time", "compute_time", "elapsed_time", "is_finished", "num_own_job_ranks_completed",
   "known_completed_jobs", "rng", "count", "num_bytes_sent", "num_bytes_recvd", "syn_data",
   "gen_data", "col_time", "all_reduce_time", "num_all_reduce", "max_time"}

IsLP(s) ==
  /\ DOMAIN s = Fields
  /\ s.recv_req \in Int /\ s.read \in Nat /\ s.lifo \in Seq(Ops)
  /\ s.arrival_queue \in Seq(Message)
  /\ s.pending_recvs_queue \in Seq(Receive)
  /\ s.processed_ops \in Seq(Item)

NoMatch(s) ==
  \A i \in 1 .. Len(s.arrival_queue), j \in 1 .. Len(s.pending_recvs_queue) :
    ~Matches(s.pending_recvs_queue[j], s.arrival_queue[i])

MessageTypes ==
  {"MPI_SEND_ARRIVED", "MPI_REND_ARRIVED", "MPI_REND_ACK_ARRIVED", "MPI_SEND_POSTED"}

IsEvent(e) ==
  /\ e.ts \in Nat /\ e.to \in Ranks
  /\ e.type \in MessageTypes => e.msg \in Message

SameQueues(b, t) ==
  t.arrival_queue = b.arrival_queue /\ t.pending_recvs_queue = b.pending_recvs_queue

\* the stack of removed elements: unchanged, or with x on top, as far as it counts
SameStack(b, t, g) == rc_stack_gc(t.processed_ops, g) = rc_stack_gc(b.processed_ops, g)
Pushed(b, t, g, now, x) ==
  /\ x \in Message \cup Receive \cup Int
  /\ rc_stack_gc(t.processed_ops, g)
       = Append(rc_stack_gc(b.processed_ops, g), [time |-> now, data |-> x])

ArrivalEffect(e, rc, b, t, g) ==
  \/ /\ rc.found_match = -1
     /\ t.arrival_queue = Append(b.arrival_queue, e.msg)
     /\ t.pending_recvs_queue = b.pending_recvs_queue
     /\ SameStack(b, t, g)
  \/ LET k == rc.found_match + 1 IN
       /\ k \in 1 .. Len(b.pending_recvs_queue)
       /\ t.arrival_queue = b.arrival_queue
       /\ t.pending_recvs_queue = RemoveAt(b.pending_recvs_queue, k)
       /\ rc.found_match \in Nat /\ rc.saved_num_bytes = b.pending_recvs_queue[k].bytes
       /\ Pushed(b, t, g, e.ts, [b.pending_recvs_queue[k] EXCEPT !.bytes = e.msg.bytes])

ReceiveEffect(e, rc, b, t, g) ==
  \/ /\ rc.found_match = -1
     /\ \E x \in Receive : t.pending_recvs_queue = Append(b.pending_recvs_queue, x)
     /\ t.arrival_queue = b.arrival_queue
     /\ SameStack(b, t, g)
  \/ LET k == rc.found_match + 1 IN
       /\ k \in 1 .. Len(b.arrival_queue)
       /\ t.pending_recvs_queue = b.pending_recvs_queue
       /\ t.arrival_queue = RemoveAt(b.arrival_queue, k)
       /\ rc.found_match \in Nat
       /\ Pushed(b, t, g, e.ts, b.arrival_queue[k])

WaitEffect(e, rc, b, t, g) ==
  /\ SameQueues(b, t)
  /\ \/ rc.c1 = FALSE /\ SameStack(b, t, g)
     \/ rc.c1 = TRUE /\ \E x \in Int : Pushed(b, t, g, e.ts, x)

OpEffect(e, op, rc, b, t, g) ==
  /\ op.op \in {"RECV", "IRECV"} => ReceiveEffect(e, rc, b, t, g)
  /\ op.op = "WAIT" => WaitEffect(e, rc, b, t, g)
  /\ op.op \notin {"RECV", "IRECV", "WAIT"} => SameQueues(b, t) /\ SameStack(b, t, g)

Effect(e, rc, b, t, g) ==
  /\ e.type = "MPI_SEND_ARRIVED" => ArrivalEffect(e, rc, b, t, g)
  /\ e.type = "MPI_OP_GET_NEXT" =>
       rc.mpi_op \in Ops /\ OpEffect(e, rc.mpi_op, rc.saved, b, t, g)
  /\ e.type \notin {"MPI_SEND_ARRIVED", "MPI_OP_GET_NEXT"} => SameQueues(b, t) /\ SameStack(b, t, g)

-----------------------------------------------------------------------------
(* Handlers.                                                               *)

Kept(s, t) ==
  /\ DOMAIN t = DOMAIN s /\ t.recv_req = s.recv_req /\ t.read = s.read /\ t.lifo = s.lifo
  /\ SameQueues(s, t) /\ t.processed_ops = s.processed_ops

\* t is rank s, prepared for its event
Base(s, t, g) == IsLP(t) /\ NoMatch(t) /\ SameQueues(s, t) /\ SameStack(s, t, g)

LEMMA ItemsTimed == Timed(Item)
  BY DEF Timed, Item

LEMMA KeptBase ==
  ASSUME NEW s, NEW c, NEW t, NEW g, Base(s, c, g), Kept(c, t)
  PROVE  Base(s, t, g)
<1>1. IsLP(t)
  BY DEF Base, Kept, IsLP, SameQueues
<1>2. NoMatch(t)
  BY DEF Base, Kept, NoMatch, SameQueues
<1>3. SameQueues(s, t) /\ SameStack(s, t, g)
  BY DEF Base, Kept, SameQueues, SameStack
<1>. QED
  BY <1>1, <1>2, <1>3 DEF Base

LEMMA KeptTwice ==
  ASSUME NEW s, NEW t, NEW u, Kept(s, t), Kept(t, u)
  PROVE  Kept(s, u)
  BY DEF Kept, SameQueues

\* counts of operations and bytes
LEMMA CountsKept ==
  ASSUME NEW s, DOMAIN s = Fields, NEW op, NEW n
  PROVE  Kept(s, Counted(s, op, n)) /\ Kept(s, BytesSent(s, n))
<1> DEFINE t == [s EXCEPT !.count[CounterOf(op)] = @ + n]
           u == [s EXCEPT !.num_bytes_sent = @ + n]
<1>1. Counted(s, op, n) = s \/ Counted(s, op, n) = t
  BY Zenon DEF Counted
<1>2. BytesSent(s, n) = u
  BY DEF BytesSent
<1>3. Kept(s, s) /\ Kept(s, u)
  BY Zenon DEF Kept, SameQueues, Fields
<1>4. Kept(s, t)
  <2> DEFINE c == CounterOf(op)
  <2> HIDE DEF c
  <2>1. t = [s EXCEPT !.count[c] = @ + n]
    BY DEF c
  <2> HIDE DEF t
  <2>. QED
    BY <2>1, Zenon DEF Kept, SameQueues, Fields
<1> HIDE DEF t, u
<1>. QED
  BY <1>1, <1>2, <1>3, <1>4

LEMMA CollectedBase ==
  ASSUME NEW s, IsLP(s), NoMatch(s), NEW g \in Nat
  PROVE  Base(s, CollectStacks(s, g), g)
<1> DEFINE t == CollectStacks(s, g)
<1>1. DOMAIN s = Fields
  BY DEF IsLP
<1>2. /\ DOMAIN t = DOMAIN s /\ t.recv_req = s.recv_req /\ t.read = s.read /\ t.lifo = s.lifo
      /\ t.arrival_queue = s.arrival_queue /\ t.pending_recvs_queue = s.pending_recvs_queue
      /\ t.processed_ops = rc_stack_gc(s.processed_ops, g)
  BY <1>1, Zenon DEF CollectStacks, Fields
<1> HIDE DEF t
<1>3. s.processed_ops \in Seq(Item)
  BY DEF IsLP
<1>4. t.processed_ops \in Seq(Item) /\ SameStack(s, t, g)
  BY <1>2, <1>3, GcType, GcAgain, ItemsTimed DEF SameStack
<1>5. IsLP(t)
  BY <1>1, <1>2, <1>4 DEF IsLP
<1>6. NoMatch(t)
  BY <1>2 DEF NoMatch
<1>7. SameQueues(s, t)
  BY <1>2 DEF SameQueues
<1>. QED
  BY <1>4, <1>5, <1>6, <1>7 DEF Base, t

LEMMA OpFacts ==
  ASSUME NEW r \in Ranks, NEW s, IsLP(s)
  PROVE  NextOp(r, s) \in Ops
<1>1. s.read \in Nat /\ s.lifo \in Seq(Ops) /\ Trace[r] \in Seq(Ops)
  BY ReplayAssumption DEF IsLP
<1>2. CASE s.lifo # << >>
  <2>1. Head(s.lifo) \in Ops
    BY <1>1, <1>2, HeadTailProperties
  <2>. QED
    BY <1>2, <2>1 DEF NextOp
<1>3. CASE s.lifo = << >> /\ s.read < Len(Trace[r])
  <2>1. s.read + 1 \in 1 .. Len(Trace[r])
    BY <1>1, <1>3, LenProperties
  <2>2. Trace[r][s.read + 1] \in Ops
    BY <1>1, <2>1, ElementOfSeq
  <2>. QED
    BY <1>3, <2>2 DEF NextOp
<1>4. CASE s.lifo = << >> /\ ~(s.read < Len(Trace[r]))
  <2>1. NextOp(r, s) = [op |-> "END"]
    BY <1>4 DEF NextOp
  <2>2. [op |-> "END"] \in Ops
    BY Zenon DEF Ops
  <2>. QED
    BY <2>1, <2>2
<1>. QED
  BY <1>2, <1>3, <1>4

LEMMA TakenBase ==
  ASSUME NEW s, NEW c, NEW g, Base(s, c, g)
  PROVE  Base(s, codes_workload_get_next(c), g)
<1> DEFINE t == codes_workload_get_next(c)
<1>1. DOMAIN c = Fields /\ c.read \in Nat /\ c.lifo \in Seq(Ops)
  BY DEF Base, IsLP
<1>2. /\ DOMAIN t = DOMAIN c /\ t.recv_req = c.recv_req
      /\ t.arrival_queue = c.arrival_queue /\ t.pending_recvs_queue = c.pending_recvs_queue
      /\ t.processed_ops = c.processed_ops
  <2>1. CASE c.lifo # << >>
    <3>1. t = [c EXCEPT !.lifo = Tail(c.lifo)]
      BY <2>1 DEF codes_workload_get_next
    <3>. QED
      BY <1>1, <3>1, Zenon DEF Fields
  <2>2. CASE c.lifo = << >>
    <3>1. t = [c EXCEPT !.read = c.read + 1]
      BY <2>2 DEF codes_workload_get_next
    <3>. QED
      BY <1>1, <3>1, Zenon DEF Fields
  <2>. QED
    BY <2>1, <2>2
<1>3. t.read \in Nat /\ t.lifo \in Seq(Ops)
  <2>1. CASE c.lifo # << >>
    <3>1. t = [c EXCEPT !.lifo = Tail(c.lifo)]
      BY <2>1 DEF codes_workload_get_next
    <3>2. t.read = c.read /\ t.lifo = Tail(c.lifo)
      BY <1>1, <3>1, Zenon DEF Fields
    <3>3. Tail(c.lifo) \in Seq(Ops)
      BY <1>1, <2>1, HeadTailProperties
    <3>. QED
      BY <1>1, <3>2, <3>3
  <2>2. CASE c.lifo = << >>
    <3>1. t = [c EXCEPT !.read = c.read + 1]
      BY <2>2 DEF codes_workload_get_next
    <3>2. t.read = c.read + 1 /\ t.lifo = c.lifo
      BY <1>1, <3>1, Zenon DEF Fields
    <3>. QED
      BY <1>1, <3>2
  <2>. QED
    BY <2>1, <2>2
<1> HIDE DEF t
<1>4. IsLP(t)
  BY <1>1, <1>2, <1>3 DEF IsLP, Base
<1>5. NoMatch(t)
  BY <1>2 DEF NoMatch, Base
<1>6. SameQueues(s, t) /\ SameStack(s, t, g)
  BY <1>2 DEF SameQueues, SameStack, Base
<1>. QED
  BY <1>4, <1>5, <1>6 DEF Base, t

LEMMA TakenCounted ==
  ASSUME NEW s, NEW c, NEW g, Base(s, c, g), NEW op
  PROVE  Base(s, Counted(codes_workload_get_next(c), op, 1), g)
<1> DEFINE t == codes_workload_get_next(c)
<1>1. Base(s, t, g)
  BY TakenBase
<1>2. DOMAIN t = Fields
  BY <1>1 DEF Base, IsLP
<1> HIDE DEF t
<1>3. Kept(t, Counted(t, op, 1))
  BY <1>2, CountsKept
<1>4. Base(s, Counted(t, op, 1), g)
  BY <1>1, <1>3, KeptBase
<1>. QED
  BY <1>4 DEF t

\* what the rank of e sends are events
SentOK(sent) == \A f \in sent : IsEvent(f)

LEMMA NextEventOK ==
  ASSUME NEW e, IsEvent(e), NEW d \in Nat
  PROVE  IsEvent(NextEvent(e, d))
  BY DEF IsEvent, NextEvent, Event, MessageTypes

LEMMA IssueOK ==
  ASSUME NEW e, IsEvent(e)
  PROVE  SentOK(codes_issue_next_event(e)) /\ \A b : SentOK(NextIf(b, e))
<1>1. IsEvent(NextEvent(e, NEAR_ZERO))
  BY NextEventOK DEF NEAR_ZERO
<1>2. SentOK(codes_issue_next_event(e))
  BY <1>1 DEF SentOK, codes_issue_next_event
<1>. QED
  BY <1>2 DEF NextIf, SentOK

LEMMA UnionOK ==
  ASSUME NEW S, NEW T, SentOK(S), SentOK(T)
  PROVE  SentOK(S \cup T)
  BY DEF SentOK

LEMMA MessageEventOK ==
  ASSUME NEW type, NEW ts \in Nat, NEW to \in Ranks, NEW msg \in Message
  PROVE  IsEvent(MessageEvent(type, ts, to, msg))
  BY DEF IsEvent, MessageEvent

LEMMA MessageFacts ==
  ASSUME NEW msg \in Message
  PROVE  /\ msg.src \in Ranks /\ msg.dest \in Ranks /\ msg.bytes \in Nat /\ msg.start \in Nat
         /\ msg.req \in Int /\ msg.matched_req \in Int
         /\ \A q \in Int : [msg EXCEPT !.matched_req = q] \in Message
  BY DEF Message

LEMMA CallbackOK ==
  ASSUME NEW e, IsEvent(e), e.type \in MessageTypes
  PROVE  SentOK({CallbackEvent(e)})
<1>1. e.msg.src \in Ranks /\ e.ts \in Nat
  BY MessageFacts DEF IsEvent
<1>2. IsEvent(CallbackEvent(e))
  BY <1>1 DEF IsEvent, CallbackEvent, MessageTypes
<1>. QED
  BY <1>2 DEF SentOK

\* completing a request leaves the queues alone
LEMMA CompletedKept ==
  ASSUME NEW s, DOMAIN s = Fields, NEW e, IsEvent(e), NEW req
  PROVE  /\ Kept(s, update_completed_queue(s, e, req).ns)
         /\ SentOK(update_completed_queue(s, e, req).sent)
<1> DEFINE n == notify_posted_wait(s, req)
           t == IF s.wait_op = None THEN s
                ELSE [s EXCEPT !.wait_op.num_completed = @ + n.wait_completed]
           x == clear_completed_reqs(t, ToSet(s.wait_op.req_ids), e.ts)
           u == [x EXCEPT !.wait_time = @ + (e.ts - s.wait_op.start_time),
                          !.processed_wait_op = rc_stack_push(@, t.wait_op, e.ts), !.wait_op = None]
           v == [t EXCEPT !.completed_reqs = <<req>> \o @]
           o == update_completed_queue(s, e, req)
<1>1. o.ns = (IF n.done THEN u ELSE v) /\ o.sent = (IF n.done THEN codes_issue_next_event(e) ELSE {})
  BY DEF update_completed_queue, Outcome
<1>2. Kept(s, t)
  <2>1. CASE s.wait_op = None
    BY <2>1 DEF Kept, SameQueues
  <2>2. CASE s.wait_op # None
    <3>1. t = [s EXCEPT !.wait_op.num_completed = @ + n.wait_completed]
      BY <2>2
    <3> HIDE DEF n, t
    <3>. QED
      BY <3>1, Zenon DEF Kept, SameQueues, Fields
  <2>. QED
    BY <2>1, <2>2
<1> HIDE DEF n, t
<1>3. Kept(t, x)
  BY <1>2, Zenon DEF Kept, SameQueues, Fields, clear_completed_reqs
<1> HIDE DEF x
<1>4. DOMAIN t = Fields /\ DOMAIN x = Fields
  BY <1>2, <1>3 DEF Kept
<1>5. Kept(x, u)
  BY <1>4, Zenon DEF Kept, SameQueues, Fields
<1>6. Kept(t, v)
  BY <1>4, Zenon DEF Kept, SameQueues, Fields
<1> HIDE DEF u, v, o
<1>7. Kept(s, u) /\ Kept(s, v)
  BY <1>2, <1>3, <1>5, <1>6 DEF Kept, SameQueues
<1>8. SentOK(codes_issue_next_event(e)) /\ SentOK({})
  BY IssueOK DEF SentOK
<1>. QED
  BY <1>1, <1>7, <1>8 DEF o

LEMMA NoRequestKept ==
  ASSUME NEW s, NEW sent
  PROVE  NoRequest(s, sent).ns = s /\ NoRequest(s, sent).sent = sent
  BY DEF NoRequest, Outcome

LEMMA LatencyFacts ==
  /\ \A l \in Latencies.ack : l \in Nat
  /\ \A l \in Latencies.data : l \in Nat
  /\ \A l \in Latencies.eager : l \in Nat
  /\ \A l \in Latencies.announce : l \in Nat
  /\ \A l \in Latencies.background : l \in Nat
  /\ \A l \in LocalLatencies : l \in Nat
<1>1. /\ DOMAIN Latencies = {"eager", "announce", "ack", "data", "background"}
      /\ \A k \in DOMAIN Latencies : Latencies[k] \subseteq Nat
      /\ LocalLatencies \subseteq Nat
  BY ReplayAssumption
<1>3. /\ Latencies["ack"] \subseteq Nat /\ Latencies["data"] \subseteq Nat
      /\ Latencies["eager"] \subseteq Nat /\ Latencies["announce"] \subseteq Nat
      /\ Latencies["background"] \subseteq Nat
  BY <1>1, Zenon
<1>. QED
  BY <1>1, <1>3, Zenon

\* a match asks for a long message, completes a request, or lets the rank go on
LEMMA MatchKept ==
  ASSUME NEW s, DOMAIN s = Fields, NEW e, IsEvent(e), NEW recv, recv.req \in Int,
         NEW msg \in Message, NEW l \in Nat
  PROVE  /\ Kept(s, MatchOutcome(s, e, recv, msg, l).ns)
         /\ SentOK(MatchOutcome(s, e, recv, msg, l).sent)
<1> DEFINE o == MatchOutcome(s, e, recv, msg, l)
<1>1. Kept(s, s)
  BY DEF Kept, SameQueues
<1>2. CASE ~is_eager(msg)
  <2>1. o = NoRequest(s, send_ack_back(e, msg, recv.req, l))
    BY <1>2 DEF MatchOutcome
  <2>2. [msg EXCEPT !.matched_req = recv.req] \in Message /\ msg.src \in Ranks
    BY MessageFacts
  <2>3. e.ts + l \in Nat
    BY DEF IsEvent
  <2>4. SentOK(send_ack_back(e, msg, recv.req, l))
    BY <2>2, <2>3, MessageEventOK DEF SentOK, send_ack_back
  <2> HIDE DEF o
  <2>. QED
    BY <1>1, <2>1, <2>4, NoRequestKept DEF o
<1>3. CASE is_eager(msg) /\ recv.op = "IRECV"
  <2>1. o = update_completed_queue(s, e, recv.req)
    BY <1>3 DEF MatchOutcome
  <2>. QED
    BY <2>1, CompletedKept
<1>4. CASE is_eager(msg) /\ recv.op # "IRECV"
  <2>1. o = NoRequest(s, codes_issue_next_event(e))
    BY <1>4 DEF MatchOutcome
  <2> HIDE DEF o
  <2>. QED
    BY <1>1, <2>1, IssueOK, NoRequestKept DEF o
<1>. QED
  BY <1>2, <1>3, <1>4

-----------------------------------------------------------------------------
(* Matching.                                                               *)

LEMMA FirstReceiveFacts ==
  ASSUME NEW s, IsLP(s), NEW msg
  PROVE  \/ /\ FirstReceive(s, msg) = -1
            /\ \A i \in 1 .. Len(s.pending_recvs_queue) : ~Matches(s.pending_recvs_queue[i], msg)
         \/ /\ FirstReceive(s, msg) \in Nat
            /\ FirstReceive(s, msg) + 1 \in 1 .. Len(s.pending_recvs_queue)
<1> DEFINE q == s.pending_recvs_queue
           P(i) == Matches(q[i], msg) /\ \A j \in 1 .. (i - 1) : ~Matches(q[j], msg)
           T == {i \in 1 .. Len(q) : Matches(q[i], msg)}
           c == CHOOSE i \in DOMAIN q : P(i)
<1>1. DOMAIN q = 1 .. Len(q) /\ Len(q) \in Nat
  <2>1. q \in Seq(Receive)
    BY DEF IsLP
  <2>. QED
    BY <2>1, LenProperties
<1>2. FirstReceive(s, msg) = IF \E i \in DOMAIN q : Matches(q[i], msg) THEN c - 1 ELSE -1
  BY Zenon DEF FirstReceive, FirstIndex
<1> HIDE DEF q, P
<1>3. (\E i \in DOMAIN q : P(i)) => c \in DOMAIN q
  BY Zenon
<1> HIDE DEF c, T
<1>4. CASE T = {}
  <2>1. \A i \in 1 .. Len(q) : ~Matches(q[i], msg)
    BY <1>4 DEF T
  <2>2. FirstReceive(s, msg) = -1
    BY <1>1, <1>2, <2>1
  <2>. QED
    BY <2>1, <2>2 DEF q
<1>5. CASE T # {}
  <2>1. T \in SUBSET Nat
    BY <1>1 DEF T
  <2>2. PICK m \in T : \A y \in T : m <= y
    BY ONLY <1>5, <2>1, Smallest
  <2>3. m \in DOMAIN q /\ m \in Nat /\ Matches(q[m], msg)
    BY <1>1 DEF T
  <2>4. ASSUME NEW j \in 1 .. (m - 1) PROVE ~Matches(q[j], msg)
    <3>1. j \in 1 .. Len(q) /\ ~(m <= j)
      BY <1>1, <2>3
    <3>. QED
      BY <2>2, <3>1 DEF T
  <2>5. P(m)
    BY <2>3, <2>4 DEF P
  <2>6. c \in DOMAIN q
    BY <1>3, <2>3, <2>5
  <2>7. FirstReceive(s, msg) = c - 1
    BY <1>2, <2>3
  <2>. QED
    BY <1>1, <2>6, <2>7 DEF q
<1>. QED
  BY <1>4, <1>5

LEMMA FirstMessageFacts ==
  ASSUME NEW s, IsLP(s), NEW recv
  PROVE  \/ /\ FirstMessage(s, recv) = -1
            /\ \A i \in 1 .. Len(s.arrival_queue) : ~Matches(recv, s.arrival_queue[i])
         \/ /\ FirstMessage(s, recv) \in Nat
            /\ FirstMessage(s, recv) + 1 \in 1 .. Len(s.arrival_queue)
<1> DEFINE q == s.arrival_queue
           P(i) == Matches(recv, q[i]) /\ \A j \in 1 .. (i - 1) : ~Matches(recv, q[j])
           T == {i \in 1 .. Len(q) : Matches(recv, q[i])}
           c == CHOOSE i \in DOMAIN q : P(i)
<1>1. DOMAIN q = 1 .. Len(q) /\ Len(q) \in Nat
  <2>1. q \in Seq(Message)
    BY DEF IsLP
  <2>. QED
    BY <2>1, LenProperties
<1>2. FirstMessage(s, recv) = IF \E i \in DOMAIN q : Matches(recv, q[i]) THEN c - 1 ELSE -1
  BY Zenon DEF FirstMessage, FirstIndex
<1> HIDE DEF q, P
<1>3. (\E i \in DOMAIN q : P(i)) => c \in DOMAIN q
  BY Zenon
<1> HIDE DEF c, T
<1>4. CASE T = {}
  <2>1. \A i \in 1 .. Len(q) : ~Matches(recv, q[i])
    BY <1>4 DEF T
  <2>2. FirstMessage(s, recv) = -1
    BY <1>1, <1>2, <2>1
  <2>. QED
    BY <2>1, <2>2 DEF q
<1>5. CASE T # {}
  <2>1. T \in SUBSET Nat
    BY <1>1 DEF T
  <2>2. PICK m \in T : \A y \in T : m <= y
    BY ONLY <1>5, <2>1, Smallest
  <2>3. m \in DOMAIN q /\ m \in Nat /\ Matches(recv, q[m])
    BY <1>1 DEF T
  <2>4. ASSUME NEW j \in 1 .. (m - 1) PROVE ~Matches(recv, q[j])
    <3>1. j \in 1 .. Len(q) /\ ~(m <= j)
      BY <1>1, <2>3
    <3>. QED
      BY <2>2, <3>1 DEF T
  <2>5. P(m)
    BY <2>3, <2>4 DEF P
  <2>6. c \in DOMAIN q
    BY <1>3, <2>3, <2>5
  <2>7. FirstMessage(s, recv) = c - 1
    BY <1>2, <2>3
  <2>. QED
    BY <1>1, <2>6, <2>7 DEF q
<1>. QED
  BY <1>4, <1>5

\* Shorter queues, or a newcomer that fits nothing: still no match.
LEMMA StillNoMatch ==
  ASSUME NEW s, NoMatch(s), IsLP(s), NEW t
  PROVE  /\ SameQueues(s, t) => NoMatch(t)
         /\ \A k \in 1 .. Len(s.pending_recvs_queue) :
              /\ t.arrival_queue = s.arrival_queue
              /\ t.pending_recvs_queue = RemoveAt(s.pending_recvs_queue, k)
              => NoMatch(t)
         /\ \A k \in 1 .. Len(s.arrival_queue) :
              /\ t.pending_recvs_queue = s.pending_recvs_queue
              /\ t.arrival_queue = RemoveAt(s.arrival_queue, k)
              => NoMatch(t)
         /\ \A msg \in Message :
              /\ t.pending_recvs_queue = s.pending_recvs_queue
              /\ t.arrival_queue = Append(s.arrival_queue, msg)
              /\ \A j \in 1 .. Len(s.pending_recvs_queue) : ~Matches(s.pending_recvs_queue[j], msg)
              => NoMatch(t)
         /\ \A recv \in Receive :
              /\ t.arrival_queue = s.arrival_queue
              /\ t.pending_recvs_queue = Append(s.pending_recvs_queue, recv)
              /\ \A i \in 1 .. Len(s.arrival_queue) : ~Matches(recv, s.arrival_queue[i])
              => NoMatch(t)
<1> DEFINE a == s.arrival_queue
           p == s.pending_recvs_queue
<1>1. a \in Seq(Message) /\ p \in Seq(Receive)
  BY DEF IsLP
<1>2. \A i \in 1 .. Len(a), j \in 1 .. Len(p) : ~Matches(p[j], a[i])
  BY DEF NoMatch
<1>3. SameQueues(s, t) => NoMatch(t)
  BY DEF NoMatch, SameQueues
<1> HIDE DEF a, p
<1>4. ASSUME NEW k \in 1 .. Len(p), t.arrival_queue = a, t.pending_recvs_queue = RemoveAt(p, k)
      PROVE  NoMatch(t)
  <2>1. \A j \in 1 .. Len(RemoveAt(p, k)) : \E x \in 1 .. Len(p) : RemoveAt(p, k)[j] = p[x]
    BY <1>1, TakeOutPutBack
  <2>. QED
    BY <1>2, <1>4, <2>1 DEF NoMatch
<1>5. ASSUME NEW k \in 1 .. Len(a), t.pending_recvs_queue = p, t.arrival_queue = RemoveAt(a, k)
      PROVE  NoMatch(t)
  <2>1. \A j \in 1 .. Len(RemoveAt(a, k)) : \E x \in 1 .. Len(a) : RemoveAt(a, k)[j] = a[x]
    BY <1>1, TakeOutPutBack
  <2>. QED
    BY <1>2, <1>5, <2>1 DEF NoMatch
<1>6. ASSUME NEW msg \in Message, t.pending_recvs_queue = p, t.arrival_queue = Append(a, msg),
             \A j \in 1 .. Len(p) : ~Matches(p[j], msg)
      PROVE  NoMatch(t)
  <2> DEFINE b == Append(a, msg)
  <2>1. /\ Len(b) = Len(a) + 1 /\ Len(a) \in Nat
        /\ \A i \in 1 .. Len(a) : b[i] = a[i]
        /\ b[Len(a) + 1] = msg
    BY <1>1, AppendFacts
  <2> HIDE DEF b
  <2>2. ASSUME NEW i \in 1 .. Len(b), NEW j \in 1 .. Len(p) PROVE ~Matches(p[j], b[i])
    <3>1. CASE i \in 1 .. Len(a)
      BY <1>2, <2>1, <3>1
    <3>2. CASE i = Len(a) + 1
      BY <1>6, <2>1, <3>2
    <3>. QED
      BY <2>1, <3>1, <3>2
  <2>. QED
    BY <1>6, <2>2 DEF NoMatch, b
<1>7. ASSUME NEW recv \in Receive, t.arrival_queue = a, t.pending_recvs_queue = Append(p, recv),
             \A i \in 1 .. Len(a) : ~Matches(recv, a[i])
      PROVE  NoMatch(t)
  <2> DEFINE b == Append(p, recv)
  <2>1. /\ Len(b) = Len(p) + 1 /\ Len(p) \in Nat
        /\ \A i \in 1 .. Len(p) : b[i] = p[i]
        /\ b[Len(p) + 1] = recv
    BY <1>1, AppendFacts
  <2> HIDE DEF b
  <2>2. ASSUME NEW i \in 1 .. Len(a), NEW j \in 1 .. Len(b) PROVE ~Matches(b[j], a[i])
    <3>1. CASE j \in 1 .. Len(p)
      BY <1>2, <2>1, <3>1
    <3>2. CASE j = Len(p) + 1
      BY <1>7, <2>1, <3>2
    <3>. QED
      BY <2>1, <3>1, <3>2
  <2>. QED
    BY <1>7, <2>2 DEF NoMatch, b
<1>. QED
  BY <1>3, <1>4, <1>5, <1>6, <1>7 DEF a, p

-----------------------------------------------------------------------------
(* What each handler does.                                                 *)

OutcomeOK(e, o, s, g) ==
  /\ IsLP(o.ns) /\ NoMatch(o.ns)
  /\ SentOK(o.sent)
  /\ Effect(e, o.rc, s, o.ns, g)

LEMMA PushFacts ==
  ASSUME NEW s, NEW c, NEW g \in Nat, Base(s, c, g), NEW now \in Nat, g <= now,
         NEW x \in Message \cup Receive \cup Int, NEW t,
         t.processed_ops = rc_stack_push(c.processed_ops, x, now)
  PROVE  t.processed_ops \in Seq(Item) /\ Pushed(s, t, g, now, x)
<1> DEFINE y == [time |-> now, data |-> x]
           q == c.processed_ops
<1>1. y \in Item /\ y.time >= g
  BY DEF Item
<1>2. q \in Seq(Item) /\ rc_stack_gc(q, g) = rc_stack_gc(s.processed_ops, g)
  BY DEF Base, IsLP, SameStack
<1>3. t.processed_ops = Append(q, y)
  BY DEF rc_stack_push
<1> HIDE DEF y, q
<1>4. Append(q, y) \in Seq(Item)
  BY <1>1, <1>2, AppendFacts
<1>5. rc_stack_gc(Append(q, y), g) = Append(rc_stack_gc(q, g), y)
  BY <1>1, <1>2, GcPush, ItemsTimed
<1>. QED
  BY <1>2, <1>3, <1>4, <1>5 DEF Pushed, y

LEMMA QuietOutcome ==
  ASSUME NEW e, NEW o, NEW s, NEW g, Base(s, o.ns, g), SentOK(o.sent),
         e.type \notin {"MPI_SEND_ARRIVED", "MPI_OP_GET_NEXT"}
  PROVE  OutcomeOK(e, o, s, g)
  BY DEF OutcomeOK, Base, Effect

LEMMA ArrivalOutcome ==
  ASSUME NEW s, NEW d, NEW g \in Nat, Base(s, d, g), NEW e, IsEvent(e), g <= e.ts,
         e.type = "MPI_SEND_ARRIVED", NEW l \in Nat
  PROVE  OutcomeOK(e, update_arrival_queue(d, e, l), s, g)
<1> DEFINE msg == e.msg
           c == [d EXCEPT !.num_bytes_recvd = @ + msg.bytes]
           i == FirstReceive(c, msg)
           k == i + 1
           P == c.pending_recvs_queue
           recv == P[i + 1]
           m == MatchOutcome(c, e, recv, msg, l)
           cb == IF is_eager(msg) THEN {CallbackEvent(e)} ELSE {}
           o == update_arrival_queue(d, e, l)
<1>0. Kept(d, c) /\ d.recv_time = c.recv_time
  <2>1. DOMAIN d = Fields
    BY DEF Base, IsLP
  <2>. QED
    BY <2>1, Zenon DEF Kept, SameQueues, Fields
<1>a. FirstReceive(d, msg) = i /\ d.pending_recvs_queue[i + 1] = recv
  BY <1>0 DEF FirstReceive, Kept, SameQueues
<1>b. /\ i = -1 => o = Outcome([c EXCEPT !.arrival_queue = Append(@, msg)], [found_match |-> i],
                              cb, << >>)
      /\ i # -1 => o = Outcome(
           [m.ns EXCEPT !.recv_time = IF is_eager(msg) THEN @ + (e.ts - msg.start) ELSE @,
                        !.pending_recvs_queue = RemoveAt(@, i + 1),
                        !.processed_ops = rc_stack_push(@, [recv EXCEPT !.bytes = msg.bytes], e.ts)],
           [found_match |-> i, saved_recv_time |-> c.recv_time,
            saved_num_bytes |-> recv.bytes, recv |-> recv, completed |-> m.rc],
           m.sent \cup cb, Matched(recv, msg) \o m.did)
  BY <1>0, <1>a, Zenon DEF update_arrival_queue
<1>c. Base(s, c, g)
  BY <1>0, KeptBase
<1> HIDE DEF c, o
<1>1. /\ DOMAIN c = Fields /\ IsLP(c) /\ NoMatch(c)
      /\ c.arrival_queue \in Seq(Message) /\ P \in Seq(Receive) /\ c.processed_ops \in Seq(Item)
      /\ c.arrival_queue = s.arrival_queue /\ P = s.pending_recvs_queue
  BY <1>c DEF Base, IsLP, SameQueues
<1>2. msg \in Message /\ e.ts \in Nat /\ e.type \in MessageTypes
  BY DEF IsEvent, MessageTypes
<1>3. SentOK(cb)
  BY <1>2, CallbackOK DEF SentOK
<1>4. CASE i = -1
  <2> DEFINE t == [c EXCEPT !.arrival_queue = Append(@, msg)]
  <2>1. o.ns = t /\ o.rc = [found_match |-> i] /\ o.sent = cb
    BY <1>4, <1>b DEF Outcome
  <2>2. /\ t.arrival_queue = Append(c.arrival_queue, msg)
        /\ DOMAIN t = Fields /\ t.recv_req = c.recv_req /\ t.read = c.read /\ t.lifo = c.lifo
        /\ t.pending_recvs_queue = P /\ t.processed_ops = c.processed_ops
    BY <1>1, Zenon DEF Fields
  <2> HIDE DEF t, o, cb, msg
  <2>3. t.arrival_queue \in Seq(Message)
    BY <1>1, <1>2, <2>2, AppendFacts
  <2>4. IsLP(t)
    BY <1>1, <2>2, <2>3 DEF IsLP
  <2>5. \A j \in 1 .. Len(P) : ~Matches(P[j], msg)
    BY <1>1, <1>4, FirstReceiveFacts
  <2>6. NoMatch(t)
    BY <1>1, <1>2, <2>2, <2>5, StillNoMatch
  <2>7. SameStack(s, t, g)
    BY <1>c, <2>2 DEF SameStack, Base
  <2>8. o.rc.found_match = -1
    BY <1>4, <2>1
  <2>9. ArrivalEffect(e, o.rc, s, t, g)
    BY <1>1, <2>2, <2>7, <2>8 DEF ArrivalEffect, msg
  <2>10. Effect(e, o.rc, s, t, g)
    BY <2>9 DEF Effect
  <2>. QED
    BY <1>3, <2>1, <2>4, <2>6, <2>10 DEF OutcomeOK, o
<1>5. CASE i # -1
  <2> DEFINE x == [recv EXCEPT !.bytes = msg.bytes]
             n == m.ns
             t == [n EXCEPT !.recv_time = IF is_eager(msg) THEN @ + (e.ts - msg.start) ELSE @,
                            !.pending_recvs_queue = RemoveAt(@, i + 1),
                            !.processed_ops = rc_stack_push(@, x, e.ts)]
  <2>1. i \in Nat /\ k \in 1 .. Len(P)
    BY <1>1, <1>5, FirstReceiveFacts
  <2>2. recv \in Receive
    BY <1>1, <2>1, ElementOfSeq
  <2>3. x \in Receive /\ recv.req \in Int
    BY <1>2, <2>2, MessageFacts DEF Receive
  <2>4. Kept(c, n) /\ SentOK(m.sent)
    BY <1>1, <1>2, <2>3, MatchKept
  <2> DEFINE saved == [found_match |-> i, saved_recv_time |-> c.recv_time,
                       saved_num_bytes |-> recv.bytes, recv |-> recv, completed |-> m.rc]
  <2>a. o = Outcome(t, saved, m.sent \cup cb, Matched(recv, msg) \o m.did)
    BY <1>5, <1>b
  <2>5. o.ns = t /\ o.sent = m.sent \cup cb /\ o.rc = saved
    <3> HIDE DEF t, saved, m, cb
    <3>. QED
      BY <2>a DEF Outcome
  <2> HIDE DEF x, m, n, o, cb, recv, i, msg
  <2>6. DOMAIN n = Fields
    BY <1>1, <2>4 DEF Kept
  <2>7. /\ t.pending_recvs_queue = RemoveAt(n.pending_recvs_queue, i + 1)
        /\ t.processed_ops = rc_stack_push(n.processed_ops, x, e.ts)
        /\ DOMAIN t = Fields /\ t.recv_req = n.recv_req /\ t.read = n.read /\ t.lifo = n.lifo
        /\ t.arrival_queue = n.arrival_queue
    BY <2>6, Zenon DEF Fields
  <2> HIDE DEF t
  <2>8. /\ t.pending_recvs_queue = RemoveAt(P, k)
        /\ t.processed_ops = rc_stack_push(c.processed_ops, x, e.ts)
        /\ DOMAIN t = Fields /\ t.recv_req = c.recv_req /\ t.read = c.read /\ t.lifo = c.lifo
        /\ t.arrival_queue = c.arrival_queue
    BY <1>1, <2>4, <2>7 DEF Kept, SameQueues
  <2>9. t.processed_ops \in Seq(Item) /\ Pushed(s, t, g, e.ts, x)
    BY <1>2, <1>c, <2>3, <2>8, PushFacts
  <2>10. RemoveAt(P, k) \in Seq(Receive)
    BY <1>1, <2>1, TakeOutPutBack
  <2>11. IsLP(t)
    BY <1>1, <2>8, <2>9, <2>10 DEF IsLP
  <2>12. NoMatch(t)
    BY <1>1, <2>1, <2>8, StillNoMatch
  <2>13. SentOK(o.sent)
    BY <1>3, <2>4, <2>5, UnionOK
  <2>14. o.rc.found_match = i /\ o.rc.saved_num_bytes = recv.bytes
    BY <2>5
  <2>15. ArrivalEffect(e, o.rc, s, t, g)
    <3>1. s.pending_recvs_queue[k] = recv
      BY <1>1 DEF recv
    <3>2. Pushed(s, t, g, e.ts, [s.pending_recvs_queue[k] EXCEPT !.bytes = e.msg.bytes])
      BY <2>9, <3>1 DEF x, msg
    <3>. QED
      BY <1>1, <2>1, <2>8, <2>14, <3>1, <3>2 DEF ArrivalEffect
  <2>16. Effect(e, o.rc, s, t, g)
    BY <2>15 DEF Effect
  <2>. QED
    BY <2>5, <2>11, <2>12, <2>13, <2>16 DEF OutcomeOK, o
<1>. QED
  BY <1>4, <1>5

\* the handler of an operation, with outcome o
OpOK(e, op, o, s, g) ==
  /\ o = Outcome(o.ns, o.rc, o.sent, o.did)
  /\ IsLP(o.ns) /\ NoMatch(o.ns)
  /\ SentOK(o.sent)
  /\ OpEffect(e, op, o.rc, s, o.ns, g)

LEMMA OpOutcome ==
  ASSUME NEW e, e.type = "MPI_OP_GET_NEXT", NEW op \in Ops, NEW o, NEW s, NEW g,
         OpOK(e, op, o, s, g)
  PROVE  OutcomeOK(e, [o EXCEPT !.rc = [mpi_op |-> op, saved |-> @]], s, g)
<1> DEFINE w == [o EXCEPT !.rc = [mpi_op |-> op, saved |-> @]]
<1>1. DOMAIN o = {"ns", "rc", "sent", "did"}
  <2>1. o = [ns |-> o.ns, rc |-> o.rc, sent |-> o.sent, did |-> o.did]
    BY DEF OpOK, Outcome
  <2> DEFINE a == o.ns
             b == o.rc
             c == o.sent
             d == o.did
             u == [ns |-> a, rc |-> b, sent |-> c, did |-> d]
  <2>2. DOMAIN u = {"ns", "rc", "sent", "did"}
    <3> HIDE DEF a, b, c, d
    <3>. QED
      OBVIOUS
  <2>3. o = u
    BY <2>1
  <2> HIDE DEF u
  <2>. QED
    BY <2>2, <2>3
<1>2. w.ns = o.ns /\ w.sent = o.sent /\ w.rc = [mpi_op |-> op, saved |-> o.rc]
  BY <1>1, Zenon
<1> HIDE DEF w
<1>3. w.rc.mpi_op = op /\ w.rc.saved = o.rc
  BY <1>2
<1>4. Effect(e, w.rc, s, w.ns, g)
  BY <1>2, <1>3 DEF Effect, OpOK
<1>. QED
  BY <1>2, <1>4 DEF OutcomeOK, OpOK, w

LEMMA OutcomeShape ==
  ASSUME NEW ns, NEW rc, NEW sent, NEW did
  PROVE  LET o == Outcome(ns, rc, sent, did)
         IN  /\ o.ns = ns /\ o.rc = rc /\ o.sent = sent /\ o.did = did
             /\ o = Outcome(o.ns, o.rc, o.sent, o.did)
  BY DEF Outcome

\* operations that leave the queues alone
LEMMA QuietOp ==
  ASSUME NEW e, NEW op, op.op \notin {"RECV", "IRECV", "WAIT"}, NEW s, NEW g,
         NEW ns, NEW rc, NEW sent, NEW did, Base(s, ns, g), SentOK(sent)
  PROVE  OpOK(e, op, Outcome(ns, rc, sent, did), s, g)
<1> DEFINE o == Outcome(ns, rc, sent, did)
<1>1. o.ns = ns /\ o.rc = rc /\ o.sent = sent /\ o = Outcome(o.ns, o.rc, o.sent, o.did)
  BY OutcomeShape
<1> HIDE DEF o
<1>2. OpEffect(e, op, o.rc, s, o.ns, g)
  BY <1>1 DEF OpEffect, Base
<1>. QED
  BY <1>1, <1>2 DEF OpOK, Base, o

LEMMA ReceiveOutcome ==
  ASSUME NEW s, NEW c, NEW g \in Nat, Base(s, c, g), NEW e, IsEvent(e), g <= e.ts,
         NEW op \in Ops, op.op \in {"RECV", "IRECV"}, NEW l \in Nat
  PROVE  OpOK(e, op, codes_exec_mpi_recv(c, e, op, l), s, g)
<1> DEFINE recv == [op |-> op.op, source |-> op.peer, tag |-> op.tag, bytes |-> op.bytes,
                    req |-> IF op.op = "RECV" THEN c.recv_req ELSE op.req, id |-> <<e.to, Pos(c)>>]
           i == FirstMessage(c, recv)
           k == i + 1
           A == c.arrival_queue
           msg == A[i + 1]
           rb == [recv EXCEPT !.bytes = msg.bytes]
           m == MatchOutcome(c, e, rb, msg, l)
           next == NextIf(op.op = "IRECV", e)
           o == codes_exec_mpi_recv(c, e, op, l)
<1>1. /\ DOMAIN c = Fields /\ IsLP(c) /\ NoMatch(c) /\ c.recv_req \in Int
      /\ c.read \in Nat /\ c.lifo \in Seq(Ops)
      /\ A \in Seq(Message) /\ c.pending_recvs_queue \in Seq(Receive) /\ c.processed_ops \in Seq(Item)
      /\ A = s.arrival_queue /\ c.pending_recvs_queue = s.pending_recvs_queue
  BY DEF Base, IsLP, SameQueues
<1>2. e.ts \in Nat /\ e.to \in Ranks
  BY DEF IsEvent
<1>3. SentOK(next)
  BY IssueOK
<1>4. Pos(c) \in Int
  BY <1>1, LenProperties DEF Pos
<1>5. recv \in Receive /\ recv.req \in Int
  <2>1. op.peer \in Ranks \cup {ANY} /\ op.tag \in Int /\ op.bytes \in Nat /\ op.req \in Int
    BY ReplayAssumption
  <2>2. (IF op.op = "RECV" THEN c.recv_req ELSE op.req) \in Int
    BY <1>1, <2>1
  <2>3. <<e.to, Pos(c)>> \in Ranks \X Int
    BY <1>2, <1>4
  <2>4. recv \in Receive
    BY <2>1, <2>2, <2>3 DEF Receive
  <2> HIDE DEF recv
  <2>5. recv.req \in Int
    BY <2>4 DEF Receive
  <2>. QED
    BY <2>4, <2>5
<1>6. CASE i = -1
  <2> DEFINE t == [c EXCEPT !.pending_recvs_queue = Append(@, recv)]
             rc == [found_match |-> i]
  <2>1. o = Outcome(t, rc, next, << >>)
    BY <1>6, Zenon DEF codes_exec_mpi_recv
  <2> HIDE DEF o, next, recv, i
  <2>2. /\ t.pending_recvs_queue = Append(c.pending_recvs_queue, recv)
        /\ DOMAIN t = Fields /\ t.recv_req = c.recv_req /\ t.read = c.read /\ t.lifo = c.lifo
        /\ t.arrival_queue = A /\ t.processed_ops = c.processed_ops
    BY <1>1, Zenon DEF Fields
  <2>3. o.ns = t /\ o.rc = rc /\ o.sent = next /\ o = Outcome(o.ns, o.rc, o.sent, o.did)
    <3> HIDE DEF t, rc
    <3>. QED
      BY ONLY <2>1, OutcomeShape
  <2> HIDE DEF t
  <2>4. t.pending_recvs_queue \in Seq(Receive)
    BY <1>1, <1>5, <2>2, AppendFacts
  <2>5. IsLP(t)
    BY <1>1, <2>2, <2>4 DEF IsLP
  <2>6. \A j \in 1 .. Len(A) : ~Matches(recv, A[j])
    BY <1>1, <1>6, FirstMessageFacts DEF i
  <2>7. NoMatch(t)
    BY <1>1, <1>5, <2>2, <2>6, StillNoMatch
  <2>8. SameStack(s, t, g)
    BY <2>2 DEF SameStack, Base
  <2>9. o.rc.found_match = -1
    BY <1>6, <2>3
  <2>10. ReceiveEffect(e, o.rc, s, t, g)
    BY <1>1, <1>5, <2>2, <2>8, <2>9 DEF ReceiveEffect
  <2>11. OpEffect(e, op, o.rc, s, t, g)
    BY <2>10 DEF OpEffect
  <2>. QED
    BY <1>3, <2>3, <2>5, <2>7, <2>11 DEF OpOK, o
<1>7. CASE i # -1
  <2> DEFINE n == m.ns
             t == [n EXCEPT !.arrival_queue = RemoveAt(@, i + 1),
                            !.processed_ops = rc_stack_push(@, msg, e.ts)]
             rc == [found_match |-> i, msg |-> msg, completed |-> m.rc]
             did == Matched(recv, msg) \o m.did
  <2>1. i \in Nat /\ k \in 1 .. Len(A)
    BY <1>1, <1>7, FirstMessageFacts
  <2>2. msg \in Message
    BY <1>1, <2>1, ElementOfSeq
  <2>3. rb.req \in Int
    <3> HIDE DEF recv, msg
    <3>1. msg.bytes \in Nat
      BY <2>2, MessageFacts
    <3>. QED
      BY <1>5, <3>1 DEF Receive
  <2>4. Kept(c, n) /\ SentOK(m.sent)
    <3> HIDE DEF rb, msg, recv
    <3>. QED
      BY <1>1, <2>2, <2>3, MatchKept
  <2>5. o = Outcome(t, rc, m.sent \cup next, did)
    BY <1>7, Zenon DEF codes_exec_mpi_recv
  <2> HIDE DEF m, n, o, next, recv, i, msg, rb, did
  <2>6. DOMAIN n = Fields
    BY <1>1, <2>4 DEF Kept
  <2>7. /\ t.arrival_queue = RemoveAt(n.arrival_queue, i + 1)
        /\ t.processed_ops = rc_stack_push(n.processed_ops, msg, e.ts)
        /\ DOMAIN t = Fields /\ t.recv_req = n.recv_req /\ t.read = n.read /\ t.lifo = n.lifo
        /\ t.pending_recvs_queue = n.pending_recvs_queue
    BY <2>6, Zenon DEF Fields
  <2>8. /\ o.ns = t /\ o.rc = rc /\ o.sent = m.sent \cup next
        /\ o = Outcome(o.ns, o.rc, o.sent, o.did)
    <3> HIDE DEF t, rc
    <3>. QED
      BY ONLY <2>5, OutcomeShape
  <2> HIDE DEF t
  <2>9. /\ t.arrival_queue = RemoveAt(A, k)
        /\ t.processed_ops = rc_stack_push(c.processed_ops, msg, e.ts)
        /\ DOMAIN t = Fields /\ t.recv_req = c.recv_req /\ t.read = c.read /\ t.lifo = c.lifo
        /\ t.pending_recvs_queue = c.pending_recvs_queue
    BY <1>1, <2>4, <2>7 DEF Kept, SameQueues
  <2>10. t.processed_ops \in Seq(Item) /\ Pushed(s, t, g, e.ts, msg)
    BY <1>2, <2>2, <2>9, PushFacts
  <2>11. RemoveAt(A, k) \in Seq(Message)
    BY <1>1, <2>1, TakeOutPutBack
  <2>12. IsLP(t)
    BY <1>1, <2>9, <2>10, <2>11 DEF IsLP
  <2>13. NoMatch(t)
    BY <1>1, <2>1, <2>9, StillNoMatch
  <2>14. SentOK(o.sent)
    BY <1>3, <2>4, <2>8, UnionOK
  <2>15. o.rc.found_match = i
    BY <2>8
  <2>16. ReceiveEffect(e, o.rc, s, t, g)
    <3>1. s.arrival_queue[k] = msg
      BY <1>1 DEF msg
    <3>. QED
      BY <1>1, <2>1, <2>9, <2>10, <2>15, <3>1 DEF ReceiveEffect
  <2>17. OpEffect(e, op, o.rc, s, t, g)
    BY <2>16 DEF OpEffect
  <2>. QED
    BY <2>8, <2>12, <2>13, <2>14, <2>17 DEF OpOK, o
<1>. QED
  BY <1>6, <1>7

LEMMA WaitOutcome ==
  ASSUME NEW s, NEW c, NEW g \in Nat, Base(s, c, g), NEW e, IsEvent(e), g <= e.ts,
         NEW op \in Ops, op.op = "WAIT"
  PROVE  OpOK(e, op, codes_exec_mpi_wait(c, e, op), s, g)
<1> DEFINE i == FirstRequest(c, op.req)
           o == codes_exec_mpi_wait(c, e, op)
<1>1. DOMAIN c = Fields
  BY DEF Base, IsLP
<1>2. op.req \in Int
  BY ReplayAssumption
<1>3. CASE i = -1
  <2> DEFINE t == Post(c, e, "WAIT", <<op.req>>, 0)
             rc == [c1 |-> FALSE]
  <2>1. o = Outcome(t, rc, {}, << >>)
    BY <1>3, Zenon DEF codes_exec_mpi_wait
  <2>2. Kept(c, t)
    BY <1>1, Zenon DEF Kept, SameQueues, Fields, Post
  <2> HIDE DEF t, o
  <2>3. Base(s, t, g)
    BY <2>2, KeptBase
  <2>4. o.ns = t /\ o.rc = rc /\ o.sent = {} /\ o = Outcome(o.ns, o.rc, o.sent, o.did)
    <3> HIDE DEF rc
    <3>. QED
      BY ONLY <2>1, OutcomeShape
  <2>5. o.rc.c1 = FALSE
    BY <2>4
  <2>6. WaitEffect(e, o.rc, s, t, g)
    BY <2>3, <2>5 DEF WaitEffect, Base
  <2>7. OpEffect(e, op, o.rc, s, t, g)
    BY <2>6 DEF OpEffect
  <2>. QED
    BY <2>3, <2>4, <2>7 DEF OpOK, Base, SentOK, o
<1>4. CASE i # -1
  <2> DEFINE t == [c EXCEPT !.completed_reqs = RemoveAt(@, i + 1),
                            !.processed_ops = rc_stack_push(@, op.req, e.ts)]
             rc == [c1 |-> TRUE, found_match |-> i]
             sent == codes_issue_next_event(e)
  <2>1. o = Outcome(t, rc, sent, << >>)
    BY <1>4, Zenon DEF codes_exec_mpi_wait
  <2> HIDE DEF i, sent, o
  <2>2. /\ DOMAIN t = DOMAIN c /\ t.recv_req = c.recv_req /\ t.read = c.read /\ t.lifo = c.lifo
        /\ SameQueues(c, t) /\ t.processed_ops = rc_stack_push(c.processed_ops, op.req, e.ts)
    BY <1>1, Zenon DEF SameQueues, Fields
  <2>3. o.ns = t /\ o.rc = rc /\ o.sent = sent /\ o = Outcome(o.ns, o.rc, o.sent, o.did)
    <3> HIDE DEF rc, t
    <3>. QED
      BY ONLY <2>1, OutcomeShape
  <2> HIDE DEF t
  <2>4. t.processed_ops \in Seq(Item) /\ Pushed(s, t, g, e.ts, op.req)
    BY <1>2, <2>2, PushFacts DEF IsEvent
  <2>5. IsLP(t)
    BY <2>2, <2>4 DEF IsLP, Base, SameQueues
  <2>6. NoMatch(t)
    BY <2>2 DEF NoMatch, SameQueues, Base
  <2>7. SameQueues(s, t)
    BY <2>2 DEF SameQueues, Base
  <2>8. o.rc.c1 = TRUE
    BY <2>3
  <2>9. WaitEffect(e, o.rc, s, t, g)
    BY <1>2, <2>4, <2>7, <2>8 DEF WaitEffect
  <2>10. OpEffect(e, op, o.rc, s, t, g)
    BY <2>9 DEF OpEffect
  <2>11. SentOK(sent)
    BY IssueOK DEF sent
  <2>. QED
    BY <2>3, <2>5, <2>6, <2>10, <2>11 DEF OpOK, o
<1>. QED
  BY <1>3, <1>4

LEMMA WaitAllOutcome ==
  ASSUME NEW s, NEW c, NEW g \in Nat, Base(s, c, g), NEW e, IsEvent(e),
         NEW op \in Ops, op.op = "WAITALL"
  PROVE  OpOK(e, op, codes_exec_mpi_wait_all(c, e, op), s, g)
<1> DEFINE n == NumMatched(c, op.reqs)
           x == clear_completed_reqs(c, ToSet(op.reqs), e.ts)
           t == [x EXCEPT !.wait_op = None]
           u == Post(c, e, "WAITALL", op.reqs, n)
           o == codes_exec_mpi_wait_all(c, e, op)
<1>1. DOMAIN c = Fields
  BY DEF Base, IsLP
<1>2. Kept(c, x)
  BY <1>1, Zenon DEF Kept, SameQueues, Fields, clear_completed_reqs
<1>3. Kept(c, u)
  BY <1>1, Zenon DEF Kept, SameQueues, Fields, Post
<1>4. \/ o = Outcome(t, [num_matched |-> Len(c.completed_reqs) - Len(x.completed_reqs)],
                     codes_issue_next_event(e), << >>)
      \/ o = Outcome(u, [num_matched |-> 0], {}, << >>)
  BY Zenon DEF codes_exec_mpi_wait_all
<1> HIDE DEF x, u, o
<1>5. Kept(c, t)
  <2>1. DOMAIN x = Fields
    BY <1>1, <1>2 DEF Kept
  <2>2. Kept(x, t)
    BY <2>1, Zenon DEF Kept, SameQueues, Fields
  <2> HIDE DEF t
  <2>. QED
    BY <1>2, <2>2 DEF Kept, SameQueues
<1>6. Base(s, t, g) /\ Base(s, u, g)
  BY <1>3, <1>5, KeptBase
<1>7. SentOK(codes_issue_next_event(e)) /\ SentOK({})
  BY IssueOK DEF SentOK
<1> HIDE DEF t
<1>. QED
  BY <1>4, <1>6, <1>7, QuietOp DEF o

LEMMA DelayOutcome ==
  ASSUME NEW s, NEW c, NEW g \in Nat, Base(s, c, g), NEW e, IsEvent(e),
         NEW op \in Ops, op.op = "DELAY"
  PROVE  OpOK(e, op, codes_exec_comp_delay(c, e, op), s, g)
<1> DEFINE t == [c EXCEPT !.compute_time = @ + op.nsecs]
<1>1. DOMAIN c = Fields
  BY DEF Base, IsLP
<1>2. Kept(c, t)
  BY <1>1, Zenon DEF Kept, SameQueues, Fields
<1>3. codes_exec_comp_delay(c, e, op)
        = Outcome(t, [saved_delay |-> c.compute_time], {NextEvent(e, op.nsecs)}, << >>)
  BY DEF codes_exec_comp_delay
<1> HIDE DEF t
<1>4. Base(s, t, g)
  BY <1>2, KeptBase
<1>5. op.nsecs \in Nat
  BY ReplayAssumption
<1>6. SentOK({NextEvent(e, op.nsecs)})
  BY <1>5, NextEventOK DEF SentOK
<1>. QED
  BY <1>3, <1>4, <1>6, QuietOp

LEMMA CountedOutcome ==
  ASSUME NEW s, NEW c, NEW g \in Nat, Base(s, c, g), NEW e, IsEvent(e),
         NEW op \in Ops, op.op \in {"COL", "MARK", "WAITSOME", "WAITANY"}
  PROVE  OpOK(e, op, counted_op(c, e), s, g)
  BY IssueOK, QuietOp DEF counted_op

LEMMA AllreduceOutcome ==
  ASSUME NEW s, NEW c, NEW g \in Nat, Base(s, c, g), NEW e, IsEvent(e),
         NEW op \in Ops, op.op = "ALLREDUCE"
  PROVE  OpOK(e, op, allreduce(c, e), s, g)
<1> DEFINE t == [c EXCEPT !.all_reduce_time = @ + (e.ts - c.col_time), !.col_time = 0,
                          !.num_all_reduce = @ + 1]
           u == [c EXCEPT !.col_time = e.ts]
           n == IF c.col_time > 0 THEN t ELSE u
           rc == [c27 |-> c.col_time > 0, saved_delay |-> c.all_reduce_time,
                  saved_send_time |-> c.col_time]
<1>1. DOMAIN c = Fields
  BY DEF Base, IsLP
<1>2. allreduce(c, e) = Outcome(n, rc, codes_issue_next_event(e), << >>)
  BY Zenon DEF allreduce
<1>3. Kept(c, t) /\ Kept(c, u)
  BY <1>1, Zenon DEF Kept, SameQueues, Fields
<1> HIDE DEF t, u, rc
<1>4. Base(s, n, g)
  BY <1>3, KeptBase
<1>5. SentOK(codes_issue_next_event(e))
  BY IssueOK
<1> HIDE DEF n
<1>. QED
  BY <1>2, <1>4, <1>5, QuietOp

LEMMA RootFacts ==
  ASSUME NEW r \in Ranks
  PROVE  Root[Job[r]] \in Ranks /\ Root[Job0] \in Ranks
<1>1. /\ Job[r] \in DOMAIN Root /\ Job0 \in DOMAIN Root
      /\ Range(Root) \subseteq Ranks
  BY ReplayAssumption
<1>. QED
  BY <1>1, Zenon DEF Range

LEMMA PlainEventOK ==
  ASSUME NEW type, type \notin MessageTypes, NEW ts \in Nat, NEW to \in Ranks, NEW id
  PROVE  IsEvent(Event(type, ts, to, id))
  BY DEF IsEvent, Event

LEMMA EndOutcome ==
  ASSUME NEW s, NEW c, NEW g \in Nat, Base(s, c, g), NEW e, IsEvent(e),
         NEW op \in Ops, op.op = "END"
  PROVE  OpOK(e, op, mpi_end(c, e), s, g)
<1> DEFINE t == [c EXCEPT !.is_finished = TRUE, !.elapsed_time = e.ts]
           f == Event("CLI_NBR_FINISH", e.ts + NEAR_ZERO, Root[Job[e.to]], <<e.to>>)
<1>1. DOMAIN c = Fields
  BY DEF Base, IsLP
<1>2. Kept(c, t)
  BY <1>1, Zenon DEF Kept, SameQueues, Fields
<1>3. mpi_end(c, e) = Outcome(t, [saved_elapsed_time |-> c.elapsed_time], {f}, << >>)
  BY DEF mpi_end
<1>4. IsEvent(f)
  <2>1. Root[Job[e.to]] \in Ranks /\ e.ts + NEAR_ZERO \in Nat
    BY RootFacts DEF IsEvent, NEAR_ZERO
  <2>2. "CLI_NBR_FINISH" \notin MessageTypes
    BY DEF MessageTypes
  <2>. QED
    BY <2>1, <2>2, PlainEventOK
<1> HIDE DEF t, f
<1>5. Base(s, t, g)
  BY <1>2, KeptBase
<1>6. SentOK({f})
  BY <1>4 DEF SentOK
<1>. QED
  BY <1>3, <1>5, <1>6, QuietOp

LEMMA SendOutcome ==
  ASSUME NEW s, NEW c, NEW g \in Nat, Base(s, c, g), NEW e, IsEvent(e),
         NEW op \in Ops, op.op \in {"SEND", "ISEND"}, NEW l \in Nat, NEW k \in Nat
  PROVE  OpOK(e, op, codes_exec_mpi_send(c, e, op, l, k), s, g)
<1> DEFINE msg == [op |-> op.op, src |-> e.to, dest |-> op.peer, tag |-> op.tag, bytes |-> op.bytes,
                   req |-> op.req, matched_req |-> -1, start |-> e.ts, id |-> <<e.to, Pos(c)>>]
           posted == IF is_eager(msg)
                     THEN {MessageEvent("MPI_SEND_POSTED", e.ts + k, e.to, msg)} ELSE {}
           first == {MessageEvent("MPI_SEND_ARRIVED", e.ts + l, op.peer, msg)}
           next == NextIf(op.op = "ISEND", e)
           n == IF is_eager(op) THEN BytesSent(c, op.bytes) ELSE c
<1>1. codes_exec_mpi_send(c, e, op, l, k) = Outcome(n, << >>, first \cup posted \cup next, << >>)
  BY DEF codes_exec_mpi_send
<1>2. op.peer \in Ranks /\ op.tag \in Int /\ op.bytes \in Nat /\ op.req \in Int
  BY ReplayAssumption
<1>3. e.to \in Ranks /\ e.ts \in Nat
  BY DEF IsEvent
<1>4. Pos(c) \in Int
  <2>1. c.read \in Nat /\ c.lifo \in Seq(Ops)
    BY DEF Base, IsLP
  <2>. QED
    BY <2>1, LenProperties DEF Pos
<1>5. msg \in Message
  BY <1>2, <1>3, <1>4 DEF Message
<1> HIDE DEF msg
<1>6. SentOK(first)
  BY <1>2, <1>3, <1>5, MessageEventOK DEF SentOK
<1>7. SentOK(posted)
  BY <1>3, <1>5, MessageEventOK DEF SentOK
<1>8. SentOK(next)
  BY IssueOK
<1> HIDE DEF first, posted, next
<1>9. SentOK(first \cup posted \cup next)
  BY <1>6, <1>7, <1>8, UnionOK
<1>10. Base(s, n, g)
  <2>1. DOMAIN c = Fields
    BY DEF Base, IsLP
  <2>2. Kept(c, BytesSent(c, op.bytes))
    BY <2>1, CountsKept
  <2>3. Base(s, BytesSent(c, op.bytes), g)
    BY <2>2, KeptBase
  <2>. QED
    BY <2>3
<1> HIDE DEF n
<1>. QED
  BY <1>1, <1>9, <1>10, QuietOp

\* events of the other kinds
QuietEvents ==
  {"MPI_REND_ARRIVED", "MPI_REND_ACK_ARRIVED", "MPI_SEND_ARRIVED_CB", "MPI_SEND_POSTED",
   "CLI_NBR_FINISH", "CLI_OTHER_FINISH", "CLI_BCKGND_FIN", "CLI_BCKGND_GEN",
   "CLI_BCKGND_ARRIVE"}

LEMMA QuietEvent ==
  ASSUME NEW e, e.type \in QuietEvents, NEW s, NEW g, NEW c, Base(s, c, g),
         NEW ns, NEW rc, NEW sent, NEW did, Kept(c, ns), SentOK(sent)
  PROVE  OutcomeOK(e, Outcome(ns, rc, sent, did), s, g)
<1> DEFINE o == Outcome(ns, rc, sent, did)
<1>1. o.ns = ns /\ o.rc = rc /\ o.sent = sent
  BY OutcomeShape
<1>2. e.type \notin {"MPI_SEND_ARRIVED", "MPI_OP_GET_NEXT"}
  BY DEF QuietEvents
<1>3. Base(s, ns, g)
  BY KeptBase
<1> HIDE DEF o
<1>. QED
  BY <1>1, <1>2, <1>3, QuietOutcome DEF o

LEMMA RendArrivedOutcome ==
  ASSUME NEW s, NEW c, NEW g \in Nat, Base(s, c, g), NEW e, IsEvent(e),
         e.type = "MPI_REND_ARRIVED"
  PROVE  OutcomeOK(e, rend_arrived(c, e), s, g)
<1> DEFINE req == e.msg.matched_req
           o == IF req >= 0 THEN update_completed_queue(c, e, req)
                ELSE NoRequest(c, codes_issue_next_event(e))
           n == o.ns
           t == [n EXCEPT !.recv_time = @ + (e.ts - e.msg.start)]
           rc == [saved_recv_time |-> c.recv_time, completed |-> o.rc]
<1>1. DOMAIN c = Fields
  BY DEF Base, IsLP
<1>2. rend_arrived(c, e) = Outcome(t, rc, o.sent \cup {CallbackEvent(e)}, o.did)
  BY Zenon DEF rend_arrived
<1>3. Kept(c, n) /\ SentOK(o.sent)
  <2>1. CASE req >= 0
    <3>1. o = update_completed_queue(c, e, req)
      BY <2>1
    <3> HIDE DEF o, req
    <3>. QED
      BY <1>1, <3>1, CompletedKept
  <2>2. CASE ~(req >= 0)
    <3>1. o = NoRequest(c, codes_issue_next_event(e))
      BY <2>2
    <3> HIDE DEF o, req
    <3>2. o.ns = c /\ o.sent = codes_issue_next_event(e)
      BY <3>1, NoRequestKept
    <3>. QED
      BY <3>2, IssueOK DEF Kept, SameQueues
  <2>. QED
    BY <2>1, <2>2
<1> HIDE DEF o, req, n
<1>4. Kept(c, t)
  <2>1. DOMAIN n = Fields
    BY <1>1, <1>3 DEF Kept
  <2>2. Kept(n, t)
    BY <2>1, Zenon DEF Kept, SameQueues, Fields
  <2> HIDE DEF t
  <2>. QED
    BY <1>3, <2>2 DEF Kept, SameQueues
<1>5. SentOK(o.sent \cup {CallbackEvent(e)})
  <2>1. SentOK({CallbackEvent(e)})
    BY CallbackOK DEF MessageTypes
  <2>. QED
    BY <1>3, <2>1, UnionOK
<1> HIDE DEF t, rc
<1>. QED
  BY <1>2, <1>4, <1>5, QuietEvent DEF QuietEvents

LEMMA RendSendOutcome ==
  ASSUME NEW s, NEW c, NEW g \in Nat, Base(s, c, g), NEW e, IsEvent(e),
         e.type = "MPI_REND_ACK_ARRIVED", NEW l \in Nat, NEW k \in Nat
  PROVE  OutcomeOK(e, rend_send(c, e, l, k), s, g)
<1> DEFINE x == MessageEvent("MPI_REND_ARRIVED", e.ts + l, e.msg.dest, e.msg)
           y == MessageEvent("MPI_SEND_POSTED", e.ts + k, e.to, e.msg)
<1>1. rend_send(c, e, l, k) = Outcome(BytesSent(c, e.msg.bytes), << >>, {x, y}, << >>)
  BY DEF rend_send
<1>2. e.msg \in Message /\ e.ts \in Nat /\ e.to \in Ranks
  BY DEF IsEvent, MessageTypes
<1>3. IsEvent(x) /\ IsEvent(y)
  BY <1>2, MessageFacts, MessageEventOK
<1> HIDE DEF x, y
<1>4. SentOK({x, y})
  BY <1>3 DEF SentOK
<1>5. Kept(c, BytesSent(c, e.msg.bytes))
  BY CountsKept DEF Base, IsLP
<1>. QED
  BY <1>1, <1>4, <1>5, QuietEvent DEF QuietEvents

LEMMA MessageTimeOutcome ==
  ASSUME NEW s, NEW c, NEW g \in Nat, Base(s, c, g), NEW e, IsEvent(e),
         e.type = "MPI_SEND_ARRIVED_CB"
  PROVE  OutcomeOK(e, update_message_time(c, e), s, g)
<1> DEFINE t == [c EXCEPT !.send_time = @ + e.msg_send_time]
<1>1. DOMAIN c = Fields
  BY DEF Base, IsLP
<1>2. update_message_time(c, e) = Outcome(t, [saved_send_time |-> c.send_time], {}, << >>)
  BY DEF update_message_time
<1>3. Kept(c, t)
  BY <1>1, Zenon DEF Kept, SameQueues, Fields
<1>4. SentOK({})
  BY DEF SentOK
<1> HIDE DEF t
<1>. QED
  BY <1>2, <1>3, <1>4, QuietEvent DEF QuietEvents

LEMMA PostedOutcome ==
  ASSUME NEW s, NEW c, NEW g \in Nat, Base(s, c, g), NEW e, IsEvent(e),
         e.type = "MPI_SEND_POSTED"
  PROVE  OutcomeOK(e, send_posted(c, e), s, g)
<1> DEFINE o == send_posted(c, e)
<1>1. DOMAIN c = Fields
  BY DEF Base, IsLP
<1>2. Kept(c, o.ns) /\ SentOK(o.sent)
  <2>1. CASE e.msg.op = "ISEND"
    <3>1. o = update_completed_queue(c, e, e.msg.req)
      BY <2>1 DEF send_posted
    <3>. QED
      BY <1>1, <3>1, CompletedKept
  <2>2. CASE e.msg.op # "ISEND"
    <3>1. o = NoRequest(c, codes_issue_next_event(e))
      BY <2>2 DEF send_posted
    <3> HIDE DEF o
    <3>2. o.ns = c /\ o.sent = codes_issue_next_event(e)
      BY <3>1, NoRequestKept
    <3>. QED
      BY <3>2, IssueOK DEF Kept, SameQueues
  <2>. QED
    BY <2>1, <2>2
<1> HIDE DEF o
<1>3. Base(s, o.ns, g)
  BY <1>2, KeptBase
<1>. QED
  BY <1>2, <1>3, QuietOutcome DEF o

LEMMA NeighborOutcome ==
  ASSUME NEW s, NEW c, NEW g \in Nat, Base(s, c, g), NEW e, IsEvent(e),
         e.type = "CLI_NBR_FINISH"
  PROVE  OutcomeOK(e, handle_neighbor_finish(c, e), s, g)
<1> DEFINE n == c.num_own_job_ranks_completed + 1
           t == [c EXCEPT !.num_own_job_ranks_completed = n]
           f == Event("CLI_OTHER_FINISH", e.ts + NEAR_ZERO, Root[Job0], <<Job[e.to]>>)
           sent == IF n = Cardinality(RanksOf(Job[e.to])) THEN {f} ELSE {}
<1>1. DOMAIN c = Fields
  BY DEF Base, IsLP
<1>2. handle_neighbor_finish(c, e) = Outcome(t, << >>, sent, << >>)
  BY DEF handle_neighbor_finish
<1>3. Kept(c, t)
  BY <1>1, Zenon DEF Kept, SameQueues, Fields
<1>4. IsEvent(f)
  <2>1. Root[Job0] \in Ranks /\ e.ts + NEAR_ZERO \in Nat
    BY RootFacts DEF IsEvent, NEAR_ZERO
  <2>2. "CLI_OTHER_FINISH" \notin MessageTypes
    BY DEF MessageTypes
  <2>. QED
    BY <2>1, <2>2, PlainEventOK
<1> HIDE DEF f
<1>5. SentOK(sent)
  BY <1>4 DEF SentOK
<1> HIDE DEF t, sent
<1>. QED
  BY <1>2, <1>3, <1>5, QuietEvent DEF QuietEvents

LEMMA OtherOutcome ==
  ASSUME NEW s, NEW c, NEW g \in Nat, Base(s, c, g), NEW e, IsEvent(e),
         e.type = "CLI_OTHER_FINISH"
  PROVE  OutcomeOK(e, handle_other_finish(c, e), s, g)
<1> DEFINE known == c.known_completed_jobs \cup ToSet(e.id)
           t == [c EXCEPT !.known_completed_jobs = known]
           f(r) == Event("CLI_BCKGND_FIN", e.ts + NEAR_ZERO, r, <<r>>)
           all == {f(r) : r \in {r \in Ranks : Job[r] \in Synthetic}}
           sent == IF Cardinality(known) = Cardinality(WKLD_JOBS) /\ MaxGenData = 0 THEN all ELSE {}
<1>1. DOMAIN c = Fields
  BY DEF Base, IsLP
<1>2. handle_other_finish(c, e) = Outcome(t, << >>, sent, << >>)
  BY DEF handle_other_finish
<1>3. Kept(c, t)
  BY <1>1, Zenon DEF Kept, SameQueues, Fields
<1>4. \A r \in Ranks : IsEvent(f(r))
  <2>1. e.ts + NEAR_ZERO \in Nat
    BY DEF IsEvent, NEAR_ZERO
  <2>2. "CLI_BCKGND_FIN" \notin MessageTypes
    BY DEF MessageTypes
  <2>. QED
    BY <2>1, <2>2, PlainEventOK
<1> HIDE DEF f
<1>5. SentOK(sent)
  BY <1>4 DEF SentOK
<1> HIDE DEF t, sent
<1>. QED
  BY <1>2, <1>3, <1>5, QuietEvent DEF QuietEvents

LEMMA BackgroundOutcome ==
  ASSUME NEW s, NEW c, NEW g \in Nat, Base(s, c, g), NEW e, IsEvent(e),
         NEW dest \in Ranks, NEW l \in Nat
  PROVE  /\ e.type = "CLI_BCKGND_FIN" => OutcomeOK(e, finish_bckgnd_traffic(c, e), s, g)
         /\ e.type = "CLI_BCKGND_GEN" => OutcomeOK(e, gen_synthetic_tr(c, e, dest, l), s, g)
         /\ e.type = "CLI_BCKGND_ARRIVE" => OutcomeOK(e, arrive_syn_tr(c, e), s, g)
<1> DEFINE t == [c EXCEPT !.is_finished = TRUE, !.elapsed_time = e.ts]
<1>1. DOMAIN c = Fields
  BY DEF Base, IsLP
<1>2. Kept(c, c) /\ Kept(c, t)
  BY <1>1, Zenon DEF Kept, SameQueues, Fields
<1>3. SentOK({}) /\ e.ts \in Nat /\ e.to \in Ranks
  BY DEF SentOK, IsEvent
<1>4. ASSUME e.type = "CLI_BCKGND_FIN" PROVE OutcomeOK(e, finish_bckgnd_traffic(c, e), s, g)
  <2>1. finish_bckgnd_traffic(c, e) = Outcome(t, [saved_elapsed_time |-> c.elapsed_time], {}, << >>)
    BY Zenon DEF finish_bckgnd_traffic
  <2> HIDE DEF t
  <2>. QED
    BY <1>2, <1>3, <1>4, <2>1, QuietEvent DEF QuietEvents
<1>5. ASSUME e.type = "CLI_BCKGND_GEN" PROVE OutcomeOK(e, gen_synthetic_tr(c, e, dest, l), s, g)
  <2> DEFINE bytes == IF Silent(e) THEN 0 ELSE PayloadSz
             d == BytesSent(c, bytes)
             u == [d EXCEPT !.rng = @ + 1, !.gen_data = @ + bytes, !.count["num_sends"] = @ + 1]
             full == MaxGenData # 0 /\ u.gen_data >= MaxGenData
             w == finish_bckgnd_traffic(u, e).ns
             n == IF full THEN w ELSE u
             f == Event("CLI_BCKGND_GEN", e.ts + Interval, e.to, <<e.to>>)
             a == [type |-> "CLI_BCKGND_ARRIVE", ts |-> e.ts + l, to |-> dest,
                   id |-> <<e.to, c.rng>>, start |-> e.ts]
             sent == {f} \cup (IF Silent(e) THEN {} ELSE {a})
             rc == [c0 |-> FALSE, c5 |-> full, saved_gen_data |-> c.gen_data,
                    saved_syn_length |-> IF full THEN 0 ELSE 1,
                    saved_elapsed_time |-> c.elapsed_time]
  <2>1. \/ gen_synthetic_tr(c, e, dest, l) = Outcome(c, [c0 |-> TRUE], {}, << >>)
        \/ gen_synthetic_tr(c, e, dest, l) = Outcome(n, rc, sent, << >>)
    BY Zenon DEF gen_synthetic_tr
  <2>2. IsEvent(f)
    <3>0. Interval \in Nat
      BY ReplayAssumption
    <3>1. e.ts + Interval \in Nat
      BY <1>3, <3>0
    <3>2. "CLI_BCKGND_GEN" \notin MessageTypes
      BY DEF MessageTypes
    <3>. QED
      BY <1>3, <3>1, <3>2, PlainEventOK
  <2>3. IsEvent(a)
    BY <1>3 DEF IsEvent, MessageTypes
  <2>4. SentOK(sent)
    <3> HIDE DEF f, a
    <3>. QED
      BY <2>2, <2>3 DEF SentOK
  <2>5. Kept(c, d)
    BY <1>1, CountsKept
  <2> HIDE DEF sent, f, a, rc, bytes, d, full
  <2>6. DOMAIN d = Fields
    BY <1>1, <2>5 DEF Kept
  <2>7. Kept(d, u)
    BY <2>6, Zenon DEF Kept, SameQueues, Fields
  <2> HIDE DEF u
  <2>8. DOMAIN u = Fields
    BY <2>6, <2>7 DEF Kept
  <2>9. Kept(u, w)
    <3> DEFINE x == [u EXCEPT !.is_finished = TRUE, !.elapsed_time = e.ts]
    <3>1. w = x
      BY OutcomeShape DEF finish_bckgnd_traffic
    <3>2. Kept(u, x)
      BY <2>8, Zenon DEF Kept, SameQueues, Fields
    <3> HIDE DEF x, w
    <3>. QED
      BY <3>1, <3>2
  <2> HIDE DEF w
  <2>10. Kept(c, n)
    BY <2>5, <2>7, <2>9, KeptTwice
  <2> HIDE DEF n
  <2>. QED
    BY <1>2, <1>3, <1>5, <2>1, <2>4, <2>10, QuietEvent DEF QuietEvents
<1>6. ASSUME e.type = "CLI_BCKGND_ARRIVE" PROVE OutcomeOK(e, arrive_syn_tr(c, e), s, g)
  <2> DEFINE took == e.ts - e.start
             n == [c EXCEPT !.max_time = IF took > @ THEN took ELSE @, !.send_time = @ + took,
                            !.count["num_recvs"] = @ + 1, !.syn_data = @ + PayloadSz,
                            !.num_bytes_recvd = @ + PayloadSz]
             rc == [c0 |-> took > c.max_time, saved_prev_max_time |-> c.max_time,
                    saved_send_time |-> c.send_time]
  <2>1. arrive_syn_tr(c, e) = Outcome(n, rc, {}, << >>)
    BY Zenon DEF arrive_syn_tr
  <2> HIDE DEF took, rc
  <2>2. Kept(c, n)
    BY <1>1, Zenon DEF Kept, SameQueues, Fields
  <2> HIDE DEF n
  <2>. QED
    BY <1>3, <1>6, <2>1, <2>2, QuietEvent DEF QuietEvents
<1>. QED
  BY <1>4, <1>5, <1>6

-----------------------------------------------------------------------------
(* What each reverse handler does: it takes rank t back to b, as far as    *)
(* the queues and the stack are concerned.                                 *)

Back(b, u, g) == IsLP(u) /\ SameQueues(b, u) /\ SameStack(b, u, g)

LEMMA KeptBack ==
  ASSUME NEW b, NEW t, NEW u, NEW g, Back(b, t, g), Kept(t, u)
  PROVE  Back(b, u, g)
<1>1. IsLP(u)
  BY DEF Back, Kept, IsLP, SameQueues
<1>2. SameQueues(b, u) /\ SameStack(b, u, g)
  BY DEF Back, Kept, SameQueues, SameStack
<1>. QED
  BY <1>1, <1>2 DEF Back

LEMMA CompletedBack ==
  ASSUME NEW s, DOMAIN s = Fields, NEW rc
  PROVE  Kept(s, update_completed_queue_rc(s, rc))
<1> DEFINE p == PutBack(s.completed_reqs, s.matched_reqs, rc.num_matched)
           a == [s EXCEPT !.completed_reqs = p.list, !.matched_reqs = p.stack]
           u == [a EXCEPT !.wait_op = rc_stack_top(s.processed_wait_op),
                          !.processed_wait_op = rc_stack_pop(@), !.wait_time = rc.saved_wait_time]
           v == [s EXCEPT !.completed_reqs = Tail(@)]
           t == IF rc.c31 THEN u ELSE v
           w == [t EXCEPT !.wait_op.num_completed = @ - rc.wait_completed]
<1>1. \/ update_completed_queue_rc(s, rc) = w
      \/ update_completed_queue_rc(s, rc) = t
  BY Zenon DEF update_completed_queue_rc, add_completed_reqs
<1> HIDE DEF p
<1>2. Kept(s, a) /\ Kept(s, v)
  BY Zenon DEF Kept, SameQueues, Fields
<1> HIDE DEF a, v
<1>3. DOMAIN a = Fields
  BY <1>2 DEF Kept
<1>4. Kept(a, u)
  BY <1>3, Zenon DEF Kept, SameQueues, Fields
<1> HIDE DEF u
<1>5. Kept(s, u)
  BY <1>2, <1>4 DEF Kept, SameQueues
<1>6. Kept(s, t)
  BY <1>2, <1>5
<1> HIDE DEF t
<1>7. DOMAIN t = Fields
  BY <1>6 DEF Kept
<1>8. Kept(t, w)
  BY <1>7, Zenon DEF Kept, SameQueues, Fields
<1> HIDE DEF w
<1>9. Kept(s, w)
  BY <1>6, <1>8 DEF Kept, SameQueues
<1>. QED
  BY <1>1, <1>6, <1>9

\* the element on the stack is the one the event removed
LEMMA PoppedFacts ==
  ASSUME NEW b, IsLP(b), NEW t, IsLP(t), NEW g \in Nat, NEW now \in Nat, g <= now, NEW x,
         Pushed(b, t, g, now, x)
  PROVE  /\ rc_stack_top(t.processed_ops) = x
         /\ rc_stack_pop(t.processed_ops) \in Seq(Item)
         /\ rc_stack_gc(rc_stack_pop(t.processed_ops), g) = rc_stack_gc(b.processed_ops, g)
<1> DEFINE q == t.processed_ops
           p == b.processed_ops
           y == [time |-> now, data |-> x]
<1>1. q \in Seq(Item) /\ p \in Seq(Item)
  BY DEF IsLP
<1>2. x \in Message \cup Receive \cup Int /\ rc_stack_gc(q, g) = Append(rc_stack_gc(p, g), y)
  BY DEF Pushed
<1>3. y \in Item /\ y.time >= g /\ y.data = x
  BY <1>2 DEF Item
<1> HIDE DEF q, p, y
<1>4. rc_stack_gc(p, g) \in Seq(Item)
  BY <1>1, GcType, ItemsTimed
<1>5. /\ q # << >> /\ Last(q) = y /\ Front(q) \in Seq(Item)
      /\ rc_stack_gc(Front(q), g) = rc_stack_gc(p, g)
  <2> DEFINE z == rc_stack_gc(p, g)
  <2>1. z \in Seq(Item) /\ rc_stack_gc(q, g) = Append(z, y) /\ q \in Seq(Item) /\ y \in Item
    BY <1>1, <1>2, <1>3, <1>4
  <2> HIDE DEF z
  <2>2. OnTop(Item, q, g, z, y)
    BY ONLY <1>3, <2>1, g \in Nat, ItemsTimed, GcPop
  <2>. QED
    BY <2>2 DEF z, OnTop
<1>6. rc_stack_top(q) = x /\ rc_stack_pop(q) = Front(q)
  BY <1>3, <1>5 DEF rc_stack_top, rc_stack_pop
<1>. QED
  BY <1>5, <1>6 DEF q, p

LEMMA PutBackWhereItWas ==
  ASSUME NEW S, NEW q \in Seq(S), NEW i \in Nat, i + 1 \in 1 .. Len(q)
  PROVE  AddBehind(RemoveAt(q, i + 1), q[i + 1], i) = q
<1> DEFINE p == RemoveAt(q, i + 1)
<1>1. Len(p) = Len(q) - 1 /\ InsertAt(p, i + 1, q[i + 1]) = q
  BY TakeOutPutBack
<1>2. Len(q) \in Nat
  BY LenProperties
<1> HIDE DEF p
<1>3. i <= Len(p)
  BY <1>1, <1>2
<1>. QED
  BY <1>1, <1>3 DEF AddBehind, p

\* an effect is on the queues and on the stack only
LEMMA EffectOnQueues ==
  ASSUME NEW t, NEW u, NEW g, SameQueues(t, u), SameStack(t, u, g), NEW e, NEW b
  PROVE  /\ \A op, rc : OpEffect(e, op, rc, b, t, g) => OpEffect(e, op, rc, b, u, g)
         /\ \A rc : Effect(e, rc, b, t, g) => Effect(e, rc, b, u, g)
<1>1. ASSUME NEW now, NEW x, Pushed(b, t, g, now, x) PROVE Pushed(b, u, g, now, x)
  BY <1>1 DEF Pushed, SameStack
<1>2. SameStack(b, t, g) => SameStack(b, u, g)
  BY DEF SameStack
<1>3. SameQueues(b, t) => SameQueues(b, u)
  BY DEF SameQueues
<1>4. u.arrival_queue = t.arrival_queue /\ u.pending_recvs_queue = t.pending_recvs_queue
  BY DEF SameQueues
<1>5. ASSUME NEW rc, ReceiveEffect(e, rc, b, t, g) PROVE ReceiveEffect(e, rc, b, u, g)
  BY <1>1, <1>2, <1>4, <1>5 DEF ReceiveEffect
<1>6. ASSUME NEW rc, ArrivalEffect(e, rc, b, t, g) PROVE ArrivalEffect(e, rc, b, u, g)
  BY <1>1, <1>2, <1>4, <1>6 DEF ArrivalEffect
<1>7. ASSUME NEW rc, WaitEffect(e, rc, b, t, g) PROVE WaitEffect(e, rc, b, u, g)
  <2>1. SameQueues(b, u)
    BY <1>3, <1>7 DEF WaitEffect
  <2>2. CASE rc.c1 = FALSE /\ SameStack(b, t, g)
    BY <1>2, <2>1, <2>2 DEF WaitEffect
  <2>3. ASSUME NEW x \in Int, rc.c1 = TRUE, Pushed(b, t, g, e.ts, x)
        PROVE  WaitEffect(e, rc, b, u, g)
    BY <1>1, <2>1, <2>3 DEF WaitEffect
  <2>. QED
    BY <1>7, <2>2, <2>3 DEF WaitEffect
<1>8. ASSUME NEW op, NEW rc, OpEffect(e, op, rc, b, t, g) PROVE OpEffect(e, op, rc, b, u, g)
  BY <1>2, <1>3, <1>5, <1>7, <1>8 DEF OpEffect
<1>9. ASSUME NEW rc, Effect(e, rc, b, t, g) PROVE Effect(e, rc, b, u, g)
  BY <1>2, <1>3, <1>6, <1>8, <1>9 DEF Effect
<1>. QED
  BY <1>8, <1>9

LEMMA ArrivalBack ==
  ASSUME NEW b, IsLP(b), NEW a, IsLP(a), NEW g \in Nat, NEW en, IsEvent(en.ev), g <= en.ev.ts,
         en.ev.type = "MPI_SEND_ARRIVED", ArrivalEffect(en.ev, en.rc, b, a, g)
  PROVE  Back(b, update_arrival_queue_rc(a, en), g)
<1> DEFINE rc == en.rc
           msg == en.ev.msg
           P == b.pending_recvs_queue
           i == rc.found_match
           k == rc.found_match + 1
           v == update_arrival_queue_rc(a, en)
           t == [a EXCEPT !.num_bytes_recvd = @ - msg.bytes]
           q == rc_stack_top(a.processed_ops)
<1>a. Kept(a, t)
  <2>1. DOMAIN a = Fields
    BY DEF IsLP
  <2>. QED
    BY <2>1, Zenon DEF Kept, SameQueues, Fields
<1>b. rc_stack_top(t.processed_ops) = q
  BY <1>a DEF Kept
<1>c. v = IF rc.found_match = -1 THEN [t EXCEPT !.arrival_queue = Front(@)]
          ELSE LET w == [t EXCEPT !.processed_ops = rc_stack_pop(@), !.recv_time = rc.saved_recv_time,
                           !.pending_recvs_queue = IF q = None THEN @ ELSE
                             AddBehind(@, [q EXCEPT !.bytes = rc.saved_num_bytes], rc.found_match)]
               IN  IF is_eager(msg) /\ rc.recv.op = "IRECV"
                   THEN update_completed_queue_rc(w, rc.completed) ELSE w
  BY DEF update_arrival_queue_rc
<1> HIDE DEF t, q
<1>d. IsLP(t) /\ SameQueues(a, t) /\ SameStack(a, t, g)
  BY <1>a DEF Kept, IsLP, SameQueues, SameStack
<1>e. ArrivalEffect(en.ev, en.rc, b, t, g)
  <2>1. Effect(en.ev, en.rc, b, a, g)
    BY DEF Effect
  <2>2. Effect(en.ev, en.rc, b, t, g)
    BY <1>d, <2>1, EffectOnQueues
  <2>. QED
    BY <2>2 DEF Effect
<1>1. /\ DOMAIN t = Fields /\ t.recv_req \in Int /\ t.read \in Nat /\ t.lifo \in Seq(Ops)
      /\ b.arrival_queue \in Seq(Message) /\ P \in Seq(Receive)
      /\ t.processed_ops \in Seq(Item)
  BY <1>d DEF IsLP
<1>2. msg \in Message /\ en.ev.ts \in Nat
  BY DEF IsEvent, MessageTypes
<1>3. CASE i = -1 /\ t.arrival_queue = Append(b.arrival_queue, msg)
           /\ t.pending_recvs_queue = P /\ SameStack(b, t, g)
  <2> DEFINE u == [t EXCEPT !.arrival_queue = Front(@)]
  <2>1. v = u
    BY <1>3, <1>c, Zenon
  <2>2. /\ u.arrival_queue = Front(t.arrival_queue)
        /\ DOMAIN u = Fields /\ u.recv_req = t.recv_req /\ u.read = t.read /\ u.lifo = t.lifo
        /\ u.pending_recvs_queue = t.pending_recvs_queue /\ u.processed_ops = t.processed_ops
    BY <1>1, Zenon DEF Fields
  <2> HIDE DEF u, v, msg
  <2>3. u.arrival_queue = b.arrival_queue
    BY <1>1, <1>2, <1>3, <2>2, AppendFacts
  <2>4. IsLP(u)
    BY <1>1, <1>3, <2>2, <2>3 DEF IsLP
  <2>5. SameQueues(b, u) /\ SameStack(b, u, g)
    BY <1>3, <2>2, <2>3 DEF SameQueues, SameStack
  <2>. QED
    BY <2>1, <2>4, <2>5 DEF Back, v
<1>4. CASE /\ k \in 1 .. Len(P) /\ t.arrival_queue = b.arrival_queue
           /\ t.pending_recvs_queue = RemoveAt(P, k)
           /\ i \in Nat /\ rc.saved_num_bytes = P[k].bytes
           /\ Pushed(b, t, g, en.ev.ts, [P[k] EXCEPT !.bytes = msg.bytes])
  <2> DEFINE y == [q EXCEPT !.bytes = rc.saved_num_bytes]
             u == [t EXCEPT !.processed_ops = rc_stack_pop(@), !.recv_time = rc.saved_recv_time,
                            !.pending_recvs_queue = IF q = None THEN @ ELSE AddBehind(@, y, rc.found_match)]
  <2>1. P[k] \in Receive /\ msg.bytes \in Nat
    BY <1>1, <1>2, <1>4, ElementOfSeq, MessageFacts
  <2>2. /\ q = [P[k] EXCEPT !.bytes = msg.bytes]
        /\ rc_stack_pop(t.processed_ops) \in Seq(Item)
        /\ rc_stack_gc(rc_stack_pop(t.processed_ops), g) = rc_stack_gc(b.processed_ops, g)
    BY <1>2, <1>4, <1>b, <1>d, PoppedFacts
  <2>3. v = (IF is_eager(msg) /\ rc.recv.op = "IRECV"
             THEN update_completed_queue_rc(u, rc.completed) ELSE u)
    <3>1. rc.found_match # -1
      BY <1>4
    <3>. QED
      BY <3>1, <1>c, Zenon
  <2> DEFINE x == P[k]
  <2> HIDE DEF x, v, msg
  <2>4. q \in Receive /\ q # None /\ y = x
    <3>1. x \in Receive /\ q = [x EXCEPT !.bytes = msg.bytes] /\ rc.saved_num_bytes = x.bytes
      BY <1>4, <2>1, <2>2 DEF x
    <3>2. q \in Receive
      BY <2>1, <3>1 DEF Receive
    <3>3. y = x
      BY <2>1, <3>1 DEF Receive
    <3>. QED
      BY <3>2, <3>3, NoneAssumption
  <2> HIDE DEF y
  <2>5. /\ u.processed_ops = rc_stack_pop(t.processed_ops)
        /\ u.pending_recvs_queue = (IF q = None THEN t.pending_recvs_queue
                                    ELSE AddBehind(t.pending_recvs_queue, y, rc.found_match))
        /\ DOMAIN u = Fields /\ u.recv_req = t.recv_req /\ u.read = t.read /\ u.lifo = t.lifo
        /\ u.arrival_queue = t.arrival_queue
    BY <1>1, Zenon DEF Fields
  <2> HIDE DEF u
  <2>6. AddBehind(RemoveAt(P, k), P[k], i) = P
    BY <1>1, <1>4, PutBackWhereItWas
  <2>7. u.pending_recvs_queue = P
    BY <1>4, <2>4, <2>5, <2>6 DEF x
  <2>8. IsLP(u)
    BY <1>1, <1>4, <2>2, <2>5, <2>7 DEF IsLP
  <2>9. SameQueues(b, u) /\ SameStack(b, u, g)
    BY <1>4, <2>2, <2>5, <2>7 DEF SameQueues, SameStack
  <2>10. Back(b, u, g)
    BY <2>8, <2>9 DEF Back
  <2>11. Kept(u, update_completed_queue_rc(u, rc.completed))
    BY <2>5, CompletedBack
  <2>. QED
    BY <2>3, <2>10, <2>11, KeptBack DEF v
<1>. QED
  BY <1>3, <1>4, <1>e DEF ArrivalEffect

LEMMA ReceiveBack ==
  ASSUME NEW b, IsLP(b), NEW t, IsLP(t), NEW g \in Nat, NEW e, IsEvent(e), g <= e.ts,
         NEW rc, NEW op, ReceiveEffect(e, rc, b, t, g)
  PROVE  Back(b, codes_exec_mpi_recv_rc(t, rc, op), g)
<1> DEFINE A == b.arrival_queue
           i == rc.found_match
           k == rc.found_match + 1
           v == codes_exec_mpi_recv_rc(t, rc, op)
<1>1. /\ DOMAIN t = Fields /\ t.recv_req \in Int /\ t.read \in Nat /\ t.lifo \in Seq(Ops)
      /\ A \in Seq(Message) /\ b.pending_recvs_queue \in Seq(Receive)
      /\ t.processed_ops \in Seq(Item)
  BY DEF IsLP
<1>2. e.ts \in Nat
  BY DEF IsEvent
<1>3. ASSUME NEW x \in Receive, i = -1, t.pending_recvs_queue = Append(b.pending_recvs_queue, x),
             t.arrival_queue = A, SameStack(b, t, g)
      PROVE  Back(b, v, g)
  <2> DEFINE u == [t EXCEPT !.pending_recvs_queue = Front(@)]
  <2>1. v = u
    BY <1>3, Zenon DEF codes_exec_mpi_recv_rc
  <2>2. /\ u.pending_recvs_queue = Front(t.pending_recvs_queue)
        /\ DOMAIN u = Fields /\ u.recv_req = t.recv_req /\ u.read = t.read /\ u.lifo = t.lifo
        /\ u.arrival_queue = t.arrival_queue /\ u.processed_ops = t.processed_ops
    BY <1>1, Zenon DEF Fields
  <2> HIDE DEF u, v
  <2>3. u.pending_recvs_queue = b.pending_recvs_queue
    BY <1>1, <1>3, <2>2, AppendFacts
  <2>4. IsLP(u)
    BY <1>1, <1>3, <2>2, <2>3 DEF IsLP
  <2>5. SameQueues(b, u) /\ SameStack(b, u, g)
    BY <1>3, <2>2, <2>3 DEF SameQueues, SameStack
  <2>. QED
    BY <2>1, <2>4, <2>5 DEF Back, v
<1>4. CASE /\ k \in 1 .. Len(A) /\ t.pending_recvs_queue = b.pending_recvs_queue
           /\ t.arrival_queue = RemoveAt(A, k)
           /\ i \in Nat /\ Pushed(b, t, g, e.ts, A[k])
  <2> DEFINE qi == rc_stack_top(t.processed_ops)
             u == [t EXCEPT !.processed_ops = rc_stack_pop(@),
                            !.arrival_queue = IF qi = None THEN @ ELSE AddBehind(@, qi, rc.found_match)]
  <2>1. A[k] \in Message
    BY <1>1, <1>4, ElementOfSeq
  <2>2. /\ qi = A[k]
        /\ rc_stack_pop(t.processed_ops) \in Seq(Item)
        /\ rc_stack_gc(rc_stack_pop(t.processed_ops), g) = rc_stack_gc(b.processed_ops, g)
    BY <1>2, <1>4, PoppedFacts
  <2>3. v = (IF is_eager(rc.msg) /\ op.op = "IRECV"
             THEN update_completed_queue_rc(u, rc.completed) ELSE u)
    <3>1. rc.found_match # -1
      BY <1>4
    <3>. QED
      BY <3>1, Zenon DEF codes_exec_mpi_recv_rc
  <2> HIDE DEF qi, v
  <2>4. qi # None
    BY <2>1, <2>2, NoneAssumption
  <2>5. /\ u.processed_ops = rc_stack_pop(t.processed_ops)
        /\ u.arrival_queue = (IF qi = None THEN t.arrival_queue
                              ELSE AddBehind(t.arrival_queue, qi, rc.found_match))
        /\ DOMAIN u = Fields /\ u.recv_req = t.recv_req /\ u.read = t.read /\ u.lifo = t.lifo
        /\ u.pending_recvs_queue = t.pending_recvs_queue
    BY <1>1, Zenon DEF Fields
  <2> HIDE DEF u
  <2>6. AddBehind(RemoveAt(A, k), A[k], i) = A
    BY <1>1, <1>4, PutBackWhereItWas
  <2>7. u.arrival_queue = A
    BY <1>4, <2>2, <2>4, <2>5, <2>6
  <2>8. IsLP(u)
    BY <1>1, <1>4, <2>2, <2>5, <2>7 DEF IsLP
  <2>9. SameQueues(b, u) /\ SameStack(b, u, g)
    BY <1>4, <2>2, <2>5, <2>7 DEF SameQueues, SameStack
  <2>10. Back(b, u, g)
    BY <2>8, <2>9 DEF Back
  <2>11. Kept(u, update_completed_queue_rc(u, rc.completed))
    BY <2>5, CompletedBack
  <2>. QED
    BY <2>3, <2>10, <2>11, KeptBack DEF v
<1>. QED
  BY <1>3, <1>4 DEF ReceiveEffect

LEMMA WaitBack ==
  ASSUME NEW b, IsLP(b), NEW t, IsLP(t), NEW g \in Nat, NEW e, IsEvent(e), g <= e.ts,
         NEW rc, WaitEffect(e, rc, b, t, g)
  PROVE  Back(b, codes_exec_mpi_wait_rc(t, rc), g)
<1>1. DOMAIN t = Fields /\ SameQueues(b, t) /\ e.ts \in Nat
  BY DEF IsLP, WaitEffect, IsEvent
<1>2. CASE rc.c1 = FALSE /\ SameStack(b, t, g)
  <2> DEFINE u == [t EXCEPT !.wait_op = None]
  <2>1. codes_exec_mpi_wait_rc(t, rc) = u
    BY <1>2 DEF codes_exec_mpi_wait_rc
  <2>2. Kept(t, u)
    BY <1>1, Zenon DEF Kept, SameQueues, Fields
  <2>3. Back(b, t, g)
    BY <1>1, <1>2 DEF Back
  <2> HIDE DEF u
  <2>. QED
    BY <2>1, <2>2, <2>3, KeptBack
<1>3. ASSUME NEW x \in Int, rc.c1 = TRUE, Pushed(b, t, g, e.ts, x)
      PROVE  Back(b, codes_exec_mpi_wait_rc(t, rc), g)
  <2> DEFINE qi == rc_stack_top(t.processed_ops)
             u == [t EXCEPT !.processed_ops = rc_stack_pop(@),
                            !.completed_reqs = AddBehind(@, qi, rc.found_match)]
  <2>1. codes_exec_mpi_wait_rc(t, rc) = u
    BY <1>3 DEF codes_exec_mpi_wait_rc
  <2> HIDE DEF qi
  <2>2. /\ DOMAIN u = DOMAIN t /\ u.recv_req = t.recv_req /\ u.read = t.read /\ u.lifo = t.lifo
        /\ SameQueues(t, u) /\ u.processed_ops = rc_stack_pop(t.processed_ops)
    BY <1>1, Zenon DEF SameQueues, Fields
  <2> HIDE DEF u
  <2>3. /\ rc_stack_pop(t.processed_ops) \in Seq(Item)
        /\ rc_stack_gc(rc_stack_pop(t.processed_ops), g) = rc_stack_gc(b.processed_ops, g)
    BY <1>1, <1>3, PoppedFacts
  <2>4. IsLP(u)
    BY <2>2, <2>3 DEF IsLP, SameQueues
  <2>5. SameQueues(b, u) /\ SameStack(b, u, g)
    BY <1>1, <2>2, <2>3 DEF SameQueues, SameStack
  <2>. QED
    BY <2>1, <2>4, <2>5 DEF Back
<1>. QED
  BY <1>2, <1>3 DEF WaitEffect

LEMMA OpBack ==
  ASSUME NEW b, IsLP(b), NEW t, IsLP(t), NEW g \in Nat, NEW en, IsEvent(en.ev), g <= en.ev.ts,
         en.rc.mpi_op \in Ops, OpEffect(en.ev, en.rc.mpi_op, en.rc.saved, b, t, g)
  PROVE  Back(b, get_next_mpi_operation_rc(t, en), g)
<1> DEFINE op == en.rc.mpi_op
           rc == en.rc.saved
           a == codes_workload_get_next_rc(t, op)
           u == Counted(a, op.op, -1)
           v == get_next_mpi_operation_rc(t, en)
           w == [u EXCEPT !.compute_time = rc.saved_delay]
<1>1. DOMAIN t = Fields /\ t.lifo \in Seq(Ops)
  BY DEF IsLP
<1>0. /\ a.lifo = <<op>> \o t.lifo
      /\ DOMAIN a = Fields /\ a.recv_req = t.recv_req /\ a.read = t.read
      /\ SameQueues(t, a) /\ a.processed_ops = t.processed_ops
  BY <1>1, Zenon DEF codes_workload_get_next_rc, Fields, SameQueues
<1>3. v = CASE op.op = "ALLREDUCE" -> allreduce_rc(a, rc)
            [] op.op \in {"SEND", "ISEND"} -> codes_exec_mpi_send_rc(u, op)
            [] op.op \in {"RECV", "IRECV"} -> codes_exec_mpi_recv_rc(u, rc, op)
            [] op.op = "WAIT" -> codes_exec_mpi_wait_rc(u, rc)
            [] op.op = "WAITALL" -> codes_exec_mpi_wait_all_rc(u, rc)
            [] op.op = "DELAY" -> w
            [] op.op = "END" -> finish_bckgnd_traffic_rc(u, rc)
            [] OTHER -> u
  BY DEF get_next_mpi_operation_rc
<1> HIDE DEF a, v
<1>a. Kept(a, u)
  BY <1>0, CountsKept
<1> HIDE DEF u
<1>2. /\ u.lifo = <<op>> \o t.lifo
      /\ DOMAIN u = Fields /\ u.recv_req = t.recv_req /\ u.read = t.read
      /\ SameQueues(t, u) /\ u.processed_ops = t.processed_ops
  BY <1>0, <1>a DEF Kept, SameQueues
<1>4. <<op>> \o t.lifo \in Seq(Ops)
  <2>1. <<op>> \in Seq(Ops)
    OBVIOUS
  <2>. QED
    BY <1>1, <2>1, ConcatProperties
<1>5. IsLP(u) /\ SameStack(t, u, g)
  BY <1>1, <1>2, <1>4 DEF IsLP, SameQueues, SameStack
<1>6. OpEffect(en.ev, op, rc, b, u, g)
  BY <1>2, <1>5, EffectOnQueues
<1>7. CASE op.op \in {"RECV", "IRECV"}
  <2>1. v = codes_exec_mpi_recv_rc(u, rc, op)
    BY <1>3, <1>7
  <2>2. ReceiveEffect(en.ev, rc, b, u, g)
    BY <1>6, <1>7 DEF OpEffect
  <2>. QED
    BY <1>5, <2>1, <2>2, ReceiveBack DEF v
<1>8. CASE op.op = "WAIT"
  <2>1. v = codes_exec_mpi_wait_rc(u, rc)
    BY <1>3, <1>8
  <2>2. WaitEffect(en.ev, rc, b, u, g)
    BY <1>6, <1>8 DEF OpEffect
  <2>. QED
    BY <1>5, <2>1, <2>2, WaitBack DEF v
<1>9. CASE op.op \notin {"RECV", "IRECV", "WAIT"}
  <2>1. Back(b, u, g)
    BY <1>5, <1>6, <1>9 DEF OpEffect, Back
  <2>0. Kept(a, allreduce_rc(a, rc))
    <3> DEFINE x == [a EXCEPT !.num_all_reduce = @ - 1, !.col_time = rc.saved_send_time,
                              !.all_reduce_time = rc.saved_delay]
               y == [a EXCEPT !.col_time = 0]
    <3>1. allreduce_rc(a, rc) = x \/ allreduce_rc(a, rc) = y
      BY Zenon DEF allreduce_rc
    <3>2. Kept(a, x) /\ Kept(a, y)
      BY <1>0, Zenon DEF Kept, SameQueues, Fields
    <3> HIDE DEF x, y
    <3>. QED
      BY <3>1, <3>2
  <2>a. Kept(u, allreduce_rc(a, rc))
    <3>1. Kept(u, a)
      BY <1>a DEF Kept, SameQueues
    <3>. QED
      BY <2>0, <3>1, KeptTwice
  <2>b. Kept(u, codes_exec_mpi_send_rc(u, op))
    <3>1. Kept(u, BytesSent(u, -op.bytes)) /\ Kept(u, u)
      BY <1>2, CountsKept DEF Kept, SameQueues
    <3>. QED
      BY <3>1 DEF codes_exec_mpi_send_rc
  <2>2. Kept(u, codes_exec_mpi_wait_all_rc(u, rc))
    <3> DEFINE p == PutBack(u.completed_reqs, u.matched_reqs, rc.num_matched)
               x == [u EXCEPT !.wait_op = None]
               y == [u EXCEPT !.completed_reqs = p.list, !.matched_reqs = p.stack]
    <3>1. codes_exec_mpi_wait_all_rc(u, rc) = x \/ codes_exec_mpi_wait_all_rc(u, rc) = y
      BY Zenon DEF codes_exec_mpi_wait_all_rc, add_completed_reqs
    <3> HIDE DEF p
    <3>2. Kept(u, x) /\ Kept(u, y)
      BY <1>2, Zenon DEF Kept, SameQueues, Fields
    <3> HIDE DEF x, y
    <3>. QED
      BY <3>1, <3>2
  <2>3. Kept(u, w)
    BY <1>2, Zenon DEF Kept, SameQueues, Fields
  <2>4. Kept(u, finish_bckgnd_traffic_rc(u, rc))
    BY <1>2, Zenon DEF Kept, SameQueues, Fields, finish_bckgnd_traffic_rc
  <2> HIDE DEF w
  <2>5. v \in {codes_exec_mpi_wait_all_rc(u, rc), w, finish_bckgnd_traffic_rc(u, rc), u,
               allreduce_rc(a, rc), codes_exec_mpi_send_rc(u, op)}
    BY <1>3, <1>9
  <2>6. Kept(u, u)
    BY DEF Kept, SameQueues
  <2>7. Kept(u, v)
    BY <2>a, <2>b, <2>2, <2>3, <2>4, <2>5, <2>6
  <2>. QED
    BY <2>1, <2>7, KeptBack DEF v
<1>. QED
  BY <1>7, <1>8, <1>9 DEF v

\* the reverse handler of an event gives the rank back its queues and its stack
LEMMA ReverseBack ==
  ASSUME NEW b, IsLP(b), NEW t, IsLP(t), NEW g \in Nat, NEW en, IsEvent(en.ev), g <= en.ev.ts,
         en.ev.type \in QuietEvents \cup {"MPI_SEND_ARRIVED", "MPI_OP_GET_NEXT"},
         Effect(en.ev, en.rc, b, t, g)
  PROVE  Back(b, reverse(t, en), g)
<1> DEFINE v == reverse(t, en)
<1>1. DOMAIN t = Fields
  BY DEF IsLP
<1>2. CASE en.ev.type = "MPI_SEND_ARRIVED"
  <2>1. v = update_arrival_queue_rc(t, en)
    BY <1>2 DEF reverse
  <2>2. ArrivalEffect(en.ev, en.rc, b, t, g)
    BY <1>2 DEF Effect
  <2>. QED
    BY <1>2, <2>1, <2>2, ArrivalBack
<1>3. CASE en.ev.type = "MPI_OP_GET_NEXT"
  <2>1. v = get_next_mpi_operation_rc(t, en)
    BY <1>3 DEF reverse
  <2>2. en.rc.mpi_op \in Ops /\ OpEffect(en.ev, en.rc.mpi_op, en.rc.saved, b, t, g)
    BY <1>3 DEF Effect
  <2>. QED
    BY <2>1, <2>2, OpBack
<1>4. CASE en.ev.type \in QuietEvents
  <2>1. en.ev.type \notin {"MPI_SEND_ARRIVED", "MPI_OP_GET_NEXT"}
    BY <1>4 DEF QuietEvents
  <2>2. Back(b, t, g)
    BY <2>1 DEF Effect, Back
  <2>3. Kept(t, t)
    BY DEF Kept, SameQueues
  <2>4. Kept(t, rend_arrived_rc(t, en))
    <3> DEFINE c == IF en.ev.msg.matched_req >= 0 THEN update_completed_queue_rc(t, en.rc.completed) ELSE t
               x == [c EXCEPT !.recv_time = en.rc.saved_recv_time]
    <3>1. rend_arrived_rc(t, en) = x
      BY Zenon DEF rend_arrived_rc
    <3>2. Kept(t, c)
      BY <1>1, <2>3, CompletedBack
    <3> HIDE DEF c
    <3>3. DOMAIN c = Fields
      BY <1>1, <3>2 DEF Kept
    <3>4. Kept(c, x)
      BY <3>3, Zenon DEF Kept, SameQueues, Fields
    <3> HIDE DEF x
    <3>. QED
      BY <3>1, <3>2, <3>4 DEF Kept, SameQueues
  <2>5. Kept(t, update_message_time_rc(t, en))
    BY <1>1, Zenon DEF Kept, SameQueues, Fields, update_message_time_rc
  <2>6. Kept(t, send_posted_rc(t, en))
    BY <1>1, <2>3, CompletedBack DEF send_posted_rc
  <2>7. Kept(t, handle_neighbor_finish_rc(t, en))
    BY <1>1, Zenon DEF Kept, SameQueues, Fields, handle_neighbor_finish_rc
  <2>8. Kept(t, handle_other_finish_rc(t, en))
    BY <1>1, Zenon DEF Kept, SameQueues, Fields, handle_other_finish_rc
  <2>9. Kept(t, finish_bckgnd_traffic_rc(t, en.rc))
    BY <1>1, Zenon DEF Kept, SameQueues, Fields, finish_bckgnd_traffic_rc
  <2>10. Kept(t, gen_synthetic_tr_rc(t, en))
    <3> DEFINE k == -(en.rc.saved_syn_length * PayloadSz)
               d == BytesSent(t, k)
               x == [d EXCEPT !.rng = @ - 1, !.gen_data = en.rc.saved_gen_data,
                              !.count["num_sends"] = @ - 1]
               y == finish_bckgnd_traffic_rc(x, en.rc)
    <3>1. gen_synthetic_tr_rc(t, en) \in {t, x, y}
      BY Zenon DEF gen_synthetic_tr_rc
    <3>2. Kept(t, d)
      BY <1>1, CountsKept
    <3> HIDE DEF k, d
    <3>3. DOMAIN d = Fields
      BY <1>1, <3>2 DEF Kept
    <3>4. Kept(d, x)
      BY <3>3, Zenon DEF Kept, SameQueues, Fields
    <3> HIDE DEF x
    <3>5. DOMAIN x = Fields
      BY <3>3, <3>4 DEF Kept
    <3>6. Kept(x, y)
      BY <3>5, Zenon DEF Kept, SameQueues, Fields, finish_bckgnd_traffic_rc
    <3> HIDE DEF y
    <3>7. Kept(t, x)
      BY <3>2, <3>4, KeptTwice
    <3>8. Kept(t, y)
      BY <3>6, <3>7, KeptTwice
    <3>. QED
      BY <2>3, <3>1, <3>7, <3>8
  <2>13. Kept(t, rend_send_rc(t, en))
    BY <1>1, CountsKept DEF rend_send_rc
  <2>14. Kept(t, arrive_syn_tr_rc(t, en))
    <3> DEFINE x == [t EXCEPT !.max_time = IF en.rc.c0 THEN en.rc.saved_prev_max_time ELSE @,
                              !.send_time = en.rc.saved_send_time, !.count["num_recvs"] = @ - 1,
                              !.syn_data = @ - PayloadSz, !.num_bytes_recvd = @ - PayloadSz]
    <3>1. arrive_syn_tr_rc(t, en) = x
      BY Zenon DEF arrive_syn_tr_rc
    <3>2. Kept(t, x)
      BY <1>1, Zenon DEF Kept, SameQueues, Fields
    <3> HIDE DEF x
    <3>. QED
      BY <3>1, <3>2
  <2>11. v \in {rend_arrived_rc(t, en), rend_send_rc(t, en), update_message_time_rc(t, en),
                send_posted_rc(t, en), arrive_syn_tr_rc(t, en),
                handle_neighbor_finish_rc(t, en), handle_other_finish_rc(t, en),
                finish_bckgnd_traffic_rc(t, en.rc), gen_synthetic_tr_rc(t, en)}
    BY <1>4 DEF reverse, QuietEvents
  <2> HIDE DEF v
  <2>12. Kept(t, v)
    BY <2>4, <2>5, <2>6, <2>7, <2>8, <2>9, <2>10, <2>11, <2>13, <2>14
  <2>. QED
    BY <2>2, <2>12, KeptBack DEF v
<1>. QED
  BY <1>2, <1>3, <1>4

-----------------------------------------------------------------------------
(* The invariant.  The rank that event l[i] left behind is the one its     *)
(* next uncommitted event found, or the present one if there is none.      *)

EventTypes == QuietEvents \cup {"MPI_SEND_ARRIVED", "MPI_OP_GET_NEXT"}

RanksOK(lp) == DOMAIN lp = Ranks /\ \A r \in Ranks : IsLP(lp[r]) /\ NoMatch(lp[r])

EntryOK(en, g) ==
  /\ IsEvent(en.ev) /\ en.ev.type \in EventTypes /\ g <= en.ev.ts
  /\ IsLP(en.before) /\ NoMatch(en.before)

LogOK(l, g) ==
  /\ l \in Seq(ToSet(l))
  /\ \A i \in 1 .. Len(l) : EntryOK(l[i], g)
  /\ \A i, j \in 1 .. Len(l) : i < j => l[i].ev.ts <= l[j].ev.ts

\* none of the entries m to n is of the same rank as entry i
Idle(l, i, m, n) == \A k \in m .. n : l[k].ev.to # l[i].ev.to

Left(l, i, t, g) == Effect(l[i].ev, l[i].rc, l[i].before, t, g)

LinksOK(l, lp, g) ==
  \A i \in 1 .. Len(l) :
    /\ Idle(l, i, i + 1, Len(l)) => Left(l, i, lp[l[i].ev.to], g)
    /\ \A j \in (i + 1) .. Len(l) :
         l[j].ev.to = l[i].ev.to /\ Idle(l, i, i + 1, j - 1) => Left(l, i, l[j].before, g)

Good(l, lp, E, g) ==
  g \in Nat /\ RanksOK(lp) /\ SentOK(E) /\ LogOK(l, g) /\ LinksOK(l, lp, g)

IndInv == Good(log, lps, events, gvt)

LEMMA OwnElements ==
  ASSUME NEW S, NEW l \in Seq(S)
  PROVE  l \in Seq(ToSet(l))
<1>1. Len(l) \in Nat /\ DOMAIN l = 1 .. Len(l) /\ l \in [1 .. Len(l) -> S]
  BY LenProperties
<1>2. l \in [1 .. Len(l) -> ToSet(l)]
  BY <1>1 DEF ToSet
<1>. QED
  BY <1>1, <1>2, IsASeq

\* an event is processed
LEMMA ProcessGood ==
  ASSUME NEW l, NEW lp, NEW E, NEW g, Good(l, lp, E, g),
         NEW e \in E, e.type \in EventTypes, g <= e.ts,
         \A i \in 1 .. Len(l) : l[i].ev.ts <= e.ts,
         NEW o, OutcomeOK(e, o, lp[e.to], g), NEW mark
  PROVE  Good(Append(l, [ev |-> e, rc |-> o.rc, sent |-> o.sent, before |-> lp[e.to], mark |-> mark]),
              [lp EXCEPT ![e.to] = o.ns], (E \ {e}) \cup o.sent, g)
<1> DEFINE x == [ev |-> e, rc |-> o.rc, sent |-> o.sent, before |-> lp[e.to], mark |-> mark]
           m == Append(l, x)
           n == Len(l)
           q == [lp EXCEPT ![e.to] = o.ns]
           S == ToSet(l) \cup {x}
<1>1. x.ev = e /\ x.rc = o.rc /\ x.before = lp[e.to]
  OBVIOUS
<1> HIDE DEF x
<1>2. IsEvent(e) /\ e.to \in Ranks /\ e.ts \in Nat
  BY DEF Good, SentOK, IsEvent
<1>3. l \in Seq(ToSet(l)) /\ n \in Nat /\ \A i \in 1 .. n : EntryOK(l[i], g)
  BY LenProperties DEF Good, LogOK
<1>4. l \in Seq(S) /\ x \in S
  <2>1. \A i \in 1 .. n : l[i] \in S
    BY <1>3, ElementOfSeq
  <2>. QED
    BY <1>3, <2>1
<1>5. /\ m \in Seq(S) /\ Len(m) = n + 1
      /\ \A i \in 1 .. n : m[i] = l[i]
      /\ m[n + 1] = x
  BY <1>4, AppendFacts
<1> HIDE DEF m, S
<1>6. /\ DOMAIN q = Ranks /\ q[e.to] = o.ns
      /\ \A r \in Ranks : r # e.to => q[r] = lp[r]
  BY <1>2 DEF Good, RanksOK
<1> HIDE DEF q
<1>7. RanksOK(q)
  BY <1>6 DEF Good, RanksOK, OutcomeOK
<1>8. SentOK((E \ {e}) \cup o.sent)
  BY DEF Good, SentOK, OutcomeOK
<1>9. \A i \in 1 .. Len(m) : i \in 1 .. n \/ i = n + 1
  BY <1>3, <1>5
<1>10. LogOK(m, g)
  <2>1. m \in Seq(ToSet(m))
    BY <1>5, OwnElements
  <2>2. EntryOK(x, g)
    BY <1>1, <1>2 DEF EntryOK, Good, RanksOK
  <2>3. \A i \in 1 .. Len(m) : EntryOK(m[i], g)
    BY <1>3, <1>5, <1>9, <2>2
  <2>4. ASSUME NEW i \in 1 .. Len(m), NEW j \in 1 .. Len(m), i < j
        PROVE  m[i].ev.ts <= m[j].ev.ts
    <3>1. i \in 1 .. n
      BY <1>3, <1>5, <2>4
    <3>2. CASE j \in 1 .. n
      BY <1>5, <2>4, <3>1, <3>2 DEF Good, LogOK
    <3>3. CASE j = n + 1
      BY <1>1, <1>5, <3>1, <3>3
    <3>. QED
      BY <1>9, <3>2, <3>3
  <2>. QED
    BY <2>1, <2>3, <2>4 DEF LogOK
<1>11. ASSUME NEW i \in 1 .. n, NEW a \in Int, NEW b \in Int, 1 <= a
       PROVE  Idle(m, i, a, b) => (b <= n => Idle(l, i, a, b))
  <2> SUFFICES ASSUME Idle(m, i, a, b), b <= n, NEW k \in a .. b PROVE l[k].ev.to # l[i].ev.to
    BY DEF Idle
  <2>1. k \in 1 .. n
    BY <1>3, <1>11
  <2>2. m[k].ev.to # m[i].ev.to
    BY DEF Idle
  <2>. QED
    BY <1>5, <2>1, <2>2
<1>12. LinksOK(m, q, g)
  <2> SUFFICES ASSUME NEW i \in 1 .. Len(m)
               PROVE  /\ Idle(m, i, i + 1, Len(m)) => Left(m, i, q[m[i].ev.to], g)
                      /\ \A j \in (i + 1) .. Len(m) :
                           m[j].ev.to = m[i].ev.to /\ Idle(m, i, i + 1, j - 1)
                             => Left(m, i, m[j].before, g)
    BY DEF LinksOK
  <2>1. CASE i = n + 1
    <3>1. Left(m, i, q[m[i].ev.to], g)
      BY <1>1, <1>5, <1>6, <2>1 DEF Left, OutcomeOK
    <3>2. \A j \in (i + 1) .. Len(m) : FALSE
      BY <1>3, <1>5, <2>1
    <3>. QED
      BY <3>1, <3>2
  <2>2. CASE i \in 1 .. n
    <3>1. m[i] = l[i] /\ l[i].ev.to \in Ranks /\ i + 1 \in Int /\ 1 <= i + 1
      BY <1>3, <1>5, <2>2 DEF EntryOK, IsEvent
    <3>2. \A t : Left(m, i, t, g) <=> Left(l, i, t, g)
      BY <3>1 DEF Left
    <3>3. ASSUME Idle(m, i, i + 1, Len(m)) PROVE Left(m, i, q[m[i].ev.to], g)
      <4>1. n + 1 \in (i + 1) .. Len(m)
        BY <1>3, <1>5, <2>2
      <4>2. l[i].ev.to # e.to
        BY <1>1, <1>5, <3>1, <3>3, <4>1 DEF Idle
      <4>3. Idle(l, i, i + 1, n)
        <5>1. Idle(m, i, i + 1, n)
          BY <1>3, <1>5, <3>3 DEF Idle
        <5>. QED
          BY <1>3, <1>11, <2>2, <3>1, <5>1
      <4>4. Left(l, i, lp[l[i].ev.to], g)
        BY <2>2, <4>3 DEF Good, LinksOK
      <4>. QED
        BY <1>6, <3>1, <3>2, <4>2, <4>4
    <3>4. ASSUME NEW j \in (i + 1) .. Len(m), m[j].ev.to = m[i].ev.to, Idle(m, i, i + 1, j - 1)
          PROVE  Left(m, i, m[j].before, g)
      <4>1. j - 1 \in Int /\ j - 1 <= n
        BY <1>3, <1>5, <2>2
      <4>2. Idle(l, i, i + 1, j - 1)
        BY <1>11, <2>2, <3>1, <3>4, <4>1
      <4>3. CASE j = n + 1
        <5>1. Idle(l, i, i + 1, Len(l))
          BY <1>3, <4>2, <4>3
        <5>2. Left(l, i, lp[l[i].ev.to], g)
          BY <2>2, <5>1 DEF Good, LinksOK
        <5>3. m[j].before = lp[e.to] /\ l[i].ev.to = e.to
          BY <1>1, <1>5, <3>1, <3>4, <4>3
        <5>. QED
          BY <3>2, <5>2, <5>3
      <4>4. CASE j \in (i + 1) .. n
        <5>1. m[j] = l[j]
          BY <1>3, <1>5, <2>2, <4>4
        <5>2. Left(l, i, l[j].before, g)
          BY <2>2, <3>1, <3>4, <4>2, <4>4, <5>1 DEF Good, LinksOK
        <5>. QED
          BY <3>2, <5>1, <5>2
      <4>. QED
        BY <1>3, <1>5, <2>2, <4>3, <4>4
    <3>. QED
      BY <3>3, <3>4
  <2>. QED
    BY <1>9, <2>1, <2>2
<1>13. g \in Nat
  BY DEF Good
<1>. QED
  BY <1>7, <1>8, <1>10, <1>12, <1>13 DEF Good, x, m, q

\* the last event is undone
LEMMA UndoGood ==
  ASSUME NEW l, NEW lp, NEW E, NEW g, Good(l, lp, E, g), l # << >>
  PROVE  LET en == l[Len(l)]
             r == en.ev.to
         IN  Good(SubSeq(l, 1, Len(l) - 1), [lp EXCEPT ![r] = reverse(lp[r], en)],
                  (E \ en.sent) \cup {en.ev}, g)
<1> DEFINE n == Len(l)
           en == l[n]
           r == en.ev.to
           m == SubSeq(l, 1, n - 1)
           u == reverse(lp[r], en)
           q == [lp EXCEPT ![r] = u]
<1>1. l \in Seq(ToSet(l)) /\ n \in Nat \ {0} /\ \A i \in 1 .. n : EntryOK(l[i], g)
  BY LenProperties, EmptySeq DEF Good, LogOK
<1>2. n - 1 \in 0 .. n /\ n \in 1 .. n /\ n - 1 \in Nat
  BY <1>1
<1>3. EntryOK(en, g) /\ r \in Ranks /\ g \in Nat
  BY <1>1, <1>2 DEF EntryOK, IsEvent, Good
<1>4. m \in Seq(ToSet(l)) /\ Len(m) = n - 1 /\ \A i \in 1 .. (n - 1) : m[i] = l[i]
  <2> DEFINE S == ToSet(l)
  <2>1. l \in Seq(S) /\ n - 1 \in 0 .. Len(l)
    BY <1>1, <1>2
  <2> HIDE DEF S
  <2>2. m \in Seq(S) /\ Len(m) = n - 1 /\ \A i \in 1 .. (n - 1) : m[i] = l[i]
    BY ONLY <2>1, PiecesOf, ZenonT(30)
  <2>. QED
    BY <2>2 DEF S
<1>5. Left(l, n, lp[r], g)
  <2>1. Idle(l, n, n + 1, n)
    BY <1>1 DEF Idle
  <2>. QED
    BY <1>2, <2>1 DEF Good, LinksOK
<1>6. IsLP(lp[r]) /\ DOMAIN lp = Ranks
  BY <1>3 DEF Good, RanksOK
<1>7. Back(en.before, u, g)
  <2>1. /\ IsLP(en.before) /\ IsEvent(en.ev) /\ g <= en.ev.ts
        /\ en.ev.type \in QuietEvents \cup {"MPI_SEND_ARRIVED", "MPI_OP_GET_NEXT"}
    BY <1>3 DEF EntryOK, EventTypes
  <2>2. Effect(en.ev, en.rc, en.before, lp[r], g)
    BY <1>5 DEF Left
  <2> HIDE DEF en, r, n
  <2>. QED
    BY <1>3, <1>6, <2>1, <2>2, ReverseBack
<1> HIDE DEF m, u
<1>8. /\ DOMAIN q = Ranks /\ q[r] = u
      /\ \A k \in Ranks : k # r => q[k] = lp[k]
  BY <1>3, <1>6
<1> HIDE DEF q
<1>9. RanksOK(q)
  <2>1. IsLP(u) /\ SameQueues(en.before, u)
    BY <1>7 DEF Back
  <2>2. NoMatch(u)
    BY <1>3, <2>1 DEF NoMatch, SameQueues, EntryOK
  <2>. QED
    BY <1>8, <2>1, <2>2 DEF Good, RanksOK
<1>10. SentOK((E \ en.sent) \cup {en.ev})
  BY <1>3 DEF Good, SentOK, EntryOK
<1>11. \A i \in 1 .. Len(m) : i \in 1 .. n /\ i \in 1 .. (n - 1)
  BY <1>1, <1>4
<1>12. LogOK(m, g)
  <2>1. m \in Seq(ToSet(m))
    BY <1>4, OwnElements
  <2>2. \A i \in 1 .. Len(m) : EntryOK(m[i], g)
    BY <1>1, <1>4, <1>11
  <2>3. \A i, j \in 1 .. Len(m) : i < j => m[i].ev.ts <= m[j].ev.ts
    BY <1>4, <1>11 DEF Good, LogOK
  <2>. QED
    BY <2>1, <2>2, <2>3 DEF LogOK
<1>13. ASSUME NEW i \in 1 .. (n - 1), NEW b \in Int, b <= n - 1, Idle(m, i, i + 1, b)
       PROVE  Idle(l, i, i + 1, b)
  <2> SUFFICES ASSUME NEW k \in (i + 1) .. b PROVE l[k].ev.to # l[i].ev.to
    BY DEF Idle
  <2>1. k \in 1 .. (n - 1)
    BY <1>1, <1>13
  <2>2. m[k].ev.to # m[i].ev.to
    BY <1>13 DEF Idle
  <2>. QED
    BY <1>4, <2>1, <2>2
<1>14. LinksOK(m, q, g)
  <2> SUFFICES ASSUME NEW i \in 1 .. (n - 1)
               PROVE  /\ Idle(m, i, i + 1, n - 1) => Left(m, i, q[m[i].ev.to], g)
                      /\ \A j \in (i + 1) .. (n - 1) :
                           m[j].ev.to = m[i].ev.to /\ Idle(m, i, i + 1, j - 1)
                             => Left(m, i, m[j].before, g)
    BY <1>4 DEF LinksOK
  <2>1. m[i] = l[i] /\ l[i].ev.to \in Ranks /\ i \in 1 .. n
    BY <1>1, <1>4 DEF EntryOK, IsEvent
  <2>2. \A t : Left(m, i, t, g) <=> Left(l, i, t, g)
    BY <2>1 DEF Left
  <2>3. ASSUME Idle(m, i, i + 1, n - 1) PROVE Left(m, i, q[m[i].ev.to], g)
    <3>1. Idle(l, i, i + 1, n - 1)
      BY <1>2, <1>13, <2>3
    <3>2. CASE l[i].ev.to = r
      <4>1. n \in (i + 1) .. n
        BY <1>1
      <4>2. Left(l, i, l[n].before, g)
        BY <2>1, <3>1, <3>2, <4>1 DEF Good, LinksOK
      <4>3. SameQueues(en.before, u) /\ SameStack(en.before, u, g)
        BY <1>7 DEF Back
      <4>4. Left(l, i, u, g)
        BY <4>2, <4>3, EffectOnQueues DEF Left
      <4>. QED
        BY <1>8, <2>1, <2>2, <3>2, <4>4
    <3>3. CASE l[i].ev.to # r
      <4>1. Idle(l, i, i + 1, n)
        BY <1>1, <3>1, <3>3 DEF Idle
      <4>2. Left(l, i, lp[l[i].ev.to], g)
        BY <2>1, <4>1 DEF Good, LinksOK
      <4>. QED
        BY <1>8, <2>1, <2>2, <3>3, <4>2
    <3>. QED
      BY <3>2, <3>3
  <2>4. ASSUME NEW j \in (i + 1) .. (n - 1), m[j].ev.to = m[i].ev.to, Idle(m, i, i + 1, j - 1)
        PROVE  Left(m, i, m[j].before, g)
    <3>1. j \in (i + 1) .. n /\ j \in 1 .. (n - 1) /\ j - 1 \in Int /\ j - 1 <= n - 1
      BY <1>1
    <3>2. m[j] = l[j] /\ Idle(l, i, i + 1, j - 1)
      BY <1>4, <1>13, <2>4, <3>1
    <3>3. Left(l, i, l[j].before, g)
      BY <2>1, <2>4, <3>1, <3>2 DEF Good, LinksOK
    <3>. QED
      BY <2>2, <3>2, <3>3
  <2>. QED
    BY <2>3, <2>4
<1>. QED
  BY <1>3, <1>9, <1>10, <1>12, <1>14 DEF Good, m, q, u

\* what an event did stays on record while events before it are committed
LEMMA EffectLater ==
  ASSUME NEW b, IsLP(b), NEW t, IsLP(t), NEW g \in Nat, NEW h \in Nat, g <= h,
         NEW e, e.ts \in Nat, h <= e.ts, NEW rc, Effect(e, rc, b, t, g)
  PROVE  Effect(e, rc, b, t, h)
<1> DEFINE p == b.processed_ops
           q == t.processed_ops
<1>1. p \in Seq(Item) /\ q \in Seq(Item)
  BY DEF IsLP
<1>2. /\ rc_stack_gc(rc_stack_gc(p, g), h) = rc_stack_gc(p, h)
      /\ rc_stack_gc(rc_stack_gc(q, g), h) = rc_stack_gc(q, h)
  BY <1>1, GcAgain, ItemsTimed
<1>3. rc_stack_gc(p, g) \in Seq(Item)
  BY <1>1, GcType, ItemsTimed
<1>4. SameStack(b, t, g) => SameStack(b, t, h)
  BY <1>2 DEF SameStack
<1>5. ASSUME NEW x, Pushed(b, t, g, e.ts, x) PROVE Pushed(b, t, h, e.ts, x)
  <2> DEFINE y == [time |-> e.ts, data |-> x]
             z == rc_stack_gc(p, g)
  <2>1. y \in Item /\ y.time >= h /\ x \in Message \cup Receive \cup Int
    BY <1>5 DEF Pushed, Item
  <2>2. rc_stack_gc(q, g) = Append(z, y)
    BY <1>5 DEF Pushed
  <2> HIDE DEF y, z, p, q
  <2>3. rc_stack_gc(Append(z, y), h) = Append(rc_stack_gc(z, h), y)
    BY <1>3, <2>1, GcPush, ItemsTimed DEF z
  <2>4. rc_stack_gc(q, h) = Append(rc_stack_gc(p, h), y)
    BY <1>2, <2>2, <2>3 DEF z
  <2>. QED
    BY <2>1, <2>4 DEF Pushed, y, p, q
<1> HIDE DEF p, q
<1>6. ASSUME NEW k, ReceiveEffect(e, k, b, t, g) PROVE ReceiveEffect(e, k, b, t, h)
  BY <1>4, <1>5, <1>6 DEF ReceiveEffect
<1>7. ASSUME NEW k, ArrivalEffect(e, k, b, t, g) PROVE ArrivalEffect(e, k, b, t, h)
  BY <1>4, <1>5, <1>7 DEF ArrivalEffect
<1>8. ASSUME NEW k, WaitEffect(e, k, b, t, g) PROVE WaitEffect(e, k, b, t, h)
  <2>1. SameQueues(b, t)
    BY <1>8 DEF WaitEffect
  <2>2. CASE k.c1 = FALSE /\ SameStack(b, t, g)
    BY <1>4, <2>1, <2>2 DEF WaitEffect
  <2>3. ASSUME NEW x \in Int, k.c1 = TRUE, Pushed(b, t, g, e.ts, x)
        PROVE  WaitEffect(e, k, b, t, h)
    BY <1>5, <2>1, <2>3 DEF WaitEffect
  <2>. QED
    BY <1>8, <2>2, <2>3 DEF WaitEffect
<1>9. ASSUME NEW op, NEW k, OpEffect(e, op, k, b, t, g) PROVE OpEffect(e, op, k, b, t, h)
  BY <1>4, <1>6, <1>8, <1>9 DEF OpEffect
<1>. QED
  BY <1>4, <1>7, <1>9 DEF Effect

\* the oldest event is committed
LEMMA CommitGood ==
  ASSUME NEW l, NEW lp, NEW E, NEW g, Good(l, lp, E, g), l # << >>
  PROVE  Good(Tail(l), lp, E, Head(l).ev.ts)
<1> DEFINE n == Len(l)
           m == Tail(l)
           h == Head(l).ev.ts
<1>1. l \in Seq(ToSet(l)) /\ n \in Nat \ {0} /\ \A i \in 1 .. n : EntryOK(l[i], g)
  BY LenProperties, EmptySeq DEF Good, LogOK
<1>2. /\ m \in Seq(ToSet(l)) /\ Len(m) = n - 1
      /\ \A i \in 1 .. (n - 1) : m[i] = l[i + 1]
      /\ h = l[1].ev.ts
  BY <1>1, HeadTailProperties
<1> HIDE DEF m, h
<1>3. 1 \in 1 .. n /\ g \in Nat /\ h \in Nat /\ g <= h
  <2>1. 1 \in 1 .. n
    BY <1>1
  <2>2. EntryOK(l[1], g)
    BY <1>1, <2>1
  <2>. QED
    BY <1>2, <2>1, <2>2 DEF EntryOK, IsEvent, Good
<1>4. ASSUME NEW i \in 1 .. (n - 1)
      PROVE  /\ i + 1 \in 1 .. n /\ m[i] = l[i + 1] /\ EntryOK(m[i], h)
             /\ m[i].ev.to \in Ranks
  <2>1. i + 1 \in 1 .. n /\ 1 < i + 1 /\ m[i] = l[i + 1]
    BY <1>1, <1>2
  <2>2. EntryOK(l[i + 1], g) /\ h <= l[i + 1].ev.ts
    <3>1. l[1].ev.ts <= l[i + 1].ev.ts
      BY <1>3, <2>1 DEF Good, LogOK
    <3>. QED
      BY <1>1, <1>2, <2>1, <3>1
  <2>. QED
    BY <2>1, <2>2 DEF EntryOK, IsEvent
<1>5. LogOK(m, h)
  <2>1. m \in Seq(ToSet(m))
    BY <1>2, OwnElements
  <2>2. \A i \in 1 .. Len(m) : EntryOK(m[i], h)
    BY <1>2, <1>4
  <2>3. ASSUME NEW i \in 1 .. Len(m), NEW j \in 1 .. Len(m), i < j
        PROVE  m[i].ev.ts <= m[j].ev.ts
    <3>1. i \in 1 .. (n - 1) /\ j \in 1 .. (n - 1) /\ i + 1 < j + 1
      BY <1>1, <1>2, <2>3
    <3>. QED
      BY <1>4, <3>1 DEF Good, LogOK
  <2>. QED
    BY <2>1, <2>2, <2>3 DEF LogOK
<1>6. ASSUME NEW i \in 1 .. (n - 1), NEW b \in Int, b <= n - 1, Idle(m, i, i + 1, b)
      PROVE  Idle(l, i + 1, (i + 1) + 1, b + 1)
  <2> SUFFICES ASSUME NEW k \in ((i + 1) + 1) .. (b + 1) PROVE l[k].ev.to # l[i + 1].ev.to
    BY DEF Idle
  <2>1. k - 1 \in (i + 1) .. b /\ k - 1 \in 1 .. (n - 1) /\ (k - 1) + 1 = k
    BY <1>1, <1>6
  <2>2. m[k - 1].ev.to # m[i].ev.to
    BY <1>6, <2>1 DEF Idle
  <2>3. m[k - 1] = l[k]
    BY <1>4, <2>1
  <2>. QED
    BY <1>4, <2>2, <2>3
<1>7. ASSUME NEW i \in 1 .. (n - 1), NEW t, IsLP(t), Left(l, i + 1, t, g)
      PROVE  Left(m, i, t, h)
  <2>1. m[i] = l[i + 1] /\ EntryOK(m[i], h)
    BY <1>4
  <2>2. Effect(m[i].ev, m[i].rc, m[i].before, t, g)
    BY <1>7, <2>1 DEF Left
  <2>3. IsLP(m[i].before) /\ m[i].ev.ts \in Nat /\ h <= m[i].ev.ts
    BY <2>1 DEF EntryOK, IsEvent
  <2>4. Effect(m[i].ev, m[i].rc, m[i].before, t, h)
    BY <1>3, <1>7, <2>2, <2>3, EffectLater
  <2>. QED
    BY <2>4 DEF Left
<1>8. LinksOK(m, lp, h)
  <2> SUFFICES ASSUME NEW i \in 1 .. (n - 1)
               PROVE  /\ Idle(m, i, i + 1, n - 1) => Left(m, i, lp[m[i].ev.to], h)
                      /\ \A j \in (i + 1) .. (n - 1) :
                           m[j].ev.to = m[i].ev.to /\ Idle(m, i, i + 1, j - 1)
                             => Left(m, i, m[j].before, h)
    BY <1>2 DEF LinksOK
  <2>1. m[i] = l[i + 1] /\ m[i].ev.to \in Ranks /\ i + 1 \in 1 .. n
    BY <1>4
  <2>2. ASSUME Idle(m, i, i + 1, n - 1) PROVE Left(m, i, lp[m[i].ev.to], h)
    <3>1. n - 1 \in Int /\ n - 1 <= n - 1 /\ (n - 1) + 1 = n
      BY <1>1
    <3>2. Idle(l, i + 1, (i + 1) + 1, n)
      BY <1>6, <2>2, <3>1
    <3>3. Left(l, i + 1, lp[l[i + 1].ev.to], g)
      BY <2>1, <3>2 DEF Good, LinksOK
    <3>4. IsLP(lp[m[i].ev.to])
      BY <2>1 DEF Good, RanksOK
    <3>. QED
      BY <1>7, <2>1, <3>3, <3>4
  <2>3. ASSUME NEW j \in (i + 1) .. (n - 1), m[j].ev.to = m[i].ev.to, Idle(m, i, i + 1, j - 1)
        PROVE  Left(m, i, m[j].before, h)
    <3>1. /\ j + 1 \in ((i + 1) + 1) .. n /\ j \in 1 .. (n - 1) /\ j - 1 \in Int /\ j - 1 <= n - 1
          /\ (j - 1) + 1 = (j + 1) - 1
      BY <1>1
    <3>2. m[j] = l[j + 1] /\ EntryOK(m[j], h)
      BY <1>4, <3>1
    <3>3. Idle(l, i + 1, (i + 1) + 1, (j + 1) - 1)
      BY <1>6, <2>3, <3>1
    <3>4. Left(l, i + 1, l[j + 1].before, g)
      BY <2>1, <2>3, <3>1, <3>2, <3>3 DEF Good, LinksOK
    <3>. QED
      BY <1>7, <3>2, <3>4 DEF EntryOK
  <2>. QED
    BY <2>2, <2>3
<1>. QED
  BY <1>3, <1>5, <1>8 DEF Good, m, h

-----------------------------------------------------------------------------
(* Steps.                                                                  *)

LEMMA InitGood == Init => IndInv
<1> SUFFICES ASSUME Init PROVE IndInv
  OBVIOUS
<1>1. PICK q \in RecvReqs : lps = [r \in Ranks |-> nw_test_init(q)]
  BY DEF Init
<1>2. log = << >> /\ gvt = 0
  BY DEF Init
<1> DEFINE s == nw_test_init(q)
<1>3. /\ DOMAIN s = Fields
      /\ s.recv_req = q /\ s.read = 0 /\ s.lifo = << >>
      /\ s.arrival_queue = << >> /\ s.pending_recvs_queue = << >> /\ s.processed_ops = << >>
  BY DEF nw_test_init, Fields
<1> HIDE DEF s
<1>4. q \in Int
  BY ReplayAssumption
<1>5. /\ << >> \in Seq(Message) /\ << >> \in Seq(Receive) /\ << >> \in Seq(Item)
      /\ << >> \in Seq(Ops) /\ Len(<< >>) = 0
  OBVIOUS
<1>6. IsLP(s)
  BY <1>3, <1>4, <1>5 DEF IsLP
<1>7. NoMatch(s)
  BY <1>3, <1>5 DEF NoMatch
<1>8. RanksOK(lps)
  BY <1>1, <1>6, <1>7 DEF RanksOK, s
<1>9. SentOK(events)
  <2> DEFINE f(r) == Event("MPI_OP_GET_NEXT", NEAR_ZERO, r, <<"init", << >> >>)
             k(r) == Event("CLI_BCKGND_GEN", 0, r, <<r>>)
  <2>1. \A r \in Ranks : IsEvent(f(r)) /\ IsEvent(k(r))
    <3>1. NEAR_ZERO \in Nat /\ 0 \in Nat
      BY DEF NEAR_ZERO
    <3>2. "MPI_OP_GET_NEXT" \notin MessageTypes /\ "CLI_BCKGND_GEN" \notin MessageTypes
      BY DEF MessageTypes
    <3>. QED
      BY <3>1, <3>2, PlainEventOK
  <2>2. events = {IF r \in AppRanks THEN f(r) ELSE k(r) : r \in Ranks}
    BY DEF Init
  <2> HIDE DEF f, k
  <2>. QED
    BY <2>1, <2>2 DEF SentOK
<1>10. LogOK(log, gvt)
  BY <1>2, <1>5 DEF LogOK
<1>11. LinksOK(log, lps, gvt)
  BY <1>2, <1>5 DEF LinksOK
<1>. QED
  BY <1>2, <1>8, <1>9, <1>10, <1>11 DEF IndInv, Good

LEMMA ProcessStep ==
  ASSUME IndInv, NEW e \in events, e.type \in EventTypes, e.ts >= Now,
         NEW o, OutcomeOK(e, o, lps[e.to], gvt),
         lps' = [lps EXCEPT ![e.to] = o.ns],
         events' = (events \ {e}) \cup o.sent,
         log' = Append(log, [ev |-> e, rc |-> o.rc, sent |-> o.sent,
                             before |-> lps[e.to], mark |-> Len(trace)]),
         gvt' = gvt
  PROVE  IndInv'
<1>1. Good(log, lps, events, gvt)
  BY DEF IndInv
<1>2. gvt <= e.ts /\ \A i \in 1 .. Len(log) : log[i].ev.ts <= e.ts
  <2>1. gvt \in Nat /\ e.ts \in Nat /\ log \in Seq(ToSet(log)) /\ Len(log) \in Nat
    BY <1>1, LenProperties DEF Good, SentOK, IsEvent, LogOK
  <2>2. \A i \in 1 .. Len(log) : log[i].ev.ts \in Nat /\ gvt <= log[i].ev.ts
    BY <1>1 DEF Good, LogOK, EntryOK, IsEvent
  <2>3. CASE log = << >>
    <3>1. Now = gvt /\ Len(log) = 0
      BY <2>3 DEF Now
    <3>. QED
      BY <2>1, <3>1
  <2>4. CASE log # << >>
    <3>1. Now = log[Len(log)].ev.ts
      BY <2>4 DEF Now, LastEntry
    <3>2. Len(log) \in 1 .. Len(log)
      BY <2>1, <2>4, EmptySeq
    <3>3. \A i \in 1 .. Len(log) : log[i].ev.ts <= log[Len(log)].ev.ts
      <4> SUFFICES ASSUME NEW i \in 1 .. Len(log) PROVE log[i].ev.ts <= log[Len(log)].ev.ts
        OBVIOUS
      <4>1. CASE i = Len(log)
        BY <2>2, <3>2, <4>1
      <4>2. CASE i < Len(log)
        BY <1>1, <3>2, <4>2 DEF Good, LogOK
      <4>. QED
        BY <2>1, <4>1, <4>2
    <3>. QED
      BY <2>1, <2>2, <3>1, <3>2, <3>3
  <2>. QED
    BY <2>3, <2>4
<1> DEFINE x == [ev |-> e, rc |-> o.rc, sent |-> o.sent, before |-> lps[e.to], mark |-> Len(trace)]
<1>3. Good(Append(log, x), [lps EXCEPT ![e.to] = o.ns], (events \ {e}) \cup o.sent, gvt)
  BY <1>1, <1>2, ProcessGood
<1>. QED
  BY <1>3 DEF IndInv

LEMMA HandleStep ==
  ASSUME IndInv, NEW e \in events,
         \/ SendArrived(e) \/ RendArrived(e) \/ RendAckArrived(e) \/ SendArrivedCb(e)
         \/ SendPosted(e)
         \/ NextSend(e) \/ NextRecv(e) \/ NextWait(e) \/ NextWaitAll(e)
         \/ NextDelay(e) \/ NextCounted(e) \/ NextAllreduce(e) \/ NextEnd(e)
         \/ NbrFinish(e) \/ OtherFinish(e) \/ BckgndFin(e) \/ BckgndGen(e) \/ BckgndArrive(e)
  PROVE  IndInv'
<1> DEFINE s == lps[e.to]
           c == Collected(e)
           n == Taken(e)
           op == OpOf(e)
<1>1. IsEvent(e) /\ e.to \in Ranks /\ gvt \in Nat /\ IsLP(s) /\ NoMatch(s)
  BY DEF IndInv, Good, SentOK, IsEvent, RanksOK
<1>2. Base(s, c, gvt)
  BY <1>1, CollectedBase DEF Collected
<1>3. Base(s, n, gvt)
  BY <1>2, TakenCounted DEF Taken
<1>4. op \in Ops
  BY <1>1, OpFacts DEF OpOf
<1>5. gvt <= Now
  <2>1. CASE log = << >>
    BY <1>1, <2>1 DEF Now
  <2>2. CASE log # << >>
    <3>1. log \in Seq(ToSet(log)) /\ \A i \in 1 .. Len(log) : gvt <= log[i].ev.ts
      BY DEF IndInv, Good, LogOK, EntryOK
    <3>2. Len(log) \in 1 .. Len(log)
      BY <2>2, <3>1, EmptySeq, LenProperties
    <3>. QED
      BY <2>2, <3>1, <3>2 DEF Now, LastEntry
  <2>. QED
    BY <2>1, <2>2
<1>6. Now \in Nat /\ e.ts \in Nat
  <2>1. CASE log = << >>
    BY <1>1, <2>1 DEF Now, IsEvent
  <2>2. CASE log # << >>
    <3>1. log \in Seq(ToSet(log)) /\ \A i \in 1 .. Len(log) : log[i].ev.ts \in Nat
      BY DEF IndInv, Good, LogOK, EntryOK, IsEvent
    <3>2. Len(log) \in 1 .. Len(log)
      BY <2>2, <3>1, EmptySeq, LenProperties
    <3>. QED
      BY <1>1, <2>2, <3>1, <3>2 DEF Now, LastEntry, IsEvent
  <2>. QED
    BY <2>1, <2>2
<1>7. ASSUME NEW type \in EventTypes, Ready(e, type)
      PROVE  e.type = type /\ e.type \in EventTypes /\ e.ts >= Now /\ gvt <= e.ts
  BY <1>1, <1>5, <1>6, <1>7 DEF Ready
<1> HIDE DEF s, c, n, op
<1>8. CASE SendArrived(e)
  <2>1. e.type = "MPI_SEND_ARRIVED" /\ e.type \in EventTypes /\ e.ts >= Now /\ gvt <= e.ts
    <3>1. Ready(e, "MPI_SEND_ARRIVED") /\ "MPI_SEND_ARRIVED" \in EventTypes
      BY <1>8 DEF SendArrived, EventTypes, QuietEvents
    <3>. QED
      BY <1>7, <3>1
  <2>2. PICK l \in Latencies.ack :
          Process(e, update_arrival_queue(c, e, l))
    BY <1>8 DEF SendArrived, c, n, op
  <2>3. l \in Nat
    BY LatencyFacts
  <2> DEFINE x == update_arrival_queue(c, e, l)
  <2>4. OutcomeOK(e, x, s, gvt)
    BY <1>1, <1>2, <2>1, <2>3, ArrivalOutcome
  <2> HIDE DEF x
  <2>5. PICK o \in {x} :
          /\ lps' = [lps EXCEPT ![e.to] = o.ns]
          /\ events' = (events \ {e}) \cup o.sent
          /\ log' = Append(log, [ev |-> e, rc |-> o.rc, sent |-> o.sent,
                                 before |-> lps[e.to], mark |-> Len(trace)])
          /\ gvt' = gvt
    BY <2>2 DEF Process, x
  <2>. QED
    BY <2>1, <2>4, <2>5, ProcessStep DEF s
<1>9. CASE RendArrived(e)
  <2>1. e.type = "MPI_REND_ARRIVED" /\ e.type \in EventTypes /\ e.ts >= Now /\ gvt <= e.ts
    <3>1. Ready(e, "MPI_REND_ARRIVED") /\ "MPI_REND_ARRIVED" \in EventTypes
      BY <1>9 DEF RendArrived, EventTypes, QuietEvents
    <3>. QED
      BY <1>7, <3>1
  <2>2. Process(e, rend_arrived(c, e))
    BY <1>9 DEF RendArrived, c, n, op
  <2> DEFINE x == rend_arrived(c, e)
  <2>3. OutcomeOK(e, x, s, gvt)
    BY <1>1, <1>2, <2>1, RendArrivedOutcome
  <2> HIDE DEF x
  <2>4. PICK o \in {x} :
          /\ lps' = [lps EXCEPT ![e.to] = o.ns]
          /\ events' = (events \ {e}) \cup o.sent
          /\ log' = Append(log, [ev |-> e, rc |-> o.rc, sent |-> o.sent,
                                 before |-> lps[e.to], mark |-> Len(trace)])
          /\ gvt' = gvt
    BY <2>2 DEF Process, x
  <2>. QED
    BY <2>1, <2>3, <2>4, ProcessStep DEF s
<1>10. CASE RendAckArrived(e)
  <2>1. e.type = "MPI_REND_ACK_ARRIVED" /\ e.type \in EventTypes /\ e.ts >= Now /\ gvt <= e.ts
    <3>1. Ready(e, "MPI_REND_ACK_ARRIVED") /\ "MPI_REND_ACK_ARRIVED" \in EventTypes
      BY <1>10 DEF RendAckArrived, EventTypes, QuietEvents
    <3>. QED
      BY <1>7, <3>1
  <2>2. PICK l \in Latencies.data, k \in LocalLatencies :
          Process(e, rend_send(c, e, l, k))
    BY <1>10 DEF RendAckArrived, c, n, op
  <2>3. l \in Nat /\ k \in Nat
    BY LatencyFacts
  <2> DEFINE x == rend_send(c, e, l, k)
  <2>4. OutcomeOK(e, x, s, gvt)
    BY <1>1, <1>2, <2>1, <2>3, RendSendOutcome
  <2> HIDE DEF x
  <2>5. PICK o \in {x} :
          /\ lps' = [lps EXCEPT ![e.to] = o.ns]
          /\ events' = (events \ {e}) \cup o.sent
          /\ log' = Append(log, [ev |-> e, rc |-> o.rc, sent |-> o.sent,
                                 before |-> lps[e.to], mark |-> Len(trace)])
          /\ gvt' = gvt
    BY <2>2 DEF Process, x
  <2>. QED
    BY <2>1, <2>4, <2>5, ProcessStep DEF s
<1>11. CASE SendArrivedCb(e)
  <2>1. e.type = "MPI_SEND_ARRIVED_CB" /\ e.type \in EventTypes /\ e.ts >= Now /\ gvt <= e.ts
    <3>1. Ready(e, "MPI_SEND_ARRIVED_CB") /\ "MPI_SEND_ARRIVED_CB" \in EventTypes
      BY <1>11 DEF SendArrivedCb, EventTypes, QuietEvents
    <3>. QED
      BY <1>7, <3>1
  <2>2. Process(e, update_message_time(c, e))
    BY <1>11 DEF SendArrivedCb, c, n, op
  <2> DEFINE x == update_message_time(c, e)
  <2>3. OutcomeOK(e, x, s, gvt)
    BY <1>1, <1>2, <2>1, MessageTimeOutcome
  <2> HIDE DEF x
  <2>4. PICK o \in {x} :
          /\ lps' = [lps EXCEPT ![e.to] = o.ns]
          /\ events' = (events \ {e}) \cup o.sent
          /\ log' = Append(log, [ev |-> e, rc |-> o.rc, sent |-> o.sent,
                                 before |-> lps[e.to], mark |-> Len(trace)])
          /\ gvt' = gvt
    BY <2>2 DEF Process, x
  <2>. QED
    BY <2>1, <2>3, <2>4, ProcessStep DEF s
<1>12. CASE SendPosted(e)
  <2>1. e.type = "MPI_SEND_POSTED" /\ e.type \in EventTypes /\ e.ts >= Now /\ gvt <= e.ts
    <3>1. Ready(e, "MPI_SEND_POSTED") /\ "MPI_SEND_POSTED" \in EventTypes
      BY <1>12 DEF SendPosted, EventTypes, QuietEvents
    <3>. QED
      BY <1>7, <3>1
  <2>2. Process(e, send_posted(c, e))
    BY <1>12 DEF SendPosted, c, n, op
  <2> DEFINE x == send_posted(c, e)
  <2>3. OutcomeOK(e, x, s, gvt)
    BY <1>1, <1>2, <2>1, PostedOutcome
  <2> HIDE DEF x
  <2>4. PICK o \in {x} :
          /\ lps' = [lps EXCEPT ![e.to] = o.ns]
          /\ events' = (events \ {e}) \cup o.sent
          /\ log' = Append(log, [ev |-> e, rc |-> o.rc, sent |-> o.sent,
                                 before |-> lps[e.to], mark |-> Len(trace)])
          /\ gvt' = gvt
    BY <2>2 DEF Process, x
  <2>. QED
    BY <2>1, <2>3, <2>4, ProcessStep DEF s
<1>13. CASE NextSend(e)
  <2>1. e.type = "MPI_OP_GET_NEXT" /\ e.type \in EventTypes /\ e.ts >= Now /\ gvt <= e.ts
    <3>1. Ready(e, "MPI_OP_GET_NEXT") /\ "MPI_OP_GET_NEXT" \in EventTypes
      BY <1>13 DEF NextSend, GetNext, EventTypes, QuietEvents
    <3>. QED
      BY <1>7, <3>1
  <2>2. op.op \in {"SEND", "ISEND"}
    BY <1>13 DEF NextSend, GetNext, op, OpOf
  <2>3. PICK l \in Latencies[IF is_eager(op) THEN "eager" ELSE "announce"], k \in LocalLatencies :
          ProcessOp(e, codes_exec_mpi_send(n, e, op, l, k))
    BY <1>13 DEF NextSend, c, n, op
  <2>4. l \in Nat /\ k \in Nat
    BY LatencyFacts
  <2> DEFINE w == codes_exec_mpi_send(n, e, op, l, k)
  <2>5. OpOK(e, op, w, s, gvt)
    BY <1>1, <1>3, <1>4, <2>1, <2>2, <2>4, SendOutcome
  <2> HIDE DEF w
  <2> DEFINE x == [w EXCEPT !.rc = [mpi_op |-> op, saved |-> @]]
  <2>6. OutcomeOK(e, x, s, gvt)
    BY <1>4, <2>1, <2>5, OpOutcome
  <2> HIDE DEF x
  <2>7. PICK o \in {x} :
          /\ lps' = [lps EXCEPT ![e.to] = o.ns]
          /\ events' = (events \ {e}) \cup o.sent
          /\ log' = Append(log, [ev |-> e, rc |-> o.rc, sent |-> o.sent,
                                 before |-> lps[e.to], mark |-> Len(trace)])
          /\ gvt' = gvt
    BY <2>3 DEF ProcessOp, Process, op, w, x
  <2>. QED
    BY <2>1, <2>6, <2>7, ProcessStep DEF s
<1>14. CASE NextRecv(e)
  <2>1. e.type = "MPI_OP_GET_NEXT" /\ e.type \in EventTypes /\ e.ts >= Now /\ gvt <= e.ts
    <3>1. Ready(e, "MPI_OP_GET_NEXT") /\ "MPI_OP_GET_NEXT" \in EventTypes
      BY <1>14 DEF NextRecv, GetNext, EventTypes, QuietEvents
    <3>. QED
      BY <1>7, <3>1
  <2>2. op.op \in {"RECV", "IRECV"}
    BY <1>14 DEF NextRecv, GetNext, op, OpOf
  <2>3. PICK l \in Latencies.ack :
          ProcessOp(e, codes_exec_mpi_recv(n, e, op, l))
    BY <1>14 DEF NextRecv, c, n, op
  <2>4. l \in Nat
    BY LatencyFacts
  <2> DEFINE w == codes_exec_mpi_recv(n, e, op, l)
  <2>5. OpOK(e, op, w, s, gvt)
    BY <1>1, <1>3, <1>4, <2>1, <2>2, <2>4, ReceiveOutcome
  <2> HIDE DEF w
  <2> DEFINE x == [w EXCEPT !.rc = [mpi_op |-> op, saved |-> @]]
  <2>6. OutcomeOK(e, x, s, gvt)
    BY <1>4, <2>1, <2>5, OpOutcome
  <2> HIDE DEF x
  <2>7. PICK o \in {x} :
          /\ lps' = [lps EXCEPT ![e.to] = o.ns]
          /\ events' = (events \ {e}) \cup o.sent
          /\ log' = Append(log, [ev |-> e, rc |-> o.rc, sent |-> o.sent,
                                 before |-> lps[e.to], mark |-> Len(trace)])
          /\ gvt' = gvt
    BY <2>3 DEF ProcessOp, Process, op, w, x
  <2>. QED
    BY <2>1, <2>6, <2>7, ProcessStep DEF s
<1>15. CASE NextWait(e)
  <2>1. e.type = "MPI_OP_GET_NEXT" /\ e.type \in EventTypes /\ e.ts >= Now /\ gvt <= e.ts
    <3>1. Ready(e, "MPI_OP_GET_NEXT") /\ "MPI_OP_GET_NEXT" \in EventTypes
      BY <1>15 DEF NextWait, GetNext, EventTypes, QuietEvents
    <3>. QED
      BY <1>7, <3>1
  <2>2. op.op \in {"WAIT"}
    BY <1>15 DEF NextWait, GetNext, op, OpOf
  <2>3. ProcessOp(e, codes_exec_mpi_wait(n, e, op))
    BY <1>15 DEF NextWait, c, n, op
  <2> DEFINE w == codes_exec_mpi_wait(n, e, op)
  <2>4. OpOK(e, op, w, s, gvt)
    BY <1>1, <1>3, <1>4, <2>1, <2>2, WaitOutcome
  <2> HIDE DEF w
  <2> DEFINE x == [w EXCEPT !.rc = [mpi_op |-> op, saved |-> @]]
  <2>5. OutcomeOK(e, x, s, gvt)
    BY <1>4, <2>1, <2>4, OpOutcome
  <2> HIDE DEF x
  <2>6. PICK o \in {x} :
          /\ lps' = [lps EXCEPT ![e.to] = o.ns]
          /\ events' = (events \ {e}) \cup o.sent
          /\ log' = Append(log, [ev |-> e, rc |-> o.rc, sent |-> o.sent,
                                 before |-> lps[e.to], mark |-> Len(trace)])
          /\ gvt' = gvt
    BY <2>3 DEF ProcessOp, Process, op, w, x
  <2>. QED
    BY <2>1, <2>5, <2>6, ProcessStep DEF s
<1>16. CASE NextWaitAll(e)
  <2>1. e.type = "MPI_OP_GET_NEXT" /\ e.type \in EventTypes /\ e.ts >= Now /\ gvt <= e.ts
    <3>1. Ready(e, "MPI_OP_GET_NEXT") /\ "MPI_OP_GET_NEXT" \in EventTypes
      BY <1>16 DEF NextWaitAll, GetNext, EventTypes, QuietEvents
    <3>. QED
      BY <1>7, <3>1
  <2>2. op.op \in {"WAITALL"}
    BY <1>16 DEF NextWaitAll, GetNext, op, OpOf
  <2>3. ProcessOp(e, codes_exec_mpi_wait_all(n, e, op))
    BY <1>16 DEF NextWaitAll, c, n, op
  <2> DEFINE w == codes_exec_mpi_wait_all(n, e, op)
  <2>4. OpOK(e, op, w, s, gvt)
    BY <1>1, <1>3, <1>4, <2>1, <2>2, WaitAllOutcome
  <2> HIDE DEF w
  <2> DEFINE x == [w EXCEPT !.rc = [mpi_op |-> op, saved |-> @]]
  <2>5. OutcomeOK(e, x, s, gvt)
    BY <1>4, <2>1, <2>4, OpOutcome
  <2> HIDE DEF x
  <2>6. PICK o \in {x} :
          /\ lps' = [lps EXCEPT ![e.to] = o.ns]
          /\ events' = (events \ {e}) \cup o.sent
          /\ log' = Append(log, [ev |-> e, rc |-> o.rc, sent |-> o.sent,
                                 before |-> lps[e.to], mark |-> Len(trace)])
          /\ gvt' = gvt
    BY <2>3 DEF ProcessOp, Process, op, w, x
  <2>. QED
    BY <2>1, <2>5, <2>6, ProcessStep DEF s
<1>17. CASE NextDelay(e)
  <2>1. e.type = "MPI_OP_GET_NEXT" /\ e.type \in EventTypes /\ e.ts >= Now /\ gvt <= e.ts
    <3>1. Ready(e, "MPI_OP_GET_NEXT") /\ "MPI_OP_GET_NEXT" \in EventTypes
      BY <1>17 DEF NextDelay, GetNext, EventTypes, QuietEvents
    <3>. QED
      BY <1>7, <3>1
  <2>2. op.op \in {"DELAY"}
    BY <1>17 DEF NextDelay, GetNext, op, OpOf
  <2>3. ProcessOp(e, codes_exec_comp_delay(n, e, op))
    BY <1>17 DEF NextDelay, c, n, op
  <2> DEFINE w == codes_exec_comp_delay(n, e, op)
  <2>4. OpOK(e, op, w, s, gvt)
    BY <1>1, <1>3, <1>4, <2>1, <2>2, DelayOutcome
  <2> HIDE DEF w
  <2> DEFINE x == [w EXCEPT !.rc = [mpi_op |-> op, saved |-> @]]
  <2>5. OutcomeOK(e, x, s, gvt)
    BY <1>4, <2>1, <2>4, OpOutcome
  <2> HIDE DEF x
  <2>6. PICK o \in {x} :
          /\ lps' = [lps EXCEPT ![e.to] = o.ns]
          /\ events' = (events \ {e}) \cup o.sent
          /\ log' = Append(log, [ev |-> e, rc |-> o.rc, sent |-> o.sent,
                                 before |-> lps[e.to], mark |-> Len(trace)])
          /\ gvt' = gvt
    BY <2>3 DEF ProcessOp, Process, op, w, x
  <2>. QED
    BY <2>1, <2>5, <2>6, ProcessStep DEF s
<1>18. CASE NextCounted(e)
  <2>1. e.type = "MPI_OP_GET_NEXT" /\ e.type \in EventTypes /\ e.ts >= Now /\ gvt <= e.ts
    <3>1. Ready(e, "MPI_OP_GET_NEXT") /\ "MPI_OP_GET_NEXT" \in EventTypes
      BY <1>18 DEF NextCounted, GetNext, EventTypes, QuietEvents
    <3>. QED
      BY <1>7, <3>1
  <2>2. op.op \in {"COL", "MARK", "WAITSOME", "WAITANY"}
    BY <1>18 DEF NextCounted, GetNext, op, OpOf
  <2>3. ProcessOp(e, counted_op(n, e))
    BY <1>18 DEF NextCounted, c, n, op
  <2> DEFINE w == counted_op(n, e)
  <2>4. OpOK(e, op, w, s, gvt)
    BY <1>1, <1>3, <1>4, <2>1, <2>2, CountedOutcome
  <2> HIDE DEF w
  <2> DEFINE x == [w EXCEPT !.rc = [mpi_op |-> op, saved |-> @]]
  <2>5. OutcomeOK(e, x, s, gvt)
    BY <1>4, <2>1, <2>4, OpOutcome
  <2> HIDE DEF x
  <2>6. PICK o \in {x} :
          /\ lps' = [lps EXCEPT ![e.to] = o.ns]
          /\ events' = (events \ {e}) \cup o.sent
          /\ log' = Append(log, [ev |-> e, rc |-> o.rc, sent |-> o.sent,
                                 before |-> lps[e.to], mark |-> Len(trace)])
          /\ gvt' = gvt
    BY <2>3 DEF ProcessOp, Process, op, w, x
  <2>. QED
    BY <2>1, <2>5, <2>6, ProcessStep DEF s
<1>19. CASE NextEnd(e)
  <2>1. e.type = "MPI_OP_GET_NEXT" /\ e.type \in EventTypes /\ e.ts >= Now /\ gvt <= e.ts
    <3>1. Ready(e, "MPI_OP_GET_NEXT") /\ "MPI_OP_GET_NEXT" \in EventTypes
      BY <1>19 DEF NextEnd, GetNext, EventTypes, QuietEvents
    <3>. QED
      BY <1>7, <3>1
  <2>2. op.op \in {"END"}
    BY <1>19 DEF NextEnd, GetNext, op, OpOf
  <2>3. ProcessOp(e, mpi_end(n, e))
    BY <1>19 DEF NextEnd, c, n, op
  <2> DEFINE w == mpi_end(n, e)
  <2>4. OpOK(e, op, w, s, gvt)
    BY <1>1, <1>3, <1>4, <2>1, <2>2, EndOutcome
  <2> HIDE DEF w
  <2> DEFINE x == [w EXCEPT !.rc = [mpi_op |-> op, saved |-> @]]
  <2>5. OutcomeOK(e, x, s, gvt)
    BY <1>4, <2>1, <2>4, OpOutcome
  <2> HIDE DEF x
  <2>6. PICK o \in {x} :
          /\ lps' = [lps EXCEPT ![e.to] = o.ns]
          /\ events' = (events \ {e}) \cup o.sent
          /\ log' = Append(log, [ev |-> e, rc |-> o.rc, sent |-> o.sent,
                                 before |-> lps[e.to], mark |-> Len(trace)])
          /\ gvt' = gvt
    BY <2>3 DEF ProcessOp, Process, op, w, x
  <2>. QED
    BY <2>1, <2>5, <2>6, ProcessStep DEF s
<1>20. CASE NbrFinish(e)
  <2>1. e.type = "CLI_NBR_FINISH" /\ e.type \in EventTypes /\ e.ts >= Now /\ gvt <= e.ts
    <3>1. Ready(e, "CLI_NBR_FINISH") /\ "CLI_NBR_FINISH" \in EventTypes
      BY <1>20 DEF NbrFinish, EventTypes, QuietEvents
    <3>. QED
      BY <1>7, <3>1
  <2>2. Process(e, handle_neighbor_finish(c, e))
    BY <1>20 DEF NbrFinish, c, n, op
  <2> DEFINE x == handle_neighbor_finish(c, e)
  <2>3. OutcomeOK(e, x, s, gvt)
    BY <1>1, <1>2, <2>1, NeighborOutcome
  <2> HIDE DEF x
  <2>4. PICK o \in {x} :
          /\ lps' = [lps EXCEPT ![e.to] = o.ns]
          /\ events' = (events \ {e}) \cup o.sent
          /\ log' = Append(log, [ev |-> e, rc |-> o.rc, sent |-> o.sent,
                                 before |-> lps[e.to], mark |-> Len(trace)])
          /\ gvt' = gvt
    BY <2>2 DEF Process, x
  <2>. QED
    BY <2>1, <2>3, <2>4, ProcessStep DEF s
<1>21. CASE OtherFinish(e)
  <2>1. e.type = "CLI_OTHER_FINISH" /\ e.type \in EventTypes /\ e.ts >= Now /\ gvt <= e.ts
    <3>1. Ready(e, "CLI_OTHER_FINISH") /\ "CLI_OTHER_FINISH" \in EventTypes
      BY <1>21 DEF OtherFinish, EventTypes, QuietEvents
    <3>. QED
      BY <1>7, <3>1
  <2>2. Process(e, handle_other_finish(c, e))
    BY <1>21 DEF OtherFinish, c, n, op
  <2> DEFINE x == handle_other_finish(c, e)
  <2>3. OutcomeOK(e, x, s, gvt)
    BY <1>1, <1>2, <2>1, OtherOutcome
  <2> HIDE DEF x
  <2>4. PICK o \in {x} :
          /\ lps' = [lps EXCEPT ![e.to] = o.ns]
          /\ events' = (events \ {e}) \cup o.sent
          /\ log' = Append(log, [ev |-> e, rc |-> o.rc, sent |-> o.sent,
                                 before |-> lps[e.to], mark |-> Len(trace)])
          /\ gvt' = gvt
    BY <2>2 DEF Process, x
  <2>. QED
    BY <2>1, <2>3, <2>4, ProcessStep DEF s
<1>26. 0 \in Nat /\ \A r \in Ranks : Destinations(r) \subseteq Ranks
  BY DEF Destinations, RanksOf
<1>22. CASE BckgndFin(e)
  <2>1. e.type = "CLI_BCKGND_FIN" /\ e.type \in EventTypes /\ e.ts >= Now /\ gvt <= e.ts
    <3>1. Ready(e, "CLI_BCKGND_FIN") /\ "CLI_BCKGND_FIN" \in EventTypes
      BY <1>22 DEF BckgndFin, EventTypes, QuietEvents
    <3>. QED
      BY <1>7, <3>1
  <2>2. Process(e, finish_bckgnd_traffic(c, e))
    BY <1>22 DEF BckgndFin, c, n, op
  <2> DEFINE x == finish_bckgnd_traffic(c, e)
  <2>3. OutcomeOK(e, x, s, gvt)
    BY <1>1, <1>2, <1>26, <2>1, BackgroundOutcome
  <2> HIDE DEF x
  <2>4. PICK o \in {x} :
          /\ lps' = [lps EXCEPT ![e.to] = o.ns]
          /\ events' = (events \ {e}) \cup o.sent
          /\ log' = Append(log, [ev |-> e, rc |-> o.rc, sent |-> o.sent,
                                 before |-> lps[e.to], mark |-> Len(trace)])
          /\ gvt' = gvt
    BY <2>2 DEF Process, x
  <2>. QED
    BY <2>1, <2>3, <2>4, ProcessStep DEF s
<1>23. CASE BckgndGen(e)
  <2>1. e.type = "CLI_BCKGND_GEN" /\ e.type \in EventTypes /\ e.ts >= Now /\ gvt <= e.ts
    <3>1. Ready(e, "CLI_BCKGND_GEN") /\ "CLI_BCKGND_GEN" \in EventTypes
      BY <1>23 DEF BckgndGen, EventTypes, QuietEvents
    <3>. QED
      BY <1>7, <3>1
  <2>2. PICK r \in Destinations(e.to), l \in Latencies.background :
          Process(e, gen_synthetic_tr(c, e, r, l))
    BY <1>23 DEF BckgndGen, c
  <2>a. r \in Ranks /\ l \in Nat
    BY <1>1, <1>26, LatencyFacts
  <2> DEFINE x == gen_synthetic_tr(c, e, r, l)
  <2>3. OutcomeOK(e, x, s, gvt)
    BY <1>1, <1>2, <2>1, <2>a, BackgroundOutcome
  <2> HIDE DEF x
  <2>4. PICK o \in {x} :
          /\ lps' = [lps EXCEPT ![e.to] = o.ns]
          /\ events' = (events \ {e}) \cup o.sent
          /\ log' = Append(log, [ev |-> e, rc |-> o.rc, sent |-> o.sent,
                                 before |-> lps[e.to], mark |-> Len(trace)])
          /\ gvt' = gvt
    BY <2>2 DEF Process, x
  <2>. QED
    BY <2>1, <2>3, <2>4, ProcessStep DEF s
<1>24. CASE NextAllreduce(e)
  <2>1. e.type = "MPI_OP_GET_NEXT" /\ e.type \in EventTypes /\ e.ts >= Now /\ gvt <= e.ts
    <3>1. Ready(e, "MPI_OP_GET_NEXT") /\ "MPI_OP_GET_NEXT" \in EventTypes
      BY <1>24 DEF NextAllreduce, GetNext, EventTypes, QuietEvents
    <3>. QED
      BY <1>7, <3>1
  <2>2. op.op \in {"ALLREDUCE"}
    BY <1>24 DEF NextAllreduce, GetNext, op, OpOf
  <2>3. ProcessOp(e, allreduce(n, e))
    BY <1>24 DEF NextAllreduce, c, n, op
  <2> DEFINE w == allreduce(n, e)
  <2>4. OpOK(e, op, w, s, gvt)
    BY <1>1, <1>3, <1>4, <2>1, <2>2, AllreduceOutcome
  <2> HIDE DEF w
  <2> DEFINE x == [w EXCEPT !.rc = [mpi_op |-> op, saved |-> @]]
  <2>5. OutcomeOK(e, x, s, gvt)
    BY <1>4, <2>1, <2>4, OpOutcome
  <2> HIDE DEF x
  <2>6. PICK o \in {x} :
          /\ lps' = [lps EXCEPT ![e.to] = o.ns]
          /\ events' = (events \ {e}) \cup o.sent
          /\ log' = Append(log, [ev |-> e, rc |-> o.rc, sent |-> o.sent,
                                 before |-> lps[e.to], mark |-> Len(trace)])
          /\ gvt' = gvt
    BY <2>3 DEF ProcessOp, Process, op, w, x
  <2>. QED
    BY <2>1, <2>5, <2>6, ProcessStep DEF s
<1>25. CASE BckgndArrive(e)
  <2>1. e.type = "CLI_BCKGND_ARRIVE" /\ e.type \in EventTypes /\ e.ts >= Now /\ gvt <= e.ts
    <3>1. Ready(e, "CLI_BCKGND_ARRIVE") /\ "CLI_BCKGND_ARRIVE" \in EventTypes
      BY <1>25 DEF BckgndArrive, EventTypes, QuietEvents
    <3>. QED
      BY <1>7, <3>1
  <2>2. Process(e, arrive_syn_tr(c, e))
    BY <1>25 DEF BckgndArrive, c, n, op
  <2> DEFINE x == arrive_syn_tr(c, e)
  <2>3. OutcomeOK(e, x, s, gvt)
    BY <1>1, <1>2, <1>26, <2>1, BackgroundOutcome
  <2> HIDE DEF x
  <2>4. PICK o \in {x} :
          /\ lps' = [lps EXCEPT ![e.to] = o.ns]
          /\ events' = (events \ {e}) \cup o.sent
          /\ log' = Append(log, [ev |-> e, rc |-> o.rc, sent |-> o.sent,
                                 before |-> lps[e.to], mark |-> Len(trace)])
          /\ gvt' = gvt
    BY <2>2 DEF Process, x
  <2>. QED
    BY <2>1, <2>3, <2>4, ProcessStep DEF s
<1>. QED
  BY <1>8, <1>9, <1>10, <1>11, <1>12, <1>13, <1>14, <1>15, <1>16,
     <1>17, <1>18, <1>19, <1>20, <1>21, <1>22, <1>23, <1>24, <1>25

LEMMA StepGood == IndInv /\ [Next]_rossVars => IndInv'
<1> SUFFICES ASSUME IndInv, [Next]_rossVars PROVE IndInv'
  OBVIOUS
<1>1. CASE HandleEvent
  <2>1. PICK e \in events :
          \/ SendArrived(e) \/ RendArrived(e) \/ RendAckArrived(e) \/ SendArrivedCb(e)
          \/ SendPosted(e)
          \/ NextSend(e) \/ NextRecv(e) \/ NextWait(e) \/ NextWaitAll(e)
          \/ NextDelay(e) \/ NextCounted(e) \/ NextAllreduce(e) \/ NextEnd(e)
          \/ NbrFinish(e) \/ OtherFinish(e) \/ BckgndFin(e) \/ BckgndGen(e) \/ BckgndArrive(e)
    BY <1>1 DEF HandleEvent
  <2>. QED
    BY <2>1, HandleStep
<1>2. CASE Undo(reverse)
  <2>1. /\ log # << >>
        /\ lps' = [lps EXCEPT ![LastEntry.ev.to] = reverse(lps[LastEntry.ev.to], LastEntry)]
        /\ events' = (events \ LastEntry.sent) \cup {LastEntry.ev}
        /\ log' = SubSeq(log, 1, Len(log) - 1)
        /\ gvt' = gvt
    BY <1>2 DEF Undo, Reversed
  <2>2. Good(log, lps, events, gvt)
    BY DEF IndInv
  <2>3. Good(SubSeq(log, 1, Len(log) - 1),
             [lps EXCEPT ![LastEntry.ev.to] = reverse(lps[LastEntry.ev.to], LastEntry)],
             (events \ LastEntry.sent) \cup {LastEntry.ev}, gvt)
    BY <2>1, <2>2, UndoGood DEF LastEntry
  <2>. QED
    BY <2>1, <2>3 DEF IndInv
<1>3. CASE Commit
  <2>1. log # << >> /\ log' = Tail(log) /\ gvt' = Head(log).ev.ts /\ lps' = lps /\ events' = events
    BY <1>3 DEF Commit
  <2>2. Good(Tail(log), lps, events, Head(log).ev.ts)
    BY <2>1, CommitGood DEF IndInv
  <2>. QED
    BY <2>1, <2>2 DEF IndInv
<1>4. CASE Terminated \/ UNCHANGED rossVars
  <2>1. lps' = lps /\ events' = events /\ log' = log /\ gvt' = gvt
    BY <1>4 DEF Terminated, rossVars
  <2>. QED
    BY <2>1 DEF IndInv
<1>. QED
  BY <1>1, <1>2, <1>3, <1>4 DEF Next

LEMMA GoodNoMissedMatch == IndInv => NoMissedMatch
<1> SUFFICES ASSUME IndInv, NEW r \in Ranks, NEW m \in ToSet(lps[r].arrival_queue),
                    NEW q \in ToSet(lps[r].pending_recvs_queue)
             PROVE  ~Matches(q, m)
  BY DEF NoMissedMatch
<1>1. IsLP(lps[r]) /\ NoMatch(lps[r])
  BY DEF IndInv, Good, RanksOK
<1>2. /\ DOMAIN lps[r].arrival_queue = 1 .. Len(lps[r].arrival_queue)
      /\ DOMAIN lps[r].pending_recvs_queue = 1 .. Len(lps[r].pending_recvs_queue)
  BY <1>1, LenProperties DEF IsLP
<1>3. PICK i \in 1 .. Len(lps[r].arrival_queue) : m = lps[r].arrival_queue[i]
  BY <1>2 DEF ToSet
<1>4. PICK j \in 1 .. Len(lps[r].pending_recvs_queue) : q = lps[r].pending_recvs_queue[j]
  BY <1>2 DEF ToSet
<1>. QED
  BY <1>1, <1>3, <1>4 DEF NoMatch

\* Messages that have arrived and receives that are posted find each other: for
\* every number of ranks, programs and latencies no message of
\* update_arrival_queue is left in the queue of a rank beside a receive of
\* codes_exec_mpi_recv that fits it, whatever was rolled back in between.
THEOREM NoMatchIsMissed == Spec => []NoMissedMatch
<1>1. Init => IndInv
  BY InitGood
<1>2. IndInv /\ [Next]_rossVars => IndInv'
  BY StepGood
<1>3. IndInv => NoMissedMatch
  BY GoodNoMissedMatch
<1>. QED
  BY <1>1, <1>2, <1>3, PTL DEF Spec
=============================================================================
