------------------------- MODULE ModelNetHistoryProofs -------------------------
(***************************************************************************)
(* What the model-net base LP has done is right in every timeline: copies  *)
(* on one copy queue do not overlap, packets cover their messages, levels  *)
(* are served by priority and fairly within a level, and messages start in *)
(* the order in which the NIC took them.                                   *)
(*                                                                         *)
(* The properties relate the trace to the queues, to the clocks and to the *)
(* events under way.  That relation (Good) is kept for the present and for *)
(* the position before every event of the list of processed events, as a   *)
(* rollback makes such a position the present one.                         *)
(***************************************************************************)
EXTENDS ModelNetTWProofs, FiniteSetTheorems

-----------------------------------------------------------------------------
(* A position of the timeline: state s, trace tr, the messages on their    *)
(* way to the scheduler L, the messages that have arrived A.               *)

\* where the records of a kind about m are in tr
Recs(tr, kind, m) == {i \in 1 .. Len(tr) : tr[i].kind = kind /\ tr[i].req = m}

\* messages k and m are served by the same level of the same queue
Rivals(k, m) == queue_of(k) = queue_of(m) /\ prio_of(k) = prio_of(m)

\* the list m is queued in, and where it is in it
ListOf(s, m) == s.sched[queue_of(m)][prio_of(m)].reqs
Slots(s, m) == {a \in 1 .. Len(ListOf(s, m)) : ListOf(s, m)[a].req = m}
Waits(s, m) == Slots(s, m) # {}
Ahead(s, k, m) == Rivals(k, m) /\ \E a \in Slots(s, k), b \in Slots(s, m) : a < b

\* a request is in the list of its own queue and level, and once only
ListsOK(s) ==
  /\ \A q \in Queues, l \in Levels : \A a \in 1 .. Len(s.sched[q][l].reqs) :
       LET m == s.sched[q][l].reqs[a].req IN queue_of(m) = q /\ prio_of(m) = l
  /\ \A m \in Msgs : \A a, b \in Slots(s, m) : a = b

RecordsOK(tr, A) ==
  \A i \in 1 .. Len(tr) :
    tr[i].req \in A /\ (tr[i].kind # "copy" => tr[i].q = queue_of(tr[i].req))

CopiesOK(s, tr) ==
  /\ \A i \in 1 .. Len(tr) :
       tr[i].kind = "copy" => tr[i].q \in CopyQueues /\ tr[i].at <= s.copy_avail[tr[i].q]
  /\ \A i, j \in 1 .. Len(tr) :
       /\ tr[i].kind = "copy" /\ tr[j].kind = "copy" /\ i < j /\ tr[i].q = tr[j].q
       => tr[i].at + tr[j].size * CnDelay <= tr[j].at

\* a message waits from the record of its queueing to its last packet
WaitingOK(s, tr) ==
  \A m \in Msgs :
    /\ Waits(s, m) <=> /\ Recs(tr, "queued", m) # {}
                       /\ \A p \in Recs(tr, "packet", m) : tr[p].last = FALSE
    /\ \A i, j \in Recs(tr, "queued", m) : i = j
    /\ \A p \in Recs(tr, "packet", m) : \E i \in Recs(tr, "queued", m) : i < p

\* the packets of a message, and what is left of it
TilesOK(s, tr) ==
  \A m \in Msgs :
    /\ \A i \in Recs(tr, "packet", m) :
         LET k == Cardinality({j \in Recs(tr, "packet", m) : j < i})
         IN  /\ tr[i].offset = k * PacketSize
             /\ tr[i].last <=> /\ tr[i].offset + tr[i].size = Req[m].msg_size
                               /\ k + 1 = Cardinality(Recs(tr, "packet", m))
             /\ ~tr[i].last => tr[i].size = PacketSize
    /\ \A a \in Slots(s, m) :
         ListOf(s, m)[a].rem =
           Req[m].msg_size - Cardinality(Recs(tr, "packet", m)) * PacketSize

\* a message on its way has not been queued; from another LP, nothing was done with it
LiveOK(tr, L, A) ==
  /\ \A f \in L : /\ f \in Event /\ f.type = "NEW_MSG" /\ f.m \in Msgs /\ f.m \in A
                  /\ Recs(tr, "queued", f.m) = {}
                  /\ f.src = 0 => \A i \in 1 .. Len(tr) : tr[i].req # f.m
                  /\ f.src # 0 => f.isQueueReq = FALSE /\ ~Req[f.m].loopback
  /\ \A f, g \in L : f.m = g.m => f = g

\* The NIC takes one request after the other, each sends its message on at the time
\* it was taken, and so messages are queued in that order.
NicsOK(s, tr, L) ==
  /\ \A m \in Msgs : \A i \in Recs(tr, "nic", m) :
       /\ tr[i].at <= s.next_avail
       /\ \A j \in Recs(tr, "nic", m) : i = j
       /\ \/ Recs(tr, "queued", m) # {}
          \/ \E f \in L : f.m = m /\ f.src # 0 /\ f.ts = tr[i].at
  /\ \A f \in L : f.src # 0 => \E i \in Recs(tr, "nic", f.m) : tr[i].at = f.ts
  /\ \A k, m \in Msgs : \A i \in Recs(tr, "nic", k), j \in Recs(tr, "nic", m) :
       i < j => /\ tr[i].at < tr[j].at
                /\ \A b \in Recs(tr, "queued", m) : \E a \in Recs(tr, "queued", k) : a < b
                /\ Rivals(k, m) =>
                     \A b \in Recs(tr, "packet", m) : \E a \in Recs(tr, "packet", k) : a < b

\* A list is in an order that makes service fair: requests without a packet wait in
\* the order in which they were queued;
StartOK(s, tr) ==
  \A k, m \in Msgs : Ahead(s, k, m) /\ Recs(tr, "packet", m) = {} =>
    \A b \in Recs(tr, "queued", m) : \E a \in Recs(tr, "queued", k) : a < b

\* fcfs: only the first request has packets, and it was the last to be served;
FcfsOK(s, tr) ==
  \A k, m \in Msgs : k # m /\ Rivals(k, m) =>
    /\ Ahead(s, k, m) => Recs(tr, "packet", m) = {}
    /\ Waits(s, m) => \A i \in Recs(tr, "packet", m), c \in Recs(tr, "packet", k) : c < i
    /\ \A i, j \in Recs(tr, "packet", m), c \in Recs(tr, "packet", k) :
         i < j => c < i \/ c > j

\* rr: a request that has been there since before packet i of another one is ahead
\* of that one, or has had its turn after i.
RrOK(s, tr) ==
  \A k, m \in Msgs : k # m /\ Rivals(k, m) =>
    \A i \in Recs(tr, "packet", m), c \in Recs(tr, "queued", k) : c < i =>
      /\ Waits(s, k) /\ Waits(s, m) =>
           Ahead(s, k, m) \/ \E p \in Recs(tr, "packet", k) : i < p
      /\ \A j \in Recs(tr, "packet", m) :
           i < j /\ (Waits(s, k) \/ \E p \in Recs(tr, "packet", k) : j < p) =>
             \E p \in Recs(tr, "packet", k) : i < p /\ p < j

ServiceOK(s, tr) ==
  /\ StartOK(s, tr)
  /\ Discipline = "fcfs" => FcfsOK(s, tr)
  /\ Discipline = "rr" => RrOK(s, tr)

Good(s, tr, L, A) ==
  /\ ListsOK(s) /\ RecordsOK(tr, A) /\ CopiesOK(s, tr) /\ WaitingOK(s, tr)
  /\ TilesOK(s, tr) /\ LiveOK(tr, L, A) /\ NicsOK(s, tr, L) /\ ServiceOK(s, tr)

\* the positions: the i-th is the one before the i-th entry of the log, the last
\* one the present
StateAt(i) == IF i = Len(log) + 1 THEN ns ELSE log[i].before
TraceAt(i) == IF i = Len(log) + 1 THEN trace ELSE SubSeq(trace, 1, log[i].mark)
LiveAt(i) == {f \in Around : /\ f.type = "NEW_MSG"
                             /\ f.src < committed + i
                             /\ \A j \in 1 .. (i - 1) : f # log[j].ev}

PastInv ==
  \A i \in 1 .. (Len(log) + 1) : Good(StateAt(i), TraceAt(i), LiveAt(i), arrived)

-----------------------------------------------------------------------------
(* The trace grows by one record.                                          *)

LEMMA GrowFacts ==
  ASSUME NEW tr \in Seq(Did_), NEW d \in Did_
  PROVE  /\ Append(tr, d) \in Seq(Did_) /\ Len(tr) \in Nat /\ Len(Append(tr, d)) = Len(tr) + 1
         /\ \A i \in 1 .. Len(tr) : Append(tr, d)[i] = tr[i]
         /\ Append(tr, d)[Len(tr) + 1] = d
         /\ \A i : i \in 1 .. (Len(tr) + 1) <=> i \in 1 .. Len(tr) \/ i = Len(tr) + 1
         /\ \A i \in 1 .. Len(tr) : i # Len(tr) + 1 /\ i < Len(tr) + 1
<1>1. Len(tr) \in Nat
  BY LenProperties
<1>2. /\ Append(tr, d) \in Seq(Did_) /\ Len(Append(tr, d)) = Len(tr) + 1
      /\ (\A i \in 1 .. Len(tr) : Append(tr, d)[i] = tr[i]) /\ Append(tr, d)[Len(tr) + 1] = d
  BY AppendProperties
<1>3. /\ \A i : i \in 1 .. (Len(tr) + 1) <=> i \in 1 .. Len(tr) \/ i = Len(tr) + 1
      /\ \A i \in 1 .. Len(tr) : i # Len(tr) + 1 /\ i < Len(tr) + 1
  BY <1>1
<1>. QED
  BY <1>1, <1>2, <1>3

\* u is trace tr with one more record, d, at c
OneMore(tr, d, u, c) ==
  /\ c \in Nat /\ Len(u) = c /\ u[c] = d /\ u \in Seq(Did_)
  /\ \A i \in 1 .. c : i = c \/ i \in 1 .. Len(tr)
  /\ \A i \in 1 .. Len(tr) : u[i] = tr[i] /\ i < c /\ i \in Nat
  /\ \A kind, m : \A i \in Recs(tr, kind, m) : i \in 1 .. Len(tr) /\ tr[i] \in Did_
  /\ \A kind, m : \A i : i \in Recs(u, kind, m) <=>
       i \in Recs(tr, kind, m) \/ (i = c /\ d.kind = kind /\ d.req = m)

LEMMA Grow ==
  ASSUME NEW tr \in Seq(Did_), NEW d \in Did_
  PROVE  OneMore(tr, d, Append(tr, d), Len(tr) + 1)
<1> DEFINE u == Append(tr, d)
           n == Len(tr)
<1>1. /\ n \in Nat /\ Len(u) = n + 1 /\ (\A i \in 1 .. n : u[i] = tr[i]) /\ u[n + 1] = d
      /\ u \in Seq(Did_)
      /\ \A i : i \in 1 .. (n + 1) <=> i \in 1 .. n \/ i = n + 1
      /\ \A i \in 1 .. n : i # n + 1 /\ i < n + 1
  BY GrowFacts
<1> HIDE DEF u
<1>2. \A kind, m : \A i \in Recs(tr, kind, m) : i \in 1 .. n /\ tr[i] \in Did_
  BY ElementOfSeq DEF Recs
<1>3. ASSUME NEW kind, NEW m, NEW i
      PROVE  i \in Recs(u, kind, m) <=> i \in Recs(tr, kind, m) \/ (i = n + 1 /\ d.kind = kind /\ d.req = m)
  <2>1. i \in Recs(u, kind, m) <=> i \in 1 .. (n + 1) /\ u[i].kind = kind /\ u[i].req = m
    BY <1>1 DEF Recs
  <2>2. i \in Recs(tr, kind, m) <=> i \in 1 .. n /\ tr[i].kind = kind /\ tr[i].req = m
    BY DEF Recs
  <2>3. CASE i = n + 1
    BY <1>1, <2>1, <2>2, <2>3
  <2>4. CASE i # n + 1
    BY <1>1, <2>1, <2>2, <2>4
  <2>. QED
    BY <2>3, <2>4
<1>4. n + 1 \in Nat /\ \A i \in 1 .. n : i \in Nat
  BY <1>1
<1> HIDE DEF n
<1>5. OneMore(tr, d, u, n + 1)
  BY <1>1, <1>2, <1>3, <1>4 DEF OneMore, n
<1>. QED
  BY <1>5 DEF u, n

-----------------------------------------------------------------------------
(* The lists of waiting requests.                                          *)

\* N is the list R after its first request was served
ServedList(R, N) ==
  LET n == Len(R)
      last == is_last_packet(R[1])
  IN  /\ n \in Nat \ {0} /\ R[1] \in QItem /\ R[1].req \in Msgs /\ R[1].rem \in Nat
      /\ last => Len(N) = n - 1 /\ \A a \in 1 .. (n - 1) : N[a] = R[a + 1]
      /\ ~last /\ Discipline # "rr" =>
           /\ Len(N) = n /\ N[1].req = R[1].req /\ N[1].rem = R[1].rem - PacketSize
           /\ \A a \in 2 .. n : N[a] = R[a]
      /\ ~last /\ Discipline = "rr" =>
           /\ Len(N) = n /\ N[n].req = R[1].req /\ N[n].rem = R[1].rem - PacketSize
           /\ \A a \in 1 .. (n - 1) : N[a] = R[a + 1]

LEMMA NextList ==
  ASSUME NEW q \in Queue, QueueOK(q), q.reqs # << >>
  PROVE  ServedList(q.reqs, QueueNext(q).reqs)
<1> DEFINE R == q.reqs
           N == QueueNext(q).reqs
           n == Len(R)
<1> SUFFICES /\ n \in Nat \ {0} /\ R[1] \in QItem /\ R[1].req \in Msgs /\ R[1].rem \in Nat
             /\ is_last_packet(R[1]) => Len(N) = n - 1 /\ \A a \in 1 .. (n - 1) : N[a] = R[a + 1]
             /\ ~is_last_packet(R[1]) /\ Discipline # "rr" =>
                  /\ Len(N) = n /\ N[1].req = R[1].req /\ N[1].rem = R[1].rem - PacketSize
                  /\ \A a \in 2 .. n : N[a] = R[a]
             /\ ~is_last_packet(R[1]) /\ Discipline = "rr" =>
                  /\ Len(N) = n /\ N[n].req = R[1].req /\ N[n].rem = R[1].rem - PacketSize
                  /\ \A a \in 1 .. (n - 1) : N[a] = R[a + 1]
  BY DEF ServedList
<1>0. R = q.reqs /\ N = QueueNext(q).reqs /\ n = Len(R)
  OBVIOUS
<1> HIDE DEF R, N, n
<1> DEFINE h == R[1]
           g == [h EXCEPT !.rem = @ - PacketSize]
           t == [R EXCEPT ![1] = g]
<1>1. /\ R \in Seq(QItem) /\ n \in Nat \ {0} /\ q.queue_len \in Nat \ {0} /\ R # << >>
      /\ Head(R) = h /\ h \in QItem /\ q = [reqs |-> R, queue_len |-> q.queue_len]
  BY <1>0, HeadFacts
<1>2. PacketSize \in Nat \ {0} /\ h.rem \in Nat /\ h.req \in Msgs
      /\ h = [req |-> h.req, rem |-> h.rem]
  BY <1>1, SchedAssumption DEF QItem
<1>3. CASE is_last_packet(h)
  <2>1. fcfs_next(q) = [reqs |-> Tail(R), queue_len |-> q.queue_len - 1]
    BY <1>0, <1>1, <1>3 DEF fcfs_next
  <2>2. N = Tail(R)
    BY <1>0, <1>1, <1>3, <2>1 DEF QueueNext, rr_next
  <2>3. Len(N) = n - 1 /\ \A a \in 1 .. (n - 1) : N[a] = R[a + 1]
    BY <1>0, <1>1, <2>2, HeadTailProperties
  <2>. QED
    BY <1>1, <1>2, <1>3, <2>3
<1>4. CASE ~is_last_packet(h)
  <2>1. g.req = h.req /\ g.rem = h.rem - PacketSize /\ g \in QItem
    <3>1. g = [req |-> h.req, rem |-> h.rem - PacketSize]
      BY <1>2
    <3>2. h.rem - PacketSize \in Nat
      BY <1>2, <1>4 DEF is_last_packet
    <3>. QED
      BY <1>2, <3>1, <3>2 DEF QItem
  <2>2. fcfs_next(q) = [reqs |-> t, queue_len |-> q.queue_len]
    BY <1>0, <1>1, <1>4 DEF fcfs_next
  <2> HIDE DEF g
  <2>3. /\ t \in Seq(QItem) /\ Len(t) = n
        /\ \A j \in 1 .. n : t[j] = IF j = 1 THEN g ELSE R[j]
    BY <1>0, <1>1, <2>1, ExceptSeq
  <2> HIDE DEF t
  <2>4. 1 \in 1 .. n /\ n \in 1 .. n
    BY <1>1
  <2>5. CASE Discipline # "rr"
    <3>1. N = t
      BY <1>0, <2>2, <2>5 DEF QueueNext
    <3>2. t[1] = g /\ \A a \in 2 .. n : a \in 1 .. n /\ a # 1
      BY <1>1, <2>3, <2>4
    <3>. QED
      BY <1>1, <1>2, <1>4, <2>1, <2>3, <2>5, <3>1, <3>2
  <2>6. CASE Discipline = "rr"
    <3>1. N = Append(Tail(t), Head(t))
      <4>1. QueueNext(q) = RotateBack(fcfs_next(q))
        BY <1>0, <1>1, <1>4, <2>6 DEF QueueNext, rr_next
      <4>. QED
        BY <1>0, <2>2, <4>1 DEF RotateBack
    <3>2. t # << >> /\ Head(t) = g
      <4>1. t # << >>
        BY <1>1, <2>3, EmptySeq
      <4>2. Head(t) = t[1]
        BY <2>3, <4>1
      <4>. QED
        BY <2>3, <2>4, <4>1, <4>2
    <3>3. /\ Tail(t) \in Seq(QItem) /\ Len(Tail(t)) = n - 1
          /\ \A i \in 1 .. (n - 1) : Tail(t)[i] = t[i + 1]
      BY <2>3, <3>2, HeadTailProperties
    <3>4. /\ Len(N) = (n - 1) + 1 /\ N[(n - 1) + 1] = g
          /\ \A i \in 1 .. (n - 1) : N[i] = Tail(t)[i]
      BY <2>1, <3>1, <3>2, <3>3, AppendProperties
    <3>5. (n - 1) + 1 = n /\ \A i \in 1 .. (n - 1) : i + 1 \in 1 .. n /\ i + 1 # 1
      BY <1>1
    <3>6. \A i \in 1 .. (n - 1) : N[i] = R[i + 1]
      BY <2>3, <3>3, <3>4, <3>5
    <3>. QED
      BY <1>1, <1>2, <1>4, <2>1, <2>6, <3>4, <3>5, <3>6
  <2>. QED
    BY <2>5, <2>6
<1>. QED
  BY <1>3, <1>4

LEMMA ListFacts ==
  ASSUME NEW s \in State, NEW m \in Msgs
  PROVE  /\ queue_of(m) \in Queues /\ prio_of(m) \in Levels
         /\ s.sched \in [Queues -> SchedState] /\ s.sched[queue_of(m)] \in SchedState
         /\ s.sched[queue_of(m)][prio_of(m)] \in Queue
         /\ ListOf(s, m) \in Seq(QItem) /\ Len(ListOf(s, m)) \in Nat
         /\ \A a \in 1 .. Len(ListOf(s, m)) : ListOf(s, m)[a] \in QItem
<1>1. queue_of(m) \in Queues /\ prio_of(m) \in Levels
  BY QueueFacts, PrioLevel
<1>2. s.sched \in [Queues -> SchedState]
  BY StateFacts
<1>3. s.sched[queue_of(m)] \in SchedState /\ s.sched[queue_of(m)][prio_of(m)] \in Queue
  BY <1>1, <1>2 DEF SchedState
<1>4. ListOf(s, m) \in Seq(QItem)
  BY <1>3 DEF ListOf, Queue
<1>5. Len(ListOf(s, m)) \in Nat /\ \A a \in 1 .. Len(ListOf(s, m)) : ListOf(s, m)[a] \in QItem
  BY <1>4, LenProperties, ElementOfSeq
<1>. QED
  BY <1>1, <1>2, <1>3, <1>4, <1>5

\* message m0 is added to the scheduler
AddEffect(s, t, m0) ==
  /\ ListsOK(t)
  /\ \A m \in Msgs : Waits(t, m) <=> Waits(s, m) \/ m = m0
  /\ \A k, m \in Msgs :
       Ahead(t, k, m) <=> Ahead(s, k, m) \/ (m = m0 /\ Waits(s, k) /\ Rivals(k, m0))
  /\ \A a \in Slots(t, m0) : ListOf(t, m0)[a].rem = Req[m0].msg_size
  /\ \A m \in Msgs : m # m0 => \A a \in Slots(t, m) :
       a \in Slots(s, m) /\ ListOf(t, m)[a].rem = ListOf(s, m)[a].rem

LEMMA AddView ==
  ASSUME NEW s \in State, NEW t, NEW m0 \in Msgs, ListsOK(s), ~Waits(s, m0),
         t.sched = [s.sched EXCEPT ![queue_of(m0)] = sched_add(m0, s.sched[queue_of(m0)])]
  PROVE  AddEffect(s, t, m0)
<1> DEFINE q == queue_of(m0)
           l == prio_of(m0)
           it == [req |-> m0, rem |-> Req[m0].msg_size]
           R == s.sched[q][l].reqs
           n == Len(R)
           N == Append(R, it)
<1>1. /\ q \in Queues /\ l \in Levels /\ R \in Seq(QItem) /\ n \in Nat
      /\ s.sched[q] \in SchedState /\ s.sched[q][l] \in Queue
  BY ListFacts DEF ListOf
<1>2. it \in QItem /\ it.req = m0 /\ it.rem = Req[m0].msg_size
  BY ReqFacts DEF QItem
<1>3. sched_add(m0, s.sched[q]) = [s.sched[q] EXCEPT ![l] = fcfs_add(m0, s.sched[q][l])]
  BY DEF sched_add
<1>4. fcfs_add(m0, s.sched[q][l]).reqs = N
  BY DEF fcfs_add
<1> HIDE DEF it
<1>5. /\ Len(N) = n + 1 /\ N[n + 1] = it /\ \A a \in 1 .. n : N[a] = R[a]
  <2>1. R \in Seq(QItem) /\ it \in QItem
    BY <1>1, <1>2
  <2> HIDE DEF R
  <2>. QED
    BY <2>1, AppendProperties
<1> HIDE DEF q, l, R, n, N
<1>6. \A j \in Queues, k \in Levels :
        t.sched[j][k].reqs = IF j = q /\ k = l THEN N ELSE s.sched[j][k].reqs
  <2>1. t.sched = [s.sched EXCEPT ![q] = [s.sched[q] EXCEPT ![l] = fcfs_add(m0, s.sched[q][l])]]
    BY <1>3 DEF q
  <2> DEFINE w == fcfs_add(m0, s.sched[q][l])
  <2>2. t.sched = [s.sched EXCEPT ![q] = [s.sched[q] EXCEPT ![l] = w]]
    BY <2>1
  <2>3. w.reqs = N
    BY <1>4
  <2> HIDE DEF w
  <2>4. s.sched \in [Queues -> SchedState] /\ q \in Queues /\ l \in Levels
    BY <1>1, StateFacts
  <2> DEFINE S == s.sched
             T == t.sched
             U == [S[q] EXCEPT ![l] = w]
  <2>5. S \in [Queues -> SchedState] /\ T = [S EXCEPT ![q] = U]
    BY <2>2, <2>4
  <2>6. U = [S[q] EXCEPT ![l] = w]
    OBVIOUS
  <2> HIDE DEF S, T, U
  <2>7. T[q][l] = w /\ \A j \in Queues, k \in Levels : ~(j = q /\ k = l) => T[j][k] = S[j][k]
    <3>1. DOMAIN S[q] = Levels
      BY <2>4, <2>5 DEF SchedState
    <3>2. U[l] = w /\ \A k \in Levels : k # l => U[k] = S[q][k]
      BY <2>4, <2>6, <3>1
    <3>3. T[q] = U /\ \A j \in Queues : j # q => T[j] = S[j]
      BY <2>4, <2>5
    <3>. QED
      BY ONLY <3>2, <3>3
  <2>8. T[q][l].reqs = N
    BY <2>3, <2>7
  <2>9. \A j \in Queues, k \in Levels : ~(j = q /\ k = l) => T[j][k].reqs = S[j][k].reqs
    BY <2>7
  <2>10. \A j \in Queues, k \in Levels : T[j][k].reqs = IF j = q /\ k = l THEN N ELSE S[j][k].reqs
    BY ONLY <2>8, <2>9
  <2>. QED
    BY <2>10 DEF S, T
<1>7. /\ \A a : a \in 1 .. (n + 1) <=> a \in 1 .. n \/ a = n + 1
      /\ \A a \in 1 .. n : a < n + 1 /\ a # n + 1
  BY <1>1
<1>8. \A m \in Msgs : Rivals(m, m0) => ListOf(s, m) = R /\ ListOf(t, m) = N
  BY <1>1, <1>6 DEF ListOf, Rivals, R, q, l
<1>9. \A m \in Msgs : ~Rivals(m, m0) => ListOf(t, m) = ListOf(s, m)
  <2> SUFFICES ASSUME NEW m \in Msgs, ~Rivals(m, m0) PROVE ListOf(t, m) = ListOf(s, m)
    OBVIOUS
  <2>1. queue_of(m) \in Queues /\ prio_of(m) \in Levels
    BY ListFacts
  <2>. QED
    BY <1>6, <2>1 DEF ListOf, Rivals, q, l
<1>10. ASSUME NEW m \in Msgs
       PROVE  \A a : a \in Slots(t, m) <=> a \in Slots(s, m) \/ (a = n + 1 /\ m = m0)
  <2>1. CASE Rivals(m, m0)
    <3>1. \A a : a \in Slots(t, m) <=> a \in 1 .. (n + 1) /\ N[a].req = m
      BY <1>5, <1>8, <2>1 DEF Slots
    <3>2. \A a : a \in Slots(s, m) <=> a \in 1 .. n /\ R[a].req = m
      BY <1>8, <2>1 DEF Slots, n
    <3>. QED
      BY <1>2, <1>5, <1>7, <3>1, <3>2
  <2>2. CASE ~Rivals(m, m0)
    <3>1. m # m0
      BY <2>2 DEF Rivals
    <3>. QED
      BY <1>9, <2>2, <3>1 DEF Slots
  <2>. QED
    BY <2>1, <2>2
<1>11. \A m \in Msgs : Rivals(m, m0) => \A a \in Slots(s, m) : a \in 1 .. n
  BY <1>8 DEF Slots, n
<1>12. Rivals(m0, m0) /\ Slots(s, m0) = {}
  BY DEF Rivals, Waits
<1>13. ListsOK(t)
  <2>1. ASSUME NEW j \in Queues, NEW k \in Levels, NEW a \in 1 .. Len(t.sched[j][k].reqs)
        PROVE  /\ queue_of(t.sched[j][k].reqs[a].req) = j
               /\ prio_of(t.sched[j][k].reqs[a].req) = k
    <3>1. CASE j = q /\ k = l
      <4>1. t.sched[j][k].reqs = N /\ a \in 1 .. (n + 1)
        BY <1>5, <1>6, <3>1
      <4>2. CASE a = n + 1
        BY <1>2, <1>5, <3>1, <4>1, <4>2 DEF q, l
      <4>3. CASE a \in 1 .. n
        <5>1. N[a] = R[a]
          BY <1>5, <4>3
        <5>2. queue_of(R[a].req) = q /\ prio_of(R[a].req) = l
          BY <1>1, <4>3 DEF ListsOK, R, n
        <5>. QED
          BY <3>1, <4>1, <5>1, <5>2
      <4>. QED
        BY <1>7, <4>1, <4>2, <4>3
    <3>2. CASE ~(j = q /\ k = l)
      <4>1. t.sched[j][k].reqs = s.sched[j][k].reqs
        BY <1>6, <3>2
      <4>. QED
        BY <4>1 DEF ListsOK
    <3>. QED
      BY <3>1, <3>2
  <2>2. ASSUME NEW m \in Msgs, NEW a \in Slots(t, m), NEW b \in Slots(t, m) PROVE a = b
    <3>1. \A c, d \in Slots(s, m) : c = d
      BY DEF ListsOK
    <3>. QED
      BY <1>10, <1>12, <3>1
  <2>. QED
    BY <2>1, <2>2 DEF ListsOK
<1>14. \A m \in Msgs : Waits(t, m) <=> Waits(s, m) \/ m = m0
  BY <1>10 DEF Waits
<1>15. ASSUME NEW k \in Msgs, NEW m \in Msgs
       PROVE  Ahead(t, k, m) <=> Ahead(s, k, m) \/ (m = m0 /\ Waits(s, k) /\ Rivals(k, m0))
  <2>1. CASE ~Rivals(k, m)
    BY <2>1 DEF Ahead
  <2>2. CASE Rivals(k, m) /\ m # m0 /\ k # m0
    BY <1>10, <2>2 DEF Ahead
  <2>3. CASE Rivals(k, m) /\ m = m0
    <3>1. ~Ahead(s, k, m0)
      BY <1>12 DEF Ahead
    <3>2. CASE k = m0
      <4>1. ~Waits(s, k) /\ ~(n + 1 < n + 1)
        BY <1>1, <3>2
      <4>2. \A a \in Slots(t, m0) : a = n + 1
        BY <1>10, <1>12
      <4>. QED
        BY <2>3, <3>1, <3>2, <4>1, <4>2 DEF Ahead
    <3>3. CASE k # m0
      <4>1. n + 1 \in Slots(t, m0) /\ \A a \in Slots(t, m0) : a = n + 1
        BY <1>10, <1>12
      <4>2. Slots(t, k) = Slots(s, k)
        BY <1>10, <3>3
      <4>3. \A a \in Slots(s, k) : a < n + 1
        BY <1>7, <1>11, <2>3
      <4>. QED
        BY <2>3, <3>1, <3>3, <4>1, <4>2, <4>3 DEF Ahead, Waits
    <3>. QED
      BY <3>2, <3>3
  <2>4. CASE Rivals(k, m) /\ m # m0 /\ k = m0
    <3>1. Rivals(m, m0)
      BY <2>4 DEF Rivals
    <3>2. \A b \in Slots(t, m) : b \in 1 .. n /\ ~(n + 1 < b)
      BY <1>1, <1>10, <1>11, <2>4, <3>1
    <3>3. \A a \in Slots(t, m0) : a = n + 1
      BY <1>10, <1>12
    <3>4. ~Ahead(t, k, m) /\ ~Ahead(s, k, m)
      BY <1>12, <2>4, <3>2, <3>3 DEF Ahead
    <3>. QED
      BY <2>4, <3>4
  <2>. QED
    BY <2>1, <2>2, <2>3, <2>4
<1>16. \A a \in Slots(t, m0) : ListOf(t, m0)[a].rem = Req[m0].msg_size
  BY <1>2, <1>5, <1>8, <1>10, <1>12
<1>17. ASSUME NEW m \in Msgs, m # m0, NEW a \in Slots(t, m)
       PROVE  a \in Slots(s, m) /\ ListOf(t, m)[a].rem = ListOf(s, m)[a].rem
  <2>1. a \in Slots(s, m)
    BY <1>10, <1>17
  <2>2. CASE Rivals(m, m0)
    BY <1>5, <1>8, <1>11, <2>1, <2>2, SMTT(30)
  <2>3. CASE ~Rivals(m, m0)
    BY <1>9, <2>1, <2>3, SMTT(30)
  <2>. QED
    BY <2>1, <2>2, <2>3
<1>. QED
  BY <1>13, <1>14, <1>15, <1>16, <1>17 DEF AddEffect

\* the first request of the first level that holds one is served
IssueEffect(s, t, q, pkt) ==
  LET m0 == pkt.req
  IN  /\ m0 \in Msgs /\ queue_of(m0) = q /\ prio_of(m0) = NextLevel(s.sched[q])
      /\ \E a \in Slots(s, m0) :
           LET rem == ListOf(s, m0)[a].rem
           IN  /\ rem \in Nat /\ pkt.offset = Req[m0].msg_size - rem
               /\ pkt.last \in BOOLEAN /\ (pkt.last <=> PacketSize >= rem)
               /\ pkt.size = IF PacketSize >= rem THEN rem ELSE PacketSize
               /\ \A b \in Slots(t, m0) : ListOf(t, m0)[b].rem = rem - PacketSize
      /\ \A k \in Msgs : /\ ~Ahead(s, k, m0)
                         /\ k # m0 /\ Rivals(k, m0) /\ Waits(s, k) => Ahead(s, m0, k)
      /\ ListsOK(t)
      /\ \A m \in Msgs : Waits(t, m) <=> Waits(s, m) /\ ~(m = m0 /\ pkt.last)
      /\ \A m \in Msgs : m # m0 => \A a \in Slots(t, m) :
           \E b \in Slots(s, m) : ListOf(t, m)[a].rem = ListOf(s, m)[b].rem
      /\ \A k, m \in Msgs : k # m0 /\ m # m0 => (Ahead(t, k, m) <=> Ahead(s, k, m))
      /\ \A k \in Msgs : /\ Ahead(t, m0, k) => Discipline # "rr" /\ Ahead(s, m0, k)
                         /\ Ahead(t, k, m0) => Discipline = "rr"
                         /\ /\ Discipline = "rr" /\ ~pkt.last
                            /\ k # m0 /\ Rivals(k, m0) /\ Waits(s, k)
                            => Ahead(t, k, m0)

LEMMA IssueView ==
  ASSUME NEW s \in State, StateOK(s), ListsOK(s), NEW q \in Queues, ~sched_empty(s.sched[q]),
         NEW t, t.sched = [s.sched EXCEPT ![q] = sched_next(s.sched[q])],
         NEW pkt, pkt = sched_next_pkt(s.sched[q])
  PROVE  IssueEffect(s, t, q, pkt)
<1> DEFINE m0 == pkt.req
<1> DEFINE l == NextLevel(s.sched[q])
           v == s.sched[q][l]
           R == v.reqs
           n == Len(R)
           N == QueueNext(v).reqs
           h == R[1]
           last == is_last_packet(h)
<1>1. s.sched \in [Queues -> SchedState] /\ s.sched[q] \in SchedState /\ SchedOK(s.sched[q])
  BY StateFacts DEF StateOK
<1>2. l \in Levels /\ R # << >>
  BY NextLevelFacts
<1>3. v \in Queue /\ QueueOK(v)
  BY <1>1, <1>2 DEF SchedOK, SchedState
<1>4. pkt = NextPacket(v) /\ Head(R) = h /\ R \in Seq(QItem)
  BY <1>2, <1>3, HeadFacts DEF sched_next_pkt
<1>5. /\ n \in Nat \ {0} /\ h \in QItem /\ h.req \in Msgs /\ h.rem \in Nat
      /\ last => Len(N) = n - 1 /\ \A a \in 1 .. (n - 1) : N[a] = R[a + 1]
      /\ ~last /\ Discipline # "rr" =>
              /\ Len(N) = n /\ N[1].req = h.req /\ N[1].rem = h.rem - PacketSize
              /\ \A a \in 2 .. n : N[a] = R[a]
      /\ ~last /\ Discipline = "rr" =>
              /\ Len(N) = n /\ N[n].req = h.req /\ N[n].rem = h.rem - PacketSize
              /\ \A a \in 1 .. (n - 1) : N[a] = R[a + 1]
  <2>1. ServedList(v.reqs, QueueNext(v).reqs)
    <3>1. v \in Queue /\ QueueOK(v) /\ v.reqs # << >>
      BY <1>2, <1>3
    <3> HIDE DEF v
    <3>. QED
      BY <3>1, NextList
  <2>2. ServedList(R, N)
    BY <2>1
  <2> HIDE DEF v, R, N
  <2>. QED
    BY <2>2 DEF ServedList
<1>6. /\ m0 = h.req /\ pkt.offset = Req[h.req].msg_size - h.rem /\ pkt.last = last
      /\ pkt.size = IF last THEN h.rem ELSE PacketSize
  <2>1. Head(v.reqs) = h /\ pkt = NextPacket(v)
    BY <1>4
  <2> HIDE DEF v, h, last
  <2>2. /\ pkt.req = h.req /\ pkt.offset = Req[h.req].msg_size - h.rem
        /\ pkt.last = is_last_packet(h) /\ pkt.size = IF is_last_packet(h) THEN h.rem ELSE PacketSize
    BY <2>1 DEF NextPacket
  <2>. QED
    BY <2>2 DEF last
<1>7. last <=> PacketSize >= h.rem
  BY DEF is_last_packet
<1>8. \A j \in Queues, k \in Levels :
        t.sched[j][k].reqs = IF j = q /\ k = l THEN N ELSE s.sched[j][k].reqs
  <2> DEFINE S == s.sched
             T == t.sched
             w == QueueNext(v)
             U == [S[q] EXCEPT ![l] = w]
  <2>1. sched_next(s.sched[q]) = U
    BY DEF sched_next
  <2>2. S \in [Queues -> SchedState] /\ T = [S EXCEPT ![q] = U] /\ q \in Queues /\ l \in Levels
    BY <1>1, <1>2, <2>1
  <2>3. U = [S[q] EXCEPT ![l] = w] /\ w.reqs = N
    OBVIOUS
  <2> HIDE DEF S, T, U, w, l, N
  <2>4. DOMAIN S[q] = Levels
    BY <2>2 DEF SchedState
  <2>5. U[l] = w /\ \A k \in Levels : k # l => U[k] = S[q][k]
    BY <2>2, <2>3, <2>4
  <2>6. T[q] = U /\ \A j \in Queues : j # q => T[j] = S[j]
    BY <2>2
  <2>7. T[q][l] = w /\ \A j \in Queues, k \in Levels : ~(j = q /\ k = l) => T[j][k] = S[j][k]
    BY ONLY <2>5, <2>6
  <2>8. T[q][l].reqs = N
    BY <2>3, <2>7
  <2>9. \A j \in Queues, k \in Levels : ~(j = q /\ k = l) => T[j][k].reqs = S[j][k].reqs
    BY <2>7
  <2>10. \A j \in Queues, k \in Levels : T[j][k].reqs = IF j = q /\ k = l THEN N ELSE S[j][k].reqs
    BY ONLY <2>8, <2>9
  <2>. QED
    BY <2>10 DEF S, T
<1>9. \A a \in 1 .. n : queue_of(R[a].req) = q /\ prio_of(R[a].req) = l
  BY <1>2 DEF ListsOK
<1>10. 1 \in 1 .. n /\ queue_of(m0) = q /\ prio_of(m0) = l /\ m0 \in Msgs
  <2>1. 1 \in 1 .. n
    BY <1>5
  <2>2. queue_of(h.req) = q /\ prio_of(h.req) = l
    BY <1>9, <2>1
  <2> HIDE DEF l, h, n
  <2>. QED
    BY <1>5, <1>6, <2>1, <2>2
<1> HIDE DEF l, v, R, n, N, h, last, m0
<1>11. \A m \in Msgs : Rivals(m, m0) => ListOf(s, m) = R /\ ListOf(t, m) = N
  BY <1>2, <1>8, <1>10 DEF ListOf, Rivals, R, v
<1>12. \A m \in Msgs : ~Rivals(m, m0) => ListOf(t, m) = ListOf(s, m)
  <2> SUFFICES ASSUME NEW m \in Msgs, ~Rivals(m, m0) PROVE ListOf(t, m) = ListOf(s, m)
    OBVIOUS
  <2>1. queue_of(m) \in Queues /\ prio_of(m) \in Levels
    BY ListFacts
  <2>. QED
    BY <1>8, <1>10, <2>1 DEF ListOf, Rivals
<1>13. Rivals(m0, m0)
  BY DEF Rivals
<1>14. \A m \in Msgs : Rivals(m, m0) => \A a : a \in Slots(s, m) <=> a \in 1 .. n /\ R[a].req = m
  BY <1>11 DEF Slots, n
<1>15. \A m \in Msgs : Rivals(m, m0) => \A a : a \in Slots(t, m) <=> a \in 1 .. Len(N) /\ N[a].req = m
  BY <1>11 DEF Slots
<1>16. \A a : a \in Slots(s, m0) <=> a = 1
  <2>1. 1 \in Slots(s, m0)
    BY <1>6, <1>10, <1>13, <1>14 DEF h
  <2>2. \A a, b \in Slots(s, m0) : a = b
    BY <1>10 DEF ListsOK
  <2>. QED
    BY <2>1, <2>2

<1>17. ASSUME NEW m \in Msgs, Rivals(m, m0)
       PROVE  /\ \A a \in Slots(s, m) : a \in 1 .. n /\ R[a].req = m
              /\ m # m0 => \A a \in Slots(s, m) : a # 1
  BY <1>6, <1>14, <1>17 DEF h
\* the requests behind the first one move up by d
<1> DEFINE Shift(d) ==
      /\ \A m \in Msgs : m # m0 /\ Rivals(m, m0) =>
           /\ \A a \in Slots(t, m) : a \in Nat /\ a + d \in Slots(s, m) /\ N[a] = R[a + d]
           /\ \A b \in Slots(s, m) : b \in Nat /\ b - d \in Slots(t, m)
      /\ last => Slots(t, m0) = {}
      /\ ~last => \E p \in Nat : /\ \A a : a \in Slots(t, m0) <=> a = p
                                 /\ N[p].rem = h.rem - PacketSize
                                 /\ Discipline # "rr" => p = 1 /\ d = 0
                                 /\ Discipline = "rr" => p = n /\ d = 1
\* the requests behind the first one move up by one, or stay
<1>18. ASSUME last \/ Discipline = "rr" PROVE Shift(1)
  <2>1. /\ \A a \in 1 .. (n - 1) : N[a] = R[a + 1] /\ a \in 1 .. Len(N) /\ a + 1 \in 1 .. n
        /\ last => Len(N) = n - 1
        /\ ~last => Len(N) = n /\ N[n].req = m0 /\ N[n].rem = h.rem - PacketSize
    BY <1>5, <1>6, <1>18
  <2>2. ASSUME NEW m \in Msgs, m # m0, Rivals(m, m0)
        PROVE  /\ \A a \in Slots(t, m) : a \in 1 .. (n - 1) /\ a + 1 \in Slots(s, m)
                                         /\ N[a] = R[a + 1]
               /\ \A b \in Slots(s, m) : b - 1 \in Slots(t, m) /\ b \in 1 .. n
    <3>1. ASSUME NEW a \in Slots(t, m)
          PROVE  a \in 1 .. (n - 1) /\ a + 1 \in Slots(s, m) /\ N[a] = R[a + 1]
      <4>1. a \in 1 .. Len(N) /\ N[a].req = m
        BY <1>15, <2>2
      <4>2. a # n \/ last
        BY <2>1, <2>2, <4>1
      <4>3. a \in 1 .. (n - 1)
        BY <1>5, <2>1, <4>1, <4>2
      <4>. QED
        BY <1>14, <2>1, <2>2, <4>1, <4>3
    <3>2. ASSUME NEW b \in Slots(s, m) PROVE b - 1 \in Slots(t, m) /\ b \in 1 .. n
      <4>1. b \in 1 .. n /\ R[b].req = m /\ b # 1
        BY <1>17, <2>2
      <4>2. b - 1 \in 1 .. (n - 1) /\ (b - 1) + 1 = b
        BY <1>5, <4>1
      <4>. QED
        BY <1>15, <2>1, <2>2, <4>1, <4>2
    <3>. QED
      BY <3>1, <3>2
  <2>3. last => Slots(t, m0) = {}
    <3> SUFFICES ASSUME last, NEW a \in Slots(t, m0) PROVE FALSE
      OBVIOUS
    <3>1. a \in 1 .. (n - 1) /\ N[a].req = m0
      BY <1>10, <1>13, <1>15, <2>1
    <3>2. a + 1 \in Slots(s, m0)
      BY <1>10, <1>13, <1>14, <2>1, <3>1
    <3>3. a + 1 # 1
      BY <1>5, <3>1
    <3>. QED
      BY <1>16, <3>2, <3>3
  <2>4. ~last => \A a : a \in Slots(t, m0) <=> a = n
    <3> SUFFICES ASSUME ~last, NEW a PROVE a \in Slots(t, m0) <=> a = n
      OBVIOUS
    <3>1. a \in Slots(t, m0) <=> a \in 1 .. n /\ N[a].req = m0
      BY <1>10, <1>13, <1>15, <2>1
    <3>2. n \in 1 .. n
      BY <1>5
    <3>3. ASSUME a \in 1 .. n, a # n, N[a].req = m0 PROVE FALSE
      <4>1. a \in 1 .. (n - 1)
        BY <1>5, <3>3
      <4>2. a + 1 \in Slots(s, m0)
        BY <1>10, <1>13, <1>14, <2>1, <3>3, <4>1
      <4>3. a + 1 # 1
        BY <1>5, <4>1
      <4>. QED
        BY <1>16, <4>2, <4>3
    <3>. QED
      BY <2>1, <3>1, <3>2, <3>3
  <2>5. ~last => Discipline = "rr" /\ n \in Nat
    BY <1>5, <1>18
  <2>6. \A a \in 1 .. n : a \in Nat
    BY <1>5
  <2>7. \A a \in 1 .. (n - 1) : a \in Nat
    BY <1>5
  <2>. QED
    BY <2>1, <2>2, <2>3, <2>4, <2>5, <2>6, <2>7

<1>19. ASSUME ~last, Discipline # "rr" PROVE Shift(0)
  <2>1. /\ Len(N) = n /\ N[1].req = m0 /\ N[1].rem = h.rem - PacketSize /\ 1 \in 1 .. n
        /\ \A a \in 1 .. n : a = 1 \/ N[a] = R[a]
    BY <1>5, <1>6, <1>10, <1>19
  <2>2. ASSUME NEW m \in Msgs, Rivals(m, m0), NEW a
        PROVE  a \in Slots(t, m) <=> a \in Slots(s, m)
    BY <1>6, <1>14, <1>15, <2>1, <2>2 DEF h
  <2>3. \A a \in 1 .. n : a \in Nat /\ a + 0 = a /\ a - 0 = a
    BY <1>5
  <2>4. ASSUME NEW m \in Msgs, m # m0, Rivals(m, m0)
        PROVE  /\ \A a \in Slots(t, m) : a \in Nat /\ a + 0 \in Slots(s, m) /\ N[a] = R[a + 0]
               /\ \A b \in Slots(s, m) : b \in Nat /\ b - 0 \in Slots(t, m)
    BY <1>17, <2>1, <2>2, <2>3, <2>4
  <2>5. \A a : a \in Slots(t, m0) <=> a = 1
    BY <1>10, <1>13, <1>16, <2>2
  <2>. QED
    BY <1>19, <2>1, <2>4, <2>5
<1>20. PICK d \in {0, 1} : Shift(d)
  BY <1>18, <1>19
<1>21. \A m \in Msgs : m # m0 /\ Rivals(m, m0) =>
           /\ \A a \in Slots(t, m) : a \in Nat /\ a + d \in Slots(s, m) /\ N[a] = R[a + d]
           /\ \A b \in Slots(s, m) : b \in Nat /\ b - d \in Slots(t, m)
  BY <1>20
<1>22. last => Slots(t, m0) = {}
  BY <1>20
<1>23. ~last => \E p \in Nat : /\ \A a : a \in Slots(t, m0) <=> a = p
                               /\ N[p].rem = h.rem - PacketSize
                               /\ Discipline # "rr" => p = 1 /\ d = 0
                               /\ Discipline = "rr" => p = n /\ d = 1
  BY <1>20
<1> HIDE DEF Shift
<1>24. \A m \in Msgs : ~Rivals(m, m0) => Slots(t, m) = Slots(s, m)
  BY <1>12 DEF Slots
<1>25. \A m \in Msgs : m # m0 => (Slots(t, m) # {} <=> Slots(s, m) # {})
  BY <1>21, <1>24
<1>26. \A m \in Msgs : Waits(t, m) <=> Waits(s, m) /\ ~(m = m0 /\ last)
  BY <1>16, <1>22, <1>23, <1>25 DEF Waits
<1>27. \A m \in Msgs : \A a, b \in Slots(t, m) : a = b
  <2> SUFFICES ASSUME NEW m \in Msgs, NEW a \in Slots(t, m), NEW b \in Slots(t, m) PROVE a = b
    OBVIOUS
  <2>1. \A c, e \in Slots(s, m) : c = e
    BY DEF ListsOK
  <2>2. CASE m = m0
    BY <1>22, <1>23, <2>2
  <2>3. CASE m # m0 /\ Rivals(m, m0)
    <3>1. a \in Nat /\ b \in Nat /\ a + d = b + d
      BY <1>21, <2>1, <2>3
    <3>. QED
      BY <3>1
  <2>4. CASE ~Rivals(m, m0)
    BY <1>24, <2>1, <2>4
  <2>. QED
    BY <2>2, <2>3, <2>4
<1>28. ListsOK(t)
  <2>1. ASSUME NEW j \in Queues, NEW k \in Levels, NEW a \in 1 .. Len(t.sched[j][k].reqs)
        PROVE  /\ queue_of(t.sched[j][k].reqs[a].req) = j
               /\ prio_of(t.sched[j][k].reqs[a].req) = k
    <3>1. CASE j = q /\ k = l
      <4>1. t.sched[j][k].reqs = N /\ a \in 1 .. Len(N)
        BY <1>8, <3>1
      <4>2. CASE last \/ Discipline = "rr"
        <5>1. a \in 1 .. (n - 1) \/ (a = n /\ ~last)
          BY <1>5, <4>1, <4>2
        <5>2. CASE a \in 1 .. (n - 1)
          <6>1. N[a] = R[a + 1] /\ a + 1 \in 1 .. n
            BY <1>5, <4>2, <5>2
          <6>. QED
            BY <1>9, <3>1, <4>1, <6>1
        <5>3. CASE a = n /\ ~last
          BY <1>5, <1>6, <1>10, <3>1, <4>1, <4>2, <5>3
        <5>. QED
          BY <5>1, <5>2, <5>3
      <4>3. CASE ~last /\ Discipline # "rr"
        <5>1. a \in 1 .. n /\ (a = 1 \/ a \in 2 .. n)
          BY <1>5, <4>1, <4>3
        <5>. QED
          BY <1>5, <1>6, <1>9, <1>10, <3>1, <4>1, <4>3, <5>1
      <4>. QED
        BY <4>2, <4>3
    <3>2. CASE ~(j = q /\ k = l)
      <4>1. t.sched[j][k].reqs = s.sched[j][k].reqs
        BY <1>8, <3>2
      <4>. QED
        BY <4>1 DEF ListsOK
    <3>. QED
      BY <3>1, <3>2
  <2>. QED
    BY <1>27, <2>1 DEF ListsOK
<1>29. ASSUME NEW m \in Msgs, m # m0, NEW a \in Slots(t, m)
       PROVE  \E b \in Slots(s, m) : ListOf(t, m)[a].rem = ListOf(s, m)[b].rem
  <2>1. CASE Rivals(m, m0)
    <3>1. a + d \in Slots(s, m) /\ N[a] = R[a + d]
      BY <1>21, <1>29, <2>1
    <3>2. ListOf(t, m)[a] = ListOf(s, m)[a + d]
      BY <1>11, <2>1, <3>1
    <3>. QED
      BY <3>1, <3>2
  <2>2. CASE ~Rivals(m, m0)
    BY <1>12, <1>24, <2>2
  <2>. QED
    BY <2>1, <2>2
<1>30. ASSUME NEW k \in Msgs, NEW m \in Msgs, k # m0, m # m0
       PROVE  Ahead(t, k, m) <=> Ahead(s, k, m)
  <2>1. CASE ~Rivals(k, m)
    BY <2>1 DEF Ahead
  <2>2. CASE Rivals(k, m) /\ ~Rivals(m, m0)
    <3>1. ~Rivals(k, m0)
      BY <2>2 DEF Rivals
    <3>. QED
      BY <1>24, <2>2, <3>1 DEF Ahead
  <2>3. CASE Rivals(k, m) /\ Rivals(m, m0)
    <3>1. Rivals(k, m0)
      BY <2>3 DEF Rivals
    <3>2. ASSUME NEW a \in Slots(t, k), NEW b \in Slots(t, m), a < b PROVE Ahead(s, k, m)
      <4>1. a + d \in Slots(s, k) /\ b + d \in Slots(s, m) /\ a + d < b + d
        BY <1>21, <1>30, <2>3, <3>1, <3>2
      <4>. QED
        BY <2>3, <4>1 DEF Ahead
    <3>3. ASSUME NEW a \in Slots(s, k), NEW b \in Slots(s, m), a < b PROVE Ahead(t, k, m)
      <4>1. a - d \in Slots(t, k) /\ b - d \in Slots(t, m) /\ a - d < b - d
        BY <1>21, <1>30, <2>3, <3>1, <3>3
      <4>. QED
        BY <2>3, <4>1 DEF Ahead
    <3>. QED
      BY <2>3, <3>2, <3>3 DEF Ahead
  <2>. QED
    BY <2>1, <2>2, <2>3
<1>31. ASSUME NEW k \in Msgs
       PROVE  /\ ~Ahead(s, k, m0)
              /\ k # m0 /\ Rivals(k, m0) /\ Waits(s, k) => Ahead(s, m0, k)
  <2>1. Rivals(k, m0) => Rivals(m0, k) /\ \A a \in Slots(s, k) : a \in Nat /\ a >= 1 /\ (k # m0 => a # 1)
    BY <1>5, <1>17 DEF Rivals
  <2>2. ~Ahead(s, k, m0)
    BY <1>16, <2>1 DEF Ahead
  <2>3. ASSUME k # m0, Rivals(k, m0), Waits(s, k) PROVE Ahead(s, m0, k)
    <3>1. PICK a \in Slots(s, k) : TRUE
      BY <2>3 DEF Waits
    <3>2. 1 < a
      BY <2>1, <2>3, <3>1
    <3>. QED
      BY <1>16, <2>1, <2>3, <3>1, <3>2 DEF Ahead
  <2>. QED
    BY <2>2, <2>3
<1>32. ASSUME NEW k \in Msgs, Ahead(t, m0, k) PROVE Discipline # "rr" /\ Ahead(s, m0, k)
  <2>1. PICK a \in Slots(t, m0), b \in Slots(t, k) : a < b
    BY <1>32 DEF Ahead
  <2>2. Rivals(m0, k) /\ Rivals(k, m0) /\ ~last
    BY <1>22, <1>32, <2>1 DEF Ahead, Rivals
  <2>3. /\ Discipline # "rr" => a = 1 /\ d = 0
        /\ Discipline = "rr" => a = n /\ d = 1
    BY <1>23, <2>1, <2>2
  <2>4. k # m0
    BY <1>5, <1>23, <2>1, <2>2
  <2>5. b \in Nat /\ b + d \in Slots(s, k) /\ b + d \in 1 .. n
    BY <1>17, <1>21, <2>1, <2>2, <2>4
  <2>6. Discipline # "rr"
    BY <1>5, <2>1, <2>3, <2>5
  <2>. QED
    BY <1>31, <2>2, <2>4, <2>5, <2>6 DEF Waits
<1>33. ASSUME NEW k \in Msgs, Ahead(t, k, m0) PROVE Discipline = "rr"
  <2> SUFFICES ASSUME Discipline # "rr" PROVE FALSE
    OBVIOUS
  <2>1. PICK a \in Slots(t, k), b \in Slots(t, m0) : a < b
    BY <1>33 DEF Ahead
  <2>2. Rivals(k, m0) /\ ~last
    BY <1>22, <1>33, <2>1 DEF Ahead
  <2>3. b = 1 /\ d = 0
    BY <1>23, <2>1, <2>2
  <2>4. k # m0
    BY <1>23, <2>1, <2>2
  <2>5. a \in Nat /\ a + 0 \in 1 .. n
    BY <1>17, <1>21, <2>1, <2>2, <2>3, <2>4
  <2>. QED
    BY <1>5, <2>1, <2>3, <2>5
<1>34. ASSUME NEW k \in Msgs, Discipline = "rr", ~last, k # m0, Rivals(k, m0), Waits(s, k)
       PROVE  Ahead(t, k, m0)
  <2>1. PICK a \in Slots(s, k) : TRUE
    BY <1>34 DEF Waits
  <2>2. d = 1 /\ n \in Slots(t, m0)
    BY <1>23, <1>34
  <2>3. a \in 1 .. n /\ a - 1 \in Slots(t, k)
    BY <1>17, <1>21, <1>34, <2>1, <2>2
  <2>4. a - 1 < n
    BY <1>5, <2>3
  <2>. QED
    BY <1>34, <2>2, <2>3, <2>4 DEF Ahead
<1>35. 1 \in Slots(s, m0) /\ ListOf(s, m0)[1].rem = h.rem
  BY <1>10, <1>11, <1>13, <1>16 DEF h
<1>36. \A b \in Slots(t, m0) : ListOf(t, m0)[b].rem = h.rem - PacketSize
  BY <1>10, <1>11, <1>13, <1>22, <1>23
<1>37. pkt.last \in BOOLEAN /\ (pkt.last <=> PacketSize >= h.rem) /\ (pkt.last <=> last)
  <2>1. is_last_packet(h) \in BOOLEAN /\ (is_last_packet(h) <=> PacketSize >= h.rem)
    BY DEF is_last_packet
  <2>2. pkt.last = is_last_packet(h) /\ last = is_last_packet(h)
    BY <1>6 DEF last
  <2>. QED
    BY <2>1, <2>2, Zenon
<1>38. \E a \in Slots(s, m0) :
              LET rem == ListOf(s, m0)[a].rem
              IN  /\ rem \in Nat /\ pkt.offset = Req[m0].msg_size - rem
                  /\ pkt.last \in BOOLEAN /\ (pkt.last <=> PacketSize >= rem)
                  /\ pkt.size = IF PacketSize >= rem THEN rem ELSE PacketSize
                  /\ \A b \in Slots(t, m0) : ListOf(t, m0)[b].rem = rem - PacketSize
  <2>1. /\ h.rem \in Nat /\ pkt.offset = Req[m0].msg_size - h.rem
        /\ pkt.last \in BOOLEAN /\ (pkt.last <=> PacketSize >= h.rem)
        /\ pkt.size = IF PacketSize >= h.rem THEN h.rem ELSE PacketSize
    BY <1>5, <1>6, <1>7, <1>37
  <2>. QED
    BY <1>35, <1>36, <2>1
<1>39. pkt.last <=> last
  BY <1>37
<1>. QED
  BY <1>10, <1>26, <1>28, <1>29, <1>30, <1>31, <1>32, <1>33, <1>34, <1>38, <1>39 DEF l, m0, IssueEffect

-----------------------------------------------------------------------------
(* A packet is issued.                                                     *)

IssueStep(s, t, tr, u, c, d, q, pkt) ==
  /\ OneMore(tr, d, u, c) /\ IssueEffect(s, t, q, pkt)
  /\ d \in Did_ /\ d.kind = "packet" /\ d.q = q /\ d.req = pkt.req
  /\ d.offset = pkt.offset /\ d.size = pkt.size /\ d.last = pkt.last
  /\ t.copy_avail = s.copy_avail /\ t.next_avail = s.next_avail

\* where the records are now
IssueRecs(tr, u, c, m0) ==
  /\ c \in Nat /\ \A i \in 1 .. Len(tr) : u[i] = tr[i] /\ i < c /\ i \in Nat
  /\ \A m : /\ Recs(u, "queued", m) = Recs(tr, "queued", m)
            /\ Recs(u, "nic", m) = Recs(tr, "nic", m)
            /\ m # m0 => Recs(u, "packet", m) = Recs(tr, "packet", m)
            /\ \A i : i \in Recs(u, "packet", m) <=> i \in Recs(tr, "packet", m) \/ (i = c /\ m = m0)
            /\ \A i \in Recs(tr, "queued", m) : u[i] = tr[i] /\ i < c /\ i \in Nat
            /\ \A i \in Recs(tr, "nic", m) : u[i] = tr[i] /\ i < c /\ i \in Nat /\ tr[i] \in Did_
            /\ \A i \in Recs(tr, "packet", m) : u[i] = tr[i] /\ i < c /\ i \in Nat /\ tr[i] \in Did_

LEMMA PacketRecs ==
  ASSUME NEW s, NEW t, NEW tr, NEW u, NEW c, NEW d, NEW q, NEW pkt,
         IssueStep(s, t, tr, u, c, d, q, pkt), ListsOK(s), WaitingOK(s, tr)
  PROVE  /\ IssueRecs(tr, u, c, d.req) /\ u[c] = d /\ d.req = pkt.req /\ d.req \in Msgs
         /\ Waits(s, d.req) /\ Recs(tr, "queued", d.req) # {} /\ d.last \in BOOLEAN
         /\ \A p \in Recs(tr, "packet", d.req) : tr[p].last = FALSE
<1>1. /\ OneMore(tr, d, u, c) /\ d.kind = "packet" /\ d.req = pkt.req /\ d \in Did_
  BY DEF IssueStep
<1>2. IssueRecs(tr, u, c, d.req) /\ u[c] = d
  <2>1. /\ c \in Nat /\ u[c] = d /\ \A i \in 1 .. Len(tr) : u[i] = tr[i] /\ i < c /\ i \in Nat
    BY <1>1 DEF OneMore
  <2>2. \A kind, m : \A i \in Recs(tr, kind, m) : i \in 1 .. Len(tr) /\ tr[i] \in Did_
    BY <1>1 DEF OneMore
  <2>3. \A kind, m : \A i : i \in Recs(u, kind, m) <=>
          i \in Recs(tr, kind, m) \/ (i = c /\ d.kind = kind /\ d.req = m)
    BY <1>1 DEF OneMore
  <2>4. ASSUME NEW m
        PROVE  /\ Recs(u, "queued", m) = Recs(tr, "queued", m)
               /\ Recs(u, "nic", m) = Recs(tr, "nic", m)
               /\ m # d.req => Recs(u, "packet", m) = Recs(tr, "packet", m)
               /\ \A i : i \in Recs(u, "packet", m) <=> i \in Recs(tr, "packet", m) \/ (i = c /\ m = d.req)
    <3>1. "packet" # "queued" /\ "packet" # "nic"
      OBVIOUS
    <3>2. \A i : i \in Recs(u, "queued", m) <=> i \in Recs(tr, "queued", m)
      BY <1>1, <2>3, <3>1
    <3>3. \A i : i \in Recs(u, "nic", m) <=> i \in Recs(tr, "nic", m)
      BY <1>1, <2>3, <3>1
    <3>4. \A i : i \in Recs(u, "packet", m) <=> i \in Recs(tr, "packet", m) \/ (i = c /\ m = d.req)
      BY <1>1, <2>3
    <3>. QED
      BY <3>2, <3>3, <3>4
  <2>. QED
    BY <2>1, <2>2, <2>4 DEF IssueRecs
<1>3. d.req \in Msgs /\ Waits(s, d.req)
  <2>1. IssueEffect(s, t, q, pkt)
    BY DEF IssueStep
  <2>. QED
    BY <1>1, <2>1 DEF IssueEffect, Waits
<1>4. d.last \in BOOLEAN
  BY <1>1 DEF Did_
<1>. QED
  BY <1>1, <1>2, <1>3, <1>4 DEF WaitingOK

LEMMA IssueWaiting ==
  ASSUME NEW s, NEW t, NEW tr, NEW u, NEW c, NEW d, NEW q, NEW pkt,
         IssueStep(s, t, tr, u, c, d, q, pkt), ListsOK(s), WaitingOK(s, tr)
  PROVE  WaitingOK(t, u)
<1> DEFINE m0 == d.req
<1>1. /\ IssueRecs(tr, u, c, m0) /\ u[c] = d /\ m0 = pkt.req /\ m0 \in Msgs
      /\ Waits(s, m0) /\ Recs(tr, "queued", m0) # {} /\ d.last \in BOOLEAN
      /\ \A p \in Recs(tr, "packet", m0) : tr[p].last = FALSE
  BY PacketRecs
<1>2. \A m \in Msgs : Waits(t, m) <=> Waits(s, m) /\ ~(m = m0 /\ d.last)
  BY <1>1 DEF IssueStep, IssueEffect
<1> HIDE DEF m0
<1>3. ASSUME NEW m \in Msgs
      PROVE  /\ Waits(t, m) <=> /\ Recs(u, "queued", m) # {}
                                /\ \A p \in Recs(u, "packet", m) : u[p].last = FALSE
             /\ \A i, j \in Recs(u, "queued", m) : i = j
             /\ \A p \in Recs(u, "packet", m) : \E i \in Recs(u, "queued", m) : i < p
  <2>1. /\ Waits(s, m) <=> /\ Recs(tr, "queued", m) # {}
                           /\ \A p \in Recs(tr, "packet", m) : tr[p].last = FALSE
        /\ \A i, j \in Recs(tr, "queued", m) : i = j
        /\ \A p \in Recs(tr, "packet", m) : \E i \in Recs(tr, "queued", m) : i < p
    BY DEF WaitingOK
  <2>2. /\ Recs(u, "queued", m) = Recs(tr, "queued", m)
        /\ m # m0 => Recs(u, "packet", m) = Recs(tr, "packet", m)
        /\ \A i : i \in Recs(u, "packet", m) <=> i \in Recs(tr, "packet", m) \/ (i = c /\ m = m0)
        /\ \A i \in Recs(tr, "packet", m) : u[i] = tr[i]
        /\ \A i \in Recs(tr, "queued", m) : i < c
    BY <1>1 DEF IssueRecs
  <2>3. CASE m # m0
    BY <1>2, <2>1, <2>2, <2>3
  <2>4. CASE m = m0
    <3>1. (\A p \in Recs(u, "packet", m) : u[p].last = FALSE) <=> d.last = FALSE
      BY <1>1, <2>2, <2>4
    <3>2. Waits(t, m) <=> d.last = FALSE
      BY <1>1, <1>2, <2>4
    <3>3. \A p \in Recs(u, "packet", m) : \E i \in Recs(u, "queued", m) : i < p
      BY <1>1, <2>1, <2>2, <2>4
    <3>. QED
      BY <1>1, <2>1, <2>2, <2>4, <3>1, <3>2, <3>3
  <2>. QED
    BY <2>3, <2>4
<1>. QED
  BY <1>3 DEF WaitingOK

\* records that come before record c
Counted(P, Q, c) ==
  /\ Cardinality(P) \in Nat /\ Cardinality(Q) = Cardinality(P) + 1
  /\ {j \in Q : j < c} = P
  /\ \A i \in P : /\ {j \in Q : j < i} = {j \in P : j < i}
                  /\ Cardinality({j \in P : j < i}) \in Nat
                  /\ Cardinality({j \in P : j < i}) < Cardinality(P)

LEMMA CountRecords ==
  ASSUME NEW P, NEW n \in Nat, P \subseteq 1 .. n, NEW c \in Nat, \A i \in P : i < c,
         NEW Q, \A i : i \in Q <=> i \in P \/ i = c
  PROVE  Counted(P, Q, c)
<1>1. IsFiniteSet(1 .. n)
  BY FS_Interval
<1>2. IsFiniteSet(P)
  BY <1>1, FS_Subset
<1>3. Cardinality(P) \in Nat
  BY <1>2, FS_CardinalityType
<1>4. c \notin P /\ Q = P \cup {c} /\ \A i \in P : i \in Nat
  OBVIOUS
<1>5. Cardinality(Q) = Cardinality(P) + 1
  BY <1>2, <1>4, FS_AddElement
<1>6. {j \in Q : j < c} = P
  <2>1. ~(c < c)
    OBVIOUS
  <2>2. ASSUME NEW j \in Q, j < c PROVE j \in P
    BY <2>1, <2>2
  <2>3. \A j \in P : j \in Q /\ j < c
    OBVIOUS
  <2>. QED
    BY <2>2, <2>3
<1>7. ASSUME NEW i \in P
      PROVE  /\ {j \in Q : j < i} = {j \in P : j < i}
             /\ Cardinality({j \in P : j < i}) \in Nat
             /\ Cardinality({j \in P : j < i}) < Cardinality(P)
  <2> DEFINE B == {j \in P : j < i}
  <2>1. i \in Nat /\ i < c
    BY <1>4
  <2>2. {j \in Q : j < i} = B
    BY <1>4, <2>1
  <2>3. B \subseteq P /\ i \notin B
    BY <2>1
  <2> HIDE DEF B
  <2>4. IsFiniteSet(B) /\ Cardinality(B) <= Cardinality(P) /\ Cardinality(B) # Cardinality(P)
    BY <1>2, <2>3, FS_Subset
  <2>5. Cardinality(B) \in Nat
    BY <2>4, FS_CardinalityType
  <2>6. Cardinality(B) < Cardinality(P)
    BY <1>3, <2>4, <2>5
  <2>. QED
    BY <2>2, <2>5, <2>6 DEF B
<1>. QED
  BY <1>3, <1>5, <1>6, <1>7 DEF Counted

LEMMA NextMultiple ==
  ASSUME NEW k \in Nat, NEW P \in Nat
  PROVE  (k + 1) * P = k * P + P /\ k * P \in Nat
OBVIOUS

LEMMA IssueTiles ==
  ASSUME NEW s, NEW t, NEW tr \in Seq(Did_), NEW u, NEW c, NEW d, NEW q, NEW pkt,
         IssueStep(s, t, tr, u, c, d, q, pkt), ListsOK(s), WaitingOK(s, tr), TilesOK(s, tr)
  PROVE  TilesOK(t, u)
<1> DEFINE m0 == d.req
           P == Recs(tr, "packet", m0)
           Q == Recs(u, "packet", m0)
           z == Req[m0].msg_size
<1>1. /\ IssueRecs(tr, u, c, m0) /\ u[c] = d /\ m0 = pkt.req /\ m0 \in Msgs
      /\ Waits(s, m0) /\ Recs(tr, "queued", m0) # {} /\ d.last \in BOOLEAN
      /\ \A p \in P : tr[p].last = FALSE
  BY PacketRecs
<1>2. /\ IssueEffect(s, t, q, pkt) /\ d.offset = pkt.offset /\ d.size = pkt.size /\ d.last = pkt.last
  BY DEF IssueStep
<1>3. PacketSize \in Nat \ {0} /\ z \in Nat /\ Len(tr) \in Nat
  BY <1>1, SchedAssumption, ReqFacts, LenProperties
<1>4. /\ c \in Nat /\ P \subseteq 1 .. Len(tr) /\ \A i \in P : i < c /\ u[i] = tr[i]
      /\ \A i : i \in Q <=> i \in P \/ i = c
  BY <1>1 DEF IssueRecs, Recs
<1> HIDE DEF P, Q
<1>5. /\ Cardinality(P) \in Nat /\ Cardinality(Q) = Cardinality(P) + 1
      /\ {j \in Q : j < c} = P
      /\ \A i \in P : /\ {j \in Q : j < i} = {j \in P : j < i}
                      /\ Cardinality({j \in P : j < i}) \in Nat
                      /\ Cardinality({j \in P : j < i}) < Cardinality(P)
  <2>1. Counted(P, Q, c)
    BY <1>3, <1>4, CountRecords
  <2>. QED
    BY <2>1 DEF Counted
<1> DEFINE K == Cardinality(P)
<1>6. PICK a \in Slots(s, m0) :
        /\ ListOf(s, m0)[a].rem \in Nat /\ d.offset = z - ListOf(s, m0)[a].rem
        /\ d.last \in BOOLEAN /\ (d.last <=> PacketSize >= ListOf(s, m0)[a].rem)
        /\ d.size = IF PacketSize >= ListOf(s, m0)[a].rem THEN ListOf(s, m0)[a].rem ELSE PacketSize
        /\ \A b \in Slots(t, m0) : ListOf(t, m0)[b].rem = ListOf(s, m0)[a].rem - PacketSize
  BY <1>1, <1>2 DEF IssueEffect
<1> DEFINE rem == ListOf(s, m0)[a].rem
<1>7. rem = z - K * PacketSize
  BY <1>1 DEF TilesOK, P
<1>8. /\ rem \in Nat /\ d.offset = z - rem /\ (d.last <=> PacketSize >= rem)
      /\ d.size = IF PacketSize >= rem THEN rem ELSE PacketSize
      /\ \A b \in Slots(t, m0) : ListOf(t, m0)[b].rem = rem - PacketSize
  BY <1>6
<1>9. K \in Nat /\ K * PacketSize \in Nat /\ (K + 1) * PacketSize = K * PacketSize + PacketSize
  BY <1>3, <1>5, NextMultiple
<1> HIDE DEF z, rem, K, m0
<1>10. /\ d.offset = K * PacketSize
       /\ d.last <=> d.offset + d.size = z
       /\ ~d.last => d.size = PacketSize
  <2> DEFINE x == K * PacketSize
  <2>1. x \in Nat /\ rem = z - x
    BY <1>7, <1>9
  <2> HIDE DEF x
  <2>2. d.offset = x
    BY <1>3, <1>8, <2>1
  <2>3. CASE PacketSize >= rem
    <3>1. d.last /\ d.size = rem
      BY <1>8, <2>3
    <3>2. x + rem = z
      BY <1>3, <1>8, <2>1
    <3>. QED
      BY <2>2, <3>1, <3>2 DEF x
  <2>4. CASE ~(PacketSize >= rem)
    <3>1. d.last = FALSE /\ d.size = PacketSize
      BY <1>8, <2>4
    <3>2. x + PacketSize # z
      BY <1>3, <1>8, <2>1, <2>4
    <3>. QED
      BY <2>2, <3>1, <3>2 DEF x
  <2>. QED
    BY <2>3, <2>4
<1>11. \A b \in Slots(t, m0) : ListOf(t, m0)[b].rem = z - (K + 1) * PacketSize
  <2>1. rem - PacketSize = z - (K * PacketSize + PacketSize)
    BY <1>3, <1>7, <1>9
  <2>. QED
    BY <1>8, <1>9, <2>1
<1>12. ASSUME NEW i \in Q
       PROVE  LET k == Cardinality({j \in Q : j < i})
              IN  /\ u[i].offset = k * PacketSize
                  /\ u[i].last <=> u[i].offset + u[i].size = z /\ k + 1 = Cardinality(Q)
                  /\ ~u[i].last => u[i].size = PacketSize
  <2>1. CASE i = c
    <3>1. u[i] = d /\ Cardinality({j \in Q : j < i}) = K /\ K + 1 = Cardinality(Q)
      BY <1>1, <1>5, <2>1 DEF K
    <3>. QED
      BY <1>10, <3>1
  <2>2. CASE i \in P
    <3> DEFINE k == Cardinality({j \in P : j < i})
    <3>1. tr[i].offset = k * PacketSize /\ (~tr[i].last => tr[i].size = PacketSize)
      BY <1>1, <2>2 DEF TilesOK, P
    <3>2. tr[i].last = FALSE /\ u[i] = tr[i]
      BY <1>1, <1>4, <2>2
    <3>3. k \in Nat /\ k < K /\ Cardinality(Q) = K + 1 /\ {j \in Q : j < i} = {j \in P : j < i}
      BY <1>5, <2>2 DEF K
    <3> HIDE DEF k
    <3>4. k + 1 # Cardinality(Q)
      BY <1>9, <3>3
    <3>5. Cardinality({j \in Q : j < i}) = k
      BY <3>3 DEF k
    <3>. QED
      BY <3>1, <3>2, <3>4, <3>5
  <2>. QED
    BY <1>4, <2>1, <2>2
<1>13. ASSUME NEW m \in Msgs
       PROVE  /\ \A i \in Recs(u, "packet", m) :
                   LET k == Cardinality({j \in Recs(u, "packet", m) : j < i})
                   IN  /\ u[i].offset = k * PacketSize
                       /\ u[i].last <=> /\ u[i].offset + u[i].size = Req[m].msg_size
                                        /\ k + 1 = Cardinality(Recs(u, "packet", m))
                       /\ ~u[i].last => u[i].size = PacketSize
              /\ \A b \in Slots(t, m) :
                   ListOf(t, m)[b].rem =
                     Req[m].msg_size - Cardinality(Recs(u, "packet", m)) * PacketSize
  <2>1. CASE m = m0
    <3>1. \A b \in Slots(t, m0) : ListOf(t, m0)[b].rem = z - Cardinality(Q) * PacketSize
      BY <1>5, <1>11 DEF K
    <3>. QED
      BY <1>12, <2>1, <3>1 DEF Q, z
  <2>2. CASE m # m0
    <3>1. /\ Recs(u, "packet", m) = Recs(tr, "packet", m)
          /\ \A i \in Recs(tr, "packet", m) : u[i] = tr[i]
      BY <1>1, <2>2 DEF IssueRecs
    <3>2. \A b \in Slots(t, m) : \E e \in Slots(s, m) : ListOf(t, m)[b].rem = ListOf(s, m)[e].rem
      BY <1>1, <1>2, <2>2 DEF IssueEffect
    <3>3. \A i \in Recs(tr, "packet", m) :
                   LET k == Cardinality({j \in Recs(tr, "packet", m) : j < i})
                   IN  /\ tr[i].offset = k * PacketSize
                       /\ tr[i].last <=> /\ tr[i].offset + tr[i].size = Req[m].msg_size
                                        /\ k + 1 = Cardinality(Recs(tr, "packet", m))
                       /\ ~tr[i].last => tr[i].size = PacketSize
      BY DEF TilesOK
    <3>4. \A b \in Slots(s, m) :
            ListOf(s, m)[b].rem = Req[m].msg_size - Cardinality(Recs(tr, "packet", m)) * PacketSize
      BY DEF TilesOK
    <3>. QED
      BY <3>1, <3>2, <3>3, <3>4
  <2>. QED
    BY <2>1, <2>2
<1>. QED
  BY <1>13 DEF TilesOK

LEMMA IssueRest ==
  ASSUME NEW s, NEW t, NEW tr \in Seq(Did_), NEW u, NEW c, NEW d, NEW q, NEW pkt, NEW L, NEW A,
         IssueStep(s, t, tr, u, c, d, q, pkt), ListsOK(s), WaitingOK(s, tr),
         RecordsOK(tr, A), CopiesOK(s, tr), LiveOK(tr, L, A)
  PROVE  RecordsOK(u, A) /\ CopiesOK(t, u) /\ LiveOK(u, L, A)
<1> DEFINE m0 == d.req
<1>1. /\ IssueRecs(tr, u, c, m0) /\ u[c] = d /\ m0 = pkt.req /\ m0 \in Msgs
      /\ Waits(s, m0) /\ Recs(tr, "queued", m0) # {} /\ d.last \in BOOLEAN
      /\ \A p \in Recs(tr, "packet", m0) : tr[p].last = FALSE
  BY PacketRecs
<1>2. /\ Len(u) = c /\ (\A i \in 1 .. c : i = c \/ i \in 1 .. Len(tr))
      /\ \A i \in 1 .. Len(tr) : u[i] = tr[i]
  BY DEF IssueStep, OneMore
<1>3. d.kind = "packet" /\ d.q = q /\ queue_of(m0) = q /\ t.copy_avail = s.copy_avail
  BY DEF IssueStep, IssueEffect
<1>4. \A m : Recs(u, "queued", m) = Recs(tr, "queued", m)
  BY <1>1 DEF IssueRecs
<1> HIDE DEF m0
<1>5. m0 \in A /\ "packet" # "copy"
  BY <1>1 DEF RecordsOK, Recs
<1>6. RecordsOK(u, A)
  <2> SUFFICES ASSUME NEW i \in 1 .. Len(u)
               PROVE  u[i].req \in A /\ (u[i].kind # "copy" => u[i].q = queue_of(u[i].req))
    BY DEF RecordsOK
  <2>1. CASE i = c
    BY <1>1, <1>3, <1>5, <2>1 DEF m0
  <2>2. CASE i \in 1 .. Len(tr)
    BY <1>2, <2>2 DEF RecordsOK
  <2>. QED
    BY <1>2, <2>1, <2>2
<1>7. CopiesOK(t, u)
  <2>1. \A i \in 1 .. Len(u) : u[i].kind = "copy" => i \in 1 .. Len(tr) /\ u[i] = tr[i]
    BY <1>1, <1>2, <1>3, <1>5
  <2>. QED
    BY <1>3, <2>1 DEF CopiesOK
<1>8. LiveOK(u, L, A)
  <2>1. ASSUME NEW f \in L, f.src = 0, NEW i \in 1 .. Len(u) PROVE u[i].req # f.m
    <3>1. CASE i = c
      <4>1. Recs(tr, "queued", f.m) = {}
        BY DEF LiveOK
      <4>. QED
        BY <1>1, <3>1, <4>1 DEF m0
    <3>2. CASE i \in 1 .. Len(tr)
      BY <1>2, <2>1, <3>2 DEF LiveOK
    <3>. QED
      BY <1>2, <3>1, <3>2
  <2>. QED
    BY <1>4, <2>1 DEF LiveOK
<1>. QED
  BY <1>6, <1>7, <1>8

LEMMA IssueNics ==
  ASSUME NEW s, NEW t, NEW tr \in Seq(Did_), NEW u, NEW c, NEW d, NEW q, NEW pkt, NEW L,
         IssueStep(s, t, tr, u, c, d, q, pkt), ListsOK(s), WaitingOK(s, tr),
         NicsOK(s, tr, L), ServiceOK(s, tr)
  PROVE  NicsOK(t, u, L)
<1> DEFINE m0 == d.req
<1>1. /\ IssueRecs(tr, u, c, m0) /\ u[c] = d /\ m0 = pkt.req /\ m0 \in Msgs
      /\ Waits(s, m0) /\ Recs(tr, "queued", m0) # {} /\ d.last \in BOOLEAN
      /\ \A p \in Recs(tr, "packet", m0) : tr[p].last = FALSE
  BY PacketRecs
<1>2. IssueEffect(s, t, q, pkt) /\ t.next_avail = s.next_avail
  BY DEF IssueStep
<1> HIDE DEF m0
<1>3. \A m : /\ Recs(u, "queued", m) = Recs(tr, "queued", m)
             /\ Recs(u, "nic", m) = Recs(tr, "nic", m)
             /\ \A i : i \in Recs(u, "packet", m) <=> i \in Recs(tr, "packet", m) \/ (i = c /\ m = m0)
             /\ \A i \in Recs(tr, "queued", m) : i \in Nat
             /\ \A i \in Recs(tr, "nic", m) : u[i] = tr[i] /\ i \in Nat
             /\ \A i \in Recs(tr, "packet", m) : i < c
  BY <1>1 DEF IssueRecs
<1>4. ASSUME NEW k \in Msgs, NEW i \in Recs(tr, "nic", k), NEW j \in Recs(tr, "nic", m0),
             i < j, Rivals(k, m0)
      PROVE  \E a \in Recs(tr, "packet", k) : a < c
  <2>1. k # m0
    <3> SUFFICES ASSUME k = m0 PROVE FALSE
      OBVIOUS
    <3>1. i = j
      BY <1>1 DEF NicsOK
    <3>2. i \in Nat
      BY <1>3
    <3>. QED
      BY <1>4, <3>1, <3>2
  <2>2. PICK b \in Recs(tr, "queued", m0) : TRUE
    BY <1>1
  <2>3. PICK a \in Recs(tr, "queued", k) : a < b
    BY <1>1, <1>4, <2>2 DEF NicsOK
  <2>4. Recs(tr, "packet", k) # {}
    <3> SUFFICES ASSUME Recs(tr, "packet", k) = {} PROVE FALSE
      OBVIOUS
    <3>1. Waits(s, k)
      BY <2>3 DEF WaitingOK
    <3>2. Ahead(s, m0, k)
      BY <1>1, <1>2, <1>4, <2>1, <3>1 DEF IssueEffect
    <3>3. PICK e \in Recs(tr, "queued", m0) : e < a
      BY <1>1, <2>3, <3>2 DEF ServiceOK, StartOK
    <3>4. e = b
      BY <1>1, <2>2, <3>3 DEF WaitingOK
    <3>5. a \in Nat /\ b \in Nat
      BY <1>3, <2>2, <2>3
    <3>. QED
      BY <2>3, <3>3, <3>4, <3>5
  <2>. QED
    BY <1>3, <2>4
<1>5. \A m \in Msgs : \A i \in Recs(u, "nic", m) :
       /\ u[i].at <= t.next_avail
       /\ \A j \in Recs(u, "nic", m) : i = j
       /\ \/ Recs(u, "queued", m) # {}
          \/ \E f \in L : f.m = m /\ f.src # 0 /\ f.ts = u[i].at
  <2>1. \A m \in Msgs : \A i \in Recs(tr, "nic", m) :
       /\ tr[i].at <= s.next_avail
       /\ \A j \in Recs(tr, "nic", m) : i = j
       /\ \/ Recs(tr, "queued", m) # {}
          \/ \E f \in L : f.m = m /\ f.src # 0 /\ f.ts = tr[i].at
    BY DEF NicsOK
  <2>. QED
    BY <1>2, <1>3, <2>1
<1>6. \A f \in L : f.src # 0 => \E i \in Recs(u, "nic", f.m) : u[i].at = f.ts
  <2>1. \A f \in L : f.src # 0 => \E i \in Recs(tr, "nic", f.m) : tr[i].at = f.ts
    BY DEF NicsOK
  <2>. QED
    BY <1>3, <2>1
<1>7. ASSUME NEW k \in Msgs, NEW m \in Msgs,
             NEW i \in Recs(tr, "nic", k), NEW j \in Recs(tr, "nic", m), i < j
      PROVE  /\ tr[i].at < tr[j].at
             /\ \A b \in Recs(tr, "queued", m) : \E a \in Recs(tr, "queued", k) : a < b
             /\ Rivals(k, m) =>
                  \A b \in Recs(u, "packet", m) : \E a \in Recs(u, "packet", k) : a < b
  <2>1. /\ tr[i].at < tr[j].at
        /\ \A b \in Recs(tr, "queued", m) : \E a \in Recs(tr, "queued", k) : a < b
        /\ Rivals(k, m) =>
             \A b \in Recs(tr, "packet", m) : \E a \in Recs(tr, "packet", k) : a < b
    BY <1>7 DEF NicsOK
  <2>2. ASSUME Rivals(k, m), NEW b \in Recs(u, "packet", m)
        PROVE  \E a \in Recs(u, "packet", k) : a < b
    <3>1. CASE b \in Recs(tr, "packet", m)
      BY <1>3, <2>1, <2>2, <3>1
    <3>2. CASE b = c /\ m = m0
      <4>1. \E a \in Recs(tr, "packet", k) : a < c
        BY <1>4, <1>7, <2>2, <3>2
      <4>. QED
        BY <1>3, <3>2, <4>1
    <3>. QED
      BY <1>3, <3>1, <3>2
  <2>. QED
    BY <2>1, <2>2
<1>8. \A k, m \in Msgs : \A i \in Recs(u, "nic", k), j \in Recs(u, "nic", m) :
       i < j => /\ u[i].at < u[j].at
                /\ \A b \in Recs(u, "queued", m) : \E a \in Recs(u, "queued", k) : a < b
                /\ Rivals(k, m) =>
                     \A b \in Recs(u, "packet", m) : \E a \in Recs(u, "packet", k) : a < b
  BY <1>3, <1>7
<1>. QED
  BY <1>5, <1>6, <1>8 DEF NicsOK

LEMMA IssueService ==
  ASSUME NEW s, NEW t, NEW tr, NEW u, NEW c, NEW d, NEW q, NEW pkt,
         IssueStep(s, t, tr, u, c, d, q, pkt), ListsOK(s), WaitingOK(s, tr), ServiceOK(s, tr)
  PROVE  ServiceOK(t, u)
<1> DEFINE m0 == d.req
           P(m) == Recs(tr, "packet", m)
           Q(m) == Recs(u, "packet", m)
<1>1. /\ IssueRecs(tr, u, c, m0) /\ u[c] = d /\ m0 = pkt.req /\ m0 \in Msgs
      /\ Waits(s, m0) /\ Recs(tr, "queued", m0) # {} /\ d.last \in BOOLEAN
      /\ \A p \in Recs(tr, "packet", m0) : tr[p].last = FALSE
  BY PacketRecs
<1>2. /\ \A k \in Msgs : ~Ahead(s, k, m0)
      /\ \A k \in Msgs : k # m0 /\ Rivals(k, m0) /\ Waits(s, k) => Ahead(s, m0, k)
      /\ \A m \in Msgs : Waits(t, m) <=> Waits(s, m) /\ ~(m = m0 /\ d.last)
      /\ \A k, m \in Msgs : k # m0 /\ m # m0 => (Ahead(t, k, m) <=> Ahead(s, k, m))
      /\ \A k \in Msgs : Ahead(t, m0, k) => Discipline # "rr" /\ Ahead(s, m0, k)
      /\ \A k \in Msgs : Ahead(t, k, m0) => Discipline = "rr"
      /\ \A k \in Msgs : /\ Discipline = "rr" /\ ~d.last
                         /\ k # m0 /\ Rivals(k, m0) /\ Waits(s, k)
                         => Ahead(t, k, m0)
  BY <1>1 DEF IssueStep, IssueEffect
<1>3. \A m : /\ Recs(u, "queued", m) = Recs(tr, "queued", m)
             /\ \A i \in Recs(tr, "queued", m) : i < c /\ i \in Nat
             /\ m # m0 => Q(m) = P(m)
             /\ \A i : i \in Q(m) <=> i \in P(m) \/ (i = c /\ m = m0)
             /\ \A i \in P(m) : i < c /\ i \in Nat
  BY <1>1 DEF IssueRecs
<1>4. c \in Nat /\ c \in Q(m0)
  BY <1>1, <1>3 DEF IssueRecs
<1>5. \A k, m : Rivals(k, m) => Rivals(m, k)
  BY DEF Rivals
<1> HIDE DEF m0, P, Q
<1>6. StartOK(t, u)
  <2> SUFFICES ASSUME NEW k \in Msgs, NEW m \in Msgs, Ahead(t, k, m), Q(m) = {},
                      NEW b \in Recs(tr, "queued", m)
               PROVE  \E a \in Recs(tr, "queued", k) : a < b
    BY <1>3 DEF StartOK, Q
  <2>1. m # m0 /\ P(m) = {}
    BY <1>3, <1>4
  <2>2. Ahead(s, k, m)
    BY <1>2, <2>1
  <2>. QED
    BY <2>1, <2>2 DEF ServiceOK, StartOK, P
<1>7. ASSUME Discipline = "fcfs" PROVE FcfsOK(t, u)
  <2>1. \A k, m \in Msgs : k # m /\ Rivals(k, m) =>
          /\ Ahead(s, k, m) => P(m) = {}
          /\ Waits(s, m) => \A i \in P(m), p \in P(k) : p < i
          /\ \A i, j \in P(m), p \in P(k) : i < j => p < i \/ p > j
    BY <1>7 DEF ServiceOK, FcfsOK, P
  <2>2. Discipline # "rr"
    BY <1>7
  <2>3. ASSUME NEW k \in Msgs, NEW m \in Msgs, k # m, Rivals(k, m)
        PROVE  /\ Ahead(t, k, m) => Q(m) = {}
               /\ Waits(t, m) => \A i \in Q(m), p \in Q(k) : p < i
               /\ \A i, j \in Q(m), p \in Q(k) : i < j => p < i \/ p > j
    <3>1. Ahead(t, k, m) => Q(m) = {}
      <4>1. Ahead(t, k, m) => m # m0 /\ Ahead(s, k, m)
        BY <1>2, <2>2
      <4>. QED
        BY <1>3, <2>1, <2>3, <4>1
    <3>2. ASSUME Waits(t, m), NEW i \in Q(m), NEW p \in Q(k) PROVE p < i
      <4>1. Waits(s, m)
        BY <1>2, <3>2
      <4>2. CASE m = m0
        BY <1>3, <2>1, <2>3, <4>1, <4>2
      <4>3. CASE k = m0
        <5>1. P(m) = {}
          BY <1>1, <1>2, <1>5, <2>1, <2>3, <4>1, <4>3
        <5>. QED
          BY <1>3, <2>3, <4>3, <5>1
      <4>4. CASE m # m0 /\ k # m0
        BY <1>3, <2>1, <2>3, <4>1, <4>4
      <4>. QED
        BY <4>2, <4>3, <4>4
    <3>3. ASSUME NEW i \in Q(m), NEW j \in Q(m), NEW p \in Q(k), i < j PROVE p < i \/ p > j
      <4>1. i \in P(m)
        <5>1. j \in Nat /\ j <= c
          BY <1>3, <1>4
        <5>. QED
          BY <1>3, <1>4, <3>3, <5>1
      <4>2. CASE j \in P(m) /\ p \in P(k)
        BY <2>1, <2>3, <3>3, <4>1, <4>2
      <4>3. CASE j = c /\ m = m0 /\ p \in P(k)
        BY <1>1, <2>1, <2>3, <4>1, <4>3
      <4>4. CASE j \in P(m) /\ p = c
        BY <1>3, <1>4, <4>4
      <4>. QED
        BY <1>3, <2>3, <4>2, <4>3, <4>4
    <3>. QED
      BY <3>1, <3>2, <3>3
  <2>. QED
    BY <2>3 DEF FcfsOK, Q
<1>8. ASSUME Discipline = "rr" PROVE RrOK(t, u)
  <2> DEFINE W(m) == Recs(tr, "queued", m)
  <2>1. \A k, m \in Msgs : k # m /\ Rivals(k, m) =>
          \A i \in P(m), e \in W(k) : e < i =>
            /\ Waits(s, k) /\ Waits(s, m) => Ahead(s, k, m) \/ \E p \in P(k) : i < p
            /\ \A j \in P(m) : i < j /\ (Waits(s, k) \/ \E p \in P(k) : j < p) =>
                 \E p \in P(k) : i < p /\ p < j
    BY <1>8 DEF ServiceOK, RrOK, P
  <2>2. ASSUME NEW k \in Msgs, NEW m \in Msgs, k # m, Rivals(k, m),
               NEW i \in Q(m), NEW e \in W(k), e < i
        PROVE  /\ Waits(t, k) /\ Waits(t, m) => Ahead(t, k, m) \/ \E p \in Q(k) : i < p
               /\ \A j \in Q(m) : i < j /\ (Waits(t, k) \/ \E p \in Q(k) : j < p) =>
                    \E p \in Q(k) : i < p /\ p < j
    <3>1. ASSUME Waits(t, k), Waits(t, m) PROVE Ahead(t, k, m) \/ \E p \in Q(k) : i < p
      <4>1. CASE m = m0
        BY <1>1, <1>2, <1>8, <2>2, <3>1, <4>1
      <4>2. CASE k = m0
        BY <1>3, <1>4, <2>2, <4>2
      <4>3. CASE m # m0 /\ k # m0
        BY <1>2, <1>3, <2>1, <2>2, <3>1, <4>3
      <4>. QED
        BY <4>1, <4>2, <4>3
    <3>2. ASSUME NEW j \in Q(m), i < j, Waits(t, k) \/ \E p \in Q(k) : j < p
          PROVE  \E p \in Q(k) : i < p /\ p < j
      <4>1. i \in P(m) /\ j \in Nat /\ j <= c
        <5>1. j \in Nat /\ j <= c
          BY <1>3, <1>4
        <5>. QED
          BY <1>3, <1>4, <3>2, <5>1
      <4>2. Waits(s, k) \/ \E p \in P(k) : j < p
        <5>1. CASE Waits(t, k)
          BY <1>2, <5>1
        <5>2. CASE \E p \in Q(k) : j < p
          <6>1. PICK p \in Q(k) : j < p
            BY <5>2
          <6>2. p \in P(k) \/ k = m0
            BY <1>3, <6>1
          <6>. QED
            BY <1>1, <6>1, <6>2
        <5>. QED
          BY <3>2, <5>1, <5>2
      <4>3. CASE j \in P(m)
        <5>1. \E p \in P(k) : i < p /\ p < j
          BY <2>1, <2>2, <3>2, <4>1, <4>2, <4>3
        <5>. QED
          BY <1>3, <5>1
      <4>4. CASE j = c /\ m = m0
        <5>1. Waits(s, k)
          <6>1. \A p \in P(k) : ~(c < p)
            BY <1>3, <1>4
          <6>. QED
            BY <4>2, <4>4, <6>1
        <5>2. \E p \in P(k) : i < p
          BY <1>1, <1>2, <2>1, <2>2, <4>1, <4>4, <5>1
        <5>. QED
          BY <1>3, <4>4, <5>2
      <4>. QED
        BY <1>3, <4>3, <4>4
    <3>. QED
      BY <3>1, <3>2
  <2>3. \A m : Recs(u, "queued", m) = W(m)
    BY <1>3
  <2> HIDE DEF W
  <2>. QED
    BY <2>2, <2>3 DEF RrOK, Q
<1>. QED
  BY <1>6, <1>7, <1>8 DEF ServiceOK

LEMMA IssueGood ==
  ASSUME NEW s, NEW t, NEW tr \in Seq(Did_), NEW u, NEW c, NEW d, NEW q, NEW pkt, NEW L, NEW A,
         IssueStep(s, t, tr, u, c, d, q, pkt), Good(s, tr, L, A)
  PROVE  Good(t, u, L, A)
<1>1. /\ ListsOK(s) /\ RecordsOK(tr, A) /\ CopiesOK(s, tr) /\ WaitingOK(s, tr)
      /\ TilesOK(s, tr) /\ LiveOK(tr, L, A) /\ NicsOK(s, tr, L) /\ ServiceOK(s, tr)
  BY DEF Good
<1>2. ListsOK(t)
  BY DEF IssueStep, IssueEffect
<1>3. WaitingOK(t, u) /\ ServiceOK(t, u)
  BY <1>1, IssueWaiting, IssueService
<1>4. TilesOK(t, u) /\ NicsOK(t, u, L)
  BY <1>1, IssueTiles, IssueNics
<1>5. RecordsOK(u, A) /\ CopiesOK(t, u) /\ LiveOK(u, L, A)
  BY <1>1, IssueRest
<1>. QED
  BY <1>2, <1>3, <1>4, <1>5 DEF Good

-----------------------------------------------------------------------------
(* The schedulers do nothing.                                              *)

LEMMA SameLists ==
  ASSUME NEW s, NEW t, t.sched = s.sched
  PROVE  /\ \A m : ListOf(t, m) = ListOf(s, m) /\ Slots(t, m) = Slots(s, m)
         /\ \A m : Waits(t, m) <=> Waits(s, m)
         /\ \A k, m : Ahead(t, k, m) <=> Ahead(s, k, m)
         /\ ListsOK(s) => ListsOK(t)
<1>1. \A m : ListOf(t, m) = ListOf(s, m)
  BY DEF ListOf
<1>2. \A m : Slots(t, m) = Slots(s, m)
  BY <1>1 DEF Slots
<1>3. \A m : Waits(t, m) <=> Waits(s, m)
  BY <1>2 DEF Waits
<1>4. \A k, m : Ahead(t, k, m) <=> Ahead(s, k, m)
  BY <1>2 DEF Ahead
<1>5. ListsOK(s) => ListsOK(t)
  BY <1>2 DEF ListsOK
<1>. QED
  BY <1>1, <1>2, <1>3, <1>4, <1>5

SameService(s, t, tr, u) ==
  /\ t.sched = s.sched
  /\ \A m : /\ Recs(u, "queued", m) = Recs(tr, "queued", m)
            /\ Recs(u, "packet", m) = Recs(tr, "packet", m)
            /\ \A i \in Recs(tr, "packet", m) : u[i] = tr[i]

LEMMA QuietService ==
  ASSUME NEW s, NEW t, NEW tr, NEW u, SameService(s, t, tr, u),
         ListsOK(s), WaitingOK(s, tr), TilesOK(s, tr), ServiceOK(s, tr)
  PROVE  ListsOK(t) /\ WaitingOK(t, u) /\ TilesOK(t, u) /\ ServiceOK(t, u)
<1>1. /\ \A m : ListOf(t, m) = ListOf(s, m) /\ Slots(t, m) = Slots(s, m)
      /\ \A m : Waits(t, m) <=> Waits(s, m)
      /\ \A k, m : Ahead(t, k, m) <=> Ahead(s, k, m)
      /\ ListsOK(t)
  BY SameLists DEF SameService
<1>2. \A m : /\ Recs(u, "queued", m) = Recs(tr, "queued", m)
             /\ Recs(u, "packet", m) = Recs(tr, "packet", m)
             /\ \A i \in Recs(tr, "packet", m) : u[i] = tr[i]
  BY DEF SameService
<1>3. WaitingOK(t, u)
  <2> SUFFICES ASSUME NEW m \in Msgs
               PROVE  /\ Waits(t, m) <=> /\ Recs(u, "queued", m) # {}
                                         /\ \A p \in Recs(u, "packet", m) : u[p].last = FALSE
                      /\ \A i, j \in Recs(u, "queued", m) : i = j
                      /\ \A p \in Recs(u, "packet", m) : \E i \in Recs(u, "queued", m) : i < p
    BY DEF WaitingOK
  <2>1. /\ Waits(s, m) <=> /\ Recs(tr, "queued", m) # {}
                           /\ \A p \in Recs(tr, "packet", m) : tr[p].last = FALSE
        /\ \A i, j \in Recs(tr, "queued", m) : i = j
        /\ \A p \in Recs(tr, "packet", m) : \E i \in Recs(tr, "queued", m) : i < p
    BY DEF WaitingOK
  <2>2. (\A p \in Recs(tr, "packet", m) : tr[p].last = FALSE)
          <=> (\A p \in Recs(tr, "packet", m) : u[p].last = FALSE)
    BY <1>2
  <2>. QED
    BY <1>1, <1>2, <2>1, <2>2
<1>4. TilesOK(t, u)
  <2> SUFFICES ASSUME NEW m \in Msgs
               PROVE  /\ \A i \in Recs(u, "packet", m) :
                           LET k == Cardinality({j \in Recs(u, "packet", m) : j < i})
                           IN  /\ u[i].offset = k * PacketSize
                               /\ u[i].last <=> /\ u[i].offset + u[i].size = Req[m].msg_size
                                                /\ k + 1 = Cardinality(Recs(u, "packet", m))
                               /\ ~u[i].last => u[i].size = PacketSize
                      /\ \A a \in Slots(t, m) :
                           ListOf(t, m)[a].rem =
                             Req[m].msg_size - Cardinality(Recs(u, "packet", m)) * PacketSize
    BY DEF TilesOK
  <2>1. \A i \in Recs(tr, "packet", m) :
          LET k == Cardinality({j \in Recs(tr, "packet", m) : j < i})
          IN  /\ tr[i].offset = k * PacketSize
              /\ tr[i].last <=> /\ tr[i].offset + tr[i].size = Req[m].msg_size
                               /\ k + 1 = Cardinality(Recs(tr, "packet", m))
              /\ ~tr[i].last => tr[i].size = PacketSize
    BY DEF TilesOK
  <2>2. \A a \in Slots(s, m) :
          ListOf(s, m)[a].rem = Req[m].msg_size - Cardinality(Recs(tr, "packet", m)) * PacketSize
    BY DEF TilesOK
  <2>. QED
    BY <1>1, <1>2, <2>1, <2>2
<1>5. StartOK(s, tr) => StartOK(t, u)
  BY <1>1, <1>2 DEF StartOK
<1>6. FcfsOK(s, tr) => FcfsOK(t, u)
  BY <1>1, <1>2 DEF FcfsOK
<1>7. RrOK(s, tr) => RrOK(t, u)
  BY <1>1, <1>2 DEF RrOK
<1>8. ServiceOK(t, u)
  BY <1>5, <1>6, <1>7 DEF ServiceOK
<1>. QED
  BY <1>1, <1>3, <1>4, <1>8

LEMMA QuietGood ==
  ASSUME NEW s, NEW t, NEW tr, NEW L, NEW A, Good(s, tr, L, A), t.sched = s.sched,
         t.copy_avail = s.copy_avail, t.next_avail = s.next_avail
  PROVE  Good(t, tr, L, A)
<1>1. /\ ListsOK(s) /\ RecordsOK(tr, A) /\ CopiesOK(s, tr) /\ WaitingOK(s, tr)
      /\ TilesOK(s, tr) /\ LiveOK(tr, L, A) /\ NicsOK(s, tr, L) /\ ServiceOK(s, tr)
  BY DEF Good
<1>2. SameService(s, t, tr, tr)
  BY DEF SameService
<1>3. ListsOK(t) /\ WaitingOK(t, tr) /\ TilesOK(t, tr) /\ ServiceOK(t, tr)
  BY <1>1, <1>2, QuietService
<1>4. CopiesOK(t, tr)
  BY <1>1 DEF CopiesOK
<1>5. NicsOK(t, tr, L)
  BY <1>1 DEF NicsOK
<1>. QED
  BY <1>1, <1>3, <1>4, <1>5 DEF Good

-----------------------------------------------------------------------------
(* A message is copied within the node.                                    *)

\* e is taken, and record d is made about its message
TakeStep(e, L, A, tr, u, c, d) ==
  /\ OneMore(tr, d, u, c) /\ d \in Did_ /\ e \in L /\ d.req = e.m
  /\ d.kind # "copy" => d.q = queue_of(e.m)

TakeView(e, L, A, tr, u, c, d) ==
  /\ d.req = e.m /\ e.m \in Msgs /\ e.m \in A /\ Recs(tr, "queued", e.m) = {}
  /\ c \in Nat /\ u[c] = d /\ Len(u) = c
  /\ \A i \in 1 .. c : i = c \/ i \in 1 .. Len(tr)
  /\ \A i \in 1 .. Len(tr) : u[i] = tr[i] /\ i < c /\ i \in Nat
  /\ \A kind, m : \A i \in Recs(tr, kind, m) : i \in 1 .. Len(tr) /\ tr[i] \in Did_
                                               /\ u[i] = tr[i] /\ i < c /\ i \in Nat
  /\ \A kind, m : ~(kind = d.kind /\ m = e.m) => Recs(u, kind, m) = Recs(tr, kind, m)
  /\ \A i : i \in Recs(u, d.kind, e.m) <=> i \in Recs(tr, d.kind, e.m) \/ i = c
  /\ \A f \in L : f.m = e.m => f = e

LEMMA TakeFacts ==
  ASSUME NEW e, NEW L, NEW A, NEW tr, NEW u, NEW c, NEW d, TakeStep(e, L, A, tr, u, c, d),
         RecordsOK(tr, A), LiveOK(tr, L, A)
  PROVE  RecordsOK(u, A) /\ TakeView(e, L, A, tr, u, c, d)
<1>1. OneMore(tr, d, u, c) /\ d.req = e.m /\ (d.kind # "copy" => d.q = queue_of(e.m)) /\ e \in L
  BY DEF TakeStep
<1>2. e.m \in Msgs /\ e.m \in A /\ Recs(tr, "queued", e.m) = {} /\ \A f \in L : f.m = e.m => f = e
  BY <1>1 DEF LiveOK
<1>3. /\ c \in Nat /\ u[c] = d /\ Len(u) = c
      /\ \A i \in 1 .. c : i = c \/ i \in 1 .. Len(tr)
      /\ \A i \in 1 .. Len(tr) : u[i] = tr[i] /\ i < c /\ i \in Nat
      /\ \A kind, m : \A i \in Recs(tr, kind, m) : i \in 1 .. Len(tr) /\ tr[i] \in Did_
      /\ \A kind, m : \A i : i \in Recs(u, kind, m) <=>
           i \in Recs(tr, kind, m) \/ (i = c /\ d.kind = kind /\ d.req = m)
  BY <1>1 DEF OneMore
<1>4. \A kind, m : \A i \in Recs(tr, kind, m) : u[i] = tr[i] /\ i < c /\ i \in Nat
  BY <1>3
<1>5. ASSUME NEW kind, NEW m, ~(kind = d.kind /\ m = e.m) PROVE Recs(u, kind, m) = Recs(tr, kind, m)
  <2>1. \A i : i \in Recs(u, kind, m) <=> i \in Recs(tr, kind, m)
    BY <1>1, <1>3, <1>5
  <2>. QED
    BY <2>1
<1>6. \A i : i \in Recs(u, d.kind, e.m) <=> i \in Recs(tr, d.kind, e.m) \/ i = c
  BY <1>1, <1>3
<1>7. RecordsOK(u, A)
  BY <1>1, <1>2, <1>3 DEF RecordsOK
<1>. QED
  BY <1>1, <1>2, <1>3, <1>4, <1>5, <1>6, <1>7 DEF TakeView

\* the other messages on their way, when no message is queued
LEMMA TakeLive ==
  ASSUME NEW e, NEW L, NEW A, NEW tr, NEW u, NEW c, NEW d, TakeView(e, L, A, tr, u, c, d),
         LiveOK(tr, L, A)
  PROVE  LiveOK(u, L \ {e}, A)
<1>1. /\ u[c] = d /\ Len(u) = c /\ \A i \in 1 .. c : i = c \/ i \in 1 .. Len(tr)
      /\ \A i \in 1 .. Len(tr) : u[i] = tr[i]
      /\ \A f \in L : f.m = e.m => f = e
  BY DEF TakeView
<1>2. \A m : m # e.m => Recs(u, "queued", m) = Recs(tr, "queued", m)
  BY DEF TakeView
<1>3. d.req = e.m
  BY DEF TakeView
<1>. QED
  BY <1>1, <1>2, <1>3 DEF LiveOK

LEMMA CopyGood ==
  ASSUME NEW s \in State, NEW t, NEW tr \in Seq(Did_), NEW u, NEW c, NEW d, NEW e, NEW L, NEW A,
         TakeStep(e, L, A, tr, u, c, d), Good(s, tr, L, A), Req[e.m].loopback,
         d.kind = "copy", d.q \in CopyQueues, s.copy_avail[d.q] + d.size * CnDelay <= d.at,
         t.sched = s.sched, t.next_avail = s.next_avail,
         t.copy_avail = [s.copy_avail EXCEPT ![d.q] = d.at]
  PROVE  Good(t, u, L \ {e}, A)
<1>1. /\ ListsOK(s) /\ RecordsOK(tr, A) /\ CopiesOK(s, tr) /\ WaitingOK(s, tr)
      /\ TilesOK(s, tr) /\ LiveOK(tr, L, A) /\ NicsOK(s, tr, L) /\ ServiceOK(s, tr)
  BY DEF Good
<1>2. RecordsOK(u, A) /\ TakeView(e, L, A, tr, u, c, d)
  BY <1>1, TakeFacts
<1>3. LiveOK(u, L \ {e}, A)
  BY <1>1, <1>2, TakeLive
<1>4. \A m : /\ Recs(u, "queued", m) = Recs(tr, "queued", m)
             /\ Recs(u, "packet", m) = Recs(tr, "packet", m)
             /\ Recs(u, "nic", m) = Recs(tr, "nic", m)
  <2>1. \A kind, m : ~(kind = d.kind /\ m = e.m) => Recs(u, kind, m) = Recs(tr, kind, m)
    BY <1>2 DEF TakeView
  <2>2. "queued" # d.kind /\ "packet" # d.kind /\ "nic" # d.kind
    OBVIOUS
  <2>. QED
    BY <2>1, <2>2
<1>5. \A kind, m : \A i \in Recs(tr, kind, m) : u[i] = tr[i]
  BY <1>2 DEF TakeView
<1>6. ListsOK(t) /\ WaitingOK(t, u) /\ TilesOK(t, u) /\ ServiceOK(t, u)
  <2>1. SameService(s, t, tr, u)
    BY <1>4, <1>5 DEF SameService
  <2>. QED
    BY <1>1, <2>1, QuietService
<1>7. /\ c \in Nat /\ u[c] = d /\ Len(u) = c /\ d \in Did_
      /\ \A i \in 1 .. c : i = c \/ i \in 1 .. Len(tr)
      /\ \A i \in 1 .. Len(tr) : u[i] = tr[i] /\ i < c /\ i \in Nat
  BY <1>2 DEF TakeView, TakeStep
<1>8. CopiesOK(t, u)
  <2>1. /\ s.copy_avail \in [CopyQueues -> Nat] /\ d.at \in Nat /\ d.size \in Nat /\ CnDelay \in Nat
        /\ \A i \in 1 .. Len(tr) : tr[i].at \in Nat
    <3>1. \A i \in 1 .. Len(tr) : tr[i] \in Did_
      BY ElementOfSeq
    <3>. QED
      BY <1>7, <3>1, StateFacts, LPAssumption DEF Did_
  <2>2. d.size * CnDelay \in Nat
    BY <2>1
  <2> DEFINE cost == d.size * CnDelay
  <2>3. s.copy_avail[d.q] \in Nat /\ s.copy_avail[d.q] + cost <= d.at /\ cost \in Nat
    BY <2>1, <2>2
  <2> HIDE DEF cost
  <2>4. s.copy_avail[d.q] <= d.at
    BY <2>1, <2>3
  <2>5. ASSUME NEW i \in 1 .. Len(tr), tr[i].kind = "copy"
        PROVE  /\ tr[i].q \in CopyQueues /\ tr[i].at <= s.copy_avail[tr[i].q]
               /\ tr[i].at <= t.copy_avail[tr[i].q]
    <3>1. tr[i].q \in CopyQueues /\ tr[i].at <= s.copy_avail[tr[i].q]
      BY <1>1, <2>5 DEF CopiesOK
    <3>2. CASE tr[i].q = d.q
      <4>1. t.copy_avail[d.q] = d.at
        BY <2>1
      <4>. QED
        BY <2>1, <2>3, <2>4, <3>1, <3>2, <4>1
    <3>3. CASE tr[i].q # d.q
      <4>1. t.copy_avail[tr[i].q] = s.copy_avail[tr[i].q]
        BY <2>1, <3>1, <3>3
      <4>. QED
        BY <3>1, <4>1
    <3>. QED
      BY <3>2, <3>3
  <2>6. \A i \in 1 .. Len(u) :
          u[i].kind = "copy" => u[i].q \in CopyQueues /\ u[i].at <= t.copy_avail[u[i].q]
    <3>1. t.copy_avail[d.q] = d.at /\ d.at <= d.at
      BY <2>1
    <3>. QED
      BY <1>7, <2>5, <3>1
  <2>7. ASSUME NEW i \in 1 .. Len(u), NEW j \in 1 .. Len(u),
               u[i].kind = "copy", u[j].kind = "copy", i < j, u[i].q = u[j].q
        PROVE  u[i].at + u[j].size * CnDelay <= u[j].at
    <3>1. i \in 1 .. Len(tr)
      <4>1. j <= c /\ j \in Nat
        BY <1>7
      <4>. QED
        BY <1>7, <2>7, <4>1
    <3>2. CASE j \in 1 .. Len(tr)
      <4>1. u[i] = tr[i] /\ u[j] = tr[j]
        BY <1>7, <3>1, <3>2
      <4>. QED
        BY <1>1, <2>7, <3>1, <3>2, <4>1 DEF CopiesOK
    <3>3. CASE j = c
      <4>1. u[i] = tr[i] /\ u[j] = d
        BY <1>7, <3>1, <3>3
      <4>2. tr[i].at <= s.copy_avail[d.q] /\ tr[i].at \in Nat
        BY <2>1, <2>5, <2>7, <3>1, <4>1
      <4>3. tr[i].at + cost <= d.at
        <5>1. \A x, y, z, w \in Nat : x <= y /\ y + z <= w => x + z <= w
          BY ONLY SMT
        <5>2. d.at \in Nat
          BY <2>1
        <5>. QED
          BY ONLY <2>3, <4>2, <5>1, <5>2
      <4>. QED
        BY <4>1, <4>3 DEF cost
    <3>. QED
      BY <1>7, <3>2, <3>3
  <2>. QED
    BY <2>6, <2>7 DEF CopiesOK
<1>9. NicsOK(t, u, L \ {e})
  <2>1. \A f \in L : f.src # 0 => f # e
    BY <1>1 DEF LiveOK
  <2>. QED
    BY <1>1, <1>4, <1>5, <2>1 DEF NicsOK
<1>. QED
  BY <1>2, <1>3, <1>6, <1>8, <1>9 DEF Good

-----------------------------------------------------------------------------
(* The NIC takes a request.                                                *)

LEMMA NicGood ==
  ASSUME NEW s \in State, NEW t, NEW tr \in Seq(Did_), NEW u, NEW c, NEW d, NEW e, NEW L, NEW A,
         TakeStep(e, L, A, tr, u, c, d), Good(s, tr, L, A),
         ~Req[e.m].loopback, e.isQueueReq = TRUE,
         d.kind = "nic", s.next_avail < d.at, t.next_avail = d.at,
         t.sched = s.sched, t.copy_avail = s.copy_avail,
         NEW g \in Event, g.type = "NEW_MSG", g.m = e.m, g.ts = d.at, g.src # 0, g.isQueueReq = FALSE
  PROVE  Good(t, u, (L \ {e}) \cup {g}, A)
<1> DEFINE M == (L \ {e}) \cup {g}
           m0 == e.m
<1>1. /\ ListsOK(s) /\ RecordsOK(tr, A) /\ CopiesOK(s, tr) /\ WaitingOK(s, tr)
      /\ TilesOK(s, tr) /\ LiveOK(tr, L, A) /\ NicsOK(s, tr, L) /\ ServiceOK(s, tr)
  BY DEF Good
<1>2. RecordsOK(u, A) /\ TakeView(e, L, A, tr, u, c, d)
  BY <1>1, TakeFacts
<1>3. LiveOK(u, L \ {e}, A)
  BY <1>1, <1>2, TakeLive
<1>4. \A m : /\ Recs(u, "queued", m) = Recs(tr, "queued", m)
             /\ Recs(u, "packet", m) = Recs(tr, "packet", m)
             /\ m # m0 => Recs(u, "nic", m) = Recs(tr, "nic", m)
  <2>1. \A kind, m : ~(kind = d.kind /\ m = e.m) => Recs(u, kind, m) = Recs(tr, kind, m)
    BY <1>2 DEF TakeView
  <2>2. "queued" # d.kind /\ "packet" # d.kind /\ "nic" = d.kind
    OBVIOUS
  <2>. QED
    BY <2>1, <2>2
<1>5. \A kind, m : \A i \in Recs(tr, kind, m) : u[i] = tr[i] /\ i < c /\ i \in Nat /\ tr[i] \in Did_
  BY <1>2 DEF TakeView
<1>6. ListsOK(t) /\ WaitingOK(t, u) /\ TilesOK(t, u) /\ ServiceOK(t, u)
  <2>1. SameService(s, t, tr, u)
    BY <1>4, <1>5 DEF SameService
  <2>. QED
    BY <1>1, <2>1, QuietService
<1>7. /\ c \in Nat /\ u[c] = d /\ Len(u) = c /\ d \in Did_ /\ m0 \in Msgs /\ m0 \in A
      /\ \A i \in 1 .. c : i = c \/ i \in 1 .. Len(tr)
      /\ \A i \in 1 .. Len(tr) : u[i] = tr[i] /\ i < c /\ i \in Nat
      /\ \A f \in L : f.m = m0 => f = e
      /\ \A i : i \in Recs(u, "nic", m0) <=> i \in Recs(tr, "nic", m0) \/ i = c
      /\ Recs(tr, "queued", m0) = {} /\ e \in L
  BY <1>2 DEF TakeView, TakeStep
<1>8. CopiesOK(t, u)
  <2>1. \A i \in 1 .. Len(u) : u[i].kind = "copy" => i \in 1 .. Len(tr) /\ u[i] = tr[i]
    <3>1. d.kind # "copy"
      OBVIOUS
    <3>. QED
      BY <1>7, <3>1
  <2>. QED
    BY <1>1, <2>1 DEF CopiesOK
<1>9. e.src = 0 /\ \A i \in 1 .. Len(tr) : tr[i].req # m0
  <2>1. e.src # 0 => e.isQueueReq = FALSE
    BY <1>1, <1>7 DEF LiveOK
  <2>2. e.src = 0
    BY <2>1
  <2>. QED
    BY <1>1, <1>7, <2>2 DEF LiveOK
<1>10. \A kind : Recs(tr, kind, m0) = {}
  BY <1>9 DEF Recs
<1>11. LiveOK(u, M, A)
  <2>1. /\ g \in Event /\ g.type = "NEW_MSG" /\ g.m \in Msgs /\ g.m \in A
        /\ Recs(u, "queued", g.m) = {} /\ g.src # 0 /\ g.isQueueReq = FALSE /\ ~Req[g.m].loopback
    BY <1>4, <1>7
  <2>2. \A f \in L \ {e} : f.m # g.m
    BY <1>7
  <2>. QED
    BY <1>3, <2>1, <2>2 DEF LiveOK
<1> HIDE DEF m0, M
<1>12. /\ s.next_avail \in Nat /\ d.at \in Nat
       /\ \A m : \A i \in Recs(tr, "nic", m) : tr[i].at \in Nat
  BY <1>5, <1>7, StateFacts DEF Did_
<1>13. g \in M /\ g.m = m0 /\ \A f \in L : f.m # m0 => f \in M
  BY DEF M, m0
<1>14. \A i : i \in Recs(u, "nic", m0) <=> i = c
  BY <1>7, <1>10
<1>15. ASSUME NEW m \in Msgs, NEW i \in Recs(u, "nic", m)
       PROVE  /\ u[i].at <= t.next_avail
              /\ \A j \in Recs(u, "nic", m) : i = j
              /\ \/ Recs(u, "queued", m) # {}
                 \/ \E f \in M : f.m = m /\ f.src # 0 /\ f.ts = u[i].at
  <2>1. CASE m = m0
    <3>1. i = c /\ u[i] = d /\ \A j \in Recs(u, "nic", m) : i = j
      BY <1>7, <1>14, <2>1
    <3>2. d.at <= d.at
      BY <1>12
    <3>. QED
      BY <1>13, <2>1, <3>1, <3>2
  <2>2. CASE m # m0
    <3>1. i \in Recs(tr, "nic", m) /\ u[i] = tr[i] /\ Recs(u, "nic", m) = Recs(tr, "nic", m)
      BY <1>4, <1>5, <2>2
    <3>2. /\ tr[i].at <= s.next_avail
          /\ \A j \in Recs(tr, "nic", m) : i = j
          /\ \/ Recs(tr, "queued", m) # {}
             \/ \E f \in L : f.m = m /\ f.src # 0 /\ f.ts = tr[i].at
      BY <1>1, <3>1 DEF NicsOK
    <3>3. tr[i].at <= d.at
      BY <1>12, <3>1, <3>2
    <3>. QED
      BY <1>4, <1>13, <2>2, <3>1, <3>2, <3>3
  <2>. QED
    BY <2>1, <2>2
<1>16. ASSUME NEW f \in M, f.src # 0
       PROVE  \E i \in Recs(u, "nic", f.m) : u[i].at = f.ts
  <2>1. CASE f = g
    BY <1>7, <1>13, <1>14, <2>1
  <2>2. CASE f \in L /\ f # e
    <3>1. \E i \in Recs(tr, "nic", f.m) : tr[i].at = f.ts
      BY <1>1, <1>16, <2>2 DEF NicsOK
    <3>2. f.m # m0
      BY <1>7, <2>2
    <3>. QED
      BY <1>4, <1>5, <3>1, <3>2
  <2>. QED
    BY <2>1, <2>2 DEF M
<1>17. ASSUME NEW k \in Msgs, NEW m \in Msgs,
              NEW i \in Recs(u, "nic", k), NEW j \in Recs(u, "nic", m), i < j
       PROVE  /\ u[i].at < u[j].at
              /\ \A b \in Recs(u, "queued", m) : \E a \in Recs(u, "queued", k) : a < b
              /\ Rivals(k, m) =>
                   \A b \in Recs(u, "packet", m) : \E a \in Recs(u, "packet", k) : a < b
  <2>1. \A n \in Msgs : \A a \in Recs(u, "nic", n) : a \in Nat /\ a <= c
    <3>1. c <= c
      BY <1>7
    <3>. QED
      BY <1>4, <1>5, <1>7, <1>14, <3>1
  <2>2. k # m0 /\ i \in Recs(tr, "nic", k)
    <3>1. i # c
      BY <1>7, <1>17, <2>1
    <3>. QED
      BY <1>4, <1>14, <3>1
  <2>3. CASE m = m0
    <3>1. j = c /\ u[j] = d /\ u[i] = tr[i] /\ Recs(u, "queued", m) = {} /\ Recs(u, "packet", m) = {}
      BY <1>4, <1>5, <1>7, <1>10, <1>14, <2>2, <2>3
    <3>2. tr[i].at <= s.next_avail
      BY <1>1, <2>2 DEF NicsOK
    <3>3. tr[i].at < d.at
      BY <1>12, <2>2, <3>2
    <3>. QED
      BY <3>1, <3>3
  <2>4. CASE m # m0
    <3>1. j \in Recs(tr, "nic", m) /\ u[j] = tr[j] /\ u[i] = tr[i]
      BY <1>4, <1>5, <2>2, <2>4
    <3>2. /\ tr[i].at < tr[j].at
          /\ \A b \in Recs(tr, "queued", m) : \E a \in Recs(tr, "queued", k) : a < b
          /\ Rivals(k, m) =>
               \A b \in Recs(tr, "packet", m) : \E a \in Recs(tr, "packet", k) : a < b
      BY <1>1, <1>17, <2>2, <3>1 DEF NicsOK
    <3>. QED
      BY <1>4, <3>1, <3>2
  <2>. QED
    BY <2>3, <2>4
<1>18. NicsOK(t, u, M)
  BY <1>15, <1>16, <1>17 DEF NicsOK
<1>. QED
  BY <1>2, <1>6, <1>8, <1>11, <1>18 DEF Good, M

-----------------------------------------------------------------------------
(* A message is queued.                                                    *)

LEMMA AddGood ==
  ASSUME NEW s \in State, NEW t, NEW tr \in Seq(Did_), NEW u, NEW c, NEW d, NEW e, NEW L, NEW A,
         TakeStep(e, L, A, tr, u, c, d), Good(s, tr, L, A), d.kind = "queued",
         \A f \in L : e.ts <= f.ts,
         t.sched = [s.sched EXCEPT ![queue_of(e.m)] = sched_add(e.m, s.sched[queue_of(e.m)])],
         t.copy_avail = s.copy_avail, t.next_avail = s.next_avail
  PROVE  Good(t, u, L \ {e}, A)
<1> DEFINE m0 == e.m
           P(m) == Recs(tr, "packet", m)
           W(m) == Recs(tr, "queued", m)
           V(m) == Recs(u, "queued", m)
<1>1. /\ ListsOK(s) /\ RecordsOK(tr, A) /\ CopiesOK(s, tr) /\ WaitingOK(s, tr)
      /\ TilesOK(s, tr) /\ LiveOK(tr, L, A) /\ NicsOK(s, tr, L) /\ ServiceOK(s, tr)
  BY DEF Good
<1>2. RecordsOK(u, A) /\ TakeView(e, L, A, tr, u, c, d)
  BY <1>1, TakeFacts
<1>3. LiveOK(u, L \ {e}, A)
  BY <1>1, <1>2, TakeLive
<1>4. \A m : /\ Recs(u, "packet", m) = P(m) /\ Recs(u, "nic", m) = Recs(tr, "nic", m)
             /\ m # m0 => V(m) = W(m)
  <2>1. \A kind, m : ~(kind = d.kind /\ m = e.m) => Recs(u, kind, m) = Recs(tr, kind, m)
    BY <1>2 DEF TakeView
  <2>2. "packet" # d.kind /\ "nic" # d.kind /\ "queued" = d.kind
    OBVIOUS
  <2>. QED
    BY <2>1, <2>2
<1>5. \A kind, m : \A i \in Recs(tr, kind, m) : u[i] = tr[i] /\ i < c /\ i \in Nat /\ tr[i] \in Did_
  BY <1>2 DEF TakeView
<1>6. /\ c \in Nat /\ u[c] = d /\ Len(u) = c /\ m0 \in Msgs /\ e \in L /\ W(m0) = {}
      /\ \A i \in 1 .. c : i = c \/ i \in 1 .. Len(tr)
      /\ \A i \in 1 .. Len(tr) : u[i] = tr[i]
      /\ \A f \in L : f.m = m0 => f = e
      /\ \A i : i \in V(m0) <=> i = c
  BY <1>2 DEF TakeView, TakeStep
<1>7. ~Waits(s, m0) /\ P(m0) = {}
  BY <1>1, <1>6 DEF WaitingOK
<1>8. AddEffect(s, t, m0)
  BY <1>1, <1>6, <1>7, AddView
<1>9. /\ \A m \in Msgs : Waits(t, m) <=> Waits(s, m) \/ m = m0
      /\ \A k, m \in Msgs :
           Ahead(t, k, m) <=> Ahead(s, k, m) \/ (m = m0 /\ Waits(s, k) /\ Rivals(k, m0))
      /\ \A a \in Slots(t, m0) : ListOf(t, m0)[a].rem = Req[m0].msg_size
      /\ \A m \in Msgs : m # m0 => \A a \in Slots(t, m) :
           a \in Slots(s, m) /\ ListOf(t, m)[a].rem = ListOf(s, m)[a].rem
      /\ ListsOK(t)
  BY <1>8 DEF AddEffect
<1>10. \A k : ~Ahead(s, k, m0) /\ ~Ahead(s, m0, k)
  BY <1>7 DEF Ahead, Waits
<1>11. CopiesOK(t, u)
  <2>1. d.kind # "copy"
    OBVIOUS
  <2>2. \A i \in 1 .. Len(u) : u[i].kind = "copy" => i \in 1 .. Len(tr) /\ u[i] = tr[i]
    BY <1>6, <2>1
  <2>. QED
    BY <1>1, <2>2 DEF CopiesOK
<1>12. WaitingOK(t, u)
  <2> SUFFICES ASSUME NEW m \in Msgs
               PROVE  /\ Waits(t, m) <=> V(m) # {} /\ \A p \in P(m) : u[p].last = FALSE
                      /\ \A i, j \in V(m) : i = j
                      /\ \A p \in P(m) : \E i \in V(m) : i < p
    BY <1>4 DEF WaitingOK
  <2>1. CASE m = m0
    BY <1>6, <1>7, <1>9, <2>1
  <2>2. CASE m # m0
    <3>1. /\ Waits(s, m) <=> W(m) # {} /\ \A p \in P(m) : tr[p].last = FALSE
          /\ \A i, j \in W(m) : i = j
          /\ \A p \in P(m) : \E i \in W(m) : i < p
      BY <1>1 DEF WaitingOK
    <3>2. (\A p \in P(m) : tr[p].last = FALSE) <=> (\A p \in P(m) : u[p].last = FALSE)
      BY <1>5
    <3>. QED
      BY <1>4, <1>9, <2>2, <3>1, <3>2
  <2>. QED
    BY <2>1, <2>2
<1>13. TilesOK(t, u)
  <2> SUFFICES ASSUME NEW m \in Msgs
               PROVE  /\ \A i \in Recs(u, "packet", m) :
                           LET k == Cardinality({j \in Recs(u, "packet", m) : j < i})
                           IN  /\ u[i].offset = k * PacketSize
                               /\ u[i].last <=> /\ u[i].offset + u[i].size = Req[m].msg_size
                                                /\ k + 1 = Cardinality(Recs(u, "packet", m))
                               /\ ~u[i].last => u[i].size = PacketSize
                      /\ \A a \in Slots(t, m) :
                           ListOf(t, m)[a].rem = Req[m].msg_size - Cardinality(Recs(u, "packet", m)) * PacketSize
    BY DEF TilesOK
  <2>1. \A i \in P(m) :
          LET k == Cardinality({j \in P(m) : j < i})
          IN  /\ tr[i].offset = k * PacketSize
              /\ tr[i].last <=> /\ tr[i].offset + tr[i].size = Req[m].msg_size
                                /\ k + 1 = Cardinality(P(m))
              /\ ~tr[i].last => tr[i].size = PacketSize
    BY <1>1 DEF TilesOK
  <2>2. \A i \in P(m) : u[i] = tr[i]
    BY <1>5
  <2>3. \A a \in Slots(t, m) :
          ListOf(t, m)[a].rem = Req[m].msg_size - Cardinality(P(m)) * PacketSize
    <3>1. CASE m = m0
      <4>1. Cardinality(P(m)) = 0
        BY <1>7, <3>1, FS_EmptySet
      <4>2. Req[m0].msg_size - 0 * PacketSize = Req[m0].msg_size
        BY <1>6, ReqFacts, SchedAssumption
      <4>. QED
        BY <1>9, <3>1, <4>1, <4>2
    <3>2. CASE m # m0
      <4>1. \A a \in Slots(s, m) :
              ListOf(s, m)[a].rem = Req[m].msg_size - Cardinality(P(m)) * PacketSize
        BY <1>1 DEF TilesOK
      <4>. QED
        BY <1>9, <3>2, <4>1
    <3>. QED
      BY <3>1, <3>2
  <2>4. Recs(u, "packet", m) = P(m)
    BY <1>4
  <2>. QED
    BY <2>1, <2>2, <2>3, <2>4, ZenonT(60)
<1> HIDE DEF m0, P, W, V

<1>14. NicsOK(t, u, L \ {e})
  <2>1. ASSUME NEW m \in Msgs, NEW i \in Recs(tr, "nic", m)
        PROVE  /\ tr[i].at <= s.next_avail
               /\ \A j \in Recs(tr, "nic", m) : i = j
               /\ W(m) # {} \/ \E f \in L : f.m = m /\ f.src # 0 /\ f.ts = tr[i].at
               /\ u[i] = tr[i]
    BY <1>1, <1>5 DEF NicsOK, W
  <2>2. \A m \in Msgs : \A i \in Recs(u, "nic", m) :
          /\ u[i].at <= t.next_avail
          /\ \A j \in Recs(u, "nic", m) : i = j
          /\ V(m) # {} \/ \E f \in L \ {e} : f.m = m /\ f.src # 0 /\ f.ts = u[i].at
    <3> SUFFICES ASSUME NEW m \in Msgs, NEW i \in Recs(tr, "nic", m)
                 PROVE  V(m) # {} \/ \E f \in L \ {e} : f.m = m /\ f.src # 0 /\ f.ts = tr[i].at
      BY <1>4, <2>1
    <3>1. CASE m = m0
      BY <1>6, <3>1
    <3>2. CASE m # m0
      BY <1>4, <2>1, <3>2 DEF m0
    <3>. QED
      BY <3>1, <3>2
  <2>3. \A f \in L \ {e} : f.src # 0 => \E i \in Recs(u, "nic", f.m) : u[i].at = f.ts
    <3>1. \A f \in L : f.src # 0 => \E i \in Recs(tr, "nic", f.m) : tr[i].at = f.ts
      BY <1>1 DEF NicsOK
    <3>. QED
      BY <1>4, <1>5, <3>1
  <2>4. ASSUME NEW k \in Msgs, NEW m \in Msgs,
               NEW i \in Recs(tr, "nic", k), NEW j \in Recs(tr, "nic", m), i < j
        PROVE  /\ tr[i].at < tr[j].at
               /\ \A b \in V(m) : \E a \in V(k) : a < b
               /\ Rivals(k, m) => \A b \in P(m) : \E a \in P(k) : a < b
    <3>1. /\ tr[i].at < tr[j].at /\ \A b \in W(m) : \E a \in W(k) : a < b
          /\ Rivals(k, m) => \A b \in P(m) : \E a \in P(k) : a < b
      BY <1>1, <2>4 DEF NicsOK, P, W
    <3>2. ASSUME NEW b \in V(m) PROVE \E a \in V(k) : a < b
      <4>1. CASE m # m0
        <5>1. PICK a \in W(k) : a < b
          BY <1>4, <3>1, <3>2, <4>1
        <5>2. k # m0
          BY <1>6, <5>1
        <5>. QED
          BY <1>4, <5>1, <5>2
      <4>2. CASE m = m0
        <5>1. i \in Nat /\ j \in Nat
          BY <1>5
        <5>2. k # m0
          BY <2>1, <2>4, <4>2, <5>1
        <5>3. W(k) # {}
          <6> SUFFICES ASSUME W(k) = {} PROVE FALSE
            OBVIOUS
          <6>1. PICK f \in L : f.ts = tr[i].at
            BY <2>1
          <6>2. PICK g \in L : g.m = m0 /\ g.ts = tr[j].at
            BY <1>6, <2>1, <4>2
          <6>3. g = e
            BY <1>6, <6>2
          <6>4. e.ts <= f.ts
            OBVIOUS
          <6>5. tr[i].at \in Nat /\ tr[j].at \in Nat
            BY <1>5 DEF Did_
          <6>. QED
            BY <3>1, <6>1, <6>2, <6>3, <6>4, <6>5
        <5>4. PICK a \in W(k) : a < c
          BY <1>5, <5>3 DEF W
        <5>. QED
          BY <1>4, <1>6, <3>2, <4>2, <5>2, <5>4
      <4>. QED
        BY <4>1, <4>2
    <3>. QED
      BY <3>1, <3>2
  <2>5. \A k, m \in Msgs : \A i \in Recs(u, "nic", k), j \in Recs(u, "nic", m) :
          i < j => /\ u[i].at < u[j].at
                   /\ \A b \in V(m) : \E a \in V(k) : a < b
                   /\ Rivals(k, m) =>
                        \A b \in Recs(u, "packet", m) : \E a \in Recs(u, "packet", k) : a < b
    BY <1>4, <2>1, <2>4
  <2>. QED
    BY <2>2, <2>3, <2>5 DEF NicsOK, V
<1>15. StartOK(t, u)
  <2> SUFFICES ASSUME NEW k \in Msgs, NEW m \in Msgs, Ahead(t, k, m), P(m) = {}, NEW b \in V(m)
               PROVE  \E a \in V(k) : a < b
    BY <1>4 DEF StartOK, V
  <2>1. CASE m = m0
    <3>1. Waits(s, k) /\ b = c
      BY <1>6, <1>9, <1>10, <2>1
    <3>2. k # m0
      BY <1>7, <3>1
    <3>3. W(k) # {}
      BY <1>1, <3>1 DEF WaitingOK, W
    <3>. QED
      BY <1>4, <1>5, <3>1, <3>2, <3>3 DEF W
  <2>2. CASE m # m0
    <3>1. Ahead(s, k, m)
      BY <1>9, <2>2
    <3>2. k # m0
      BY <1>10, <3>1
    <3>3. \E a \in W(k) : a < b
      BY <1>1, <1>4, <2>2, <3>1 DEF ServiceOK, StartOK, P, W
    <3>. QED
      BY <1>4, <3>2, <3>3
  <2>. QED
    BY <2>1, <2>2
<1>16. ASSUME Discipline = "fcfs" PROVE FcfsOK(t, u)
  <2>1. \A k, m \in Msgs : k # m /\ Rivals(k, m) =>
          /\ Ahead(s, k, m) => P(m) = {}
          /\ Waits(s, m) => \A i \in P(m), p \in P(k) : p < i
          /\ \A i, j \in P(m), p \in P(k) : i < j => p < i \/ p > j
    BY <1>1, <1>16 DEF ServiceOK, FcfsOK, P
  <2>2. \A k, m \in Msgs : k # m /\ Rivals(k, m) =>
          /\ Ahead(t, k, m) => P(m) = {}
          /\ Waits(t, m) => \A i \in P(m), p \in P(k) : p < i
          /\ \A i, j \in P(m), p \in P(k) : i < j => p < i \/ p > j
    BY <1>7, <1>9, <2>1
  <2>. QED
    BY <1>4, <2>2 DEF FcfsOK
<1>17. ASSUME Discipline = "rr" PROVE RrOK(t, u)
  <2>1. \A k, m \in Msgs : k # m /\ Rivals(k, m) =>
          \A i \in P(m), a \in W(k) : a < i =>
            /\ Waits(s, k) /\ Waits(s, m) => Ahead(s, k, m) \/ \E p \in P(k) : i < p
            /\ \A j \in P(m) : i < j /\ (Waits(s, k) \/ \E p \in P(k) : j < p) =>
                 \E p \in P(k) : i < p /\ p < j
    BY <1>1, <1>17 DEF ServiceOK, RrOK, P, W
  <2>2. ASSUME NEW k \in Msgs, NEW m \in Msgs, k # m, Rivals(k, m),
               NEW i \in P(m), NEW a \in V(k), a < i
        PROVE  /\ Waits(t, k) /\ Waits(t, m) => Ahead(t, k, m) \/ \E p \in P(k) : i < p
               /\ \A j \in P(m) : i < j /\ (Waits(t, k) \/ \E p \in P(k) : j < p) =>
                    \E p \in P(k) : i < p /\ p < j
    <3>1. m # m0
      BY <1>7
    <3>2. k # m0
      <4>1. i < c /\ i \in Nat
        BY <1>5 DEF P
      <4>2. a # c
        BY <1>6, <2>2, <4>1
      <4>. QED
        BY <1>6, <4>2
    <3>3. a \in W(k) /\ (Waits(t, k) <=> Waits(s, k)) /\ (Waits(t, m) <=> Waits(s, m))
          /\ (Ahead(t, k, m) <=> Ahead(s, k, m))
      BY <1>4, <1>9, <3>1, <3>2
    <3>. QED
      BY <2>1, <2>2, <3>3
  <2>. QED
    BY <1>4, <2>2 DEF RrOK, V
<1>18. ServiceOK(t, u)
  BY <1>15, <1>16, <1>17 DEF ServiceOK
<1>. QED
  BY <1>2, <1>3, <1>9, <1>11, <1>12, <1>13, <1>14, <1>18 DEF Good

-----------------------------------------------------------------------------
(* The handlers keep the relation.                                         *)

\* the messages that event e with outcome o leaves on their way
LiveNext(L, e, o) == (L \ {e}) \cup {f \in o.sent : f.type = "NEW_MSG"}

LEMMA NoNewMessage ==
  ASSUME NEW L, NEW e, NEW o, \A f \in o.sent : f.type # "NEW_MSG"
  PROVE  LiveNext(L, e, o) = L \ {e}
  BY DEF LiveNext

\* an event with one record
LEMMA OneRecord ==
  ASSUME NEW tr \in Seq(Did_), NEW d \in Did_
  PROVE  /\ tr \o <<d>> \in Seq(Did_)
         /\ OneMore(tr, d, tr \o <<d>>, Len(tr) + 1)
<1> DEFINE a == Append(tr, d)
           b == tr \o <<d>>
<1>1. b = a
  BY AppendIsConcat
<1>2. a \in Seq(Did_) /\ OneMore(tr, d, a, Len(tr) + 1)
  BY Grow, GrowFacts
<1> HIDE DEF a, b
<1>3. b \in Seq(Did_) /\ OneMore(tr, d, b, Len(tr) + 1)
  BY <1>1, <1>2
<1>. QED
  BY <1>3 DEF b

\* an event of the scheduler loop that does nothing
LEMMA LoopGood ==
  ASSUME Method # "multirail", NEW s \in State, NEW tr \in Seq(Did_), NEW e \in Event,
         NEW n \in Nat \ {0}, e.type # "NEW_MSG", NEW o \in Outcomes(s, e, n),
         e.type = "SCHED_NEXT" /\ ~e.created_in_surrogate => sched_empty(s.sched[e.q]),
         NEW L, NEW A, Good(s, tr, L, A), e \notin L
  PROVE  Good(o.ns, tr \o o.did, LiveNext(L, e, o), A)
<1>1. /\ o.did = << >> /\ o.ns.sched = s.sched /\ o.ns.copy_avail = s.copy_avail
      /\ o.ns.next_avail = s.next_avail /\ \A f \in o.sent : f.type # "NEW_MSG"
  <2>1. CASE e.type = "PASS"
    <3>1. o = method_idle(s, e, n)
      BY <2>1 DEF Outcomes
    <3> DEFINE at == e.ts + IdleDelay
    <3>2. /\ o.ns = s /\ o.did = << >>
          /\ o.sent = {SchedNext(j, at, n, FALSE) : j \in IdleQueues(e.q)}
      BY <3>1 DEF method_idle, Nothing
    <3>3. \A j : SchedNext(j, at, n, FALSE).type # "NEW_MSG"
      BY DEF SchedNext
    <3> HIDE DEF at
    <3>. QED
      BY <3>2, <3>3
  <2>2. CASE e.type = "SCHED_NEXT" /\ e.created_in_surrogate
    <3>1. o = Nothing(s)
      BY <2>2 DEF Outcomes
    <3>. QED
      BY <3>1 DEF Nothing
  <2>3. CASE e.type = "SCHED_NEXT" /\ ~e.created_in_surrogate
    <3>1. o = sched_next_finish(s, e.q, NoRc)
      BY <2>3 DEF Outcomes
    <3> DEFINE t == [s EXCEPT !.in_loop[e.q] = FALSE]
    <3>2. o.ns = t /\ o.did = << >> /\ o.sent = {}
      BY <3>1 DEF sched_next_finish, Nothing, NoBits
    <3>3. t.sched = s.sched /\ t.copy_avail = s.copy_avail /\ t.next_avail = s.next_avail
      BY StateFacts DEF IsRecord, Fields
    <3> HIDE DEF t
    <3>. QED
      BY <3>2, <3>3
  <2>. QED
    BY <2>1, <2>2, <2>3 DEF Event
<1>2. tr \o o.did = tr
  BY <1>1, ConcatEmptySeq
<1>3. LiveNext(L, e, o) = L
  <2>1. LiveNext(L, e, o) = L \ {e}
    BY <1>1, NoNewMessage
  <2>. QED
    BY <2>1
<1>4. Good(o.ns, tr, L, A)
  BY <1>1, QuietGood
<1>. QED
  BY <1>2, <1>3, <1>4

\* handle_new_msg, a message to the own node
LEMMA LocalGood ==
  ASSUME NEW s \in State, NEW tr \in Seq(Did_), NEW e \in Event, EventOK(e), e.type = "NEW_MSG",
         Req[e.m].loopback, NEW o, o = new_msg_local(s, e),
         NEW L, NEW A, Good(s, tr, L, A), e \in L
  PROVE  Good(o.ns, tr \o o.did, LiveNext(L, e, o), A)
<1> DEFINE c == copy_queue(e.m)
           start == Later(s.copy_avail[c], e.ts)
           cost == Req[e.m].msg_size * CnDelay
           done == start + cost
           d == Did("copy", c, done, Whole(e.m))
           t == [s EXCEPT !.copy_avail[c] = done, !.rng = @ + 1]
           u == tr \o <<d>>
<1>1. e.m \in Msgs /\ e.ts \in Nat /\ c \in CopyQueues /\ c \in Nat
  BY QueueFacts DEF EventOK, Event
<1>2. s.copy_avail \in [CopyQueues -> Nat] /\ s.copy_avail[c] \in Nat
  BY <1>1, StateFacts
<1>3. done \in Nat /\ s.copy_avail[c] + cost <= done
  <2>1. start \in Nat /\ s.copy_avail[c] <= start
    BY <1>1, <1>2 DEF Later
  <2>2. cost \in Nat
    BY <1>1, ReqFacts, LPAssumption
  <2> HIDE DEF start, cost
  <2>. QED
    BY <2>1, <2>2, <1>2
<1>4. o.ns = t /\ o.sent = {} /\ o.did = <<d>>
  BY DEF new_msg_local, Nothing
<1> HIDE DEF done
<1>5. d \in Did_ /\ d.kind = "copy" /\ d.q = c /\ d.at = done /\ d.req = e.m
      /\ d.size = Req[e.m].msg_size
  <2>1. d \in Did_
    BY <1>1, <1>3, WholeFacts, DidFacts
  <2>. QED
    BY <2>1 DEF Did, Whole
<1> HIDE DEF c, d
<1>6. /\ t.sched = s.sched /\ t.next_avail = s.next_avail
      /\ t.copy_avail = [s.copy_avail EXCEPT ![c] = done]
  BY StateFacts DEF IsRecord, Fields
<1> HIDE DEF t
<1>7. OneMore(tr, d, u, Len(tr) + 1)
  BY <1>5, OneRecord
<1> HIDE DEF u
<1>8. TakeStep(e, L, A, tr, u, Len(tr) + 1, d)
  BY <1>5, <1>7 DEF TakeStep
<1>9. s.copy_avail[d.q] + d.size * CnDelay <= d.at
  BY <1>3, <1>5
<1>10. Good(t, u, L \ {e}, A)
  BY <1>1, <1>5, <1>6, <1>8, <1>9, CopyGood
<1>11. LiveNext(L, e, o) = L \ {e}
  BY <1>4, NoNewMessage
<1>. QED
  BY <1>4, <1>10, <1>11 DEF u

\* handle_new_msg, the NIC takes a request
LEMMA NicTakesGood ==
  ASSUME NEW s \in State, NEW tr \in Seq(Did_), NEW e \in Event, EventOK(e), e.type = "NEW_MSG",
         NEW n \in Nat \ {0},
         ~Req[e.m].loopback, e.isQueueReq, NEW o, o = new_msg_nic(s, e, n),
         NEW L, NEW A, Good(s, tr, L, A), e \in L
  PROVE  Good(o.ns, tr \o o.did, LiveNext(L, e, o), A)
<1> DEFINE lat == codes_local_latency(s.rng)
           free == Later(s.next_avail, e.ts) + NicSeqDelay + lat
           d == Did("nic", queue_of(e.m), free, Whole(e.m))
           g == NewMsg(e.m, free, n, FALSE)
           t == [s EXCEPT !.next_avail = free, !.rng = @ + 1]
           u == tr \o <<d>>
<1>1. e.m \in Msgs /\ e.ts \in Nat /\ queue_of(e.m) \in Nat /\ e.isQueueReq \in BOOLEAN
  BY QueueFacts DEF EventOK, Event
<1>2. s.next_avail \in Nat /\ s.rng \in Nat
  BY StateFacts
<1>3. free \in Nat /\ s.next_avail < free
  <2>1. Later(s.next_avail, e.ts) \in Nat /\ s.next_avail <= Later(s.next_avail, e.ts)
    BY <1>1, <1>2 DEF Later
  <2>2. lat \in Nat /\ 1 <= lat
    <3>1. s.rng % LatencyRange \in Nat
      BY <1>2, LPAssumption
    <3>. QED
      BY <3>1 DEF codes_local_latency
  <2> HIDE DEF lat
  <2>. QED
    BY <2>1, <2>2, <1>2, LPAssumption
<1>4. o.ns = t /\ o.sent = {g} /\ o.did = <<d>>
  BY DEF new_msg_nic, Nothing
<1> HIDE DEF free
<1>5. d \in Did_ /\ d.kind = "nic" /\ d.q = queue_of(e.m) /\ d.at = free /\ d.req = e.m
  <2>1. d \in Did_
    BY <1>1, <1>3, WholeFacts, DidFacts
  <2>. QED
    BY <2>1 DEF Did, Whole
<1>6. /\ g \in Event /\ g.type = "NEW_MSG" /\ g.m = e.m /\ g.ts = free /\ g.src # 0
      /\ g.isQueueReq = FALSE
  <2>1. g \in Event
    BY <1>1, <1>3, NewMsgFacts
  <2>. QED
    BY <2>1 DEF NewMsg
<1> HIDE DEF d, g
<1>7. t.sched = s.sched /\ t.next_avail = free /\ t.copy_avail = s.copy_avail
  BY StateFacts DEF IsRecord, Fields
<1> HIDE DEF t
<1>8. OneMore(tr, d, u, Len(tr) + 1)
  BY <1>5, OneRecord
<1> HIDE DEF u
<1>9. TakeStep(e, L, A, tr, u, Len(tr) + 1, d)
  BY <1>5, <1>8 DEF TakeStep
<1>10. e.isQueueReq = TRUE
  BY <1>1
<1>11. s.next_avail < d.at /\ t.next_avail = d.at /\ g.ts = d.at
  BY <1>3, <1>5, <1>6, <1>7
<1>12. Good(t, u, (L \ {e}) \cup {g}, A)
  BY <1>5, <1>6, <1>7, <1>9, <1>10, <1>11, NicGood
<1>13. LiveNext(L, e, o) = (L \ {e}) \cup {g}
  BY <1>4, <1>6 DEF LiveNext
<1>. QED
  BY <1>4, <1>12, <1>13 DEF u

\* the record of a message that is queued
LEMMA QueuedRecord ==
  ASSUME NEW tr \in Seq(Did_), NEW e \in Event, EventOK(e), e.type = "NEW_MSG",
         NEW L, NEW A, e \in L, NEW d, d = Did("queued", queue_of(e.m), e.ts, Whole(e.m))
  PROVE  /\ d \in Did_ /\ d.kind = "queued" /\ tr \o <<d>> \in Seq(Did_)
         /\ TakeStep(e, L, A, tr, tr \o <<d>>, Len(tr) + 1, d)
<1>1. e.m \in Msgs /\ e.ts \in Nat /\ queue_of(e.m) \in Nat
  BY QueueFacts DEF EventOK, Event
<1>2. d \in Did_
  BY <1>1, WholeFacts, DidFacts
<1>3. d.kind = "queued" /\ d.q = queue_of(e.m) /\ d.req = e.m
  BY DEF Did, Whole
<1> DEFINE u == tr \o <<d>>
<1>4. OneMore(tr, d, u, Len(tr) + 1) /\ u \in Seq(Did_)
  BY <1>2, OneRecord
<1> HIDE DEF u
<1>5. TakeStep(e, L, A, tr, u, Len(tr) + 1, d)
  BY <1>2, <1>3, <1>4 DEF TakeStep
<1>. QED
  BY <1>2, <1>3, <1>4, <1>5 DEF u

\* handle_new_msg, a message is queued behind a running loop
LEMMA QueueGood ==
  ASSUME NEW s \in State, StateOK(s), NEW tr \in Seq(Did_), NEW e \in Event, EventOK(e),
         e.type = "NEW_MSG", NEW o, o = new_msg_queue(s, e),
         NEW L, NEW A, Good(s, tr, L, A), e \in L, \A f \in L : e.ts <= f.ts
  PROVE  Good(o.ns, tr \o o.did, LiveNext(L, e, o), A)
<1> DEFINE t == Queued(s, e)
           d == Did("queued", queue_of(e.m), e.ts, Whole(e.m))
           u == tr \o <<d>>
<1>1. o.ns = t /\ o.sent = {} /\ o.did = <<d>>
  BY DEF new_msg_queue, Nothing, NoBits
<1>2. /\ t.sched = [s.sched EXCEPT ![queue_of(e.m)] = sched_add(e.m, s.sched[queue_of(e.m)])]
      /\ t.next_avail = s.next_avail /\ t.copy_avail = s.copy_avail
  BY QueuedFacts
<1>3. d.kind = "queued" /\ TakeStep(e, L, A, tr, u, Len(tr) + 1, d)
  BY QueuedRecord
<1> HIDE DEF t, d, u
<1>4. Good(t, u, L \ {e}, A)
  BY <1>2, <1>3, AddGood
<1>5. LiveNext(L, e, o) = L \ {e}
  BY <1>1, NoNewMessage
<1>. QED
  BY <1>1, <1>4, <1>5 DEF u

\* what handle_sched_next leaves when a request is waiting
IssueDone(s, q, o, d) ==
  /\ o.did = <<d>> /\ d \in Did_ /\ d.kind = "packet" /\ d.q = q
  /\ IssueEffect(s, o.ns, q, sched_next_pkt(s.sched[q]))
  /\ d.req = sched_next_pkt(s.sched[q]).req /\ d.offset = sched_next_pkt(s.sched[q]).offset
  /\ d.size = sched_next_pkt(s.sched[q]).size /\ d.last = sched_next_pkt(s.sched[q]).last
  /\ o.ns.copy_avail = s.copy_avail /\ o.ns.next_avail = s.next_avail
  /\ \A f \in o.sent : f.type # "NEW_MSG"

LEMMA IssueDoes ==
  ASSUME NEW s \in State, StateOK(s), ListsOK(s), NEW q \in Queues, ~sched_empty(s.sched[q]),
         NEW ts \in Nat, NEW rc, NEW n \in Nat \ {0}, NEW o \in sched_next_issue(s, q, ts, rc, n)
  PROVE  IssueDone(s, q, o, Did("packet", q, ts, sched_next_pkt(s.sched[q])))
<1> DEFINE p == s.sched[q]
           pkt == sched_next_pkt(p)
           v == sched_next(p)
           r == sched_next_rcrec(p, rc)
           d == Did("packet", q, ts, pkt)
           t == [s EXCEPT !.sched[q] = v, !.rng = @ + Draws]
<1>1. p \in SchedState /\ SchedOK(p) /\ q \in Nat
  BY StateFacts, QueueFacts DEF StateOK
<1>2. pkt \in Packet
  BY <1>1, NoneFacts, SchedNextBusy
<1>3. d \in Did_
  BY <1>1, <1>2, DidFacts
<1>4. /\ d.kind = "packet" /\ d.q = q /\ d.req = pkt.req /\ d.offset = pkt.offset
      /\ d.size = pkt.size /\ d.last = pkt.last
  BY DEF Did
<1>5. PICK w \in Wakeups(s, q, ts, n) :
        o = [ns |-> t, bf |-> NoBits, rc |-> r, save_ts |-> 0, sent |-> w, did |-> <<d>>]
  BY DEF sched_next_issue
<1>6. o.ns = t /\ o.sent = w /\ o.did = <<d>>
  BY <1>5
<1>7. PICK f \in Event : w = {f} /\ f.type # "NEW_MSG"
  BY WakeupFacts
<1> HIDE DEF r, d
<1>8. t.sched = [s.sched EXCEPT ![q] = v] /\ t.copy_avail = s.copy_avail /\ t.next_avail = s.next_avail
  <2>1. IsRecord(s)
    BY StateFacts
  <2> HIDE DEF v, p
  <2>. QED
    BY <2>1 DEF IsRecord, Fields
<1> HIDE DEF t
<1>9. IssueEffect(s, t, q, pkt)
  BY <1>8, IssueView
<1>10. IssueDone(s, q, o, d)
  BY <1>3, <1>4, <1>6, <1>7, <1>8, <1>9 DEF IssueDone
<1>. QED
  BY <1>10 DEF d

\* a packet is issued, in the state s that the event has come to
LEMMA IssuedGood ==
  ASSUME NEW s, NEW tr \in Seq(Did_), NEW q, NEW o, NEW d, IssueDone(s, q, o, d),
         NEW L, NEW A, Good(s, tr, L, A)
  PROVE  Good(o.ns, tr \o o.did, L, A)
<1> DEFINE pkt == sched_next_pkt(s.sched[q])
           t == o.ns
           u == tr \o <<d>>
<1>1. o.did = <<d>> /\ d \in Did_
  BY DEF IssueDone
<1>2. OneMore(tr, d, u, Len(tr) + 1)
  BY <1>1, OneRecord
<1> HIDE DEF u
<1>3. IssueStep(s, t, tr, u, Len(tr) + 1, d, q, pkt)
  BY <1>2 DEF IssueDone, IssueStep
<1> HIDE DEF t, pkt
<1>4. Good(t, u, L, A)
  BY <1>3, IssueGood
<1>. QED
  BY <1>1, <1>4 DEF u, t

\* handle_sched_next with a request waiting
LEMMA ServeGood ==
  ASSUME NEW s \in State, StateOK(s), NEW tr \in Seq(Did_), NEW e \in Event,
         NEW n \in Nat \ {0}, ~sched_empty(s.sched[e.q]),
         NEW o \in sched_next_issue(s, e.q, e.ts, NoRc, n),
         NEW L, NEW A, Good(s, tr, L, A), e \notin L
  PROVE  Good(o.ns, tr \o o.did, LiveNext(L, e, o), A)
<1> DEFINE q == e.q
           ts == e.ts
           d == Did("packet", q, ts, sched_next_pkt(s.sched[q]))
<1>1. q \in Queues /\ ts \in Nat
  BY DEF Event
<1>2. ListsOK(s)
  BY DEF Good
<1>3. IssueDone(s, q, o, d)
  <2>1. ~sched_empty(s.sched[q]) /\ o \in sched_next_issue(s, q, ts, NoRc, n)
    OBVIOUS
  <2> HIDE DEF q, ts
  <2>. QED
    BY <1>1, <1>2, <2>1, IssueDoes
<1> HIDE DEF d, q
<1>4. Good(o.ns, tr \o o.did, L, A)
  BY <1>3, IssuedGood
<1>5. LiveNext(L, e, o) = L
  <2>1. \A f \in o.sent : f.type # "NEW_MSG"
    BY <1>3 DEF IssueDone
  <2>2. LiveNext(L, e, o) = L \ {e}
    BY <2>1, NoNewMessage
  <2>. QED
    BY <2>2
<1>. QED
  BY <1>4, <1>5

\* handle_new_msg, the message starts the loop: the state in which handle_sched_next is
\* called (t), and what it does there (i)
StartDone(s, e, o, t, i, d, p) ==
  /\ t \in State /\ StateOK(t)
  /\ t.sched = [s.sched EXCEPT ![queue_of(e.m)] = sched_add(e.m, s.sched[queue_of(e.m)])]
  /\ t.copy_avail = s.copy_avail /\ t.next_avail = s.next_avail
  /\ d = Did("queued", queue_of(e.m), e.ts, Whole(e.m))
  /\ sched_empty(s.sched[queue_of(e.m)]) /\ queue_of(e.m) \in Queues
  /\ ListsOK(t) => IssueDone(t, queue_of(e.m), i, p)
  /\ o.ns = i.ns /\ o.sent = i.sent /\ o.did = <<d>> \o i.did

LEMMA StartDoes ==
  ASSUME NEW s \in State, StateOK(s), NEW n \in Nat \ {0}, NEW e \in Event, EventOK(e),
         e.type = "NEW_MSG", ~s.in_loop[e.q], NEW o \in new_msg_start(s, e, n)
  PROVE  \E t, i, d, p : StartDone(s, e, o, t, i, d, p)
<1> DEFINE q == queue_of(e.m)
           u == Queued(s, e)
           t == [u EXCEPT !.in_loop[q] = TRUE]
           a == sched_add(e.m, s.sched[q])
           r == sched_add_rcrec(e.m, NoRc)
           d == Did("queued", q, e.ts, Whole(e.m))
           ts == e.ts
           p == Did("packet", q, ts, sched_next_pkt(t.sched[q]))
<1>1. /\ e.m \in Msgs /\ q \in Queues /\ q = e.q /\ ts \in Nat
      /\ s.sched[q] \in SchedState /\ SchedOK(s.sched[q])
  BY QueuedFacts, QueueFacts DEF Event
<1>2. /\ IsRecord(u) /\ u.in_loop = s.in_loop
      /\ u.sched = [s.sched EXCEPT ![q] = a]
      /\ u.msg_id = s.msg_id + 1 /\ u.next_avail = s.next_avail
      /\ u.copy_avail = s.copy_avail /\ u.rng = s.rng
  BY QueuedFacts
<1>3. sched_empty(s.sched[q])
  BY <1>1 DEF StateOK
<1>4. a \in SchedState /\ SchedOK(a) /\ ~sched_empty(a)
  BY <1>1, <1>3, SchedAdd, AddToEmpty
<1>5. PICK i \in sched_next_issue(t, q, ts, r, n) :
        o = [i EXCEPT !.bf.c30 = TRUE, !.bf.c31 = TRUE, !.did = <<d>> \o @]
  BY DEF new_msg_start
<1>6. o.ns = i.ns /\ o.sent = i.sent /\ o.did = <<d>> \o i.did
  <2>1. {"ns", "sent", "did"} \subseteq DOMAIN i
    BY <1>5 DEF sched_next_issue
  <2> HIDE DEF d
  <2>. QED
    BY <2>1, <1>5
<1> HIDE DEF q, u, a, r, d, ts
<1>7. /\ IsRecord(t) /\ t.in_loop = [s.in_loop EXCEPT ![q] = TRUE]
      /\ t.sched = [s.sched EXCEPT ![q] = a]
      /\ t.msg_id = s.msg_id + 1 /\ t.next_avail = s.next_avail
      /\ t.copy_avail = s.copy_avail /\ t.rng = s.rng
  BY <1>2 DEF IsRecord, Fields
<1> HIDE DEF t
<1>8. /\ t.in_loop \in [Queues -> BOOLEAN] /\ t.in_loop[q]
      /\ \A k \in Queues \ {q} : t.in_loop[k] = s.in_loop[k]
  <2> DEFINE f == s.in_loop
             g == t.in_loop
  <2>1. f \in [Queues -> BOOLEAN] /\ g = [f EXCEPT ![q] = TRUE]
    BY <1>7, StateFacts
  <2> HIDE DEF f, g
  <2>2. g \in [Queues -> BOOLEAN] /\ g[q] /\ \A k \in Queues \ {q} : g[k] = f[k]
    BY <1>1, <2>1
  <2>. QED
    BY <2>2 DEF f, g
<1>9. t.sched \in [Queues -> SchedState] /\ t.sched[q] = a /\ StateOK(t)
  BY <1>1, <1>4, <1>7, <1>8, SchedUpdate, ZenonT(60)
<1>10. t \in State
  <2>1. t.msg_id \in Nat
    BY <1>7, StateFacts
  <2>. QED
    BY <2>1, <1>7, <1>8, <1>9, StateFacts, StateFromFields
<1>11. ListsOK(t) => IssueDone(t, q, i, p)
  BY <1>1, <1>4, <1>9, <1>10, IssueDoes
<1> HIDE DEF p
<1>12. StartDone(s, e, o, t, i, d, p)
  BY <1>1, <1>3, <1>6, <1>7, <1>9, <1>10, <1>11 DEF StartDone, q, a, d, ts
<1>. QED
  BY <1>12

LEMMA StartGood ==
  ASSUME NEW s \in State, StateOK(s), NEW tr \in Seq(Did_), NEW e \in Event, EventOK(e),
         e.type = "NEW_MSG", ~s.in_loop[e.q], NEW n \in Nat \ {0}, NEW o \in new_msg_start(s, e, n),
         NEW L, NEW A, Good(s, tr, L, A), e \in L, \A f \in L : e.ts <= f.ts
  PROVE  Good(o.ns, tr \o o.did, LiveNext(L, e, o), A)
<1>1. PICK t, i, d, p : StartDone(s, e, o, t, i, d, p)
  BY StartDoes
<1>2. /\ t.sched = [s.sched EXCEPT ![queue_of(e.m)] = sched_add(e.m, s.sched[queue_of(e.m)])]
      /\ t.copy_avail = s.copy_avail /\ t.next_avail = s.next_avail
      /\ d = Did("queued", queue_of(e.m), e.ts, Whole(e.m))
  BY <1>1 DEF StartDone
<1>3. /\ ListsOK(t) => IssueDone(t, queue_of(e.m), i, p)
      /\ o.ns = i.ns /\ o.sent = i.sent /\ o.did = <<d>> \o i.did
  BY <1>1 DEF StartDone
<1> DEFINE u == tr \o <<d>>
<1>4. d.kind = "queued" /\ TakeStep(e, L, A, tr, u, Len(tr) + 1, d) /\ u \in Seq(Did_) /\ d \in Did_
  BY <1>2, QueuedRecord
<1> HIDE DEF u
<1>5. Good(t, u, L \ {e}, A)
  BY <1>2, <1>4, AddGood
<1>6. IssueDone(t, queue_of(e.m), i, p)
  BY <1>3, <1>5 DEF Good
<1>7. Good(i.ns, u \o i.did, L \ {e}, A)
  BY <1>4, <1>5, <1>6, IssuedGood
<1>8. LiveNext(L, e, o) = L \ {e}
  <2>1. \A f \in o.sent : f.type # "NEW_MSG"
    BY <1>3, <1>6 DEF IssueDone
  <2>. QED
    BY <2>1, NoNewMessage
<1>9. u \o i.did = tr \o o.did
  <2>1. i.did = <<p>> /\ p \in Did_
    BY <1>6 DEF IssueDone
  <2>2. <<d>> \in Seq(Did_) /\ <<p>> \in Seq(Did_)
    BY <1>4, <2>1
  <2> DEFINE a == <<d>>
             b == <<p>>
  <2>3. (tr \o a) \o b = tr \o (a \o b)
    <3>1. a \in Seq(Did_) /\ b \in Seq(Did_)
      BY <2>2
    <3>2. tr \in Seq(Did_)
      OBVIOUS
    <3> HIDE DEF a, b
    <3>. QED
      BY ONLY <3>1, <3>2, ConcatAssociative
  <2>. QED
    BY <1>3, <2>1, <2>3 DEF u
<1>. QED
  BY <1>3, <1>7, <1>8, <1>9

\* one event is processed
LEMMA StepGood ==
  ASSUME Method # "multirail", NEW s \in State, StateOK(s), NEW tr \in Seq(Did_),
         NEW e \in Event, EventOK(e), NEW n \in Nat \ {0}, NEW o \in Outcomes(s, e, n),
         NEW L, NEW A, Good(s, tr, L, A),
         e.type = "NEW_MSG" => e \in L /\ \A f \in L : e.ts <= f.ts,
         e.type # "NEW_MSG" => e \notin L
  PROVE  Good(o.ns, tr \o o.did, LiveNext(L, e, o), A)
<1>1. CASE e.type = "NEW_MSG"
  <2>1. CASE Req[e.m].loopback
    <3>1. o = new_msg_local(s, e)
      BY <1>1, <2>1 DEF Outcomes
    <3>. QED
      BY <1>1, <2>1, <3>1, LocalGood
  <2>2. CASE ~Req[e.m].loopback /\ e.isQueueReq
    <3>1. o = new_msg_nic(s, e, n)
      BY <1>1, <2>2 DEF Outcomes
    <3>. QED
      BY <1>1, <2>2, <3>1, NicTakesGood
  <2>3. CASE ~Req[e.m].loopback /\ ~e.isQueueReq /\ s.in_loop[e.q]
    <3>1. o = new_msg_queue(s, e)
      BY <1>1, <2>3 DEF Outcomes
    <3>. QED
      BY <1>1, <3>1, QueueGood
  <2>4. CASE ~Req[e.m].loopback /\ ~e.isQueueReq /\ ~s.in_loop[e.q]
    <3>1. o \in new_msg_start(s, e, n)
      BY <1>1, <2>4 DEF Outcomes
    <3>. QED
      BY <1>1, <2>4, <3>1, StartGood
  <2>. QED
    BY <2>1, <2>2, <2>3, <2>4
<1>2. CASE e.type = "SCHED_NEXT" /\ ~e.created_in_surrogate /\ ~sched_empty(s.sched[e.q])
  <2>1. o \in sched_next_issue(s, e.q, e.ts, NoRc, n)
    BY <1>2 DEF Outcomes
  <2>. QED
    BY <1>2, <2>1, ServeGood
<1>3. CASE /\ e.type # "NEW_MSG"
           /\ e.type = "SCHED_NEXT" /\ ~e.created_in_surrogate => sched_empty(s.sched[e.q])
  BY <1>3, LoopGood
<1>. QED
  BY <1>1, <1>2, <1>3

-----------------------------------------------------------------------------
(* A message arrives, or is withdrawn.                                     *)

LEMMA ArriveGood ==
  ASSUME NEW s, NEW tr, NEW L, NEW A, Good(s, tr, L, A), NEW f \in Event, f.type = "NEW_MSG",
         f.src = 0, f.m \in Msgs, f.m \notin A
  PROVE  Good(s, tr, L \cup {f}, A \cup {f.m})
<1>1. /\ ListsOK(s) /\ RecordsOK(tr, A) /\ CopiesOK(s, tr) /\ WaitingOK(s, tr)
      /\ TilesOK(s, tr) /\ LiveOK(tr, L, A) /\ NicsOK(s, tr, L) /\ ServiceOK(s, tr)
  BY DEF Good
<1>2. RecordsOK(tr, A \cup {f.m})
  BY <1>1 DEF RecordsOK
<1>3. \A i \in 1 .. Len(tr) : tr[i].req # f.m
  BY <1>1 DEF RecordsOK
<1>4. LiveOK(tr, L \cup {f}, A \cup {f.m})
  <2>1. Recs(tr, "queued", f.m) = {}
    BY <1>3 DEF Recs
  <2>2. \A g \in L : g.m # f.m
    BY <1>1 DEF LiveOK
  <2>. QED
    BY <1>1, <1>3, <2>1, <2>2 DEF LiveOK
<1>5. NicsOK(s, tr, L \cup {f})
  BY <1>1 DEF NicsOK
<1>. QED
  BY <1>1, <1>2, <1>4, <1>5 DEF Good

LEMMA CancelGood ==
  ASSUME NEW s, NEW tr, NEW L, NEW A, Good(s, tr, L, A), NEW e \in L, e.src = 0
  PROVE  Good(s, tr, L \ {e}, A \ {e.m})
<1>1. /\ ListsOK(s) /\ RecordsOK(tr, A) /\ CopiesOK(s, tr) /\ WaitingOK(s, tr)
      /\ TilesOK(s, tr) /\ LiveOK(tr, L, A) /\ NicsOK(s, tr, L) /\ ServiceOK(s, tr)
  BY DEF Good
<1>2. (\A i \in 1 .. Len(tr) : tr[i].req # e.m) /\ \A f \in L : f.m = e.m => f = e
  BY <1>1 DEF LiveOK
<1>3. RecordsOK(tr, A \ {e.m})
  BY <1>1, <1>2 DEF RecordsOK
<1>4. LiveOK(tr, L \ {e}, A \ {e.m})
  BY <1>1, <1>2 DEF LiveOK
<1>5. NicsOK(s, tr, L \ {e})
  BY <1>1 DEF NicsOK
<1>. QED
  BY <1>1, <1>3, <1>4, <1>5 DEF Good

-----------------------------------------------------------------------------
(* Every position of the timeline.                                         *)

LEMMA CutFacts ==
  ASSUME NEW tr \in Seq(Did_), NEW k \in Nat, k <= Len(tr)
  PROVE  /\ SubSeq(tr, 1, k) \in Seq(Did_) /\ Len(SubSeq(tr, 1, k)) = k
         /\ \A p \in 1 .. k : SubSeq(tr, 1, k)[p] = tr[p]
<1>1. \A i \in 1 .. k : tr[i] \in Did_
  <2>1. Len(tr) \in Nat
    BY LenProperties
  <2>2. 1 .. k \subseteq 1 .. Len(tr)
    BY <2>1
  <2>. QED
    BY <2>2, ElementOfSeq
<1>2. /\ SubSeq(tr, 1, k) \in Seq(Did_)
      /\ Len(SubSeq(tr, 1, k)) = (IF 1 <= k THEN k - 1 + 1 ELSE 0)
      /\ \A i \in 1 .. (k - 1 + 1) : SubSeq(tr, 1, k)[i] = tr[1 + i - 1]
  BY <1>1, SubSeqProperties
<1>3. \A i \in 1 .. k : i \in 1 .. (k - 1 + 1) /\ 1 + i - 1 = i
  OBVIOUS
<1>4. Len(SubSeq(tr, 1, k)) = k
  BY <1>2
<1>. QED
  BY <1>2, <1>3, <1>4

\* traces that agree up to k
LEMMA CutSame ==
  ASSUME NEW a \in Seq(Did_), NEW b \in Seq(Did_), NEW k \in Nat, k <= Len(a), k <= Len(b),
         \A p \in 1 .. k : a[p] = b[p]
  PROVE  SubSeq(a, 1, k) = SubSeq(b, 1, k)
<1> DEFINE x == SubSeq(a, 1, k)
           y == SubSeq(b, 1, k)
<1>1. x \in Seq(Did_) /\ Len(x) = k /\ \A p \in 1 .. k : x[p] = a[p]
  BY CutFacts
<1>2. y \in Seq(Did_) /\ Len(y) = k /\ \A p \in 1 .. k : y[p] = b[p]
  BY CutFacts
<1> HIDE DEF x, y
<1>3. x = y
  BY <1>1, <1>2, SameTrace
<1>. QED
  BY <1>3 DEF x, y

LEMMA CutWhole ==
  ASSUME NEW a \in Seq(Did_), NEW b \in Seq(Did_), NEW k \in Nat, k = Len(a), k <= Len(b),
         \A p \in 1 .. k : a[p] = b[p]
  PROVE  SubSeq(b, 1, k) = a
<1> DEFINE y == SubSeq(b, 1, k)
<1>1. y \in Seq(Did_) /\ Len(y) = k /\ \A p \in 1 .. k : y[p] = b[p]
  BY CutFacts
<1> HIDE DEF y
<1>2. y = a
  BY <1>1, SameTrace
<1>. QED
  BY <1>2 DEF y

\* the messages on their way at a position are around, and those of the present pending
LEMMA LiveFacts ==
  ASSUME IndInv, RefInv
  PROVE  /\ \A f : f \in LiveAt(Len(log) + 1) <=> f \in pending /\ f.type = "NEW_MSG"
         /\ StateAt(Len(log) + 1) = ns /\ TraceAt(Len(log) + 1) = trace
<1>1. Len(log) \in Nat /\ committed \in Nat /\ SourceInv /\ OnceInv
  BY TypeFacts DEF IndInv, RefInv
<1>2. /\ \A e \in Around : e \in pending \/ \E i \in 1 .. Len(log) : e = log[i].ev
      /\ pending \subseteq Around /\ \A e \in Around : e.src \in Nat
  BY AroundFacts
<1>3. \A e \in Around : e.src < committed + (Len(log) + 1)
  BY <1>1, <1>2 DEF SourceInv
<1>4. \A e \in pending : \A i \in 1 .. Len(log) : e # log[i].ev
  BY <1>1 DEF OnceInv
<1>5. (Len(log) + 1) - 1 = Len(log)
  BY <1>1
<1>6. ASSUME NEW f PROVE f \in LiveAt(Len(log) + 1) <=> f \in pending /\ f.type = "NEW_MSG"
  <2>1. f \in LiveAt(Len(log) + 1) <=>
          /\ f \in Around /\ f.type = "NEW_MSG" /\ f.src < committed + (Len(log) + 1)
          /\ \A j \in 1 .. Len(log) : f # log[j].ev
    BY <1>5 DEF LiveAt
  <2>. QED
    BY <1>2, <1>3, <1>4, <2>1
<1>. QED
  BY <1>6 DEF StateAt, TraceAt

LEMMA ProcessPast ==
  ASSUME Method # "multirail", IndInv, RefInv, PastInv,
         NEW e \in pending, NEW o \in Outcomes(ns, e, Step), Ready(e), OutcomeOK(ns, e, o),
         Process(e, o)
  PROVE  PastInv'
<1>0. PICK n \in Nat : n = Len(log)
  BY TypeFacts DEF IndInv
<1>1. /\ n \in Nat /\ committed \in Nat /\ Len(trace) \in Nat /\ Len(log') = n + 1
      /\ \A i \in 1 .. n : log'[i] = log[i]
      /\ log'[n + 1].ev = e /\ log'[n + 1].before = ns /\ log'[n + 1].mark = Len(trace)
      /\ ns' = o.ns /\ Len(o.did) \in Nat
      /\ trace' \in Seq(Did_) /\ Len(trace') = Len(trace) + Len(o.did)
      /\ \A p \in 1 .. Len(trace) : trace'[p] = trace[p]
      /\ UNCHANGED <<arrived, committed>>
  BY <1>0, ProcessFacts
<1>2. /\ ns \in State /\ StateOK(ns) /\ trace \in Seq(Did_) /\ e \in Event /\ EventOK(e)
      /\ Step \in Nat \ {0} /\ trace' = trace \o o.did
  BY TypeFacts DEF IndInv, Process
<1>3. Around' = Around \cup o.sent
  BY ProcessAround
<1>4. \A f \in o.sent : f.src = committed + n + 1
  BY <1>0, <1>2, SentBy DEF Step
<1>5. SourceInv /\ OnceInv /\ OrderInv /\ \A f \in Around : f.src \in Nat
  BY AroundFacts DEF RefInv
<1>6. ASSUME NEW i \in 1 .. (n + 1)
      PROVE  StateAt(i)' = StateAt(i) /\ TraceAt(i)' = TraceAt(i) /\ LiveAt(i)' = LiveAt(i)
  <2>1. i # n + 2 /\ (i = n + 1 \/ i \in 1 .. n) /\ i \in Nat
    BY <1>1
  <2>2. StateAt(i)' = log'[i].before /\ TraceAt(i)' = SubSeq(trace', 1, log'[i].mark)
    <3>1. i # Len(log') + 1
      BY <1>1, <2>1
    <3>. QED
      BY <3>1 DEF StateAt, TraceAt
  <2>3. LiveAt(i)' = LiveAt(i)
    <3>1. \A j \in 1 .. (i - 1) : j \in 1 .. n
      BY <1>1, <2>1
    <3>2. \A f \in o.sent : ~(f.src < committed + i)
      BY <1>1, <1>4, <2>1
    <3>3. ASSUME NEW f PROVE f \in LiveAt(i)' <=> f \in LiveAt(i)
      <4>1. f \in LiveAt(i)' <=>
              /\ f \in Around' /\ f.type = "NEW_MSG" /\ f.src < committed + i
              /\ \A j \in 1 .. (i - 1) : f # log'[j].ev
        BY <1>1 DEF LiveAt
      <4>2. f \in LiveAt(i) <=>
              /\ f \in Around /\ f.type = "NEW_MSG" /\ f.src < committed + i
              /\ \A j \in 1 .. (i - 1) : f # log[j].ev
        BY DEF LiveAt
      <4>3. \A j \in 1 .. (i - 1) : log'[j] = log[j]
        BY <1>1, <3>1
      <4>. QED
        BY <1>3, <3>2, <4>1, <4>2, <4>3
    <3>. QED
      BY <3>3
  <2>4. CASE i = n + 1
    <3>1. StateAt(i) = ns /\ TraceAt(i) = trace
      BY <1>0, <2>4, LiveFacts
    <3>2. SubSeq(trace', 1, Len(trace)) = trace
      <4>1. Len(trace) <= Len(trace')
        BY <1>1
      <4>. QED
        BY <1>1, <1>2, <4>1, CutWhole
    <3>. QED
      BY <1>1, <2>2, <2>3, <2>4, <3>1, <3>2
  <2>5. CASE i \in 1 .. n
    <3>1. i # n + 1 /\ log'[i] = log[i]
      BY <1>1, <2>5
    <3>2. StateAt(i) = log[i].before /\ TraceAt(i) = SubSeq(trace, 1, log[i].mark)
      BY <1>0, <3>1 DEF StateAt, TraceAt
    <3>3. SubSeq(trace', 1, log[i].mark) = SubSeq(trace, 1, log[i].mark)
      <4> DEFINE k == log[i].mark
      <4>1. k \in Nat /\ k <= Len(trace)
        BY <1>0, <1>5, <2>5, AroundFacts DEF OrderInv
      <4> HIDE DEF k
      <4>2. k <= Len(trace') /\ \A p \in 1 .. k : p \in 1 .. Len(trace)
        BY <1>1, <4>1
      <4>3. \A p \in 1 .. k : trace'[p] = trace[p]
        BY <1>1, <4>2
      <4>4. SubSeq(trace', 1, k) = SubSeq(trace, 1, k)
        BY <1>1, <1>2, <4>1, <4>2, <4>3, CutSame
      <4>. QED
        BY <4>4 DEF k
    <3>. QED
      BY <2>2, <2>3, <3>1, <3>2, <3>3
  <2>. QED
    BY <2>1, <2>4, <2>5
<1>7. ASSUME NEW i \in 1 .. (n + 1)
      PROVE  Good(StateAt(i)', TraceAt(i)', LiveAt(i)', arrived')
  <2>1. Good(StateAt(i), TraceAt(i), LiveAt(i), arrived)
    BY <1>0 DEF PastInv
  <2>. QED
    BY <1>1, <1>6, <2>1
<1>8. Good(o.ns, trace \o o.did, LiveNext(LiveAt(n + 1), e, o), arrived)
  <2> DEFINE L == LiveAt(n + 1)
  <2>1. \A f : f \in L <=> f \in pending /\ f.type = "NEW_MSG"
    BY <1>0, LiveFacts
  <2>2. Good(ns, trace, L, arrived)
    <3>1. n + 1 \in 1 .. (n + 1)
      BY <1>1
    <3>. QED
      BY <1>0, <3>1, LiveFacts DEF PastInv
  <2> HIDE DEF L
  <2>3. \A f \in L : e.ts <= f.ts
    BY <2>1 DEF Ready
  <2>4. Good(o.ns, trace \o o.did, LiveNext(L, e, o), arrived)
    BY <1>2, <2>1, <2>2, <2>3, StepGood
  <2>. QED
    BY <2>4 DEF L
<1>9. LiveAt(n + 2)' = LiveNext(LiveAt(n + 1), e, o)
  <2>1. (n + 2) - 1 = n + 1 /\ (n + 1) - 1 = n /\ n + 1 \in 1 .. (n + 1)
        /\ (\A j \in 1 .. (n + 1) : j = n + 1 \/ j \in 1 .. n)
        /\ \A j \in 1 .. n : j \in 1 .. (n + 1)
    BY <1>1
  <2>2. /\ \A f \in Around : f.src < committed + (n + 1) /\ f.src < committed + (n + 2)
                             /\ f \notin o.sent
        /\ \A f \in o.sent : f.src < committed + (n + 2)
    <3>1. \A f \in Around : f.src <= committed + n
      BY <1>0, <1>5 DEF SourceInv
    <3>. QED
      BY <1>1, <1>4, <1>5, <3>1
  <2>3. e \in Around /\ \A j \in 1 .. n : log[j].ev \in Around
    BY <1>0, AroundFacts
  <2>4. ASSUME NEW f PROVE f \in LiveAt(n + 2)' <=> f \in LiveNext(LiveAt(n + 1), e, o)
    <3>1. f \in LiveAt(n + 2)' <=>
            /\ f \in Around' /\ f.type = "NEW_MSG" /\ f.src < committed + (n + 2)
            /\ \A j \in 1 .. (n + 1) : f # log'[j].ev
      BY <1>1, <2>1 DEF LiveAt
    <3>2. f \in LiveAt(n + 1) <=>
            /\ f \in Around /\ f.type = "NEW_MSG" /\ f.src < committed + (n + 1)
            /\ \A j \in 1 .. n : f # log[j].ev
      BY <2>1 DEF LiveAt
    <3>3. (\A j \in 1 .. (n + 1) : f # log'[j].ev) <=> f # e /\ \A j \in 1 .. n : f # log[j].ev
      BY <1>1, <2>1
    <3>4. f \in LiveNext(LiveAt(n + 1), e, o) <=>
            (f \in LiveAt(n + 1) /\ f # e) \/ (f \in o.sent /\ f.type = "NEW_MSG")
      BY DEF LiveNext
    <3>. QED
      BY <1>3, <2>2, <2>3, <3>1, <3>2, <3>3, <3>4
  <2>. QED
    BY <2>4
<1>10. StateAt(n + 2)' = o.ns /\ TraceAt(n + 2)' = trace \o o.did
  <2>1. n + 2 = Len(log') + 1
    BY <1>1
  <2>. QED
    BY <1>1, <1>2, <2>1 DEF StateAt, TraceAt
<1>11. ASSUME NEW i \in 1 .. (Len(log') + 1)
       PROVE  Good(StateAt(i)', TraceAt(i)', LiveAt(i)', arrived')
  <2>1. i = n + 2 \/ i \in 1 .. (n + 1)
    BY <1>1
  <2>. QED
    BY <1>1, <1>7, <1>8, <1>9, <1>10, <2>1
<1>. QED
  BY <1>11 DEF PastInv

LEMMA UndoPast ==
  ASSUME IndInv, RefInv, PastInv, Undo
  PROVE  PastInv'
<1>0. PICK n \in Nat : n = Len(log)
  BY TypeFacts DEF IndInv
<1>1. PICK x : x = log[n]
  OBVIOUS
<1>2. /\ n \in Nat \ {0} /\ committed \in Nat /\ Len(trace) \in Nat /\ Len(log') = n - 1
      /\ \A i \in 1 .. (n - 1) : log'[i] = log[i]
      /\ ns' = x.before /\ x.mark \in 0 .. Len(trace)
      /\ trace \in Seq(Did_) /\ trace' = SubSeq(trace, 1, x.mark)
      /\ trace' \in Seq(Did_) /\ Len(trace') = x.mark
      /\ \A p \in 1 .. x.mark : trace'[p] = trace[p]
      /\ UNCHANGED <<arrived, committed>>
  BY <1>0, <1>1, UndoFacts
<1>3. Around' = Around \ x.sent
  BY <1>0, <1>1, UndoAround
<1>4. SourceInv /\ OrderInv /\ n \in 1 .. n
  BY <1>2 DEF RefInv
<1>5. \A f \in x.sent : f.src = committed + n
  BY <1>0, <1>1, <1>4 DEF SourceInv
<1>6. ASSUME NEW i \in 1 .. n
      PROVE  StateAt(i)' = StateAt(i) /\ TraceAt(i)' = TraceAt(i) /\ LiveAt(i)' = LiveAt(i)
  <2>1. i # Len(log) + 1 /\ i \in Nat /\ (i = n \/ i \in 1 .. (n - 1))
    BY <1>0, <1>2
  <2>2. StateAt(i) = log[i].before /\ TraceAt(i) = SubSeq(trace, 1, log[i].mark)
    BY <2>1 DEF StateAt, TraceAt
  <2>3. LiveAt(i)' = LiveAt(i)
    <3>1. \A j \in 1 .. (i - 1) : log'[j] = log[j]
      <4>1. \A j \in 1 .. (i - 1) : j \in 1 .. (n - 1)
        BY <1>2, <2>1
      <4>. QED
        BY <1>2, <4>1
    <3>2. \A f \in x.sent : ~(f.src < committed + i)
      BY <1>2, <1>5, <2>1
    <3>3. ASSUME NEW f PROVE f \in LiveAt(i)' <=> f \in LiveAt(i)
      <4>1. f \in LiveAt(i)' <=>
              /\ f \in Around' /\ f.type = "NEW_MSG" /\ f.src < committed + i
              /\ \A j \in 1 .. (i - 1) : f # log'[j].ev
        BY <1>2 DEF LiveAt
      <4>2. f \in LiveAt(i) <=>
              /\ f \in Around /\ f.type = "NEW_MSG" /\ f.src < committed + i
              /\ \A j \in 1 .. (i - 1) : f # log[j].ev
        BY DEF LiveAt
      <4>. QED
        BY <1>3, <3>1, <3>2, <4>1, <4>2
    <3>. QED
      BY <3>3
  <2>4. CASE i = n
    <3>1. i = Len(log') + 1
      BY <1>2, <2>4
    <3>2. StateAt(i)' = ns' /\ TraceAt(i)' = trace'
      BY <3>1 DEF StateAt, TraceAt
    <3>. QED
      BY <1>1, <1>2, <2>2, <2>3, <2>4, <3>2
  <2>5. CASE i \in 1 .. (n - 1)
    <3>1. i # Len(log') + 1 /\ log'[i] = log[i] /\ i < n
      BY <1>2, <2>5
    <3>2. StateAt(i)' = log'[i].before /\ TraceAt(i)' = SubSeq(trace', 1, log'[i].mark)
      BY <3>1 DEF StateAt, TraceAt
    <3>3. SubSeq(trace', 1, log[i].mark) = SubSeq(trace, 1, log[i].mark)
      <4> DEFINE k == log[i].mark
      <4>1. k \in Nat /\ k <= x.mark
        BY <1>0, <1>1, <1>4, <3>1, AroundFacts DEF OrderInv
      <4> HIDE DEF k
      <4>2. k <= Len(trace') /\ k <= Len(trace) /\ \A p \in 1 .. k : p \in 1 .. x.mark
        BY <1>2, <4>1
      <4>3. \A p \in 1 .. k : trace'[p] = trace[p]
        BY <1>2, <4>2
      <4>4. SubSeq(trace', 1, k) = SubSeq(trace, 1, k)
        BY <1>2, <4>1, <4>2, <4>3, CutSame
      <4>. QED
        BY <4>4 DEF k
    <3>. QED
      BY <2>2, <2>3, <3>1, <3>2, <3>3
  <2>. QED
    BY <2>1, <2>4, <2>5
<1>7. ASSUME NEW i \in 1 .. (Len(log') + 1)
      PROVE  Good(StateAt(i)', TraceAt(i)', LiveAt(i)', arrived')
  <2>1. i \in 1 .. n /\ i \in 1 .. (Len(log) + 1)
    BY <1>0, <1>2
  <2>2. Good(StateAt(i), TraceAt(i), LiveAt(i), arrived)
    BY <2>1 DEF PastInv
  <2>. QED
    BY <1>2, <1>6, <2>1, <2>2
<1>. QED
  BY <1>7 DEF PastInv

LEMMA CommitPast ==
  ASSUME IndInv, RefInv, PastInv, Commit
  PROVE  PastInv'
<1>0. PICK n \in Nat : n = Len(log)
  BY TypeFacts DEF IndInv
<1>1. /\ n \in Nat \ {0} /\ Len(log') = n - 1 /\ committed \in Nat
      /\ \A i \in 1 .. (n - 1) : i + 1 \in 1 .. n /\ log'[i] = log[i + 1]
      /\ committed' = committed + 1
      /\ UNCHANGED <<ns, pending, trace, arrived>>
  BY <1>0, CommitFacts
<1>2. Around' = Around \ {log[1].ev}
  BY CommitAround
<1>3. \A f \in Around : f.src \in Nat
  BY AroundFacts
<1>4. ASSUME NEW i \in 1 .. n, NEW k, k = i + 1
      PROVE  /\ k \in 1 .. (n + 1)
             /\ StateAt(i)' = StateAt(k) /\ TraceAt(i)' = TraceAt(k) /\ LiveAt(i)' = LiveAt(k)
  <2>1. /\ k \in 1 .. (n + 1) /\ (i = Len(log') + 1 <=> i = n) /\ (k = Len(log) + 1 <=> i = n)
        /\ (i # n => i \in 1 .. (n - 1)) /\ k - 1 = i /\ i \in Nat
    BY <1>0, <1>1, <1>4
  <2>2. i # n => log'[i] = log[k]
    BY <1>1, <1>4, <2>1
  <2>3. StateAt(i)' = StateAt(k) /\ TraceAt(i)' = TraceAt(k)
    BY <1>1, <2>1, <2>2 DEF StateAt, TraceAt
  <2>4. ASSUME NEW f PROVE f \in LiveAt(i)' <=> f \in LiveAt(k)
    <3>1. f \in LiveAt(i)' <=>
            /\ f \in Around' /\ f.type = "NEW_MSG" /\ f.src < committed' + i
            /\ \A j \in 1 .. (i - 1) : f # log'[j].ev
      BY DEF LiveAt
    <3>2. f \in LiveAt(k) <=>
            /\ f \in Around /\ f.type = "NEW_MSG" /\ f.src < committed + k
            /\ \A j \in 1 .. i : f # log[j].ev
      BY <2>1 DEF LiveAt
    <3>3. committed' + i = committed + k
      BY <1>1, <1>4, <2>1
    <3>4. /\ \A j \in 1 .. (i - 1) : j \in 1 .. (n - 1) /\ j + 1 \in 1 .. i
          /\ 1 \in 1 .. i
          /\ \A j \in 1 .. i : j = 1 \/ (j - 1 \in 1 .. (i - 1) /\ j = (j - 1) + 1)
      BY <1>1, <2>1
    <3>5. \A j \in 1 .. (i - 1) : log'[j] = log[j + 1]
      BY <1>1, <3>4
    <3>6. (\A j \in 1 .. i : f # log[j].ev) <=>
            (f # log[1].ev /\ \A j \in 1 .. (i - 1) : f # log'[j].ev)
      <4>1. ASSUME f # log[1].ev, \A j \in 1 .. (i - 1) : f # log'[j].ev, NEW j \in 1 .. i
            PROVE  f # log[j].ev
        <5>1. CASE j = 1
          BY <4>1, <5>1
        <5>2. CASE j # 1
          <6>1. j - 1 \in 1 .. (i - 1) /\ j = (j - 1) + 1
            BY <3>4, <5>2
          <6>2. log'[j - 1] = log[j]
            BY <3>5, <6>1
          <6>. QED
            BY <4>1, <6>1, <6>2
        <5>. QED
          BY <5>1, <5>2
      <4>2. ASSUME \A j \in 1 .. i : f # log[j].ev
            PROVE  f # log[1].ev /\ \A j \in 1 .. (i - 1) : f # log'[j].ev
        BY <4>2, <3>4, <3>5
      <4>. QED
        BY <4>1, <4>2
    <3>. QED
      BY <1>2, <3>1, <3>2, <3>3, <3>6
  <2>5. LiveAt(i)' = LiveAt(k)
    BY <2>4
  <2>. QED
    BY <2>1, <2>3, <2>5
<1>5. ASSUME NEW i \in 1 .. (Len(log') + 1)
      PROVE  Good(StateAt(i)', TraceAt(i)', LiveAt(i)', arrived')
  <2>1. PICK k : k = i + 1
    OBVIOUS
  <2>2. i \in 1 .. n
    BY <1>1
  <2>3. /\ k \in 1 .. (n + 1)
        /\ StateAt(i)' = StateAt(k) /\ TraceAt(i)' = TraceAt(k) /\ LiveAt(i)' = LiveAt(k)
    BY <1>4, <2>1, <2>2
  <2>4. Good(StateAt(k), TraceAt(k), LiveAt(k), arrived)
    BY <1>0, <2>3 DEF PastInv
  <2>. QED
    BY <1>1, <2>3, <2>4
<1>. QED
  BY <1>5 DEF PastInv

LEMMA ArrivePast ==
  ASSUME IndInv, RefInv, PastInv, NEW m \in Msgs, NEW ts \in Times, Arrive(m, ts)
  PROVE  PastInv'
<1>1. PICK isq \in ArrivalFlags(m) : pending' = pending \cup {NewMsg(m, ts, 0, isq)}
  BY DEF Arrive
<1> DEFINE f == NewMsg(m, ts, 0, isq)
<1>2. f \in Event /\ f.type = "NEW_MSG" /\ f.src = 0 /\ f.m = m
  <2>1. isq \in BOOLEAN /\ ts \in Nat
    BY LPAssumption, TWAssumption DEF ArrivalFlags
  <2>2. f \in Event
    BY <2>1, NewMsgFacts
  <2>. QED
    BY <2>2 DEF NewMsg
<1> HIDE DEF f
<1>3. /\ pending' = pending \cup {f} /\ m \notin arrived /\ arrived' = arrived \cup {m}
      /\ UNCHANGED <<ns, log, trace, committed>>
  BY <1>1 DEF Arrive, f
<1>4. Around' = Around \cup {f}
  BY <1>3 DEF Around
<1>5. /\ OnceInv /\ Len(log) \in Nat /\ committed \in Nat
      /\ \A i \in 1 .. Len(log) : log[i].ev \in Around
  BY TypeFacts, AroundFacts DEF RefInv, IndInv
<1>6. f \notin Around
  BY <1>2, <1>3, <1>5 DEF OnceInv
<1>7. ASSUME NEW i \in 1 .. (Len(log) + 1)
      PROVE  Good(StateAt(i)', TraceAt(i)', LiveAt(i)', arrived')
  <2>1. StateAt(i)' = StateAt(i) /\ TraceAt(i)' = TraceAt(i)
    BY <1>3 DEF StateAt, TraceAt
  <2>2. ASSUME NEW g PROVE g \in LiveAt(i)' <=> g \in LiveAt(i) \/ g = f
    <3>1. g \in LiveAt(i)' <=>
            /\ g \in Around' /\ g.type = "NEW_MSG" /\ g.src < committed + i
            /\ \A j \in 1 .. (i - 1) : g # log[j].ev
      BY <1>3 DEF LiveAt
    <3>2. g \in LiveAt(i) <=>
            /\ g \in Around /\ g.type = "NEW_MSG" /\ g.src < committed + i
            /\ \A j \in 1 .. (i - 1) : g # log[j].ev
      BY DEF LiveAt
    <3>3. 0 < committed + i /\ \A j \in 1 .. (i - 1) : j \in 1 .. Len(log)
      BY <1>5
    <3>. QED
      BY <1>2, <1>4, <1>5, <1>6, <3>1, <3>2, <3>3
  <2>3. LiveAt(i)' = LiveAt(i) \cup {f} /\ arrived' = arrived \cup {f.m}
    BY <1>2, <1>3, <2>2
  <2>4. Good(StateAt(i), TraceAt(i), LiveAt(i), arrived)
    BY DEF PastInv
  <2>5. Good(StateAt(i), TraceAt(i), LiveAt(i) \cup {f}, arrived \cup {f.m})
    BY <1>2, <1>3, <2>4, ArriveGood
  <2>. QED
    BY <2>1, <2>3, <2>5
<1>. QED
  BY <1>3, <1>7 DEF PastInv

LEMMA CancelPast ==
  ASSUME IndInv, RefInv, PastInv, NEW e \in pending, Cancel(e)
  PROVE  PastInv'
<1>1. /\ e.src = 0 /\ arrived' = arrived \ {e.m}
      /\ UNCHANGED <<ns, log, trace, committed>>
  BY DEF Cancel
<1>2. Around' = Around \ {e} /\ e \in Around
  BY CancelRef
<1>3. OnceInv /\ Len(log) \in Nat /\ committed \in Nat
  BY TypeFacts DEF RefInv, IndInv
<1>4. e.type = "NEW_MSG" /\ \A i \in 1 .. Len(log) : log[i].ev # e
  BY <1>1, <1>2, <1>3 DEF OnceInv, External, NewMsg
<1>5. ASSUME NEW i \in 1 .. (Len(log) + 1)
      PROVE  Good(StateAt(i)', TraceAt(i)', LiveAt(i)', arrived')
  <2>1. StateAt(i)' = StateAt(i) /\ TraceAt(i)' = TraceAt(i)
    BY <1>1 DEF StateAt, TraceAt
  <2>2. \A g : g \in LiveAt(i) <=>
            /\ g \in Around /\ g.type = "NEW_MSG" /\ g.src < committed + i
            /\ \A j \in 1 .. (i - 1) : g # log[j].ev
    BY DEF LiveAt
  <2>3. ASSUME NEW g PROVE g \in LiveAt(i)' <=> g \in LiveAt(i) /\ g # e
    <3>1. g \in LiveAt(i)' <=>
            /\ g \in Around' /\ g.type = "NEW_MSG" /\ g.src < committed + i
            /\ \A j \in 1 .. (i - 1) : g # log[j].ev
      BY <1>1 DEF LiveAt
    <3>. QED
      BY <1>2, <2>2, <3>1
  <2>4. e \in LiveAt(i)
    <3>1. 0 < committed + i /\ \A j \in 1 .. (i - 1) : j \in 1 .. Len(log)
      BY <1>3
    <3>. QED
      BY <1>1, <1>2, <1>4, <2>2, <3>1
  <2>5. LiveAt(i)' = LiveAt(i) \ {e}
    BY <2>3
  <2>6. Good(StateAt(i), TraceAt(i), LiveAt(i), arrived)
    BY DEF PastInv
  <2>7. Good(StateAt(i), TraceAt(i), LiveAt(i) \ {e}, arrived \ {e.m})
    BY <1>1, <2>4, <2>6, CancelGood
  <2>. QED
    BY <1>1, <2>1, <2>5, <2>7
<1>. QED
  BY <1>1, <1>5 DEF PastInv

LEMMA InitPast ==
  ASSUME Init
  PROVE  PastInv
<1> DEFINE e == << >>
           s == base_lp_init
<1>1. /\ ns = s /\ pending = {} /\ log = << >> /\ trace = e /\ arrived = {}
      /\ Len(log) = 0 /\ Len(e) = 0
  BY EmptySeq DEF Init
<1>2. 1 .. 0 = {} /\ 1 .. (0 + 1) = {1}
  OBVIOUS
<1>3. Around = {}
  BY <1>1, <1>2 DEF Around
<1>4. StateAt(1) = s /\ TraceAt(1) = e /\ LiveAt(1) = {}
  BY <1>1, <1>3 DEF StateAt, TraceAt, LiveAt
<1>5. \A kind, m : Recs(e, kind, m) = {}
  BY <1>1, <1>2 DEF Recs
<1>6. \A q \in Queues, l \in Levels : s.sched[q][l].reqs = << >>
  BY DEF base_lp_init, sched_init, fcfs_init
<1> HIDE DEF s, e
<1>7. /\ \A q \in Queues, l \in Levels : 1 .. Len(s.sched[q][l].reqs) = {}
      /\ \A m \in Msgs : Slots(s, m) = {}
  <2>1. \A q \in Queues, l \in Levels : 1 .. Len(s.sched[q][l].reqs) = {}
    <3>1. Len(<< >>) = 0
      BY EmptySeq
    <3>. QED
      BY <1>2, <1>6, <3>1
  <2>2. ASSUME NEW m \in Msgs PROVE Slots(s, m) = {}
    <3>1. queue_of(m) \in Queues /\ prio_of(m) \in Levels
      BY QueueFacts, PrioLevel
    <3>2. 1 .. Len(ListOf(s, m)) = {}
      BY <2>1, <3>1 DEF ListOf
    <3>. QED
      BY <3>2 DEF Slots
  <2>. QED
    BY <2>1, <2>2
<1>8. ListsOK(s)
  BY <1>7 DEF ListsOK
<1>9. RecordsOK(e, {}) /\ CopiesOK(s, e) /\ LiveOK(e, {}, {})
  BY <1>1, <1>2 DEF RecordsOK, CopiesOK, LiveOK
<1>10. WaitingOK(s, e) /\ TilesOK(s, e) /\ NicsOK(s, e, {})
  <2>1. WaitingOK(s, e)
    BY <1>5, <1>7 DEF WaitingOK, Waits
  <2>2. TilesOK(s, e)
    BY <1>5, <1>7, Zenon DEF TilesOK
  <2>3. NicsOK(s, e, {})
    BY <1>5, Zenon DEF NicsOK
  <2>. QED
    BY <2>1, <2>2, <2>3
<1>11. ServiceOK(s, e)
  <2>1. StartOK(s, e)
    BY <1>5, Zenon DEF StartOK
  <2>2. FcfsOK(s, e)
    BY <1>5, <1>7, Zenon DEF FcfsOK, Ahead, Waits
  <2>3. RrOK(s, e)
    BY <1>5, Zenon DEF RrOK
  <2>. QED
    BY <2>1, <2>2, <2>3 DEF ServiceOK
<1>12. Good(s, e, {}, {})
  BY <1>8, <1>9, <1>10, <1>11 DEF Good
<1>. QED
  BY <1>1, <1>2, <1>4, <1>12 DEF PastInv

LEMMA StepPast ==
  ASSUME Method # "multirail", IndInv, RefInv, PastInv, [Next]_vars
  PROVE  PastInv'
<1>1. CASE HandleEvent
  <2>1. PICK e \in pending : \E o \in Outcomes(ns, e, Step) :
                               Ready(e) /\ OutcomeOK(ns, e, o) /\ Process(e, o)
    BY <1>1, Handled
  <2>2. PICK o \in Outcomes(ns, e, Step) : Ready(e) /\ OutcomeOK(ns, e, o) /\ Process(e, o)
    BY <2>1
  <2>. QED
    BY <2>2, ProcessPast
<1>2. ASSUME NEW m \in Msgs, NEW ts \in Times, Arrive(m, ts) PROVE PastInv'
  BY <1>2, ArrivePast
<1>3. ASSUME NEW e \in pending, Cancel(e) PROVE PastInv'
  BY <1>3, CancelPast
<1>4. CASE Undo
  BY <1>4, UndoPast
<1>5. CASE Commit
  BY <1>5, CommitPast
<1>6. CASE UNCHANGED vars
  <2>1. UNCHANGED <<ns, pending, log, trace, arrived, committed, gvt>>
    BY <1>6 DEF vars
  <2>2. Around' = Around
    BY <2>1 DEF Around
  <2>3. \A i : StateAt(i)' = StateAt(i) /\ TraceAt(i)' = TraceAt(i) /\ LiveAt(i)' = LiveAt(i)
    BY <2>1, <2>2 DEF StateAt, TraceAt, LiveAt
  <2>. QED
    BY <2>1, <2>3 DEF PastInv
<1>. QED
  BY <1>1, <1>2, <1>3, <1>4, <1>5, <1>6 DEF Next, Terminated

LEMMA PastInductive ==
  ASSUME Method # "multirail"
  PROVE  Spec => [](IndInv /\ RefInv /\ PastInv)
<1>1. Init => IndInv /\ RefInv /\ PastInv
  BY InitInv, InitRef, InitPast
<1>2. (IndInv /\ RefInv /\ PastInv) /\ [Next]_vars => (IndInv /\ RefInv /\ PastInv)'
  BY StepInv, StepRef, StepPast
<1>. QED
  BY <1>1, <1>2, PTL DEF Spec

-----------------------------------------------------------------------------
(* The theorems.                                                           *)

\* the relation, for the present
LEMMA Present ==
  ASSUME IndInv, RefInv, PastInv
  PROVE  /\ \E L : Good(ns, trace, L, arrived)
         /\ trace \in Seq(Did_) /\ Len(trace) \in Nat /\ DOMAIN trace = 1 .. Len(trace)
         /\ \A i \in DOMAIN trace : trace[i] \in Did_
         /\ \A m : PacketsOf(m) = Recs(trace, "packet", m)
<1>1. Len(log) \in Nat /\ trace \in Seq(Did_) /\ Len(trace) \in Nat
  BY TypeFacts DEF IndInv
<1>2. Len(log) + 1 \in 1 .. (Len(log) + 1)
  BY <1>1
<1>3. Good(ns, trace, LiveAt(Len(log) + 1), arrived)
  BY <1>2, LiveFacts DEF PastInv
<1>4. DOMAIN trace = 1 .. Len(trace)
  BY <1>1, LenProperties
<1>5. \A i \in DOMAIN trace : trace[i] \in Did_
  BY <1>1, <1>4, ElementOfSeq
<1>6. \A m : PacketsOf(m) = Recs(trace, "packet", m)
  BY <1>4 DEF PacketsOf, Recs
<1>. QED
  BY <1>1, <1>3, <1>4, <1>5, <1>6

\* Copies within the node that share a copy queue never overlap in time, in any
\* timeline: node_copy_next_available_time is right whenever handle_new_msg reads it.
THEOREM CopiesAreSerialised ==
  ASSUME Method # "multirail"
  PROVE  Spec => []CopiesSerialised
<1>1. IndInv /\ RefInv /\ PastInv => CopiesSerialised
  <2> SUFFICES ASSUME IndInv, RefInv, PastInv PROVE CopiesSerialised
    OBVIOUS
  <2>1. PICK L : Good(ns, trace, L, arrived)
    BY Present
  <2>2. CopiesOK(ns, trace)
    BY <2>1 DEF Good
  <2>3. DOMAIN trace = 1 .. Len(trace)
    BY Present
  <2>. QED
    BY <2>2, <2>3 DEF CopiesOK, CopiesSerialised
<1>. QED
  BY <1>1, PastInductive, PTL

\* Messages of one queue and level start in the order in which the NIC took their
\* requests, in every timeline: next_available_time orders the copies that
\* handle_new_msg sends to itself, and the schedulers keep that order.
THEOREM MessagesStartInNicOrder ==
  ASSUME Method # "multirail"
  PROVE  Spec => []NicOrder
<1>1. IndInv /\ RefInv /\ PastInv => NicOrder
  <2> SUFFICES ASSUME IndInv, RefInv, PastInv, NEW i \in DOMAIN trace, NEW j \in DOMAIN trace,
                      trace[i].kind = "nic", trace[j].kind = "nic", i < j, SameLevel(i, j),
                      NEW b \in PacketsOf(trace[j].req)
               PROVE  \E a \in PacketsOf(trace[i].req) : a < b
    BY DEF NicOrder
  <2>1. PICK L : Good(ns, trace, L, arrived)
    BY Present
  <2>2. RecordsOK(trace, arrived) /\ NicsOK(ns, trace, L)
    BY <2>1 DEF Good
  <2>3. /\ DOMAIN trace = 1 .. Len(trace) /\ trace[i] \in Did_ /\ trace[j] \in Did_
        /\ \A m : PacketsOf(m) = Recs(trace, "packet", m)
    BY Present
  <2> DEFINE k == trace[i].req
             m == trace[j].req
  <2>4. k \in Msgs /\ m \in Msgs /\ i \in Recs(trace, "nic", k) /\ j \in Recs(trace, "nic", m)
    BY <2>3 DEF Did_, Recs
  <2>5. trace[i].q = queue_of(k) /\ trace[j].q = queue_of(m)
    <3>1. "nic" # "copy"
      OBVIOUS
    <3>. QED
      BY <2>2, <2>3, <3>1 DEF RecordsOK
  <2>6. Rivals(k, m)
    BY <2>5 DEF SameLevel, Rivals
  <2> HIDE DEF k, m
  <2>7. \A x \in Recs(trace, "packet", m) : \E a \in Recs(trace, "packet", k) : a < x
    BY <2>2, <2>4, <2>6 DEF NicsOK
  <2>. QED
    BY <2>3, <2>7 DEF k, m
<1>. QED
  BY <1>1, PastInductive, PTL

\* Service within a level, in every timeline.  fcfs: no packet of another message
\* comes between two packets of a message.  rr: between two packets of a message,
\* every other message that was queued before them and is not through has its turn.
THEOREM ServiceIsOrdered ==
  ASSUME Method # "multirail"
  PROVE  Spec => []ServiceOrder
<1>1. IndInv /\ RefInv /\ PastInv => ServiceOrder
  <2> SUFFICES ASSUME IndInv, RefInv, PastInv, NEW m \in Msgs,
                      NEW i \in PacketsOf(m), NEW j \in PacketsOf(m), i < j,
                      NEW c \in DOMAIN trace, trace[c].req # m, SameLevel(i, c)
               PROVE  IF Discipline = "fcfs"
                      THEN trace[c].kind = "packet" => c < i \/ c > j
                      ELSE trace[c].kind = "queued" /\ c < i
                             /\ (\E p \in PacketsOf(trace[c].req) : p > j)
                           => \E p \in PacketsOf(trace[c].req) : i < p /\ p < j
    BY DEF ServiceOrder
  <2>1. PICK L : Good(ns, trace, L, arrived)
    BY Present
  <2>2. RecordsOK(trace, arrived) /\ ServiceOK(ns, trace)
    BY <2>1 DEF Good
  <2>3. /\ DOMAIN trace = 1 .. Len(trace) /\ trace[c] \in Did_ /\ Len(trace) \in Nat
        /\ \A x : PacketsOf(x) = Recs(trace, "packet", x)
    BY Present
  <2> DEFINE k == trace[c].req
             P(x) == Recs(trace, "packet", x)
  <2>4. /\ k \in Msgs /\ k # m /\ i \in P(m) /\ j \in P(m)
        /\ trace[c].kind = "packet" => c \in P(k)
        /\ trace[c].kind = "queued" => c \in Recs(trace, "queued", k)
    BY <2>3 DEF Did_, Recs
  <2>5. /\ trace[i].req = m /\ trace[i].kind = "packet" /\ i \in 1 .. Len(trace)
        /\ \A p \in P(k) \cup P(m) : p \in Nat
    BY <2>3, <2>4 DEF Recs
  <2>6. trace[c].kind # "copy" => Rivals(k, m)
    <3>1. trace[i].q = queue_of(m)
      <4>1. trace[i].kind # "copy"
        BY <2>5
      <4>. QED
        BY <2>2, <2>5, <4>1 DEF RecordsOK
    <3>2. trace[c].kind # "copy" => trace[c].q = queue_of(k)
      BY <2>2, <2>3 DEF RecordsOK
    <3>. QED
      BY <2>5, <3>1, <3>2 DEF SameLevel, Rivals
  <2>7. Discipline \in {"fcfs", "rr"} /\ c \in Nat
    BY <2>3, SchedAssumption DEF Discipline
  <2> HIDE DEF k
  <2>8. ASSUME Discipline = "fcfs", trace[c].kind = "packet"
        PROVE  c < i \/ c > j
    <3>1. FcfsOK(ns, trace) /\ trace[c].kind # "copy"
      BY <2>2, <2>8 DEF ServiceOK
    <3>2. \A a, b \in P(m), x \in P(k) : a < b => x < a \/ x > b
      BY <2>4, <2>6, <3>1 DEF FcfsOK
    <3>3. c \in P(k)
      BY <2>4, <2>8
    <3>. QED
      BY <2>4, <3>2, <3>3
  <2>9. ASSUME Discipline = "rr", trace[c].kind = "queued", c < i, NEW x \in P(k), x > j
        PROVE  \E p \in P(k) : i < p /\ p < j
    <3>1. RrOK(ns, trace) /\ trace[c].kind # "copy"
      BY <2>2, <2>9 DEF ServiceOK
    <3>2. c \in Recs(trace, "queued", k) /\ Rivals(k, m)
      BY <2>4, <2>6, <2>9, <3>1
    <3>3. j < x
      BY <2>4, <2>5, <2>9
    <3>4. \A b \in P(m) : i < b /\ (\E p \in P(k) : b < p) => \E p \in P(k) : i < p /\ p < b
      BY <2>4, <2>9, <3>1, <3>2 DEF RrOK
    <3>. QED
      BY <2>4, <3>3, <3>4
  <2>10. "fcfs" # "rr"
    OBVIOUS
  <2>. QED
    BY <2>3, <2>7, <2>8, <2>9, <2>10 DEF k
<1>. QED
  BY <1>1, PastInductive, PTL

\* The packets of a message cover it from its first byte on without gap or overlap,
\* only the last one is marked last, and what is queued is what has not been issued:
\* in every timeline, for every packet size and every mix of messages.
THEOREM PacketsCoverMessages ==
  ASSUME Method # "multirail"
  PROVE  Spec => []PacketsTile
<1>1. IndInv /\ RefInv /\ PastInv => PacketsTile
  <2> SUFFICES ASSUME IndInv, RefInv, PastInv PROVE PacketsTile
    OBVIOUS
  <2>1. PICK L : Good(ns, trace, L, arrived)
    BY Present
  <2>2. WaitingOK(ns, trace) /\ TilesOK(ns, trace)
    BY <2>1 DEF Good
  <2>3. \A m : PacketsOf(m) = Recs(trace, "packet", m)
    BY Present
  <2>4. ASSUME NEW m \in Msgs, Remaining(m) # -1
        PROVE  /\ ~\E i \in PacketsOf(m) : trace[i].last
               /\ Remaining(m) = Req[m].msg_size - Cardinality(PacketsOf(m)) * PacketSize
    <3> DEFINE reqs == ns.sched[queue_of(m)][prio_of(m)].reqs
               items == {i \in DOMAIN reqs : reqs[i].req = m}
               a == CHOOSE i \in items : TRUE
    <3>1. reqs \in Seq(QItem)
      <4>1. queue_of(m) \in Queues /\ prio_of(m) \in Levels
        BY QueueFacts, PrioLevel
      <4>2. ns.sched[queue_of(m)] \in SchedState
        <5>1. ns \in State
          BY TypeFacts DEF IndInv
        <5>2. ns.sched \in [Queues -> SchedState]
          BY <5>1, StateFacts
        <5>. QED
          BY <4>1, <5>2
      <4>3. ns.sched[queue_of(m)][prio_of(m)] \in Queue
        BY <4>1, <4>2 DEF SchedState
      <4>. QED
        BY <4>3 DEF Queue
    <3>2. items = Slots(ns, m)
      <4> HIDE DEF reqs
      <4>1. DOMAIN reqs = 1 .. Len(reqs)
        BY ONLY <3>1, LenProperties
      <4>2. ListOf(ns, m) = reqs
        BY ZenonT(60) DEF ListOf, reqs
      <4>3. Slots(ns, m) = {i \in 1 .. Len(reqs) : reqs[i].req = m}
        BY ONLY <4>2, ZenonT(60) DEF Slots
      <4>. QED
        BY ONLY <4>1, <4>3 DEF items
    <3>3. items # {} /\ Remaining(m) = reqs[a].rem
      BY <2>4, ZenonT(60) DEF Remaining
    <3>4. a \in items
      BY <3>3
    <3> HIDE DEF a, items
    <3>5. a \in Slots(ns, m) /\ ListOf(ns, m)[a].rem = reqs[a].rem
      BY <3>2, <3>4 DEF ListOf
    <3> HIDE DEF reqs
    <3>6. \A p \in Recs(trace, "packet", m) : trace[p].last = FALSE
      BY <2>2, <3>5 DEF WaitingOK, Waits
    <3>7. ListOf(ns, m)[a].rem = Req[m].msg_size - Cardinality(Recs(trace, "packet", m)) * PacketSize
      BY <2>2, <3>5 DEF TilesOK
    <3>8. ~\E i \in PacketsOf(m) : trace[i].last
      BY <2>3, <3>6
    <3>9. Remaining(m) = Req[m].msg_size - Cardinality(PacketsOf(m)) * PacketSize
      BY <2>3, <3>3, <3>5, <3>7
    <3>. QED
      BY <3>8, <3>9
  <2>5. ASSUME NEW m \in Msgs
        PROVE  \A i \in PacketsOf(m) :
                 LET k == Cardinality({j \in PacketsOf(m) : j < i})
                 IN  /\ trace[i].offset = k * PacketSize
                     /\ trace[i].last <=>
                          trace[i].offset + trace[i].size = Req[m].msg_size
                                          /\ k + 1 = Cardinality(PacketsOf(m))
                     /\ ~trace[i].last => trace[i].size = PacketSize
    <3>1. PacketsOf(m) = Recs(trace, "packet", m)
      BY <2>3
    <3>. QED
      BY <2>2, <3>1, Zenon DEF TilesOK
  <2>. QED
    BY <2>4, <2>5, Zenon DEF PacketsTile
<1>. QED
  BY <1>1, PastInductive, PTL

\* the last thing an event does, if it is to issue a packet
LEMMA LevelServed ==
  ASSUME Method # "multirail", NEW s \in State, StateOK(s), ListsOK(s), NEW e \in Event, EventOK(e),
         NEW n \in Nat \ {0}, NEW o \in Outcomes(s, e, n), o.did # << >>,
         NEW p, p = o.did[Len(o.did)], p.kind = "packet", NEW l \in Levels, l < prio_of(p.req)
  PROVE  s.sched[p.q][l].reqs = << >>
<1>1. CASE e.type = "NEW_MSG"
  <2>1. ASSUME NEW d, o.did = <<d>>, d.kind # "packet" PROVE FALSE
    BY <2>1
  <2>2. CASE Req[e.m].loopback
    <3> DEFINE c == copy_queue(e.m)
               done == Later(s.copy_avail[c], e.ts) + Req[e.m].msg_size * CnDelay
               d == Did("copy", c, done, Whole(e.m))
    <3>1. o = new_msg_local(s, e)
      BY <1>1, <2>2 DEF Outcomes
    <3>2. o.did = <<d>>
      BY <3>1 DEF new_msg_local, Nothing
    <3>3. d.kind # "packet"
      BY DEF Did
    <3> HIDE DEF d
    <3>. QED
      BY <2>1, <3>2, <3>3
  <2>3. CASE ~Req[e.m].loopback /\ e.isQueueReq
    <3> DEFINE free == Later(s.next_avail, e.ts) + NicSeqDelay + codes_local_latency(s.rng)
               d == Did("nic", queue_of(e.m), free, Whole(e.m))
    <3>1. o = new_msg_nic(s, e, n)
      BY <1>1, <2>3 DEF Outcomes
    <3>2. o.did = <<d>>
      BY <3>1 DEF new_msg_nic, Nothing
    <3>3. d.kind # "packet"
      BY DEF Did
    <3> HIDE DEF d
    <3>. QED
      BY <2>1, <3>2, <3>3
  <2>4. CASE ~Req[e.m].loopback /\ ~e.isQueueReq /\ s.in_loop[e.q]
    <3> DEFINE d == Did("queued", queue_of(e.m), e.ts, Whole(e.m))
    <3>1. o = new_msg_queue(s, e)
      BY <1>1, <2>4 DEF Outcomes
    <3>2. o.did = <<d>>
      BY <3>1 DEF new_msg_queue, Nothing
    <3>3. d.kind # "packet"
      BY DEF Did
    <3> HIDE DEF d
    <3>. QED
      BY <2>1, <3>2, <3>3
  <2>5. CASE ~Req[e.m].loopback /\ ~e.isQueueReq /\ ~s.in_loop[e.q]
    <3>1. o \in new_msg_start(s, e, n)
      BY <1>1, <2>5 DEF Outcomes
    <3> DEFINE q == queue_of(e.m)
    <3>2. PICK t, i, d, r : StartDone(s, e, o, t, i, d, r)
      BY <1>1, <2>5, <3>1, StartDoes
    <3>3. /\ sched_empty(s.sched[q]) /\ q \in Queues /\ o.did = <<d>> \o i.did
          /\ t.sched = [s.sched EXCEPT ![q] = sched_add(e.m, s.sched[q])]
          /\ ListsOK(t) => IssueDone(t, q, i, r)
      BY <3>2 DEF StartDone
    <3>4. \A k \in Levels : s.sched[q][k].reqs = << >>
      BY <3>3 DEF sched_empty, Busy
    <3>5. ListsOK(t)
      <4>1. e.m \in Msgs /\ prio_of(e.m) \in Levels
        BY <1>1, PrioLevel DEF EventOK
      <4>2. ListOf(s, e.m) = << >>
        BY <3>4, <4>1 DEF ListOf
      <4>3. Len(<< >>) = 0 /\ 1 .. 0 = {}
        BY EmptySeq
      <4>4. ~Waits(s, e.m)
        BY <4>2, <4>3 DEF Waits, Slots
      <4>5. AddEffect(s, t, e.m)
        BY <3>3, <4>1, <4>4, AddView
      <4>. QED
        BY <4>5 DEF AddEffect
    <3>6. i.did = <<r>> /\ r.q = q
      BY <3>3, <3>5 DEF IssueDone
    <3>7. p = r
      <4> DEFINE a == <<d>>
                 b == <<r>>
      <4>1. a \in Seq({d, r}) /\ b \in Seq({d, r}) /\ Len(a) = 1 /\ Len(b) = 1 /\ b[1] = r
        OBVIOUS
      <4>2. o.did = a \o b
        BY <3>3, <3>6
      <4> HIDE DEF a, b
      <4>3. /\ Len(a \o b) = Len(a) + Len(b)
            /\ \A k \in 1 .. (Len(a) + Len(b)) :
                 (a \o b)[k] = IF k <= Len(a) THEN a[k] ELSE b[k - Len(a)]
        BY ONLY <4>1, ConcatProperties, ZenonT(60)
      <4>4. Len(a \o b) = 2 /\ (a \o b)[2] = b[1]
        BY <4>1, <4>3
      <4>. QED
        BY <4>1, <4>2, <4>4
    <3>. QED
      BY <3>4, <3>6, <3>7
  <2>. QED
    BY <2>2, <2>3, <2>4, <2>5
<1>2. CASE e.type = "SCHED_NEXT" /\ ~e.created_in_surrogate /\ ~sched_empty(s.sched[e.q])
  <2> DEFINE q == e.q
             ts == e.ts
             d == Did("packet", q, ts, sched_next_pkt(s.sched[q]))
  <2>1. /\ q \in Queues /\ ts \in Nat /\ ~sched_empty(s.sched[q])
        /\ o \in sched_next_issue(s, q, ts, NoRc, n)
    <3>1. q \in Queues /\ ts \in Nat
      BY DEF Event
    <3>2. o \in sched_next_issue(s, e.q, e.ts, NoRc, n)
      BY <1>2 DEF Outcomes
    <3>. QED
      BY <1>2, <3>1, <3>2
  <2> HIDE DEF q, ts
  <2>2. IssueDone(s, q, o, d)
    BY <2>1, IssueDoes, SMTT(30)
  <2> HIDE DEF d
  <2>3. o.did = <<d>> /\ d.q = q /\ prio_of(d.req) = NextLevel(s.sched[q])
    BY <2>2 DEF IssueDone, IssueEffect
  <2>4. p = d
    BY <2>3
  <2>. QED
    BY <2>1, <2>3, <2>4, NextLevelFacts
<1>3. CASE /\ e.type # "NEW_MSG"
           /\ e.type = "SCHED_NEXT" /\ ~e.created_in_surrogate => sched_empty(s.sched[e.q])
  <2>1. o \in {method_idle(s, e, n), Nothing(s), sched_next_finish(s, e.q, NoRc)}
    <3>1. e.type \in {"SCHED_NEXT", "PASS"}
      BY <1>3 DEF Event
    <3>. QED
      BY <1>3, <3>1 DEF Outcomes
  <2>2. /\ Nothing(s).did = << >> /\ method_idle(s, e, n).did = << >>
        /\ sched_next_finish(s, e.q, NoRc).did = << >>
    BY DEF method_idle, Nothing, sched_next_finish, NoBits
  <2>. QED
    BY <2>1, <2>2
<1>. QED
  BY <1>1, <1>2, <1>3

\* A packet is issued from the first level that holds a request, in every timeline:
\* prio_next never passes over a level of higher priority.
THEOREM HighestLevelIsServed ==
  ASSUME Method # "multirail"
  PROVE  Spec => HighestLevelFirst
<1> DEFINE First == Len(trace') > Len(trace) /\ LastOf(trace').kind = "packet" =>
                      LET p == LastOf(trace')
                      IN  \A l \in Levels : l < prio_of(p.req) => ns.sched[p.q][l].reqs = << >>
<1>1. (IndInv /\ RefInv /\ PastInv) /\ [Next]_vars => [First]_vars
  <2> SUFFICES ASSUME IndInv, RefInv, PastInv, Next,
                      Len(trace') > Len(trace), LastOf(trace').kind = "packet",
                      NEW p, p = LastOf(trace'), NEW l \in Levels, l < prio_of(p.req)
               PROVE  ns.sched[p.q][l].reqs = << >>
    OBVIOUS
  <2>1. Len(trace) \in Nat /\ trace \in Seq(Did_)
    BY TypeFacts DEF IndInv
  <2>2. HandleEvent
    <3>1. ASSUME trace' = trace PROVE FALSE
      BY <2>1, <3>1
    <3>2. ASSUME Undo PROVE FALSE
      <4>1. PICK x : x = log[Len(log)]
        OBVIOUS
      <4>2. x.mark \in 0 .. Len(trace) /\ Len(trace') = x.mark
        BY <3>2, <4>1, UndoFacts
      <4>. QED
        BY <2>1, <4>2
    <3>. QED
      BY <3>1, <3>2 DEF Next, Arrive, Cancel, Commit, Terminated, vars
  <2>3. PICK e \in pending : \E o \in Outcomes(ns, e, Step) :
                               Ready(e) /\ OutcomeOK(ns, e, o) /\ Process(e, o)
    BY <2>2, Handled
  <2>4. PICK o \in Outcomes(ns, e, Step) : OutcomeOK(ns, e, o) /\ Process(e, o)
    BY <2>3
  <2>5. /\ Len(o.did) \in Nat /\ o.did \in Seq(Did_) /\ Len(trace') = Len(trace) + Len(o.did)
        /\ \A i \in 1 .. Len(o.did) : trace'[Len(trace) + i] = o.did[i]
    BY <2>4, ProcessFacts
  <2>6. o.did # << >> /\ p = o.did[Len(o.did)]
    <3>1. Len(o.did) # 0 /\ Len(o.did) \in 1 .. Len(o.did)
      BY <2>1, <2>5
    <3>. QED
      BY <2>5, <3>1, EmptySeq DEF LastOf
  <2>7. /\ ns \in State /\ StateOK(ns) /\ e \in Event /\ EventOK(e) /\ Step \in Nat \ {0}
    BY TypeFacts DEF IndInv
  <2>8. ListsOK(ns)
    BY Present DEF Good
  <2>. QED
    BY <2>4, <2>6, <2>7, <2>8, LevelServed
<1>. QED
  BY <1>1, PastInductive, PTL DEF Spec, HighestLevelFirst
=============================================================================
