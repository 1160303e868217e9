------------------------- MODULE ModelNetSchedProofs -------------------------
(***************************************************************************)
(* The "_rc" operations of the packet schedulers undo the forward ones, for *)
(* every discipline, packet size and queue content.                        *)
(***************************************************************************)
EXTENDS ModelNetSched, SequenceTheorems, WellFoundedInduction, TLAPS

-----------------------------------------------------------------------------
(* Division with remainder.                                                *)

LEMMA Euclid ==
  ASSUME NEW P \in Nat \ {0}, NEW x \in Int
  PROVE  /\ x = P * (x \div P) + (x % P)
         /\ x \div P \in Int
         /\ x % P \in 0 .. (P - 1)
  OBVIOUS

LEMMA MultipleAbove ==
  ASSUME NEW P \in Nat \ {0}, NEW a \in Int, a >= 1
  PROVE  P * a >= P
  OBVIOUS

LEMMA MultipleBelow ==
  ASSUME NEW P \in Nat \ {0}, NEW a \in Int, a <= -1
  PROVE  P * a <= -P
  OBVIOUS

LEMMA RemainderUnique ==
  ASSUME NEW P \in Nat \ {0}, NEW k \in Int, NEW r \in 0 .. (P - 1)
  PROVE  (P * k + r) % P = r
<1> DEFINE x == P * k + r
           q == x \div P
           s == x % P
<1>0. x \in Int /\ P * k \in Int
  OBVIOUS
<1>1. x = P * q + s /\ q \in Int /\ s \in 0 .. (P - 1)
  BY <1>0, Euclid
<1> HIDE DEF q, s
<1>2. P * (k - q) = s - r /\ k - q \in Int
  BY <1>1, <1>0
<1>3. ~(k - q >= 1)
  BY <1>2, <1>1, MultipleAbove
<1>4. ~(k - q <= -1)
  BY <1>2, <1>1, MultipleBelow
<1>5. P * (k - q) = 0
  BY <1>1, <1>2, <1>3, <1>4
<1>. QED
  BY <1>1, <1>2, <1>5 DEF s

LEMMA RemainderMinus ==
  ASSUME NEW P \in Nat \ {0}, NEW x \in Nat, P < x
  PROVE  (x - P) % P = x % P
<1> DEFINE q == x \div P
           s == x % P
<1>1. x = P * q + s /\ q \in Int /\ s \in 0 .. (P - 1)
  BY Euclid
<1> HIDE DEF q, s
<1>2. x - P = P * (q - 1) + s /\ q - 1 \in Int
  BY <1>1
<1>3. (P * (q - 1) + s) % P = s
  BY <1>1, <1>2, RemainderUnique
<1>. QED
  BY <1>1, <1>2, <1>3 DEF s

-----------------------------------------------------------------------------
(* Sequences.                                                              *)

LEMMA PopBackAppend ==
  ASSUME NEW S, NEW s \in Seq(S), NEW x \in S
  PROVE  /\ AllButLast(Append(s, x)) = s
         /\ LastOf(Append(s, x)) = x
<1>1. /\ Append(s, x) \in Seq(S)
      /\ Len(Append(s, x)) = Len(s) + 1
      /\ \A i \in 1 .. Len(s) : Append(s, x)[i] = s[i]
      /\ Append(s, x)[Len(s) + 1] = x
  BY AppendProperties
<1>2. Len(s) \in Nat /\ \A i \in 1 .. Len(s) : s[i] \in S
  BY LenProperties, ElementOfSeq
<1>3. LastOf(Append(s, x)) = x
  BY <1>1, <1>2 DEF LastOf
<1>4. AllButLast(Append(s, x)) = SubSeq(Append(s, x), 1, Len(s))
  BY <1>1, <1>2 DEF AllButLast
<1>5. /\ SubSeq(Append(s, x), 1, Len(s)) \in Seq(S)
      /\ Len(SubSeq(Append(s, x), 1, Len(s))) = Len(s)
      /\ \A i \in 1 .. Len(s) : SubSeq(Append(s, x), 1, Len(s))[i] = Append(s, x)[i]
  <2> DEFINE t == Append(s, x)
  <2>1. \A i \in 1 .. Len(s) : t[i] \in S
    BY <1>1, <1>2
  <2> HIDE DEF t
  <2>2. /\ SubSeq(t, 1, Len(s)) \in Seq(S)
        /\ Len(SubSeq(t, 1, Len(s))) = (IF 1 <= Len(s) THEN Len(s) - 1 + 1 ELSE 0)
        /\ \A i \in 1 .. (Len(s) - 1 + 1) : SubSeq(t, 1, Len(s))[i] = t[1 + i - 1]
    BY <2>1, <1>2, SubSeqProperties
  <2>. QED
    BY <2>2, <1>2 DEF t
<1>6. SubSeq(Append(s, x), 1, Len(s)) = s
  BY <1>1, <1>5, SeqEqual
<1>. QED
  BY <1>3, <1>4, <1>6

LEMMA PopBackProperties ==
  ASSUME NEW S, NEW s \in Seq(S), s # << >>
  PROVE  /\ AllButLast(s) \in Seq(S)
         /\ LastOf(s) \in S
         /\ Len(AllButLast(s)) = Len(s) - 1
         /\ \A i \in 1 .. (Len(s) - 1) : AllButLast(s)[i] = s[i]
<1>1. PICK t \in Seq(S), x \in S : s = Append(t, x)
  BY SequenceEmptyOrAppend
<1>2. AllButLast(s) = t /\ LastOf(s) = x
  BY <1>1, PopBackAppend
<1>3. Len(s) = Len(t) + 1 /\ (\A i \in 1 .. Len(t) : s[i] = t[i]) /\ Len(t) \in Nat
  BY <1>1, AppendProperties, LenProperties
<1>. QED
  BY <1>1, <1>2, <1>3

LEMMA ConsHeadTail ==
  ASSUME NEW S, NEW s \in Seq(S), s # << >>
  PROVE  <<Head(s)>> \o Tail(s) = s
<1>1. Len(s) \in Nat \ {0}
  BY EmptySeq, LenProperties
<1>2. SubSeq(s, 1, Len(s)) = <<s[1]>> \o SubSeq(s, 1 + 1, Len(s))
  BY <1>1, SubSeqRecursiveFirst
<1>3. SubSeq(s, 1, Len(s)) = s
  BY SubSeqFull
<1>4. Tail(s) = SubSeq(s, 2, Len(s)) /\ Head(s) = s[1]
  BY TailIsSubSeq
<1>. QED
  BY <1>2, <1>3, <1>4

LEMMA RestoreFirst ==
  ASSUME NEW S, NEW s \in Seq(S), NEW x
  PROVE  [[s EXCEPT ![1] = x] EXCEPT ![1] = s[1]] = s
<1>1. s = [i \in DOMAIN s |-> s[i]]
  BY SeqDef
<1>2. DOMAIN [[s EXCEPT ![1] = x] EXCEPT ![1] = s[1]] = DOMAIN s
  OBVIOUS
<1>3. \A i \in DOMAIN s : [[s EXCEPT ![1] = x] EXCEPT ![1] = s[1]][i] = s[i]
  OBVIOUS
<1>. QED
  BY <1>1, <1>2, <1>3

-----------------------------------------------------------------------------
(* Queues.                                                                 *)

\* the bytes left of a queued message are what whole packets leave of it
ItemOK(item) ==
  /\ item.rem <= Req[item.req].msg_size
  /\ item.rem % PacketSize = Req[item.req].msg_size % PacketSize
  /\ item.rem = 0 => Req[item.req].msg_size = 0

QueueOK(q) ==
  /\ q.queue_len = Len(q.reqs)
  /\ \A i \in 1 .. Len(q.reqs) : ItemOK(q.reqs[i])

SchedState == [Levels -> Queue]

SchedOK(s) == \A l \in Levels : QueueOK(s[l])

LEMMA ReqFacts ==
  ASSUME NEW m \in Msgs
  PROVE  /\ Req[m].msg_size \in Nat
         /\ Req[m].prio \in -1 .. (NumPrios - 1)
         /\ Req[m].offset \in Nat
         /\ Req[m].is_from_remote \in BOOLEAN
         /\ Req[m].loopback \in BOOLEAN
  BY MsgAssumption DEF ReqType

\* fcfs_next_rc computes the bytes left before the last packet from the
\* message size alone; that is what was left.
LEMMA LastRemIsRem ==
  ASSUME NEW item \in QItem, ItemOK(item), is_last_packet(item)
  PROVE  LastRem(item.req) = item.rem
<1> DEFINE S == Req[item.req].msg_size
           r == item.rem
<1>1. S \in Nat /\ r \in Nat /\ item.req \in Msgs /\ r <= PacketSize
      /\ PacketSize \in Nat \ {0}
  BY ReqFacts, SchedAssumption DEF QItem, is_last_packet
<1>2. r <= S /\ r % PacketSize = S % PacketSize /\ (r = 0 => S = 0)
  BY DEF ItemOK
<1>3. r < PacketSize => r % PacketSize = r
  BY <1>1
<1>4. PacketSize % PacketSize = 0 /\ 0 % PacketSize = 0
  BY <1>1
<1> HIDE DEF S, r
<1>5. CASE r = PacketSize
  BY <1>5, <1>1, <1>2, <1>4 DEF LastRem, S, r
<1>6. CASE r < PacketSize
  BY <1>6, <1>1, <1>2, <1>3, <1>4 DEF LastRem, S, r
<1>. QED
  BY <1>1, <1>5, <1>6

LEMMA FcfsAdd ==
  ASSUME NEW q \in Queue, QueueOK(q), NEW m \in Msgs
  PROVE  /\ fcfs_add(m, q) \in Queue
         /\ QueueOK(fcfs_add(m, q))
         /\ fcfs_add(m, q).reqs # << >>
         /\ fcfs_add_rc(fcfs_add(m, q)) = q
<1> DEFINE it == [req |-> m, rem |-> Req[m].msg_size]
<1>1. it \in QItem /\ ItemOK(it)
  BY ReqFacts DEF QItem, ItemOK
<1>2. q.reqs \in Seq(QItem) /\ q.queue_len \in Nat /\ Len(q.reqs) \in Nat
      /\ q = [reqs |-> q.reqs, queue_len |-> q.queue_len]
  BY LenProperties DEF Queue
<1>3. fcfs_add(m, q) = [reqs |-> Append(q.reqs, it), queue_len |-> q.queue_len + 1]
  BY DEF fcfs_add
<1> HIDE DEF it
<1>4. /\ Append(q.reqs, it) \in Seq(QItem)
      /\ Append(q.reqs, it) # << >>
      /\ Len(Append(q.reqs, it)) = Len(q.reqs) + 1
      /\ \A i \in 1 .. Len(q.reqs) : Append(q.reqs, it)[i] = q.reqs[i]
      /\ Append(q.reqs, it)[Len(q.reqs) + 1] = it
  BY <1>1, <1>2, AppendProperties
<1>5. AllButLast(Append(q.reqs, it)) = q.reqs
  BY <1>1, <1>2, PopBackAppend
<1>6. fcfs_add(m, q) \in Queue
  BY <1>2, <1>3, <1>4 DEF Queue
<1>7. QueueOK(fcfs_add(m, q))
  <2>1. fcfs_add(m, q).queue_len = Len(fcfs_add(m, q).reqs)
    BY <1>3, <1>4 DEF QueueOK
  <2>2. \A i \in 1 .. (Len(q.reqs) + 1) : ItemOK(Append(q.reqs, it)[i])
    BY <1>1, <1>2, <1>4 DEF QueueOK
  <2>. QED
    BY <2>1, <2>2, <1>3, <1>4 DEF QueueOK
<1>8. fcfs_add_rc(fcfs_add(m, q)) = q
  BY <1>2, <1>3, <1>5 DEF fcfs_add_rc
<1>. QED
  BY <1>3, <1>4, <1>6, <1>7, <1>8

\* a queue that holds a request, and its first request
LEMMA HeadFacts ==
  ASSUME NEW q \in Queue, QueueOK(q), q.reqs # << >>
  PROVE  /\ q.reqs \in Seq(QItem) /\ q.queue_len \in Nat \ {0}
         /\ Len(q.reqs) = q.queue_len
         /\ Head(q.reqs) = q.reqs[1]
         /\ Head(q.reqs) \in QItem
         /\ ItemOK(Head(q.reqs))
         /\ q = [reqs |-> q.reqs, queue_len |-> q.queue_len]
         /\ is_last_packet(Head(q.reqs)) \in BOOLEAN
<1>1. q.reqs \in Seq(QItem) /\ q.queue_len \in Nat
      /\ q = [reqs |-> q.reqs, queue_len |-> q.queue_len]
  BY DEF Queue
<1>2. Len(q.reqs) \in Nat \ {0} /\ Head(q.reqs) \in QItem
  BY <1>1, EmptySeq, HeadTailProperties
<1>3. Head(q.reqs) = q.reqs[1]
  BY <1>1
<1>4. ItemOK(q.reqs[1])
  BY <1>2 DEF QueueOK
<1>. QED
  BY <1>1, <1>2, <1>3, <1>4 DEF QueueOK, is_last_packet

LEMMA FcfsNextMore ==
  ASSUME NEW q \in Queue, QueueOK(q), q.reqs # << >>,
         ~is_last_packet(Head(q.reqs)),
         NEW rc \in Rc, rc.rtn = 0
  PROVE  /\ fcfs_next(q) \in Queue
         /\ QueueOK(fcfs_next(q))
         /\ Len(fcfs_next(q).reqs) = Len(q.reqs)
         /\ fcfs_next_rc(fcfs_next(q), rc) = q
<1> DEFINE h == q.reqs[1]
           g == [h EXCEPT !.rem = @ - PacketSize]
           t == [q.reqs EXCEPT ![1] = g]
<1>1. /\ q.reqs \in Seq(QItem) /\ q.queue_len \in Nat \ {0}
      /\ Len(q.reqs) = q.queue_len
      /\ h \in QItem /\ ItemOK(h) /\ ~is_last_packet(h)
      /\ q = [reqs |-> q.reqs, queue_len |-> q.queue_len]
  BY HeadFacts
<1>2. PacketSize \in Nat \ {0} /\ h.rem \in Nat /\ h.req \in Msgs /\ PacketSize < h.rem
      /\ Req[h.req].msg_size \in Nat /\ h = [req |-> h.req, rem |-> h.rem]
  BY <1>1, SchedAssumption, ReqFacts DEF QItem, is_last_packet
<1>3. g = [req |-> h.req, rem |-> h.rem - PacketSize] /\ g \in QItem
  BY <1>2 DEF QItem
<1>4. ItemOK(g)
  <2>1. (h.rem - PacketSize) % PacketSize = h.rem % PacketSize
    BY <1>2, RemainderMinus
  <2>. QED
    BY <2>1, <1>1, <1>2, <1>3 DEF ItemOK
<1>5. fcfs_next(q) = [reqs |-> t, queue_len |-> q.queue_len]
  BY <1>1, HeadFacts DEF fcfs_next
<1> HIDE DEF g
<1>6. /\ t \in Seq(QItem) /\ Len(t) = Len(q.reqs)
      /\ \A j \in 1 .. Len(q.reqs) : t[j] = IF j = 1 THEN g ELSE q.reqs[j]
  BY <1>1, <1>3, ExceptSeq
<1>7. fcfs_next(q) \in Queue
  BY <1>5, <1>6, <1>1 DEF Queue
<1>8. QueueOK(fcfs_next(q))
  BY <1>5, <1>6, <1>1, <1>4 DEF QueueOK
<1>9. fcfs_next_rc(fcfs_next(q), rc) = q
  <2>1. [t EXCEPT ![1] = h] = q.reqs
    BY <1>1, RestoreFirst
  <2>2. t[1] = g
    BY <1>6, <1>1
  <2>3. [t[1] EXCEPT !.rem = @ + PacketSize] = h
    BY <2>2, <1>3, <1>2
  <2>4. [t EXCEPT ![1].rem = @ + PacketSize] = [t EXCEPT ![1] = h]
    BY <2>3
  <2>5. fcfs_next_rc(fcfs_next(q), rc)
          = [reqs |-> [t EXCEPT ![1].rem = @ + PacketSize], queue_len |-> q.queue_len]
    BY <1>5 DEF fcfs_next_rc
  <2>. QED
    BY <2>1, <2>4, <2>5, <1>1
<1>. QED
  BY <1>5, <1>6, <1>7, <1>8, <1>9

LEMMA FcfsNextLast ==
  ASSUME NEW q \in Queue, QueueOK(q), q.reqs # << >>,
         is_last_packet(Head(q.reqs)),
         NEW rc \in Rc, rc.rtn = 1, rc.req = Head(q.reqs).req
  PROVE  /\ fcfs_next(q) \in Queue
         /\ QueueOK(fcfs_next(q))
         /\ fcfs_next_rc(fcfs_next(q), rc) = q
<1> DEFINE h == Head(q.reqs)
           t == Tail(q.reqs)
<1>1. /\ q.reqs \in Seq(QItem) /\ q.queue_len \in Nat \ {0}
      /\ Len(q.reqs) = q.queue_len
      /\ h \in QItem /\ ItemOK(h)
      /\ q = [reqs |-> q.reqs, queue_len |-> q.queue_len]
  BY HeadFacts
<1>2. /\ t \in Seq(QItem)
      /\ Len(t) = Len(q.reqs) - 1
      /\ \A i \in 1 .. Len(t) : t[i] = q.reqs[i + 1]
  BY <1>1, HeadTailProperties
<1>3. fcfs_next(q) = [reqs |-> t, queue_len |-> q.queue_len - 1]
  BY DEF fcfs_next
<1>4. fcfs_next(q) \in Queue
  BY <1>1, <1>2, <1>3 DEF Queue
<1>5. QueueOK(fcfs_next(q))
  BY <1>1, <1>2, <1>3 DEF QueueOK
<1>6. [req |-> rc.req, rem |-> LastRem(rc.req)] = h
  BY <1>1, LastRemIsRem DEF QItem
<1>7. <<h>> \o t = q.reqs
  BY <1>1, ConsHeadTail
<1>8. fcfs_next_rc(fcfs_next(q), rc) = [reqs |-> <<h>> \o t, queue_len |-> q.queue_len - 1 + 1]
  <2>1. \A p : fcfs_next_rc(p, rc)
                = [reqs      |-> <<[req |-> rc.req, rem |-> LastRem(rc.req)]>> \o p.reqs,
                   queue_len |-> p.queue_len + 1]
    BY DEF fcfs_next_rc
  <2>2. fcfs_next(q).reqs = t /\ fcfs_next(q).queue_len = q.queue_len - 1
    BY <1>3
  <2> HIDE DEF h, t
  <2>3. fcfs_next_rc(fcfs_next(q), rc)
          = [reqs |-> <<h>> \o fcfs_next(q).reqs, queue_len |-> fcfs_next(q).queue_len + 1]
    BY <2>1, <1>6
  <2>. QED
    BY <2>2, <2>3
<1>9. fcfs_next_rc(fcfs_next(q), rc) = q
  BY <1>8, <1>7, <1>1
<1>. QED
  BY <1>4, <1>5, <1>9

LEMMA WithReqs ==
  ASSUME NEW q, q = [reqs |-> q.reqs, queue_len |-> q.queue_len], NEW x
  PROVE  [q EXCEPT !.reqs = x] = [reqs |-> x, queue_len |-> q.queue_len]
  OBVIOUS

\* putting the last request in front undoes putting the first one last
LEMMA Rotate ==
  ASSUME NEW q \in Queue, QueueOK(q), q.reqs # << >>
  PROVE  /\ RotateBack(q) \in Queue
         /\ QueueOK(RotateBack(q))
         /\ RotateFront(RotateBack(q)) = q
<1> DEFINE h == Head(q.reqs)
           t == Tail(q.reqs)
           a == Append(t, h)
<1>1. /\ q.reqs \in Seq(QItem) /\ q.queue_len \in Nat \ {0}
      /\ Len(q.reqs) = q.queue_len
      /\ h \in QItem /\ ItemOK(h)
      /\ q = [reqs |-> q.reqs, queue_len |-> q.queue_len]
  BY HeadFacts
<1>2. /\ t \in Seq(QItem)
      /\ Len(t) = Len(q.reqs) - 1
      /\ \A i \in 1 .. Len(t) : t[i] = q.reqs[i + 1]
  BY <1>1, HeadTailProperties
<1>3. /\ a \in Seq(QItem)
      /\ Len(a) = Len(t) + 1
      /\ \A i \in 1 .. Len(t) : a[i] = t[i]
      /\ a[Len(t) + 1] = h
  BY <1>1, <1>2, AppendProperties
<1>4. AllButLast(a) = t /\ LastOf(a) = h
  BY <1>1, <1>2, PopBackAppend
<1>5. <<h>> \o t = q.reqs
  BY <1>1, ConsHeadTail
<1>6. RotateBack(q) = [reqs |-> a, queue_len |-> q.queue_len]
  <2>1. RotateBack(q) = [q EXCEPT !.reqs = a]
    BY DEF RotateBack
  <2> HIDE DEF a
  <2>. QED
    BY <2>1, <1>1, WithReqs
<1> HIDE DEF a, t, h
<1>7. RotateBack(q) \in Queue
  BY <1>1, <1>3, <1>6 DEF Queue
<1>8. QueueOK(RotateBack(q))
  <2>1. ASSUME NEW i \in 1 .. Len(a) PROVE ItemOK(a[i])
    <3>1. CASE i = Len(t) + 1
      BY <3>1, <1>1, <1>3
    <3>2. CASE i \in 1 .. Len(t)
      <4>1. a[i] = q.reqs[i + 1] /\ i + 1 \in 1 .. Len(q.reqs)
        BY <3>2, <1>1, <1>2, <1>3
      <4>. QED
        BY <4>1 DEF QueueOK
    <3>. QED
      BY <3>1, <3>2, <1>1, <1>2, <1>3
  <2>. QED
    BY <2>1, <1>1, <1>2, <1>3, <1>6 DEF QueueOK
<1>9. RotateFront(RotateBack(q)) = q
  <2>1. RotateFront(RotateBack(q)) = [reqs |-> <<LastOf(a)>> \o AllButLast(a),
                                      queue_len |-> q.queue_len]
    <3>1. RotateBack(q).reqs = a /\ RotateBack(q).queue_len = q.queue_len
      BY <1>6
    <3>2. RotateFront(RotateBack(q))
            = [RotateBack(q) EXCEPT !.reqs = <<LastOf(a)>> \o AllButLast(a)]
      BY <3>1 DEF RotateFront
    <3>. QED
      BY <3>1, <3>2, <1>6, WithReqs
  <2>. QED
    BY <2>1, <1>1, <1>4, <1>5
<1>. QED
  BY <1>7, <1>8, <1>9

Packet == [req: Msgs, offset: Nat, size: Nat, last: BOOLEAN, another: BOOLEAN]

LEMMA NextPacketType ==
  ASSUME NEW q \in Queue, QueueOK(q), q.reqs # << >>
  PROVE  NextPacket(q) \in Packet
<1> DEFINE h == Head(q.reqs)
<1>1. q.queue_len \in Nat /\ h \in QItem /\ ItemOK(h)
  BY HeadFacts
<1> HIDE DEF h
<1>2. h.req \in Msgs /\ h.rem \in Nat /\ h.rem <= Req[h.req].msg_size
      /\ Req[h.req].msg_size \in Nat /\ PacketSize \in Nat
  BY <1>1, ReqFacts, SchedAssumption DEF ItemOK, QItem
<1>3. NextPacket(q) = [req |-> h.req, offset |-> Req[h.req].msg_size - h.rem,
                       size |-> IF is_last_packet(h) THEN h.rem ELSE PacketSize,
                       last |-> is_last_packet(h),
                       another |-> ~is_last_packet(h) \/ q.queue_len > 1]
  BY DEF NextPacket, h
<1>4. Req[h.req].msg_size - h.rem \in Nat
  BY <1>2
<1>5. is_last_packet(h) \in BOOLEAN /\ (~is_last_packet(h) \/ q.queue_len > 1) \in BOOLEAN
  BY DEF is_last_packet
<1>6. (IF is_last_packet(h) THEN h.rem ELSE PacketSize) \in Nat
  BY <1>2
<1>. QED
  BY <1>2, <1>3, <1>4, <1>5, <1>6 DEF Packet

\* what fcfs_next leaves in the rc record, and what the reversal needs of it
LEMMA NextRtnFacts ==
  ASSUME NEW q \in Queue, QueueOK(q), q.reqs # << >>, NEW rc \in Rc
  PROVE  /\ NextRtn(q, rc) \in Rc
         /\ NextRtn(q, rc).prio = rc.prio
         /\ IF is_last_packet(Head(q.reqs))
            THEN NextRtn(q, rc).rtn = 1 /\ NextRtn(q, rc).req = Head(q.reqs).req
            ELSE NextRtn(q, rc).rtn = 0
<1>1. Head(q.reqs).req \in Msgs
  BY HeadFacts DEF QItem
<1>. QED
  BY <1>1 DEF NextRtn, Rc

\* one level, either discipline: next_rc undoes next, whatever the event that
\* carries the rc record wrote into its prio
LEMMA QueueNextInverse ==
  ASSUME NEW q \in Queue, QueueOK(q), q.reqs # << >>, NEW rc \in Rc,
         NEW r \in Rc, r.rtn = NextRtn(q, rc).rtn, r.req = NextRtn(q, rc).req
  PROVE  /\ QueueNext(q) \in Queue
         /\ QueueOK(QueueNext(q))
         /\ QueueNextRc(QueueNext(q), r) = q
<1>1. CASE is_last_packet(Head(q.reqs))
  <2>1. r.rtn = 1 /\ r.req = Head(q.reqs).req
    BY <1>1, NextRtnFacts
  <2>2. /\ fcfs_next(q) \in Queue
        /\ QueueOK(fcfs_next(q))
        /\ fcfs_next_rc(fcfs_next(q), r) = q
    BY <1>1, <2>1, FcfsNextLast
  <2>3. rr_next(q) = fcfs_next(q)
    BY <1>1 DEF rr_next
  <2>4. \A p : rr_next_rc(p, r) = fcfs_next_rc(p, r)
    BY <2>1 DEF rr_next_rc
  <2>. QED
    BY <2>2, <2>3, <2>4 DEF QueueNext, QueueNextRc
<1>2. CASE ~is_last_packet(Head(q.reqs))
  <2>1. r.rtn = 0
    BY <1>2, NextRtnFacts
  <2> DEFINE p == fcfs_next(q)
  <2>2. /\ p \in Queue
        /\ QueueOK(p)
        /\ Len(p.reqs) = Len(q.reqs)
        /\ fcfs_next_rc(p, r) = q
    BY <1>2, <2>1, FcfsNextMore
  <2>3. p.reqs # << >>
    BY <2>2, HeadFacts
  <2>4. rr_next(q) = RotateBack(p)
    BY <1>2 DEF rr_next
  <2>5. \A z : rr_next_rc(z, r) = fcfs_next_rc(RotateFront(z), r)
    BY <2>1 DEF rr_next_rc
  <2> HIDE DEF p
  <2>6. /\ RotateBack(p) \in Queue
        /\ QueueOK(RotateBack(p))
        /\ RotateFront(RotateBack(p)) = p
    BY <2>2, <2>3, Rotate
  <2>7. CASE Discipline = "rr"
    BY <2>7, <2>2, <2>4, <2>5, <2>6 DEF QueueNext, QueueNextRc
  <2>8. CASE Discipline # "rr"
    BY <2>8, <2>2 DEF QueueNext, QueueNextRc, p
  <2>. QED
    BY <2>7, <2>8
<1>. QED
  BY <1>1, <1>2

-----------------------------------------------------------------------------
(* Whole schedulers.                                                       *)

LEMMA LevelFacts ==
  /\ Levels \subseteq Nat
  /\ \A rc \in Rc : SchedType # "prio" => RcLevel(rc) = 0
  /\ \A rc \in Rc : SchedType = "prio" => RcLevel(rc) = rc.prio
  /\ -1 \notin Levels
  BY SchedAssumption DEF Levels, RcLevel

LEMMA PrioLevel ==
  ASSUME NEW m \in Msgs
  PROVE  prio_of(m) \in Levels
<1>1. Req[m].prio \in -1 .. (NumPrios - 1) /\ NumPrios \in Nat \ {0}
  BY ReqFacts, SchedAssumption
<1>2. CASE SchedType # "prio"
  BY <1>2 DEF prio_of, Levels
<1>3. CASE SchedType = "prio" /\ Req[m].prio = -1
  <2>1. prio_of(m) = NumPrios - 1
    BY <1>3 DEF prio_of
  <2>. QED
    BY <2>1, <1>1, <1>3 DEF Levels
<1>4. CASE SchedType = "prio" /\ Req[m].prio # -1
  <2>1. prio_of(m) = Req[m].prio
    BY <1>4 DEF prio_of
  <2>. QED
    BY <2>1, <1>1, <1>4 DEF Levels
<1>. QED
  BY <1>2, <1>3, <1>4

LEMMA Smallest ==
  ASSUME NEW T \in SUBSET Nat, T # {}
  PROVE  \E x \in T : \A y \in T : x <= y
<1> DEFINE R == OpToRel(<, Nat)
<1>1. IsWellFoundedOn(R, Nat)
  BY NatLessThanWellFounded
<1>2. \A x, y \in Nat : <<y, x>> \in R <=> y < x
  BY DEF OpToRel
<1> HIDE DEF R
<1>3. PICK x \in T : \A y \in T : ~ (<<y, x>> \in R)
  BY <1>1, WFMin
<1>4. ASSUME NEW y \in T PROVE x <= y
  <2>1. x \in Nat /\ y \in Nat
    OBVIOUS
  <2>2. ~(y < x)
    BY <2>1, <1>2, <1>3
  <2>. QED
    BY <2>1, <2>2
<1>. QED
  BY <1>4

\* prio_next serves the first level that holds a request
LEMMA NextLevelFacts ==
  ASSUME NEW s, ~sched_empty(s)
  PROVE  /\ NextLevel(s) \in Levels
         /\ s[NextLevel(s)].reqs # << >>
         /\ \A k \in Levels : k < NextLevel(s) => s[k].reqs = << >>
<1>1. Busy(s) \in SUBSET Nat /\ Busy(s) # {}
  BY LevelFacts DEF Busy, sched_empty
<1>2. \E l \in Busy(s) : \A k \in Busy(s) : l <= k
  BY <1>1, Smallest
<1>3. NextLevel(s) \in Busy(s) /\ \A k \in Busy(s) : NextLevel(s) <= k
  BY <1>2 DEF NextLevel
<1>. QED
  BY <1>1, <1>3, LevelFacts DEF Busy

\* model_net_sched_add: the message is queued, and add_rc undoes it, as long as
\* the rc record still points at the level of the message
LEMMA SchedAdd ==
  ASSUME NEW s \in SchedState, SchedOK(s), NEW m \in Msgs
  PROVE  /\ sched_add(m, s) \in SchedState
         /\ SchedOK(sched_add(m, s))
         /\ ~sched_empty(sched_add(m, s))
         /\ \A rc : RcLevel(rc) = prio_of(m) => sched_add_rc(sched_add(m, s), rc) = s
<1> DEFINE l == prio_of(m)
           a == fcfs_add(m, s[l])
<1>1. l \in Levels
  BY PrioLevel
<1>2. s[l] \in Queue /\ QueueOK(s[l]) /\ s = [k \in Levels |-> s[k]]
  BY <1>1 DEF SchedState, SchedOK
<1>3. a \in Queue /\ QueueOK(a) /\ a.reqs # << >> /\ fcfs_add_rc(a) = s[l]
  BY <1>2, FcfsAdd
<1>4. sched_add(m, s) = [s EXCEPT ![l] = a]
  BY DEF sched_add
<1> HIDE DEF l, a
<1>5. sched_add(m, s) \in SchedState
  BY <1>3, <1>4 DEF SchedState
<1>6. SchedOK(sched_add(m, s))
  BY <1>3, <1>4 DEF SchedState, SchedOK
<1>7. ~sched_empty(sched_add(m, s))
  BY <1>1, <1>3, <1>4 DEF SchedState, sched_empty, Busy
<1>8. ASSUME NEW rc, RcLevel(rc) = l
      PROVE  sched_add_rc(sched_add(m, s), rc) = s
  <2>1. sched_add_rc(sched_add(m, s), rc) = [[s EXCEPT ![l] = a] EXCEPT ![l] = fcfs_add_rc(a)]
    BY <1>1, <1>4, <1>8 DEF sched_add_rc, SchedState
  <2>. QED
    BY <2>1, <1>1, <1>3, <1>2
<1>. QED
  BY <1>5, <1>6, <1>7, <1>8 DEF l

LEMMA AddRcRecord ==
  ASSUME NEW m \in Msgs, NEW rc \in Rc
  PROVE  /\ sched_add_rcrec(m, rc) \in Rc
         /\ RcLevel(sched_add_rcrec(m, rc)) = prio_of(m)
<1>1. prio_of(m) \in Int
  <2>1. prio_of(m) \in Nat
    BY PrioLevel, LevelFacts, Zenon
  <2>. QED
    BY <2>1
<1>2. CASE SchedType = "prio"
  <2>1. sched_add_rcrec(m, rc) = [rc EXCEPT !.prio = prio_of(m)]
    BY <1>2 DEF sched_add_rcrec
  <2>. QED
    BY <2>1, <1>1, <1>2 DEF RcLevel, Rc
<1>3. CASE SchedType # "prio"
  BY <1>3 DEF sched_add_rcrec, RcLevel, prio_of
<1>. QED
  BY <1>2, <1>3

\* model_net_sched_next on a scheduler that holds a request: a packet comes out,
\* and next_rc undoes it with what next wrote into the rc record
LEMMA SchedNextBusy ==
  ASSUME NEW s \in SchedState, SchedOK(s), ~sched_empty(s), NEW rc \in Rc
  PROVE  /\ sched_next(s) \in SchedState
         /\ SchedOK(sched_next(s))
         /\ sched_next_pkt(s) \in Packet
         /\ sched_next_rcrec(s, rc) \in Rc
         /\ RcLevel(sched_next_rcrec(s, rc)) = NextLevel(s)
         /\ SchedType = "prio" => sched_next_rcrec(s, rc).prio # -1
         /\ SchedType # "prio" => sched_next_rcrec(s, rc).rtn # -1
         /\ sched_next_rc(sched_next(s), sched_next_rcrec(s, rc)) = s
<1> DEFINE l == NextLevel(s)
           q == s[l]
           r == sched_next_rcrec(s, rc)
<1>1. l \in Levels /\ q.reqs # << >>
  BY NextLevelFacts
<1>2. q \in Queue /\ QueueOK(q) /\ s = [k \in Levels |-> s[k]]
  BY <1>1 DEF SchedState, SchedOK
<1>3. l \in Nat /\ l # -1
  BY <1>1, LevelFacts
<1>4. r = IF SchedType = "prio" THEN [NextRtn(q, rc) EXCEPT !.prio = l]
          ELSE [NextRtn(q, rc) EXCEPT !.rtn = NextRtn(q, rc).rtn]
  BY DEF sched_next_rcrec
<1>5. NextRtn(q, rc) \in Rc /\ NextRtn(q, rc).rtn # -1
  BY <1>1, <1>2, NextRtnFacts
<1>6. sched_next(s) = [s EXCEPT ![l] = QueueNext(q)]
  BY DEF sched_next
<1>7. sched_next_pkt(s) \in Packet
  BY <1>1, <1>2, NextPacketType DEF sched_next_pkt
<1> HIDE DEF l, r
<1>8. /\ r \in Rc /\ r.rtn = NextRtn(q, rc).rtn /\ r.req = NextRtn(q, rc).req
      /\ r.rtn # -1
      /\ SchedType = "prio" => r.prio = l
  BY <1>3, <1>4, <1>5 DEF Rc
<1>9. RcLevel(r) = l
  BY <1>8, <1>1 DEF RcLevel, Levels
<1>10. /\ QueueNext(q) \in Queue
       /\ QueueOK(QueueNext(q))
       /\ QueueNextRc(QueueNext(q), r) = q
  BY <1>1, <1>2, <1>8, QueueNextInverse
<1> DEFINE p == QueueNext(q)
<1> HIDE DEF p
<1>11. sched_next(s) \in SchedState
  BY <1>6, <1>10 DEF SchedState, p
<1>12. SchedOK(sched_next(s))
  BY <1>6, <1>10 DEF SchedState, SchedOK, p
<1>13. sched_next_rc(sched_next(s), r) = s
  <2>1. sched_next(s) = [s EXCEPT ![l] = p] /\ sched_next(s)[l] = p
    BY <1>6, <1>1 DEF SchedState, p
  <2>2. sched_next_rc(sched_next(s), r)
          = [sched_next(s) EXCEPT ![l] = QueueNextRc(sched_next(s)[l], r)]
    BY <1>3, <1>9 DEF sched_next_rc
  <2>3. sched_next_rc(sched_next(s), r) = [[s EXCEPT ![l] = p] EXCEPT ![l] = s[l]]
    BY <2>1, <2>2, <1>10 DEF p
  <2>. QED
    BY <2>3, <1>1, <1>2
<1>. QED
  BY <1>3, <1>7, <1>8, <1>9, <1>11, <1>12, <1>13 DEF r, l

\* on an empty scheduler nothing comes out, and next_rc leaves it alone
LEMMA SchedNextEmpty ==
  ASSUME NEW s \in SchedState, sched_empty(s), NEW rc \in Rc
  PROVE  /\ sched_next_rcrec(s, rc) \in Rc
         /\ SchedType = "prio" => sched_next_rcrec(s, rc).prio = -1
         /\ SchedType # "prio" => sched_next_rcrec(s, rc).rtn = -1
         /\ sched_next_rc(s, sched_next_rcrec(s, rc)) = s
<1> DEFINE r == sched_next_rcrec(s, rc)
<1>1. r = IF SchedType = "prio" THEN [rc EXCEPT !.prio = -1] ELSE [rc EXCEPT !.rtn = -1]
  BY DEF sched_next_rcrec
<1> HIDE DEF r
<1>2. /\ r \in Rc
      /\ SchedType = "prio" => r.prio = -1
      /\ SchedType # "prio" => r.rtn = -1
  BY <1>1 DEF Rc
<1>3. CASE SchedType = "prio"
  BY <1>2, <1>3 DEF sched_next_rc, RcLevel, r
<1>4. CASE SchedType # "prio"
  <2>1. QueueNextRc(s[0], r) = s[0]
    BY <1>2, <1>4 DEF QueueNextRc, rr_next_rc, fcfs_next_rc
  <2>2. sched_next_rc(s, r) = [s EXCEPT ![0] = s[0]]
    <3>1. RcLevel(r) = 0
      BY <1>4 DEF RcLevel
    <3>. QED
      BY <3>1, <2>1 DEF sched_next_rc
  <2>3. s = [k \in Levels |-> s[k]]
    BY DEF SchedState
  <2>. QED
    BY <2>2, <2>3, <1>2 DEF r
<1>. QED
  BY <1>2, <1>3, <1>4 DEF r

\* a message that is added to an empty scheduler is the next to be served
LEMMA AddToEmpty ==
  ASSUME NEW s \in SchedState, SchedOK(s), sched_empty(s), NEW m \in Msgs
  PROVE  NextLevel(sched_add(m, s)) = prio_of(m)
<1> DEFINE l == prio_of(m)
           a == fcfs_add(m, s[l])
           t == sched_add(m, s)
<1>1. l \in Levels
  BY PrioLevel
<1>2. t = [s EXCEPT ![l] = a]
  BY DEF sched_add
<1>3. ~sched_empty(t)
  BY SchedAdd
<1> HIDE DEF l, a, t
<1>4. \A k \in Levels \ {l} : t[k].reqs = << >>
  <2>1. \A k \in Levels : s[k].reqs = << >>
    BY DEF sched_empty, Busy
  <2>2. \A k \in Levels \ {l} : t[k] = s[k]
    BY <1>2 DEF SchedState
  <2>. QED
    BY <2>1, <2>2
<1>5. NextLevel(t) \in Levels /\ t[NextLevel(t)].reqs # << >>
  BY <1>3, NextLevelFacts
<1>. QED
  BY <1>4, <1>5 DEF l, t
=============================================================================
