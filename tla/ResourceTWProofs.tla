--------------------------- MODULE ResourceTWProofs ---------------------------
(***************************************************************************)
(* Proofs about ResourceTW, for every script of requests, capacity and     *)
(* latency, in a build that keeps assertions.                              *)
(*                                                                         *)
(* Rolling back restores a state of the past, so no property of the state  *)
(* alone is inductive: the invariant says of every position of the list of *)
(* processed events what it says of the present.  Good describes one such  *)
(* position: the LP's state, the events that were still to come there, and *)
(* the timeline up to it.  It is proved once for every handler, and once   *)
(* for a request that arrives or is withdrawn, which changes all positions *)
(* at a time.                                                              *)
(***************************************************************************)
EXTENDS ResourceTW, FiniteSetTheorems, SequenceTheorems, TLAPS

\* The script makes no more reservations than there are tokens.  The comparison
\* of resource_reserve would let one more through.
ReservesFit == Cardinality({k \in Reqs : Script[k].op = "reserve"}) <= MAX_RESERVE

-----------------------------------------------------------------------------
(* One position of the timeline: the state s of the LP, the events E still *)
(* to come, the timeline tr so far, the time now of its last event, and    *)
(* the requests A sent from elsewhere.                                     *)

Entry == [kind: {"granted", "queued", "refused", "freed", "reserved"}, k: Reqs, tok: Toks]

\* request k has an event on its way
Coming(E, k) == \E e \in E : e.type # "DEQ" /\ e.k = k

\* request k was seen by the LP
Seen(tr, k) == \E p \in 1 .. Len(tr) : tr[p].k = k

Happened(tr, kind, k, t) == \E p \in 1 .. Len(tr) : tr[p] = Did(kind, k, t)

Reserved(tr) == {k \in Reqs : \E p \in 1 .. Len(tr) : tr[p].kind = "reserved" /\ tr[p].k = k}

Waits(pending, k, t) == \E q \in 1 .. Len(pending[t]) : pending[t][q] = k

WaitsNowhere(pending, k) == \A t \in Toks : ~Waits(pending, k, t)

\* the units of a pool are available or held; min_avail records the peak; the
\* token of a reservation is its number
PoolsHold(r, tr) ==
  /\ \A t \in DOMAIN r : r[t].avail + Held(tr, Len(tr), t) = r[t].max
  /\ IsFiniteSet(UnitsIn(r)) /\ Cardinality(UnitsIn(r)) = Capacity
  /\ Cardinality(Reserved(tr)) = num_tokens(r)
  /\ \A k \in Reserved(tr) : Script[k].op = "reserve"
  /\ \A p \in 1 .. Len(tr) : tr[p].tok \in DOMAIN r

PeaksHold(r, tr) ==
  /\ \A t \in DOMAIN r \ {0} :
       /\ r[t].min_avail <= r[t].max
       /\ \A i \in 0 .. Len(tr) : Held(tr, i, t) <= r[t].max - r[t].min_avail
       /\ \E i \in 0 .. Len(tr) : Held(tr, i, t) = r[t].max - r[t].min_avail
  /\ (\E p \in 1 .. Len(tr) : tr[p].kind = "granted" /\ tr[p].tok = 0)
       => r[0].min_avail <= r[0].avail

\* the events that may be on their way
EventsFit(r, E) ==
  \A e \in E :
    /\ e.tok \in DOMAIN r
    /\ e.type # "DEQ" => e.k \in Reqs
    /\ e.type \in {"GET", "FREE"} => Script[e.k].op = "get"
    /\ e.type = "RESERVE" => Script[e.k].op = "reserve"
    /\ e.src = 0 => e.type \in {"GET", "RESERVE"} /\ Script[e.k].of = NoReq

\* the life of a request: sent, seen and queued or answered, released
LifeOfEvents(E, tr) ==
  /\ \A e, f \in E : e.type # "DEQ" /\ f.type # "DEQ" /\ e.k = f.k => e = f
  /\ \A e \in E : e.type \in {"GET", "RESERVE"} => ~Seen(tr, e.k)
  /\ \A e \in E :
       e.type = "FREE" \/ (e.type = "ACK" /\ Script[e.k].op = "get" /\ e.ret = 0) =>
         /\ Happened(tr, "granted", e.k, e.tok)
         /\ ~Happened(tr, "freed", e.k, e.tok)

MayWait(E, tr, k, t) ==
  /\ Script[k].op = "get"
  /\ ~Coming(E, k)
  /\ \A u \in Toks : ~Happened(tr, "granted", k, u) /\ ~Happened(tr, "freed", k, u)
  /\ Happened(tr, "queued", k, t)

LifeOfWaiting(pending, E, tr) ==
  \A t \in Toks, k \in Reqs : Waits(pending, k, t) => MayWait(E, tr, k, t)

LifeOfScript(E, tr, A) ==
  \A k \in Reqs :
    Coming(E, k) \/ Seen(tr, k) =>
      IF Script[k].of = NoReq THEN k \in A
      ELSE Script[k].of \in A /\ ~Coming(E, Script[k].of)

WakeupComing(r, pending, E) ==
  \A t \in DOMAIN r :
    pending[t] # << >> /\ Script[Head(pending[t])].req <= r[t].avail =>
      \E e \in E : e.type = "DEQ" /\ e.tok = t

\* GrantsInOrder, of the timeline tr
InOrder(tr) ==
  \A i, j \in DOMAIN tr :
    /\ i < j
    /\ tr[i].kind = "queued"
    /\ tr[j].kind \in {"queued", "granted"}
    /\ tr[i].tok = tr[j].tok
    /\ ~\E p \in 1 .. j - 1 : tr[p].k = tr[j].k
    => \A g \in DOMAIN tr :
         tr[g] = Did("granted", tr[j].k, tr[j].tok) =>
           \E f \in 1 .. g - 1 : tr[f] = Did("granted", tr[i].k, tr[i].tok)

\* a queue holds the requests that were queued and not yet granted, each once, in
\* the order of the timeline
QueueHolds(pending, tr) ==
  \A t \in Toks, k \in Reqs :
    Happened(tr, "queued", k, t) => Waits(pending, k, t) \/ Happened(tr, "granted", k, t)

QueueOnce(pending) ==
  \A t, u \in Toks : \A q \in 1 .. Len(pending[t]), w \in 1 .. Len(pending[u]) :
    pending[t][q] = pending[u][w] => t = u /\ q = w

QueueOrder(pending, tr) ==
  \A t \in Toks : \A q, w \in 1 .. Len(pending[t]) : \A p, o \in 1 .. Len(tr) :
    /\ q < w
    /\ tr[p] = Did("queued", pending[t][q], t)
    /\ tr[o] = Did("queued", pending[t][w], t)
    => p < o

\* reservations come first
ReservesFirst(E, tr, now) ==
  /\ \A e \in E : IF e.type = "RESERVE" THEN e.ts = 1 ELSE e.ts >= 2
  /\ now < 2 => \A p \in 1 .. Len(tr) : tr[p].kind = "reserved"

Good(s, E, tr, A, now) ==
  /\ s \in State /\ E \subseteq Event /\ tr \in Seq(Entry) /\ now \in Nat
  /\ PoolsHold(s.r, tr)
  /\ PeaksHold(s.r, tr)
  /\ EventsFit(s.r, E)
  /\ LifeOfEvents(E, tr)
  /\ LifeOfWaiting(s.pending, E, tr)
  /\ LifeOfScript(E, tr, A)
  /\ WakeupComing(s.r, s.pending, E)
  /\ InOrder(tr)
  /\ QueueHolds(s.pending, tr)
  /\ QueueOnce(s.pending)
  /\ QueueOrder(s.pending, tr)
  /\ ReservesFirst(E, tr, now)

-----------------------------------------------------------------------------
(* The list of processed events, and the positions it stands for: position *)
(* i comes after its first i events.                                       *)

Rc == [c0: BOOLEAN, c1: BOOLEAN, c2: BOOLEAN, i_rc: Reqs \cup {NoReq}, min_avail_rc: Nat]
LogEntry == [ev: Event, rc: Rc, sent: SUBSET Event, before: State, mark: Nat]

StateAt(i) == IF i = Len(log) THEN ns ELSE log[i + 1].before
MarkAt(i) == IF i = Len(log) THEN Len(trace) ELSE log[i + 1].mark
TraceAt(i) == SubSeq(trace, 1, MarkAt(i))
TimeAt(i) == IF i = 0 THEN gvt ELSE log[i].ev.ts

\* the events that were still to come, those that were since cancelled excepted
Undone(i) == {log[j].ev : j \in i + 1 .. Len(log)}
LiveAt(i) == {e \in events \cup Undone(i) : e.src <= committed + i}

TypeInv ==
  /\ log \in Seq(LogEntry)
  /\ events \subseteq Event
  /\ trace \in Seq(Entry)
  /\ arrived \subseteq Reqs
  /\ gvt \in Nat /\ committed \in Nat
  /\ rollbacks \in 0 .. MaxRollbacks

\* who sent what: the number of the sender tells the events that an undo takes
\* back from the others
SourcesInv ==
  /\ \A e \in events : e.src <= committed + Len(log)
  /\ \A j \in 1 .. Len(log) :
       /\ \A e \in log[j].sent : e.src = committed + j
       /\ log[j].ev.src < committed + j
       /\ \A e \in events \cup Undone(j) : e.src = committed + j => e \in log[j].sent
       /\ log[j].ev \notin events \cup Undone(j)

MarksInv ==
  /\ \A i \in 0 .. Len(log) : MarkAt(i) \in 0 .. Len(trace)
  /\ \A i, j \in 0 .. Len(log) : i <= j => MarkAt(i) <= MarkAt(j)

GoodInv == \A i \in 0 .. Len(log) : Good(StateAt(i), LiveAt(i), TraceAt(i), arrived, TimeAt(i))

ReverseInv ==
  \A i \in 1 .. Len(log) : resource_rev_handler(StateAt(i), log[i]) = log[i].before

IndInv == TypeInv /\ SourcesInv /\ MarksInv /\ GoodInv /\ ReverseInv

-----------------------------------------------------------------------------
(* Counting units.                                                         *)

\* What the script says of a request.
LEMMA ScriptFacts ==
  ASSUME NEW k \in Reqs
  PROVE  /\ Script[k].op \in {"get", "reserve"}
         /\ Script[k].req \in Nat
         /\ Script[k].block \in BOOLEAN
         /\ Script[k].of \in Reqs \cup {NoReq}
         /\ Script[k].of # NoReq => Script[k].of \in Reqs /\ Script[Script[k].of].op = "reserve"
         /\ Script[k].op = "reserve" => Script[k].of = NoReq
         /\ k # NoReq
<1>1. Script[k] \in ReqType
  BY ResourceAssumption
<1> QED
  BY <1>1, ResourceAssumption, ScriptAssumption DEF ReqType

\* A column of m units has m units.
LEMMA Column ==
  ASSUME NEW x, NEW m \in Nat
  PROVE  /\ IsFiniteSet({x} \X (1 .. m))
         /\ Cardinality({x} \X (1 .. m)) = m
<1>1. IsFiniteSet({x}) /\ Cardinality({x}) = 1
  BY FS_Singleton
<1>2. IsFiniteSet(1 .. m) /\ Cardinality(1 .. m) = m
  BY FS_Interval
<1>3. /\ IsFiniteSet({x} \X (1 .. m))
      /\ Cardinality({x} \X (1 .. m)) = Cardinality({x}) * Cardinality(1 .. m)
  BY <1>1, <1>2, FS_Product
<1> QED
  BY <1>1, <1>2, <1>3

LEMMA UnitsOfFinite ==
  ASSUME NEW ks \in SUBSET Reqs
  PROVE  IsFiniteSet(UnitsOf(ks)) /\ Cardinality(UnitsOf(ks)) \in Nat
<1> DEFINE C == {{k} \X (1 .. Script[k].req) : k \in ks}
           f == [k \in ks |-> {k} \X (1 .. Script[k].req)]
<1>1. IsFiniteSet(ks)
  BY FS_Subset, ResourceAssumption
<1>2. f \in Surjection(ks, C)
  BY DEF Surjection
<1>3. IsFiniteSet(C)
  <2> HIDE DEF C, f
  <2> QED
    BY <1>1, <1>2, FS_Surjection
<1>4. \A c \in C : IsFiniteSet(c)
  <2> SUFFICES ASSUME NEW k \in ks
               PROVE  IsFiniteSet({k} \X (1 .. Script[k].req))
    OBVIOUS
  <2> QED
    BY ScriptFacts, Column
<1>5. IsFiniteSet(UNION C)
  <2> HIDE DEF C
  <2> QED
    BY <1>3, <1>4, FS_UNION
<1> QED
  BY <1>5, FS_CardinalityType DEF UnitsOf

\* One client more holds its units more.
LEMMA UnitsOfAdd ==
  ASSUME NEW ks \in SUBSET Reqs, NEW k \in Reqs, k \notin ks
  PROVE  Cardinality(UnitsOf(ks \cup {k})) = Cardinality(UnitsOf(ks)) + Script[k].req
<1> DEFINE K == {k} \X (1 .. Script[k].req)
<1>1. UnitsOf(ks \cup {k}) = UnitsOf(ks) \cup K
  BY DEF UnitsOf
<1>2. UnitsOf(ks) \cap K = {}
  BY DEF UnitsOf
<1>3. IsFiniteSet(K) /\ Cardinality(K) = Script[k].req
  <2>1. Script[k].req \in Nat
    BY ScriptFacts
  <2> QED
    BY <2>1, Column
<1>4. IsFiniteSet(UnitsOf(ks)) /\ Cardinality(UnitsOf(ks)) \in Nat
  BY UnitsOfFinite
<1>5. Cardinality(UnitsOf(ks) \cap K) = 0
  BY <1>2, FS_EmptySet
<1> HIDE DEF K
<1>6. Cardinality(UnitsOf(ks) \cup K)
        = Cardinality(UnitsOf(ks)) + Cardinality(K) - Cardinality(UnitsOf(ks) \cap K)
  BY <1>3, <1>4, FS_Union
<1>7. Script[k].req \in Nat
  BY ScriptFacts
<1>8. Cardinality(UnitsOf(ks) \cup K) = Cardinality(UnitsOf(ks)) + Script[k].req
  BY <1>3, <1>4, <1>5, <1>6, <1>7
<1> QED
  BY <1>1, <1>8

\* ... and one client less its units less.
LEMMA UnitsOfRemove ==
  ASSUME NEW ks \in SUBSET Reqs, NEW k \in ks
  PROVE  Cardinality(UnitsOf(ks \ {k})) + Script[k].req = Cardinality(UnitsOf(ks))
<1>1. (ks \ {k}) \cup {k} = ks
  OBVIOUS
<1>2. Cardinality(UnitsOf((ks \ {k}) \cup {k})) = Cardinality(UnitsOf(ks \ {k})) + Script[k].req
  BY UnitsOfAdd
<1> QED
  BY <1>1, <1>2

LEMMA HeldType ==
  ASSUME NEW tr, NEW i, NEW t
  PROVE  Held(tr, i, t) \in Nat
<1>1. Holders(tr, i, t) \in SUBSET Reqs
  BY DEF Holders
<1> QED
  BY <1>1, UnitsOfFinite DEF Held

-----------------------------------------------------------------------------
(* One more step of the timeline.                                          *)

LEMMA DidEqual ==
  \A a1, b1, c1, a2, b2, c2 :
    Did(a1, b1, c1) = Did(a2, b2, c2) <=> a1 = a2 /\ b1 = b2 /\ c1 = c2
BY DEF Did

LEMMA Extended ==
  ASSUME NEW tr \in Seq(Entry), NEW d \in Entry
  PROVE  /\ tr \o <<d>> \in Seq(Entry)
         /\ Len(tr) \in Nat
         /\ Len(tr \o <<d>>) = Len(tr) + 1
         /\ \A p \in 1 .. Len(tr) : (tr \o <<d>>)[p] = tr[p] /\ tr[p] \in Entry
         /\ (tr \o <<d>>)[Len(tr) + 1] = d
<1>1. <<d>> \in Seq(Entry) /\ Len(<<d>>) = 1 /\ <<d>>[1] = d
  OBVIOUS
<1>2. Len(tr) \in Nat /\ \A p \in 1 .. Len(tr) : tr[p] \in Entry
  BY LenProperties, ElementOfSeq
<1> HIDE DEF Entry
<1> QED
  BY <1>1, <1>2, ConcatProperties

LEMMA ExtendedSeen ==
  ASSUME NEW tr \in Seq(Entry), NEW d \in Entry
  PROVE  /\ \A k : Seen(tr \o <<d>>, k) <=> Seen(tr, k) \/ k = d.k
         /\ \A kind, k, t : Happened(tr \o <<d>>, kind, k, t) <=>
                              Happened(tr, kind, k, t) \/ d = Did(kind, k, t)
<1> DEFINE tr2 == tr \o <<d>>
<1>1. /\ Len(tr) \in Nat
      /\ Len(tr2) = Len(tr) + 1
      /\ \A p \in 1 .. Len(tr) : tr2[p] = tr[p]
      /\ tr2[Len(tr) + 1] = d
  BY Extended
<1>2. 1 .. Len(tr2) = (1 .. Len(tr)) \cup {Len(tr) + 1}
  BY <1>1
<1> HIDE DEF tr2
<1>3. \A k : Seen(tr2, k) <=> Seen(tr, k) \/ k = d.k
  BY <1>1, <1>2 DEF Seen
<1>4. \A kind, k, t : Happened(tr2, kind, k, t) <=> Happened(tr, kind, k, t) \/ d = Did(kind, k, t)
  BY <1>1, <1>2 DEF Happened
<1> QED
  BY <1>3, <1>4 DEF tr2

\* what was held earlier stays what it was
LEMMA HeldEarlier ==
  ASSUME NEW tr \in Seq(Entry), NEW d \in Entry, NEW i \in 0 .. Len(tr), NEW t
  PROVE  Held(tr \o <<d>>, i, t) = Held(tr, i, t)
<1> DEFINE tr2 == tr \o <<d>>
<1>1. Len(tr) \in Nat /\ \A p \in 1 .. Len(tr) : tr2[p] = tr[p]
  BY Extended
<1>2. \A p \in 1 .. i : p \in 1 .. Len(tr)
  BY <1>1
<1> HIDE DEF tr2
<1>3. Holders(tr2, i, t) = Holders(tr, i, t)
  BY <1>1, <1>2 DEF Holders
<1> QED
  BY <1>3 DEF Held, tr2

LEMMA HoldersNow ==
  ASSUME NEW tr, NEW t
  PROVE  Holders(tr, Len(tr), t) =
           {k \in Reqs : Happened(tr, "granted", k, t) /\ ~Happened(tr, "freed", k, t)}
BY DEF Holders, Happened

LEMMA HeldGrant ==
  ASSUME NEW tr \in Seq(Entry), NEW k \in Reqs, NEW t \in Toks,
         ~Happened(tr, "granted", k, t), ~Happened(tr, "freed", k, t)
  PROVE  LET tr2 == tr \o <<Did("granted", k, t)>>
         IN  /\ Held(tr2, Len(tr2), t) = Held(tr, Len(tr), t) + Script[k].req
             /\ \A u : u # t => Held(tr2, Len(tr2), u) = Held(tr, Len(tr), u)
<1> DEFINE d == Did("granted", k, t)
           tr2 == tr \o <<d>>
<1>1. d \in Entry
  BY DEF Did, Entry
<1>2. \A kind, j, u : Happened(tr2, kind, j, u) <=>
                        Happened(tr, kind, j, u) \/ d = Did(kind, j, u)
  BY <1>1, ExtendedSeen
<1> HIDE DEF tr2
<1>6. \A j, u : Happened(tr2, "granted", j, u) <=> Happened(tr, "granted", j, u) \/ (j = k /\ u = t)
  BY <1>2, DidEqual
<1>7. \A j, u : Happened(tr2, "freed", j, u) <=> Happened(tr, "freed", j, u)
  <2>1. "granted" # "freed"
    OBVIOUS
  <2> QED
    BY <1>2, <2>1, DidEqual
<1>3. Holders(tr2, Len(tr2), t) = Holders(tr, Len(tr), t) \cup {k}
  BY <1>6, <1>7, HoldersNow
<1>4. ASSUME NEW u, u # t PROVE Holders(tr2, Len(tr2), u) = Holders(tr, Len(tr), u)
  <2>1. \A j : /\ Happened(tr2, "granted", j, u) <=> Happened(tr, "granted", j, u)
               /\ Happened(tr2, "freed", j, u) <=> Happened(tr, "freed", j, u)
    BY <1>4, <1>6, <1>7
  <2> QED
    BY <2>1, HoldersNow
<1>5. k \notin Holders(tr, Len(tr), t) /\ Holders(tr, Len(tr), t) \in SUBSET Reqs
  BY HoldersNow
<1> QED
  BY <1>3, <1>4, <1>5, UnitsOfAdd DEF Held, tr2

LEMMA HeldFree ==
  ASSUME NEW tr \in Seq(Entry), NEW k \in Reqs, NEW t \in Toks,
         Happened(tr, "granted", k, t), ~Happened(tr, "freed", k, t)
  PROVE  LET tr2 == tr \o <<Did("freed", k, t)>>
         IN  /\ Held(tr2, Len(tr2), t) + Script[k].req = Held(tr, Len(tr), t)
             /\ \A u : u # t => Held(tr2, Len(tr2), u) = Held(tr, Len(tr), u)
<1> DEFINE d == Did("freed", k, t)
           tr2 == tr \o <<d>>
<1>1. d \in Entry
  BY DEF Did, Entry
<1>2. \A kind, j, u : Happened(tr2, kind, j, u) <=>
                        Happened(tr, kind, j, u) \/ d = Did(kind, j, u)
  BY <1>1, ExtendedSeen
<1> HIDE DEF tr2
<1>6. \A j, u : Happened(tr2, "freed", j, u) <=> Happened(tr, "freed", j, u) \/ (j = k /\ u = t)
  BY <1>2, DidEqual
<1>7. \A j, u : Happened(tr2, "granted", j, u) <=> Happened(tr, "granted", j, u)
  <2>1. "freed" # "granted"
    OBVIOUS
  <2> QED
    BY <1>2, <2>1, DidEqual
<1>3. Holders(tr2, Len(tr2), t) = Holders(tr, Len(tr), t) \ {k}
  BY <1>6, <1>7, HoldersNow
<1>4. ASSUME NEW u, u # t PROVE Holders(tr2, Len(tr2), u) = Holders(tr, Len(tr), u)
  <2>1. \A j : /\ Happened(tr2, "granted", j, u) <=> Happened(tr, "granted", j, u)
               /\ Happened(tr2, "freed", j, u) <=> Happened(tr, "freed", j, u)
    BY <1>4, <1>6, <1>7
  <2> QED
    BY <2>1, HoldersNow
<1>5. k \in Holders(tr, Len(tr), t) /\ Holders(tr, Len(tr), t) \in SUBSET Reqs
  BY HoldersNow
<1> QED
  BY <1>3, <1>4, <1>5, UnitsOfRemove DEF Held, tr2

LEMMA HeldSame ==
  ASSUME NEW tr \in Seq(Entry), NEW d \in Entry, d.kind \notin {"granted", "freed"}
  PROVE  \A t : Held(tr \o <<d>>, Len(tr \o <<d>>), t) = Held(tr, Len(tr), t)
<1> DEFINE tr2 == tr \o <<d>>
<1>2. \A kind, j, u : Happened(tr2, kind, j, u) <=>
                        Happened(tr, kind, j, u) \/ d = Did(kind, j, u)
  BY ExtendedSeen
<1> HIDE DEF tr2
<1>1. \A j, u : /\ Happened(tr2, "granted", j, u) <=> Happened(tr, "granted", j, u)
                /\ Happened(tr2, "freed", j, u) <=> Happened(tr, "freed", j, u)
  BY <1>2 DEF Did
<1>3. \A t : Holders(tr2, Len(tr2), t) = Holders(tr, Len(tr), t)
  BY <1>1, HoldersNow
<1> QED
  BY <1>3 DEF Held, tr2

-----------------------------------------------------------------------------
(* The pools.                                                              *)

LEMMA NumTokens ==
  ASSUME NEW n \in Nat, NEW r, DOMAIN r = 0 .. n
  PROVE  num_tokens(r) = n
<1>1. n \in DOMAIN r /\ \A t \in DOMAIN r : t <= n
  OBVIOUS
<1>2. \A m \in DOMAIN r : (\A t \in DOMAIN r : t <= m) => m = n
  BY <1>1
<1> QED
  BY <1>1, <1>2 DEF num_tokens

LEMMA PoolFacts ==
  ASSUME NEW x \in Pool
  PROVE  /\ x.avail \in Nat /\ x.max \in Nat /\ x.min_avail \in Nat
         /\ x = [avail |-> x.avail, max |-> x.max, min_avail |-> x.min_avail]
BY DEF Pool

LEMMA GetRet ==
  ASSUME NEW n \in Nat, NEW r \in [0 .. n -> Pool], NEW t \in 0 .. n, NEW req \in Nat
  PROVE  /\ resource_get_ret(req, t, r) = 1 <=> req > r[t].avail
         /\ resource_get_ret(req, t, r) = 0 <=> req <= r[t].avail /\ req <= r[t].max
<1>1. r[t] \in Pool /\ t \in DOMAIN r
  OBVIOUS
<1>2. r[t].avail \in Nat /\ r[t].max \in Nat
  BY <1>1, PoolFacts
<1> QED
  BY <1>1, <1>2 DEF resource_get_ret

LEMMA PoolGet ==
  ASSUME NEW n \in Nat, NEW r \in [0 .. n -> Pool], NEW t \in 0 .. n, NEW req \in Nat,
         resource_get_ret(req, t, r) = 0
  PROVE  LET q == resource_get(req, t, r)
         IN  /\ q \in [0 .. n -> Pool]
             /\ req <= r[t].avail
             /\ q[t].avail = r[t].avail - req
             /\ q[t].min_avail = min_u64(r[t].avail - req, r[t].min_avail)
             /\ \A u \in 0 .. n : q[u].max = r[u].max /\ (u # t => q[u] = r[u])
<1> DEFINE m == min_u64(r[t].avail - req, r[t].min_avail)
           q1 == [r EXCEPT ![t].avail = @ - req]
           q == [q1 EXCEPT ![t].min_avail = m]
<1>1. req <= r[t].avail
  BY GetRet
<1>2. r[t] \in Pool /\ r[t].avail - req \in Nat /\ m \in Nat
  BY <1>1 DEF Pool, min_u64
<1>3. /\ q1 \in [0 .. n -> Pool]
      /\ q1[t].avail = r[t].avail - req /\ q1[t].min_avail = r[t].min_avail
      /\ q1[t].max = r[t].max
      /\ \A u \in 0 .. n : u # t => q1[u] = r[u]
  BY <1>2 DEF Pool
<1>4. resource_get(req, t, r) = q
  BY <1>2, <1>3 DEF resource_get
<1> HIDE DEF q1, m
<1>5. q1[t] \in Pool
  BY <1>3
<1>6. /\ q \in [0 .. n -> Pool]
      /\ q[t].avail = q1[t].avail /\ q[t].min_avail = m /\ q[t].max = q1[t].max
      /\ \A u \in 0 .. n : u # t => q[u] = q1[u]
  BY <1>2, <1>3, <1>5 DEF Pool
<1> HIDE DEF q
<1>7. \A u \in 0 .. n : q[u].max = r[u].max /\ (u # t => q[u] = r[u])
  BY <1>3, <1>6
<1> QED
  BY <1>1, <1>3, <1>4, <1>6, <1>7 DEF m

LEMMA PoolFree ==
  ASSUME NEW n \in Nat, NEW r \in [0 .. n -> Pool], NEW t \in 0 .. n, NEW req \in Nat
  PROVE  LET q == resource_free(req, t, r)
         IN  /\ q \in [0 .. n -> Pool]
             /\ q[t].avail = r[t].avail + req
             /\ q[t].min_avail = r[t].min_avail
             /\ \A u \in 0 .. n : q[u].max = r[u].max /\ (u # t => q[u] = r[u])
<1> DEFINE q == resource_free(req, t, r)
<1>1. r[t] \in Pool
  OBVIOUS
<1>2. /\ q \in [0 .. n -> Pool]
      /\ q[t].avail = r[t].avail + req /\ q[t].max = r[t].max /\ q[t].min_avail = r[t].min_avail
      /\ \A u \in 0 .. n : u # t => q[u] = r[u]
  BY <1>1, SMTT(30) DEF resource_free, Pool
<1> HIDE DEF q
<1>3. \A u \in 0 .. n : q[u].max = r[u].max
  BY <1>2
<1> QED
  BY <1>2, <1>3 DEF q

\* units leave and enter a pool for a reservation
Take(x, req) == [x EXCEPT !.max = @ - req, !.avail = @ - req]
Give(x, req) == [x EXCEPT !.max = @ + req, !.avail = @ + req]

LEMMA PoolTake ==
  ASSUME NEW x \in Pool, NEW req \in Nat, req <= x.avail, x.avail <= x.max
  PROVE  /\ Take(x, req) \in Pool
         /\ Take(x, req).avail = x.avail - req
         /\ Take(x, req).max = x.max - req
         /\ Take(x, req).min_avail = x.min_avail
<1> DEFINE z == [x EXCEPT !.max = @ - req]
           y == [z EXCEPT !.avail = @ - req]
<1>1. /\ x.avail - req \in Nat /\ x.max - req \in Nat
  BY DEF Pool
<1>2. z \in Pool /\ z.avail = x.avail /\ z.max = x.max - req /\ z.min_avail = x.min_avail
  BY <1>1 DEF Pool
<1> HIDE DEF z
<1>3. y \in Pool /\ y.avail = z.avail - req /\ y.max = z.max /\ y.min_avail = z.min_avail
  BY <1>1, <1>2 DEF Pool
<1> QED
  BY <1>2, <1>3 DEF z, Take

LEMMA PoolGive ==
  ASSUME NEW x \in Pool, NEW req \in Nat
  PROVE  /\ Give(x, req) \in Pool
         /\ Give(x, req).avail = x.avail + req
         /\ Give(x, req).max = x.max + req
         /\ Give(x, req).min_avail = x.min_avail
<1> DEFINE z == [x EXCEPT !.max = @ + req]
           y == [z EXCEPT !.avail = @ + req]
<1>2. z \in Pool /\ z.avail = x.avail /\ z.max = x.max + req /\ z.min_avail = x.min_avail
  BY DEF Pool
<1> HIDE DEF z
<1>3. y \in Pool /\ y.avail = z.avail + req /\ y.max = z.max /\ y.min_avail = z.min_avail
  BY <1>2 DEF Pool
<1> QED
  BY <1>2, <1>3 DEF z, Give

LEMMA PoolsEqual ==
  ASSUME NEW n \in Nat, NEW r \in [0 .. n -> Pool], NEW q \in [0 .. n -> Pool], NEW t \in 0 .. n,
         \A u \in 0 .. n : u # t => q[u] = r[u],
         q[t].avail = r[t].avail, q[t].max = r[t].max, q[t].min_avail = r[t].min_avail
  PROVE  q = r
<1>1. q[t] \in Pool /\ r[t] \in Pool
  OBVIOUS
<1>2. q[t] = r[t]
  BY <1>1, PoolFacts
<1> QED
  BY <1>2

\* resource_free undoes resource_get, once the minimum is restored.
LEMMA PoolUndoGet ==
  ASSUME NEW n \in Nat, NEW r \in [0 .. n -> Pool], NEW t \in 0 .. n, NEW req \in Nat,
         resource_get_ret(req, t, r) = 0
  PROVE  resource_free(req, t,
           resource_restore_min_avail(t, r[t].min_avail, resource_get(req, t, r))) = r
<1> DEFINE q == resource_get(req, t, r)
           m == resource_restore_min_avail(t, r[t].min_avail, q)
           f == resource_free(req, t, m)
<1>1. /\ q \in [0 .. n -> Pool] /\ req <= r[t].avail
      /\ q[t].avail = r[t].avail - req /\ q[t].max = r[t].max
      /\ \A u \in 0 .. n : u # t => q[u] = r[u]
  BY PoolGet
<1>2. r[t] \in Pool /\ r[t].avail \in Nat /\ r[t].min_avail \in Nat
  BY PoolFacts
<1> HIDE DEF q
<1>3. q[t] \in Pool
  BY <1>1
<1>4. /\ m \in [0 .. n -> Pool]
      /\ m[t].avail = q[t].avail /\ m[t].max = q[t].max /\ m[t].min_avail = r[t].min_avail
      /\ \A u \in 0 .. n : u # t => m[u] = q[u]
  BY <1>1, <1>2, <1>3 DEF resource_restore_min_avail, Pool
<1> HIDE DEF m
<1>5. /\ f \in [0 .. n -> Pool]
      /\ f[t].avail = m[t].avail + req /\ f[t].max = m[t].max /\ f[t].min_avail = m[t].min_avail
      /\ \A u \in 0 .. n : u # t => f[u] = m[u]
  <2>1. m \in [0 .. n -> Pool]
    BY <1>4
  <2> QED
    BY <2>1, PoolFree
<1> HIDE DEF f
<1>6. /\ f[t].avail = r[t].avail /\ f[t].max = r[t].max /\ f[t].min_avail = r[t].min_avail
      /\ \A u \in 0 .. n : u # t => f[u] = r[u]
  BY <1>1, <1>2, <1>4, <1>5
<1>7. f = r
  BY SMTT(30), <1>5, <1>6, PoolsEqual
<1> QED
  BY <1>7 DEF f, m, q

\* resource_get undoes resource_free, of units that were taken from the pool.
LEMMA PoolUndoFree ==
  ASSUME NEW n \in Nat, NEW r \in [0 .. n -> Pool], NEW t \in 0 .. n, NEW req \in Nat,
         r[t].avail + req <= r[t].max, r[t].min_avail <= r[t].avail
  PROVE  resource_get(req, t, resource_free(req, t, r)) = r
<1> DEFINE f == resource_free(req, t, r)
           q == resource_get(req, t, f)
<1>1. /\ f \in [0 .. n -> Pool]
      /\ f[t].avail = r[t].avail + req /\ f[t].max = r[t].max /\ f[t].min_avail = r[t].min_avail
      /\ \A u \in 0 .. n : u # t => f[u] = r[u]
  BY PoolFree
<1>2. r[t] \in Pool /\ r[t].avail \in Nat /\ r[t].min_avail \in Nat /\ r[t].max \in Nat
  BY PoolFacts
<1> HIDE DEF f
<1>3. resource_get_ret(req, t, f) = 0
  BY <1>1, <1>2, GetRet, SMTT(30)
<1>4. /\ q \in [0 .. n -> Pool]
      /\ q[t].avail = f[t].avail - req /\ q[t].max = f[t].max
      /\ q[t].min_avail = min_u64(f[t].avail - req, f[t].min_avail)
      /\ \A u \in 0 .. n : u # t => q[u] = f[u]
  BY <1>1, <1>3, PoolGet
<1> HIDE DEF q
<1>5. q[t].avail = r[t].avail /\ q[t].max = r[t].max
  BY <1>1, <1>2, <1>4
<1>6. q[t].min_avail = r[t].min_avail
  BY <1>1, <1>2, <1>4 DEF min_u64
<1>7. q = r
  BY SMTT(30), <1>1, <1>4, <1>5, <1>6, PoolsEqual
<1> QED
  BY <1>7 DEF f, q

LEMMA PoolReserve ==
  ASSUME NEW n \in Nat, NEW r \in [0 .. n -> Pool], NEW req \in Nat,
         req <= r[0].avail, r[0].avail <= r[0].max
  PROVE  LET q == resource_reserve(req, r)
         IN  /\ q \in [0 .. n + 1 -> Pool]
             /\ num_tokens(r) = n /\ num_tokens(q) = n + 1
             /\ q[0].avail = r[0].avail - req /\ q[0].max = r[0].max - req
             /\ q[0].min_avail = r[0].min_avail
             /\ q[n + 1].avail = req /\ q[n + 1].max = req /\ q[n + 1].min_avail = req
             /\ \A u \in 1 .. n : q[u] = r[u]
             /\ Unreserve(req, q) = r
<1> DEFINE q == resource_reserve(req, r)
           v == Unreserve(req, q)
<1>1. num_tokens(r) = n
  BY NumTokens
<1>2. /\ r[0] \in Pool /\ r[0].avail \in Nat /\ r[0].max \in Nat /\ r[0].min_avail \in Nat
  BY PoolFacts
<1>3. DOMAIN q = 0 .. n + 1
  BY <1>1 DEF resource_reserve
<1>4. num_tokens(q) = n + 1
  BY <1>3, NumTokens
<1>5. /\ q[0] \in Pool
      /\ q[0].avail = r[0].avail - req /\ q[0].max = r[0].max - req
      /\ q[0].min_avail = r[0].min_avail
  <2>1. q[0] = Take(r[0], req)
    BY <1>1 DEF resource_reserve, Take
  <2> HIDE DEF q
  <2> QED
    BY <2>1, <1>2, PoolTake
<1>6. q[n + 1] = [avail |-> req, max |-> req, min_avail |-> req]
  BY <1>1 DEF resource_reserve, FullPool
<1>7. \A u \in 1 .. n : q[u] = r[u]
  BY <1>1 DEF resource_reserve
<1>8. \A u \in 0 .. n + 1 : q[u] \in Pool
  <2>1. q[0] \in Pool /\ q[n + 1] \in Pool
    BY <1>2, <1>5, <1>6 DEF Pool
  <2> QED
    BY <2>1, <1>7
<1>9. q = [u \in 0 .. n + 1 |-> q[u]]
  BY <1>1 DEF resource_reserve
<1> HIDE DEF q
<1>10. q \in [0 .. n + 1 -> Pool]
  BY <1>8, <1>9
<1>11. DOMAIN v = 0 .. n /\ v = [u \in 0 .. n |-> v[u]]
  BY <1>3, <1>4 DEF Unreserve
<1>12. \A u \in 1 .. n : v[u] = r[u]
  BY <1>3, <1>4, <1>7 DEF Unreserve
<1>13. v[0] = Give(q[0], req)
  <2>1. 0 \in DOMAIN q \ {num_tokens(q)}
    BY <1>3, <1>4
  <2>2. v[0] = [q[0] EXCEPT !.max = @ + req, !.avail = @ + req]
    BY <2>1 DEF Unreserve
  <2> QED
    BY <2>2, Zenon DEF Give
<1> HIDE DEF v
<1>14. v[0] = r[0]
  <2>1. /\ v[0] \in Pool
        /\ v[0].avail = q[0].avail + req /\ v[0].max = q[0].max + req
        /\ v[0].min_avail = q[0].min_avail
    <3>1. q[0] \in Pool
      BY <1>5
    <3>2. /\ Give(q[0], req) \in Pool
          /\ Give(q[0], req).avail = q[0].avail + req
          /\ Give(q[0], req).max = q[0].max + req
          /\ Give(q[0], req).min_avail = q[0].min_avail
      BY <3>1, PoolGive
    <3> QED
      BY <3>2, <1>13
  <2>2. v[0].avail = r[0].avail /\ v[0].max = r[0].max /\ v[0].min_avail = r[0].min_avail
    BY <2>1, <1>2, <1>5
  <2> QED
    BY <2>1, <2>2, <1>2, PoolFacts
<1>15. v = r
  BY <1>11, <1>12, <1>14
<1> QED
  BY <1>1, <1>4, <1>5, <1>6, <1>7, <1>10, <1>15 DEF q, v

LEMMA UnitsInSame ==
  ASSUME NEW n \in Nat, NEW r, NEW q, DOMAIN r = 0 .. n, DOMAIN q = 0 .. n,
         \A u \in 0 .. n : q[u].max = r[u].max
  PROVE  UnitsIn(q) = UnitsIn(r)
BY DEF UnitsIn

\* A reservation moves units from the general pool to its own.
LEMMA UnitsInReserve ==
  ASSUME NEW n \in Nat, NEW r \in [0 .. n -> Pool], NEW req \in Nat,
         req <= r[0].avail, r[0].avail <= r[0].max,
         IsFiniteSet(UnitsIn(r))
  PROVE  LET q == resource_reserve(req, r)
         IN  IsFiniteSet(UnitsIn(q)) /\ Cardinality(UnitsIn(q)) = Cardinality(UnitsIn(r))
<1> DEFINE q == resource_reserve(req, r)
           Rest == UNION {{t} \X (1 .. r[t].max) : t \in 1 .. n}
           Old == {0} \X (1 .. r[0].max)
           Gen == {0} \X (1 .. r[0].max - req)
           Own == {n + 1} \X (1 .. req)
<1>1. /\ q \in [0 .. n + 1 -> Pool] /\ q[0].max = r[0].max - req /\ q[n + 1].max = req
      /\ \A u \in 1 .. n : q[u] = r[u]
  BY PoolReserve
<1>2. r[0].avail \in Nat /\ r[0].max \in Nat /\ r[0].max - req \in Nat
  BY PoolFacts
<1> HIDE DEF q
<1>3. UnitsIn(r) = Rest \cup Old /\ Rest \cap Old = {}
  BY DEF UnitsIn
<1>4. UnitsIn(q) = (Rest \cup Gen) \cup Own
  BY <1>1 DEF UnitsIn
<1>5. Rest \cap Gen = {} /\ (Rest \cup Gen) \cap Own = {}
  OBVIOUS
<1>6. /\ IsFiniteSet(Old) /\ Cardinality(Old) = r[0].max
      /\ IsFiniteSet(Gen) /\ Cardinality(Gen) = r[0].max - req
      /\ IsFiniteSet(Own) /\ Cardinality(Own) = req
  BY <1>2, Column
<1>7. Rest \in SUBSET UnitsIn(r)
  BY <1>3
<1> HIDE DEF Rest, Old, Gen, Own
<1>8. IsFiniteSet(Rest) /\ Cardinality(Rest) \in Nat
  BY <1>7, FS_Subset, FS_CardinalityType
<1>9. Cardinality({}) = 0
  BY FS_EmptySet
<1>10. Cardinality(Rest \cup Old) = Cardinality(Rest) + r[0].max - Cardinality(Rest \cap Old)
  BY <1>6, <1>8, FS_Union
<1>11. /\ IsFiniteSet(Rest \cup Gen)
       /\ Cardinality(Rest \cup Gen)
            = Cardinality(Rest) + (r[0].max - req) - Cardinality(Rest \cap Gen)
  BY <1>6, <1>8, FS_Union
<1>12. /\ IsFiniteSet((Rest \cup Gen) \cup Own)
       /\ Cardinality((Rest \cup Gen) \cup Own)
            = Cardinality(Rest \cup Gen) + req - Cardinality((Rest \cup Gen) \cap Own)
  BY <1>6, <1>11, FS_Union
<1>13. /\ Cardinality(Rest \cap Old) = 0 /\ Cardinality(Rest \cap Gen) = 0
       /\ Cardinality((Rest \cup Gen) \cap Own) = 0
  BY <1>3, <1>5, <1>9
<1>14. Cardinality((Rest \cup Gen) \cup Own) = Cardinality(Rest \cup Old)
  BY <1>2, <1>8, <1>10, <1>11, <1>12, <1>13
<1> QED
  BY <1>3, <1>4, <1>12, <1>14 DEF q

-----------------------------------------------------------------------------
(* What each kind of step does to the pools and to their record of the     *)
(* timeline.                                                               *)

LEMMA ReservedSame ==
  ASSUME NEW tr \in Seq(Entry), NEW d \in Entry, d.kind # "reserved"
  PROVE  Reserved(tr \o <<d>>) = Reserved(tr)
<1> DEFINE tr2 == tr \o <<d>>
<1>1. /\ Len(tr) \in Nat
      /\ Len(tr2) = Len(tr) + 1
      /\ \A p \in 1 .. Len(tr) : tr2[p] = tr[p]
      /\ tr2[Len(tr) + 1] = d
  BY Extended
<1>2. 1 .. Len(tr2) = (1 .. Len(tr)) \cup {Len(tr) + 1}
  BY <1>1
<1> HIDE DEF tr2
<1>3. Reserved(tr2) = Reserved(tr)
  BY <1>1, <1>2 DEF Reserved
<1> QED
  BY <1>3 DEF tr2

LEMMA ReservedMore ==
  ASSUME NEW tr \in Seq(Entry), NEW d \in Entry, d.kind = "reserved"
  PROVE  Reserved(tr \o <<d>>) = Reserved(tr) \cup {d.k}
<1> DEFINE tr2 == tr \o <<d>>
<1>1. /\ Len(tr) \in Nat
      /\ Len(tr2) = Len(tr) + 1
      /\ \A p \in 1 .. Len(tr) : tr2[p] = tr[p]
      /\ tr2[Len(tr) + 1] = d
  BY Extended
<1>2. 1 .. Len(tr2) = (1 .. Len(tr)) \cup {Len(tr) + 1}
  BY <1>1
<1>0. d.k \in Reqs
  BY DEF Entry
<1> HIDE DEF tr2
<1>3. Reserved(tr2) = Reserved(tr) \cup {d.k}
  BY <1>0, <1>1, <1>2 DEF Reserved
<1> QED
  BY <1>3 DEF tr2

\* tokens named in the timeline
LEMMA ToksKnown ==
  ASSUME NEW tr \in Seq(Entry), NEW d \in Entry, NEW D,
         \A p \in 1 .. Len(tr) : tr[p].tok \in D, d.tok \in D
  PROVE  \A p \in 1 .. Len(tr \o <<d>>) : (tr \o <<d>>)[p].tok \in D
<1> DEFINE tr2 == tr \o <<d>>
<1>1. /\ Len(tr) \in Nat
      /\ Len(tr2) = Len(tr) + 1
      /\ \A p \in 1 .. Len(tr) : tr2[p] = tr[p]
      /\ tr2[Len(tr) + 1] = d
  BY Extended
<1>2. 1 .. Len(tr2) = (1 .. Len(tr)) \cup {Len(tr) + 1}
  BY <1>1
<1> HIDE DEF tr2
<1>3. \A p \in 1 .. Len(tr2) : tr2[p].tok \in D
  BY <1>1, <1>2
<1> QED
  BY <1>3 DEF tr2

\* the peak of one pool after a step that leaves what was held earlier alone
LEMMA PeakSame ==
  ASSUME NEW tr \in Seq(Entry), NEW d \in Entry, NEW t, NEW m \in Int,
         Held(tr \o <<d>>, Len(tr \o <<d>>), t) <= m,
         \A i \in 0 .. Len(tr) : Held(tr, i, t) <= m,
         \E i \in 0 .. Len(tr) : Held(tr, i, t) = m
  PROVE  /\ \A i \in 0 .. Len(tr \o <<d>>) : Held(tr \o <<d>>, i, t) <= m
         /\ \E i \in 0 .. Len(tr \o <<d>>) : Held(tr \o <<d>>, i, t) = m
<1> DEFINE tr2 == tr \o <<d>>
<1>1. Len(tr) \in Nat /\ Len(tr2) = Len(tr) + 1
  BY Extended
<1>2. \A i \in 0 .. Len(tr) : Held(tr2, i, t) = Held(tr, i, t)
  BY HeldEarlier
<1>3. 0 .. Len(tr2) = (0 .. Len(tr)) \cup {Len(tr2)}
  BY <1>1
<1>4. Held(tr2, Len(tr2), t) <= m
  OBVIOUS
<1> HIDE DEF tr2
<1>5. /\ \A i \in 0 .. Len(tr2) : Held(tr2, i, t) <= m
      /\ \E i \in 0 .. Len(tr2) : Held(tr2, i, t) = m
  BY <1>2, <1>3, <1>4
<1> QED
  BY <1>5 DEF tr2

LEMMA PeakHigher ==
  ASSUME NEW tr \in Seq(Entry), NEW d \in Entry, NEW t, NEW m \in Int,
         Held(tr \o <<d>>, Len(tr \o <<d>>), t) = m,
         \A i \in 0 .. Len(tr) : Held(tr, i, t) <= m
  PROVE  /\ \A i \in 0 .. Len(tr \o <<d>>) : Held(tr \o <<d>>, i, t) <= m
         /\ \E i \in 0 .. Len(tr \o <<d>>) : Held(tr \o <<d>>, i, t) = m
<1> DEFINE tr2 == tr \o <<d>>
<1>1. Len(tr) \in Nat /\ Len(tr2) = Len(tr) + 1
  BY Extended
<1>2. \A i \in 0 .. Len(tr) : Held(tr2, i, t) = Held(tr, i, t)
  BY HeldEarlier
<1>3. 0 .. Len(tr2) = (0 .. Len(tr)) \cup {Len(tr2)}
  BY <1>1
<1>4. Held(tr2, Len(tr2), t) = m
  OBVIOUS
<1> HIDE DEF tr2
<1>5. /\ \A i \in 0 .. Len(tr2) : Held(tr2, i, t) <= m
      /\ \E i \in 0 .. Len(tr2) : Held(tr2, i, t) = m
  BY <1>2, <1>3, <1>4
<1> QED
  BY <1>5 DEF tr2

\* whether something was granted from the general pool
GrantedGeneral(tr) == \E p \in 1 .. Len(tr) : tr[p].kind = "granted" /\ tr[p].tok = 0

LEMMA GrantedGeneralSame ==
  ASSUME NEW tr \in Seq(Entry), NEW d \in Entry
  PROVE  GrantedGeneral(tr \o <<d>>) <=> GrantedGeneral(tr) \/ (d.kind = "granted" /\ d.tok = 0)
<1> DEFINE tr2 == tr \o <<d>>
<1>1. /\ Len(tr) \in Nat
      /\ Len(tr2) = Len(tr) + 1
      /\ \A p \in 1 .. Len(tr) : tr2[p] = tr[p]
      /\ tr2[Len(tr) + 1] = d
  BY Extended
<1>2. 1 .. Len(tr2) = (1 .. Len(tr)) \cup {Len(tr) + 1}
  BY <1>1
<1> HIDE DEF tr2
<1>3. GrantedGeneral(tr2) <=> GrantedGeneral(tr) \/ (d.kind = "granted" /\ d.tok = 0)
  BY <1>1, <1>2 DEF GrantedGeneral
<1> QED
  BY <1>3 DEF tr2

LEMMA PoolsSame ==
  ASSUME NEW n \in Toks, NEW r \in [0 .. n -> Pool], NEW tr \in Seq(Entry), NEW d \in Entry,
         PoolsHold(r, tr), PeaksHold(r, tr),
         d.kind \in {"queued", "refused"}, d.tok \in 0 .. n
  PROVE  PoolsHold(r, tr \o <<d>>) /\ PeaksHold(r, tr \o <<d>>)
<1> DEFINE tr2 == tr \o <<d>>
<1>1. \A t : Held(tr2, Len(tr2), t) = Held(tr, Len(tr), t)
  BY HeldSame
<1>2. Reserved(tr2) = Reserved(tr)
  BY ReservedSame
<1>3. \A p \in 1 .. Len(tr2) : tr2[p].tok \in DOMAIN r
  BY ToksKnown DEF PoolsHold
<1>4. GrantedGeneral(tr2) <=> GrantedGeneral(tr)
  BY GrantedGeneralSame
<1>5. ASSUME NEW t \in DOMAIN r \ {0}
      PROVE  /\ r[t].min_avail <= r[t].max
             /\ \A i \in 0 .. Len(tr2) : Held(tr2, i, t) <= r[t].max - r[t].min_avail
             /\ \E i \in 0 .. Len(tr2) : Held(tr2, i, t) = r[t].max - r[t].min_avail
  <2>1. /\ r[t].min_avail <= r[t].max
        /\ \A i \in 0 .. Len(tr) : Held(tr, i, t) <= r[t].max - r[t].min_avail
        /\ \E i \in 0 .. Len(tr) : Held(tr, i, t) = r[t].max - r[t].min_avail
    BY DEF PeaksHold
  <2>2. r[t].max - r[t].min_avail \in Int
    BY PoolFacts
  <2>3. Held(tr2, Len(tr2), t) <= r[t].max - r[t].min_avail
    <3>1. Len(tr) \in 0 .. Len(tr)
      BY Extended
    <3> QED
      BY <1>1, <2>1, <3>1
  <2> HIDE DEF tr2
  <2> QED
    BY <2>1, <2>2, <2>3, PeakSame DEF tr2
<1> HIDE DEF tr2
<1>6. PoolsHold(r, tr2)
  BY <1>1, <1>2, <1>3 DEF PoolsHold
<1>7. PeaksHold(r, tr2)
  BY <1>4, <1>5 DEF PeaksHold, GrantedGeneral
<1> QED
  BY <1>6, <1>7 DEF tr2

LEMMA PoolsGrant ==
  ASSUME NEW n \in Toks, NEW r \in [0 .. n -> Pool], NEW tr \in Seq(Entry),
         PoolsHold(r, tr), PeaksHold(r, tr),
         NEW k \in Reqs, NEW t \in 0 .. n,
         ~Happened(tr, "granted", k, t), ~Happened(tr, "freed", k, t),
         resource_get_ret(Script[k].req, t, r) = 0
  PROVE  LET q == resource_get(Script[k].req, t, r)
             tr2 == tr \o <<Did("granted", k, t)>>
         IN  PoolsHold(q, tr2) /\ PeaksHold(q, tr2)
<1> DEFINE d == Did("granted", k, t)
           tr2 == tr \o <<d>>
           req == Script[k].req
           q == resource_get(req, t, r)
<1>1. d \in Entry /\ d.kind = "granted" /\ d.tok = t /\ d.k = k /\ t \in Toks /\ n \in Nat
  BY ResourceAssumption DEF Did, Entry, Toks
<1>2. req \in Nat
  BY ScriptFacts
<1>3. /\ Held(tr2, Len(tr2), t) = Held(tr, Len(tr), t) + req
      /\ \A u \in 0 .. n : u # t => Held(tr2, Len(tr2), u) = Held(tr, Len(tr), u)
  BY <1>1, HeldGrant
<1>4. /\ q \in [0 .. n -> Pool]
      /\ req <= r[t].avail
      /\ q[t].avail = r[t].avail - req
      /\ q[t].min_avail = min_u64(r[t].avail - req, r[t].min_avail)
      /\ \A u \in 0 .. n : q[u].max = r[u].max /\ (u # t => q[u] = r[u])
  BY SMTT(30), <1>1, <1>2, PoolGet
<1>5. Reserved(tr2) = Reserved(tr)
  BY <1>1, ReservedSame
<1>6. \A p \in 1 .. Len(tr2) : tr2[p].tok \in 0 .. n
  BY <1>1, ToksKnown DEF PoolsHold
<1>7. GrantedGeneral(tr2) <=> GrantedGeneral(tr) \/ t = 0
  BY <1>1, GrantedGeneralSame
<1>8. \A u \in 0 .. n : /\ r[u].avail + Held(tr, Len(tr), u) = r[u].max
                        /\ Held(tr, Len(tr), u) \in Nat
                        /\ r[u].avail \in Nat /\ r[u].max \in Nat /\ r[u].min_avail \in Nat
  BY HeldType, PoolFacts DEF PoolsHold
<1>9. Len(tr) \in Nat /\ Len(tr) \in 0 .. Len(tr)
  BY <1>1, Extended
<1> HIDE DEF q, req, d, tr2
<1>10. PoolsHold(q, tr2)
  <2>1. ASSUME NEW u \in 0 .. n
        PROVE  q[u].avail + Held(tr2, Len(tr2), u) = q[u].max
    <3>1. CASE u = t
      BY <1>2, <1>3, <1>4, <1>8, <3>1
    <3>2. CASE u # t
      BY <1>3, <1>4, <1>8, <3>2
    <3> QED
      BY <3>1, <3>2
  <2>2. UnitsIn(q) = UnitsIn(r)
    BY <1>1, <1>4, UnitsInSame
  <2>3. num_tokens(q) = num_tokens(r)
    <3>1. DOMAIN q = 0 .. n /\ DOMAIN r = 0 .. n
      BY <1>4
    <3> QED
      BY <1>1, <3>1, NumTokens
  <2> QED
    BY <2>1, <2>2, <2>3, <1>4, <1>5, <1>6 DEF PoolsHold
<1>11. ASSUME NEW u \in 0 .. n, u # 0
       PROVE  /\ q[u].min_avail <= q[u].max
              /\ \A i \in 0 .. Len(tr2) : Held(tr2, i, u) <= q[u].max - q[u].min_avail
              /\ \E i \in 0 .. Len(tr2) : Held(tr2, i, u) = q[u].max - q[u].min_avail
  <2>1. /\ r[u].min_avail <= r[u].max
        /\ \A i \in 0 .. Len(tr) : Held(tr, i, u) <= r[u].max - r[u].min_avail
        /\ \E i \in 0 .. Len(tr) : Held(tr, i, u) = r[u].max - r[u].min_avail
    BY <1>11 DEF PeaksHold
  <2>2. /\ r[u].max - r[u].min_avail \in Int /\ q[u].max - q[u].min_avail \in Int
    BY <1>4, PoolFacts
  <2>3. CASE u # t
    <3>1. Held(tr2, Len(tr2), u) <= r[u].max - r[u].min_avail
      BY <1>3, <1>9, <2>1, <2>3
    <3>2. q[u] = r[u]
      BY <1>4, <2>3
    <3> QED
      BY SMTT(30), <1>1, <2>1, <2>2, <3>1, <3>2, PeakSame DEF tr2
  <2>4. CASE u = t /\ r[t].avail - req < r[t].min_avail
    <3>1. q[u].min_avail = r[u].avail - req /\ q[u].max = r[u].max
      BY <1>4, <2>4 DEF min_u64
    <3>2. Held(tr2, Len(tr2), u) = q[u].max - q[u].min_avail
      BY <1>2, <1>3, <1>8, <2>4, <3>1
    <3>3. \A i \in 0 .. Len(tr) : Held(tr, i, u) <= q[u].max - q[u].min_avail
      <4>1. r[u].max - r[u].min_avail <= q[u].max - q[u].min_avail
        BY <1>2, <1>8, <2>4, <3>1
      <4> QED
        BY <4>1, <2>1, <2>2, HeldType
    <3>4. q[u].min_avail <= q[u].max
      BY <1>2, <1>4, <1>8, <2>4, <3>1
    <3> QED
      BY <1>1, <2>2, <3>2, <3>3, <3>4, PeakHigher DEF tr2
  <2>5. CASE u = t /\ ~(r[t].avail - req < r[t].min_avail)
    <3>1. q[u].min_avail = r[u].min_avail /\ q[u].max = r[u].max
      BY <1>4, <2>5 DEF min_u64
    <3>2. Held(tr2, Len(tr2), u) <= r[u].max - r[u].min_avail
      BY <1>2, <1>3, <1>8, <2>5
    <3> QED
      BY <1>1, <2>1, <2>2, <3>1, <3>2, PeakSame DEF tr2
  <2> QED
    BY <2>3, <2>4, <2>5
<1>12. GrantedGeneral(tr2) => q[0].min_avail <= q[0].avail
  <2>1. CASE t = 0
    BY <1>2, <1>4, <1>8, <2>1 DEF min_u64
  <2>2. CASE t # 0
    <3>1. q[0] = r[0]
      BY <1>1, <1>4, <2>2
    <3> QED
      BY <1>7, <2>2, <3>1 DEF PeaksHold, GrantedGeneral
  <2> QED
    BY <2>1, <2>2
<1>13. PeaksHold(q, tr2)
  BY <1>4, <1>11, <1>12 DEF PeaksHold, GrantedGeneral
<1> QED
  BY <1>10, <1>13 DEF q, req, tr2, d

LEMMA PoolsFree ==
  ASSUME NEW n \in Toks, NEW r \in [0 .. n -> Pool], NEW tr \in Seq(Entry),
         PoolsHold(r, tr), PeaksHold(r, tr),
         NEW k \in Reqs, NEW t \in 0 .. n,
         Happened(tr, "granted", k, t), ~Happened(tr, "freed", k, t)
  PROVE  LET q == resource_free(Script[k].req, t, r)
             tr2 == tr \o <<Did("freed", k, t)>>
         IN  /\ PoolsHold(q, tr2) /\ PeaksHold(q, tr2)
             /\ r[t].avail + Script[k].req <= r[t].max
             /\ r[t].min_avail <= r[t].avail
<1> DEFINE d == Did("freed", k, t)
           tr2 == tr \o <<d>>
           req == Script[k].req
           q == resource_free(req, t, r)
<1>1. d \in Entry /\ d.kind = "freed" /\ d.tok = t /\ d.k = k /\ t \in Toks /\ n \in Nat
  BY ResourceAssumption DEF Did, Entry, Toks
<1>2. req \in Nat
  BY ScriptFacts
<1>3. /\ Held(tr2, Len(tr2), t) + req = Held(tr, Len(tr), t)
      /\ \A u \in 0 .. n : u # t => Held(tr2, Len(tr2), u) = Held(tr, Len(tr), u)
  BY <1>1, HeldFree
<1>4. /\ q \in [0 .. n -> Pool]
      /\ q[t].avail = r[t].avail + req
      /\ q[t].min_avail = r[t].min_avail
      /\ \A u \in 0 .. n : q[u].max = r[u].max /\ (u # t => q[u] = r[u])
  BY <1>1, <1>2, PoolFree
<1>5. Reserved(tr2) = Reserved(tr)
  BY <1>1, ReservedSame
<1>6. \A p \in 1 .. Len(tr2) : tr2[p].tok \in 0 .. n
  BY <1>1, ToksKnown DEF PoolsHold
<1>7. GrantedGeneral(tr2) <=> GrantedGeneral(tr)
  BY <1>1, GrantedGeneralSame
<1>8. \A u \in 0 .. n : /\ r[u].avail + Held(tr, Len(tr), u) = r[u].max
                        /\ Held(tr, Len(tr), u) \in Nat
                        /\ Held(tr2, Len(tr2), u) \in Nat
                        /\ r[u].avail \in Nat /\ r[u].max \in Nat /\ r[u].min_avail \in Nat
  BY HeldType, PoolFacts DEF PoolsHold
<1>9. Len(tr) \in Nat /\ Len(tr) \in 0 .. Len(tr)
  BY <1>1, Extended
<1>10. t = 0 => GrantedGeneral(tr)
  BY DEF Happened, GrantedGeneral, Did
<1> HIDE DEF q, req, d, tr2
<1>11. PoolsHold(q, tr2)
  <2>1. ASSUME NEW u \in 0 .. n
        PROVE  q[u].avail + Held(tr2, Len(tr2), u) = q[u].max
    <3>1. CASE u = t
      BY <1>2, <1>3, <1>4, <1>8, <3>1
    <3>2. CASE u # t
      BY <1>3, <1>4, <1>8, <3>2
    <3> QED
      BY <3>1, <3>2
  <2>2. UnitsIn(q) = UnitsIn(r)
    BY <1>1, <1>4, UnitsInSame
  <2>3. num_tokens(q) = num_tokens(r)
    <3>1. DOMAIN q = 0 .. n /\ DOMAIN r = 0 .. n
      BY <1>4
    <3> QED
      BY <1>1, <3>1, NumTokens
  <2> QED
    BY <2>1, <2>2, <2>3, <1>4, <1>5, <1>6 DEF PoolsHold
<1>12. ASSUME NEW u \in 0 .. n, u # 0
       PROVE  /\ q[u].min_avail <= q[u].max
              /\ \A i \in 0 .. Len(tr2) : Held(tr2, i, u) <= q[u].max - q[u].min_avail
              /\ \E i \in 0 .. Len(tr2) : Held(tr2, i, u) = q[u].max - q[u].min_avail
  <2>1. /\ r[u].min_avail <= r[u].max
        /\ \A i \in 0 .. Len(tr) : Held(tr, i, u) <= r[u].max - r[u].min_avail
        /\ \E i \in 0 .. Len(tr) : Held(tr, i, u) = r[u].max - r[u].min_avail
    BY <1>12 DEF PeaksHold
  <2>2. q[u].max = r[u].max /\ q[u].min_avail = r[u].min_avail
    BY <1>4
  <2>3. Held(tr2, Len(tr2), u) <= Held(tr, Len(tr), u)
    <3>1. CASE u = t
      BY <1>2, <1>3, <1>8, <3>1
    <3>2. CASE u # t
      BY <1>3, <1>8, <3>2
    <3> QED
      BY <3>1, <3>2
  <2>4. Held(tr, Len(tr), u) <= r[u].max - r[u].min_avail
    BY <1>9, <2>1
  <2>5. /\ r[u].max - r[u].min_avail \in Int
        /\ Held(tr2, Len(tr2), u) <= r[u].max - r[u].min_avail
    BY <1>8, <2>3, <2>4
  <2> QED
    BY <1>1, <2>1, <2>2, <2>5, PeakSame DEF tr2
<1>13. r[t].min_avail <= r[t].avail
  <2>1. CASE t = 0
    BY <1>10, <2>1 DEF PeaksHold, GrantedGeneral
  <2>2. CASE t # 0
    <3>1. Held(tr, Len(tr), t) <= r[t].max - r[t].min_avail
      BY <1>9, <2>2 DEF PeaksHold
    <3> QED
      BY <1>8, <3>1
  <2> QED
    BY <2>1, <2>2
<1>14. r[t].avail + req <= r[t].max
  BY <1>2, <1>3, <1>8
<1>15. GrantedGeneral(tr2) => q[0].min_avail <= q[0].avail
  <2>1. CASE t = 0
    BY <1>2, <1>4, <1>8, <1>13, <2>1
  <2>2. CASE t # 0
    <3>1. q[0] = r[0]
      BY <1>1, <1>4, <2>2
    <3> QED
      BY <1>7, <2>2, <3>1 DEF PeaksHold, GrantedGeneral
  <2> QED
    BY <2>1, <2>2
<1>16. PeaksHold(q, tr2)
  BY <1>4, <1>12, <1>15 DEF PeaksHold, GrantedGeneral
<1> QED
  BY <1>11, <1>13, <1>14, <1>16 DEF q, req, tr2, d

\* while only reservations were made, nobody holds anything
LEMMA NothingHeld ==
  ASSUME NEW tr \in Seq(Entry), \A p \in 1 .. Len(tr) : tr[p].kind = "reserved",
         NEW i \in 0 .. Len(tr), NEW t
  PROVE  Held(tr, i, t) = 0
<1>1. Len(tr) \in Nat
  BY LenProperties
<1>2. \A p \in 1 .. i : tr[p].kind = "reserved"
  BY <1>1
<1>3. Holders(tr, i, t) = {}
  BY <1>2 DEF Holders, Did
<1>4. UnitsOf({}) = {}
  BY DEF UnitsOf
<1> QED
  BY <1>3, <1>4, FS_EmptySet DEF Held

LEMMA PoolsReserve ==
  ASSUME ReservesFit,
         NEW n \in Toks, NEW r \in [0 .. n -> Pool], NEW tr \in Seq(Entry),
         PoolsHold(r, tr), PeaksHold(r, tr),
         NEW k \in Reqs, Script[k].op = "reserve", ~Seen(tr, k),
         Script[k].req <= r[0].avail,
         \A p \in 1 .. Len(tr) : tr[p].kind = "reserved"
  PROVE  LET q == resource_reserve(Script[k].req, r)
             tr2 == tr \o <<Did("reserved", k, n + 1)>>
         IN  /\ n + 1 \in Toks
             /\ r[0].avail <= r[0].max
             /\ PoolsHold(q, tr2) /\ PeaksHold(q, tr2)
<1> DEFINE d == Did("reserved", k, n + 1)
           tr2 == tr \o <<d>>
           req == Script[k].req
           q == resource_reserve(req, r)
           All == {j \in Reqs : Script[j].op = "reserve"}
<1>1. n \in Nat /\ MAX_RESERVE \in Nat /\ req \in Nat /\ DOMAIN r = 0 .. n /\ num_tokens(r) = n
  BY ScriptFacts, ResourceAssumption, NumTokens DEF Toks
<1>2. Reserved(tr) \subseteq All /\ k \in All \ Reserved(tr)
  BY DEF PoolsHold, Reserved, Seen
<1>3. /\ IsFiniteSet(All) /\ IsFiniteSet(Reserved(tr))
  BY ResourceAssumption, FS_Subset DEF Reserved
<1>4. /\ Cardinality(Reserved(tr)) = n
      /\ Cardinality(Reserved(tr) \cup {k}) = n + 1
  BY <1>1, <1>2, <1>3, FS_AddElement DEF PoolsHold
<1>5. n + 1 <= MAX_RESERVE
  <2>1. Cardinality(Reserved(tr) \cup {k}) <= Cardinality(All)
    BY <1>2, <1>3, FS_Subset
  <2>2. Cardinality(All) <= MAX_RESERVE /\ Cardinality(All) \in Nat
    BY <1>3, FS_CardinalityType DEF ReservesFit
  <2> HIDE DEF All
  <2> QED
    BY <2>1, <2>2, <1>1, <1>4
<1>6. n + 1 \in Toks
  BY <1>1, <1>5 DEF Toks
<1>7. d \in Entry /\ d.kind = "reserved" /\ d.tok = n + 1 /\ d.k = k
  BY <1>6 DEF Did, Entry
<1>8. /\ tr2 \in Seq(Entry) /\ Len(tr) \in Nat /\ Len(tr2) = Len(tr) + 1
      /\ \A p \in 1 .. Len(tr) : tr2[p] = tr[p]
      /\ tr2[Len(tr) + 1] = d
  BY <1>7, Extended
<1>9. \A u \in 0 .. n : /\ r[u].avail + Held(tr, Len(tr), u) = r[u].max
                        /\ Held(tr, Len(tr), u) = 0
                        /\ r[u].avail \in Nat /\ r[u].max \in Nat /\ r[u].min_avail \in Nat
  <2>1. Len(tr) \in 0 .. Len(tr)
    BY <1>8
  <2> QED
    BY <2>1, NothingHeld, PoolFacts DEF PoolsHold
<1>10. r[0].avail <= r[0].max
  BY <1>1, <1>9
<1>11. /\ q \in [0 .. n + 1 -> Pool]
       /\ num_tokens(q) = n + 1
       /\ q[0].avail = r[0].avail - req /\ q[0].max = r[0].max - req
       /\ q[n + 1].avail = req /\ q[n + 1].max = req /\ q[n + 1].min_avail = req
       /\ \A u \in 1 .. n : q[u] = r[u]
  <2>1. n \in Nat /\ req \in Nat /\ req <= r[0].avail /\ r[0].avail <= r[0].max
    BY <1>1, <1>10
  <2>2. r \in [0 .. n -> Pool]
    OBVIOUS
  <2> HIDE DEF req
  <2> QED
    BY ONLY <2>1, <2>2, PoolReserve
<1>12. IsFiniteSet(UnitsIn(q)) /\ Cardinality(UnitsIn(q)) = Cardinality(UnitsIn(r))
  BY <1>1, <1>10, UnitsInReserve DEF PoolsHold
<1>13. Reserved(tr2) = Reserved(tr) \cup {k}
  BY <1>7, ReservedMore
<1> HIDE DEF q, req, d, tr2
<1>14. \A p \in 1 .. Len(tr2) : tr2[p].kind = "reserved" /\ tr2[p].tok \in 0 .. n + 1
  <2>1. \A p \in 1 .. Len(tr) : tr[p].tok \in 0 .. n + 1
    BY <1>1 DEF PoolsHold
  <2>2. 1 .. Len(tr2) = (1 .. Len(tr)) \cup {Len(tr) + 1}
    BY <1>8
  <2>3. n + 1 \in 0 .. n + 1
    BY <1>1
  <2> QED
    BY <2>1, <2>2, <2>3, <1>7, <1>8
<1>15. \A i \in 0 .. Len(tr2), t \in 0 .. n + 1 : Held(tr2, i, t) = 0
  <2>1. tr2 \in Seq(Entry) /\ \A p \in 1 .. Len(tr2) : tr2[p].kind = "reserved"
    BY <1>8, <1>14
  <2> SUFFICES ASSUME NEW i \in 0 .. Len(tr2), NEW t \in 0 .. n + 1
               PROVE  Held(tr2, i, t) = 0
    OBVIOUS
  <2> QED
    BY <2>1, NothingHeld
<1>16. \A u \in 0 .. n + 1 : u = 0 \/ u = n + 1 \/ u \in 1 .. n
  BY <1>1
<1>17. Len(tr2) \in 0 .. Len(tr2) /\ DOMAIN q = 0 .. n + 1
  BY <1>8, <1>11
<1>18. PoolsHold(q, tr2)
  <2>1. ASSUME NEW u \in 0 .. n + 1
        PROVE  q[u].avail + Held(tr2, Len(tr2), u) = q[u].max
    <3>1. Held(tr2, Len(tr2), u) = 0
      BY <1>15, <1>17
    <3>2. CASE u = 0
      BY <1>1, <1>9, <1>11, <3>1, <3>2
    <3>3. CASE u = n + 1
      BY <1>1, <1>11, <3>1, <3>3
    <3>4. CASE u \in 1 .. n
      <4>1. q[u] = r[u] /\ u \in 0 .. n
        BY <1>1, <1>11, <3>4
      <4> QED
        BY <1>9, <3>1, <4>1
    <3> QED
      BY <1>16, <3>2, <3>3, <3>4
  <2>2. \A j \in Reserved(tr2) : Script[j].op = "reserve"
    BY <1>2, <1>13
  <2>3. Cardinality(Reserved(tr2)) = num_tokens(q)
    BY <1>4, <1>11, <1>13
  <2> QED
    BY <2>1, <2>2, <2>3, <1>12, <1>14, <1>17 DEF PoolsHold
<1>19. ASSUME NEW u \in 0 .. n + 1, u # 0
       PROVE  q[u].min_avail <= q[u].max /\ q[u].max - q[u].min_avail = 0
  <2>1. CASE u = n + 1
    BY <1>1, <1>11, <2>1
  <2>2. CASE u # n + 1
    <3>1. u \in 1 .. n /\ q[u] = r[u] /\ u \in DOMAIN r \ {0} /\ u \in 0 .. n
      BY <1>1, <1>11, <1>16, <1>19, <2>2
    <3>2. \A i \in 0 .. Len(tr) : Held(tr, i, u) = 0
      BY NothingHeld
    <3>3. /\ r[u].min_avail <= r[u].max
          /\ \E i \in 0 .. Len(tr) : Held(tr, i, u) = r[u].max - r[u].min_avail
      BY <3>1 DEF PeaksHold
    <3> QED
      BY <3>1, <3>2, <3>3
  <2> QED
    BY <2>1, <2>2
<1>20. PeaksHold(q, tr2)
  <2>1. ASSUME NEW u \in 0 .. n + 1, u # 0
        PROVE  /\ q[u].min_avail <= q[u].max
               /\ \A i \in 0 .. Len(tr2) : Held(tr2, i, u) <= q[u].max - q[u].min_avail
               /\ \E i \in 0 .. Len(tr2) : Held(tr2, i, u) = q[u].max - q[u].min_avail
    BY <1>15, <1>17, <1>19, <2>1
  <2>2. ~\E p \in 1 .. Len(tr2) : tr2[p].kind = "granted" /\ tr2[p].tok = 0
    BY <1>14
  <2> QED
    BY <2>1, <2>2, <1>17 DEF PeaksHold
<1> QED
  BY <1>6, <1>10, <1>18, <1>20 DEF q, req, tr2, d

-----------------------------------------------------------------------------
(* A step that is about request k only: the timeline tr becomes tr2, and   *)
(* event e is replaced by the events sent.                                 *)

TraceStep(tr, tr2, k) ==
  /\ \A j : Seen(tr2, j) => Seen(tr, j) \/ j = k
  /\ \A kind, j, t : Happened(tr, kind, j, t) => Happened(tr2, kind, j, t)
  /\ \A kind, j, t : j # k /\ Happened(tr2, kind, j, t) => Happened(tr, kind, j, t)

EventStep(E, e, sent, k) ==
  /\ \A f \in sent : f.type # "DEQ" => f.k = k /\ f.type \notin {"GET", "RESERVE"}
  /\ \A f, g \in sent : f.type # "DEQ" /\ g.type # "DEQ" => f = g
  /\ \A f \in E \ {e} : f.type # "DEQ" => f.k # k

LEMMA TraceStepDid ==
  ASSUME NEW tr \in Seq(Entry), NEW d \in Entry
  PROVE  TraceStep(tr, tr \o <<d>>, d.k)
<1> DEFINE tr2 == tr \o <<d>>
<1>1. /\ \A k : Seen(tr2, k) <=> Seen(tr, k) \/ k = d.k
      /\ \A kind, k, t : Happened(tr2, kind, k, t) <=>
                           Happened(tr, kind, k, t) \/ d = Did(kind, k, t)
  BY ExtendedSeen
<1>2. \A kind, k, t : d = Did(kind, k, t) => k = d.k
  BY DEF Did
<1> HIDE DEF tr2
<1>3. TraceStep(tr, tr2, d.k)
  BY <1>1, <1>2 DEF TraceStep
<1> QED
  BY <1>3 DEF tr2

LEMMA TraceStepNone ==
  ASSUME NEW tr, NEW k
  PROVE  TraceStep(tr, tr, k)
BY DEF TraceStep

LEMMA ComingStep ==
  ASSUME NEW E, NEW e, NEW sent, NEW k, EventStep(E, e, sent, k)
  PROVE  /\ \A j : Coming((E \ {e}) \cup sent, j) => Coming(E, j) \/ j = k
         /\ \A j : j # k /\ Coming((E \ {e}) \cup sent, j) => Coming(E, j)
         /\ (\A f \in sent : f.type = "DEQ") => ~Coming((E \ {e}) \cup sent, k)
BY DEF EventStep, Coming

LEMMA LifeOfEventsStep ==
  ASSUME NEW E, NEW e, NEW sent, NEW k, EventStep(E, e, sent, k),
         NEW tr, NEW tr2, TraceStep(tr, tr2, k), LifeOfEvents(E, tr),
         \A f \in sent :
           f.type = "FREE" \/ (f.type = "ACK" /\ Script[k].op = "get" /\ f.ret = 0) =>
             Happened(tr2, "granted", k, f.tok) /\ ~Happened(tr2, "freed", k, f.tok)
  PROVE  LifeOfEvents((E \ {e}) \cup sent, tr2)
<1> DEFINE E2 == (E \ {e}) \cup sent
<1>1. ASSUME NEW f \in E2, NEW g \in E2, f.type # "DEQ", g.type # "DEQ", f.k = g.k
      PROVE  f = g
  BY <1>1 DEF EventStep, LifeOfEvents
<1>2. ASSUME NEW f \in E2, f.type \in {"GET", "RESERVE"}
      PROVE  ~Seen(tr2, f.k)
  <2>1. f \in E \ {e} /\ f.k # k
    BY <1>2 DEF EventStep
  <2> QED
    BY <1>2, <2>1 DEF LifeOfEvents, TraceStep
<1>3. ASSUME NEW f \in E2, f.type = "FREE" \/ (f.type = "ACK" /\ Script[f.k].op = "get" /\ f.ret = 0)
      PROVE  Happened(tr2, "granted", f.k, f.tok) /\ ~Happened(tr2, "freed", f.k, f.tok)
  <2>1. CASE f \in sent
    <3>1. f.k = k
      BY <1>3, <2>1 DEF EventStep
    <3> QED
      BY <1>3, <2>1, <3>1
  <2>2. CASE f \in E \ {e}
    <3>1. f.k # k
      BY <1>3, <2>2 DEF EventStep
    <3>2. Happened(tr, "granted", f.k, f.tok) /\ ~Happened(tr, "freed", f.k, f.tok)
      BY <1>3, <2>2 DEF LifeOfEvents
    <3> QED
      BY <3>1, <3>2 DEF TraceStep
  <2> QED
    BY <2>1, <2>2
<1> HIDE DEF E2
<1>4. LifeOfEvents(E2, tr2)
  BY <1>1, <1>2, <1>3 DEF LifeOfEvents
<1> QED
  BY <1>4 DEF E2

\* the other requests that wait
LEMMA LifeOfWaitingStep ==
  ASSUME NEW E, NEW e, NEW sent, NEW k, EventStep(E, e, sent, k),
         NEW tr, NEW tr2, TraceStep(tr, tr2, k),
         NEW pending, LifeOfWaiting(pending, E, tr),
         NEW t \in Toks, NEW j \in Reqs, j # k, Waits(pending, j, t)
  PROVE  MayWait((E \ {e}) \cup sent, tr2, j, t)
<1>1. /\ Script[j].op = "get"
      /\ ~Coming(E, j)
      /\ \A u \in Toks : ~Happened(tr, "granted", j, u) /\ ~Happened(tr, "freed", j, u)
      /\ Happened(tr, "queued", j, t)
  BY DEF LifeOfWaiting, MayWait
<1>2. ~Coming((E \ {e}) \cup sent, j)
  BY <1>1, ComingStep
<1> QED
  BY <1>1, <1>2 DEF TraceStep, MayWait

LEMMA LifeOfScriptStep ==
  ASSUME NEW E, NEW e, NEW sent, NEW k, EventStep(E, e, sent, k),
         NEW tr, NEW tr2, TraceStep(tr, tr2, k),
         NEW A, LifeOfScript(E, tr, A),
         k \in Reqs => Coming(E, k) \/ Seen(tr, k),
         k \in Reqs /\ Script[k].op = "reserve" => Coming(E, k)
  PROVE  LifeOfScript((E \ {e}) \cup sent, tr2, A)
<1> DEFINE E2 == (E \ {e}) \cup sent
<1>1. \A j : Coming(E2, j) => Coming(E, j) \/ j = k
  BY ComingStep
<1> HIDE DEF E2
<1>2. ASSUME NEW j \in Reqs, Coming(E2, j) \/ Seen(tr2, j)
      PROVE  IF Script[j].of = NoReq THEN j \in A
             ELSE Script[j].of \in A /\ ~Coming(E2, Script[j].of)
  <2>1. Coming(E, j) \/ Seen(tr, j)
    BY <1>1, <1>2 DEF TraceStep
  <2>2. IF Script[j].of = NoReq THEN j \in A
        ELSE Script[j].of \in A /\ ~Coming(E, Script[j].of)
    BY <2>1 DEF LifeOfScript
  <2>3. ASSUME Script[j].of # NoReq PROVE ~Coming(E2, Script[j].of)
    <3>1. Script[j].of \in Reqs /\ Script[Script[j].of].op = "reserve"
      BY <2>3, ScriptFacts
    <3>2. ~Coming(E, Script[j].of)
      BY <2>2, <2>3
    <3> QED
      BY <1>1, <3>1, <3>2
  <2> QED
    BY <2>2, <2>3
<1>3. LifeOfScript(E2, tr2, A)
  BY <1>2 DEF LifeOfScript
<1> QED
  BY <1>3 DEF E2

-----------------------------------------------------------------------------
(* The queues, and the order of the timeline.                              *)

\* one request more at the end of a queue
LEMMA QueueAppend ==
  ASSUME NEW pending \in [Toks -> Seq(Reqs)], NEW t \in Toks, NEW k \in Reqs
  PROVE  LET P2 == [pending EXCEPT ![t] = Append(@, k)]
         IN  /\ P2 \in [Toks -> Seq(Reqs)]
             /\ Len(pending[t]) \in Nat
             /\ Len(P2[t]) = Len(pending[t]) + 1
             /\ \A q \in 1 .. Len(pending[t]) : P2[t][q] = pending[t][q]
             /\ P2[t][Len(pending[t]) + 1] = k
             /\ \A u \in Toks : u # t => P2[u] = pending[u]
             /\ \A j, u : u \in Toks => (Waits(P2, j, u) <=> Waits(pending, j, u) \/ (j = k /\ u = t))
<1> DEFINE P2 == [pending EXCEPT ![t] = Append(@, k)]
<1>1. pending[t] \in Seq(Reqs)
  OBVIOUS
<1>2. P2[t] = Append(pending[t], k) /\ \A u \in Toks : u # t => P2[u] = pending[u]
  OBVIOUS
<1>3. /\ Append(pending[t], k) \in Seq(Reqs)
      /\ Len(pending[t]) \in Nat
      /\ Len(Append(pending[t], k)) = Len(pending[t]) + 1
      /\ \A q \in 1 .. Len(pending[t]) : Append(pending[t], k)[q] = pending[t][q]
      /\ Append(pending[t], k)[Len(pending[t]) + 1] = k
  BY <1>1, AppendProperties, LenProperties
<1>4. P2 \in [Toks -> Seq(Reqs)]
  BY <1>1, <1>3
<1> HIDE DEF P2
<1>5. 1 .. Len(P2[t]) = (1 .. Len(pending[t])) \cup {Len(pending[t]) + 1}
  BY <1>2, <1>3
<1>6. ASSUME NEW j, NEW u \in Toks
      PROVE  Waits(P2, j, u) <=> Waits(pending, j, u) \/ (j = k /\ u = t)
  <2>1. CASE u = t
    BY <1>2, <1>3, <1>5, <2>1 DEF Waits
  <2>2. CASE u # t
    BY <1>2, <2>2 DEF Waits
  <2> QED
    BY <2>1, <2>2
<1> QED
  BY <1>2, <1>3, <1>4, <1>6 DEF P2

\* one request less at its head
LEMMA QueueTail ==
  ASSUME NEW pending \in [Toks -> Seq(Reqs)], NEW t \in Toks, pending[t] # << >>,
         QueueOnce(pending)
  PROVE  LET P2 == [pending EXCEPT ![t] = Tail(@)]
             k == Head(pending[t])
         IN  /\ P2 \in [Toks -> Seq(Reqs)]
             /\ k \in Reqs /\ k = pending[t][1] /\ Waits(pending, k, t)
             /\ Len(P2[t]) \in Nat /\ Len(pending[t]) = Len(P2[t]) + 1
             /\ \A q \in 1 .. Len(P2[t]) : P2[t][q] = pending[t][q + 1]
             /\ \A u \in Toks : u # t => P2[u] = pending[u]
             /\ \A j, u : u \in Toks => (Waits(P2, j, u) <=> Waits(pending, j, u) /\ j # k)
             /\ <<k>> \o P2[t] = pending[t]
<1> DEFINE P2 == [pending EXCEPT ![t] = Tail(@)]
           k == Head(pending[t])
<1>1. pending[t] \in Seq(Reqs)
  OBVIOUS
<1>2. P2[t] = Tail(pending[t]) /\ \A u \in Toks : u # t => P2[u] = pending[u]
  OBVIOUS
<1>3. /\ Tail(pending[t]) \in Seq(Reqs) /\ k \in Reqs
      /\ Len(pending[t]) \in Nat /\ Len(Tail(pending[t])) \in Nat
      /\ Len(Tail(pending[t])) = Len(pending[t]) - 1
      /\ \A q \in 1 .. Len(Tail(pending[t])) : Tail(pending[t])[q] = pending[t][q + 1]
  BY <1>1, HeadTailProperties, LenProperties
<1>4. P2 \in [Toks -> Seq(Reqs)]
  BY <1>1, <1>3
<1>5. k = pending[t][1]
  BY <1>1
<1>6. <<k>> \o P2[t] = pending[t]
  BY <1>1, <1>2
<1> HIDE DEF P2, k
<1>7. Len(P2[t]) \in Nat /\ Len(pending[t]) = Len(P2[t]) + 1
      /\ \A q \in 1 .. Len(P2[t]) : P2[t][q] = pending[t][q + 1]
  BY <1>2, <1>3
<1>8. 1 \in 1 .. Len(pending[t])
  BY <1>7
<1>9. Waits(pending, k, t)
  BY <1>5, <1>8 DEF Waits
<1>10. ASSUME NEW j, NEW u \in Toks
       PROVE  Waits(P2, j, u) <=> Waits(pending, j, u) /\ j # k
  <2>1. CASE u # t
    <3>1. ~Waits(pending, k, u)
      BY <1>5, <1>8, <2>1 DEF QueueOnce, Waits
    <3> QED
      BY <1>2, <2>1, <3>1 DEF Waits
  <2>2. CASE u = t
    <3>1. ASSUME Waits(P2, j, t) PROVE Waits(pending, j, t) /\ j # k
      <4>1. PICK q \in 1 .. Len(P2[t]) : P2[t][q] = j
        BY <3>1 DEF Waits
      <4>2. q + 1 \in 1 .. Len(pending[t]) /\ pending[t][q + 1] = j /\ q + 1 # 1
        BY <1>7, <4>1
      <4>3. j # k
        BY <1>5, <1>8, <4>2 DEF QueueOnce
      <4> QED
        BY <4>2, <4>3 DEF Waits
    <3>2. ASSUME Waits(pending, j, t), j # k PROVE Waits(P2, j, t)
      <4>1. PICK q \in 1 .. Len(pending[t]) : pending[t][q] = j
        BY <3>2 DEF Waits
      <4>2. q # 1
        BY <1>5, <3>2, <4>1
      <4>3. q - 1 \in 1 .. Len(P2[t])
        BY <1>7, <4>1, <4>2
      <4>4. P2[t][q - 1] = pending[t][(q - 1) + 1] /\ (q - 1) + 1 = q
        BY <1>7, <4>3
      <4> QED
        BY <4>1, <4>3, <4>4 DEF Waits
    <3> QED
      BY <2>2, <3>1, <3>2
  <2> QED
    BY <2>1, <2>2
<1> QED
  BY <1>2, <1>3, <1>4, <1>5, <1>6, <1>7, <1>9, <1>10 DEF P2, k

\* a step that neither queues nor grants
LEMMA OrderSame ==
  ASSUME NEW tr \in Seq(Entry), NEW d \in Entry, d.kind \notin {"queued", "granted"},
         NEW pending, QueueHolds(pending, tr), QueueOrder(pending, tr), InOrder(tr)
  PROVE  LET tr2 == tr \o <<d>>
         IN  QueueHolds(pending, tr2) /\ QueueOrder(pending, tr2) /\ InOrder(tr2)
<1> DEFINE tr2 == tr \o <<d>>
           n == Len(tr) + 1
<1>1. /\ tr2 \in Seq(Entry)
      /\ Len(tr) \in Nat
      /\ Len(tr2) = n
      /\ \A p \in 1 .. Len(tr) : tr2[p] = tr[p]
      /\ tr2[n] = d
  BY Extended
<1>2. DOMAIN tr = 1 .. Len(tr) /\ DOMAIN tr2 = 1 .. n
  BY <1>1, LenProperties
<1>3. \A p \in 1 .. n : p # n => p \in 1 .. Len(tr)
  BY <1>1
<1>4. \A kind, k, t : Happened(tr2, kind, k, t) <=> Happened(tr, kind, k, t) \/ d = Did(kind, k, t)
  BY ExtendedSeen
<1>5. \A k, t : d # Did("queued", k, t) /\ d # Did("granted", k, t)
  BY DEF Did
<1> HIDE DEF tr2
<1>6. QueueHolds(pending, tr2)
  BY <1>4, <1>5 DEF QueueHolds
<1>7. QueueOrder(pending, tr2)
  BY <1>1, <1>3, <1>5 DEF QueueOrder
<1>8. InOrder(tr2)
  <2> SUFFICES ASSUME NEW i \in 1 .. n, NEW j \in 1 .. n, i < j,
                      tr2[i].kind = "queued",
                      tr2[j].kind \in {"queued", "granted"},
                      tr2[i].tok = tr2[j].tok,
                      ~\E p \in 1 .. j - 1 : tr2[p].k = tr2[j].k,
                      NEW g \in 1 .. n,
                      tr2[g] = Did("granted", tr2[j].k, tr2[j].tok)
               PROVE  \E f \in 1 .. g - 1 : tr2[f] = Did("granted", tr2[i].k, tr2[i].tok)
    BY <1>2 DEF InOrder
  <2>1. i # n /\ j # n /\ g # n
    BY <1>1, <1>5
  <2>2. /\ i \in 1 .. Len(tr) /\ j \in 1 .. Len(tr) /\ g \in 1 .. Len(tr)
        /\ tr2[i] = tr[i] /\ tr2[j] = tr[j] /\ tr2[g] = tr[g]
    BY <1>1, <1>3, <2>1
  <2>3. \A p \in 1 .. j - 1 : p \in 1 .. Len(tr) /\ tr2[p] = tr[p]
    BY <1>1, <2>2
  <2>4. \A p \in 1 .. g - 1 : p \in 1 .. Len(tr) /\ tr2[p] = tr[p]
    BY <1>1, <2>2
  <2>5. \E f \in 1 .. g - 1 : tr[f] = Did("granted", tr[i].k, tr[i].tok)
    BY <1>2, <2>2, <2>3 DEF InOrder
  <2> QED
    BY <2>2, <2>4, <2>5
<1> QED
  BY <1>6, <1>7, <1>8 DEF tr2

\* a grant keeps the timeline in order if those who were queued before k have
\* been granted
LEMMA InOrderGrant ==
  ASSUME NEW tr \in Seq(Entry), InOrder(tr), NEW k \in Reqs, NEW t \in Toks,
         \A i, j \in 1 .. Len(tr) :
           /\ i < j
           /\ tr[i].kind = "queued" /\ tr[i].tok = t
           /\ tr[j].kind \in {"queued", "granted"} /\ tr[j].k = k /\ tr[j].tok = t
           /\ ~\E p \in 1 .. j - 1 : tr[p].k = k
           => Happened(tr, "granted", tr[i].k, t),
         \A i \in 1 .. Len(tr) :
           tr[i].kind = "queued" /\ tr[i].tok = t /\ ~Seen(tr, k) =>
             Happened(tr, "granted", tr[i].k, t)
  PROVE  InOrder(tr \o <<Did("granted", k, t)>>)
<1> DEFINE d == Did("granted", k, t)
           tr2 == tr \o <<d>>
           n == Len(tr) + 1
<1>0. d \in Entry /\ d.kind = "granted" /\ d.k = k /\ d.tok = t
  BY DEF Did, Entry
<1>1. /\ tr2 \in Seq(Entry)
      /\ Len(tr) \in Nat
      /\ Len(tr2) = n
      /\ \A p \in 1 .. Len(tr) : tr2[p] = tr[p]
      /\ tr2[n] = d
  BY <1>0, Extended
<1>2. DOMAIN tr = 1 .. Len(tr) /\ DOMAIN tr2 = 1 .. n
  BY <1>1, LenProperties
<1>3. \A p \in 1 .. n : p # n => p \in 1 .. Len(tr)
  BY <1>1
<1>4. \A a1, b1 : d = Did("granted", a1, b1) => a1 = k /\ b1 = t
  BY DEF Did
<1> HIDE DEF tr2, d
<1>8. InOrder(tr2)
  <2> SUFFICES \A i, j \in DOMAIN tr2 :
                 /\ i < j
                 /\ tr2[i].kind = "queued"
                 /\ tr2[j].kind \in {"queued", "granted"}
                 /\ tr2[i].tok = tr2[j].tok
                 /\ ~\E p \in 1 .. j - 1 : tr2[p].k = tr2[j].k
                 => \A g \in DOMAIN tr2 :
                      tr2[g] = Did("granted", tr2[j].k, tr2[j].tok) =>
                        \E f \in 1 .. g - 1 : tr2[f] = Did("granted", tr2[i].k, tr2[i].tok)
    BY DEF InOrder
  <2> TAKE i, j \in DOMAIN tr2
  <2> HAVE /\ i < j
           /\ tr2[i].kind = "queued"
           /\ tr2[j].kind \in {"queued", "granted"}
           /\ tr2[i].tok = tr2[j].tok
           /\ ~\E p \in 1 .. j - 1 : tr2[p].k = tr2[j].k
  <2> TAKE g \in DOMAIN tr2
  <2> HAVE tr2[g] = Did("granted", tr2[j].k, tr2[j].tok)
  <2> i \in 1 .. n /\ j \in 1 .. n /\ g \in 1 .. n
    BY <1>2
  <2>1. i \in 1 .. Len(tr) /\ tr2[i] = tr[i]
    BY <1>1
  <2>2. \A p \in 1 .. j - 1 : p \in 1 .. Len(tr) /\ tr2[p] = tr[p]
    BY <1>1
  <2>3. \A p \in 1 .. g - 1 : p \in 1 .. Len(tr) /\ tr2[p] = tr[p]
    BY <1>1
  <2>4. CASE g # n /\ j # n
    <3>1. /\ j \in 1 .. Len(tr) /\ g \in 1 .. Len(tr)
          /\ tr2[j] = tr[j] /\ tr2[g] = tr[g]
      BY <1>1, <1>3, <2>4
    <3>2. \E f \in 1 .. g - 1 : tr[f] = Did("granted", tr[i].k, tr[i].tok)
      BY <1>2, <2>1, <2>2, <3>1 DEF InOrder
    <3> QED
      BY <2>1, <2>3, <3>1, <3>2
  <2>5. CASE g = n
    <3>1. tr2[j].k = k /\ tr2[j].tok = t
      BY <1>1, <1>4, <2>5
    <3>2. Happened(tr, "granted", tr[i].k, t)
      <4>1. CASE j = n
        <5>1. ~Seen(tr, k)
          BY <1>1, <2>2, <3>1, <4>1 DEF Seen
        <5> QED
          BY <2>1, <3>1, <5>1
      <4>2. CASE j # n
        <5>1. j \in 1 .. Len(tr) /\ tr2[j] = tr[j]
          BY <1>1, <1>3, <4>2
        <5>2. ~\E p \in 1 .. j - 1 : tr[p].k = k
          BY <2>2, <3>1
        <5> QED
          BY <2>1, <3>1, <5>1, <5>2
      <4> QED
        BY <4>1, <4>2
    <3>3. PICK f \in 1 .. Len(tr) : tr[f] = Did("granted", tr[i].k, t)
      BY <3>2 DEF Happened
    <3>4. f \in 1 .. g - 1 /\ tr2[f] = tr[f]
      BY <1>1, <2>5, <3>3
    <3> QED
      BY <2>1, <3>1, <3>3, <3>4
  <2>6. CASE g # n /\ j = n
    <3>1. g \in 1 .. Len(tr) /\ tr2[g] = tr[g] /\ tr2[j].k = k
      BY <1>0, <1>1, <1>3, <2>6
    <3>2. tr[g].k = k
      BY <3>1 DEF Did
    <3>3. g \in 1 .. j - 1
      BY <1>1, <2>6
    <3> QED
      BY <3>1, <3>2, <3>3
  <2> QED
    BY <2>4, <2>5, <2>6
<1> QED
  BY <1>8 DEF tr2, d

\* k comes and finds nobody waiting
LEMMA OrderGet ==
  ASSUME NEW tr \in Seq(Entry), NEW pending \in [Toks -> Seq(Reqs)],
         NEW k \in Reqs, NEW t \in Toks, pending[t] = << >>, ~Seen(tr, k),
         QueueHolds(pending, tr), QueueOrder(pending, tr), InOrder(tr)
  PROVE  LET tr2 == tr \o <<Did("granted", k, t)>>
         IN  QueueHolds(pending, tr2) /\ QueueOrder(pending, tr2) /\ InOrder(tr2)
<1> DEFINE d == Did("granted", k, t)
           tr2 == tr \o <<d>>
           n == Len(tr) + 1
<1>0. d \in Entry
  BY DEF Did, Entry
<1>1. /\ Len(tr) \in Nat
      /\ Len(tr2) = n
      /\ \A p \in 1 .. Len(tr) : tr2[p] = tr[p] /\ tr[p] \in Entry
      /\ tr2[n] = d
  BY <1>0, Extended
<1>3. \A p \in 1 .. n : p # n => p \in 1 .. Len(tr)
  BY <1>1
<1>4. \A kind, j, u : Happened(tr2, kind, j, u) <=> Happened(tr, kind, j, u) \/ d = Did(kind, j, u)
  BY <1>0, ExtendedSeen
<1>5. \A j, u : d # Did("queued", j, u)
  BY DEF Did
<1> HIDE DEF tr2, d
<1>6. QueueHolds(pending, tr2)
  BY <1>4, <1>5 DEF QueueHolds
<1>2. ASSUME NEW u \in Toks, NEW q \in 1 .. Len(pending[u]), NEW w \in 1 .. Len(pending[u]),
             NEW p \in 1 .. n, NEW o \in 1 .. n, q < w,
             tr2[p] = Did("queued", pending[u][q], u),
             tr2[o] = Did("queued", pending[u][w], u)
      PROVE  p < o
  <2>1. p # n /\ o # n
    BY <1>1, <1>2, <1>5
  <2>2. p \in 1 .. Len(tr) /\ o \in 1 .. Len(tr) /\ tr2[p] = tr[p] /\ tr2[o] = tr[o]
    BY <1>1, <1>3, <2>1
  <2> QED
    BY <1>2, <2>2 DEF QueueOrder
<1>7. QueueOrder(pending, tr2)
  BY <1>1, <1>2 DEF QueueOrder
<1>8. ASSUME NEW i \in 1 .. Len(tr), tr[i].kind = "queued", tr[i].tok = t
      PROVE  Happened(tr, "granted", tr[i].k, t)
  <2>1. tr[i] = Did("queued", tr[i].k, t) /\ tr[i].k \in Reqs
    BY <1>1, <1>8 DEF Did, Entry
  <2>2. Happened(tr, "queued", tr[i].k, t)
    BY <2>1 DEF Happened
  <2>3. ~Waits(pending, tr[i].k, t)
    BY DEF Waits
  <2> QED
    BY <2>1, <2>2, <2>3 DEF QueueHolds
<1>9. InOrder(tr2)
  BY <1>8, InOrderGrant DEF tr2, d
<1> QED
  BY <1>6, <1>7, <1>9 DEF tr2, d

\* k comes and has to wait
LEMMA InOrderQueued ==
  ASSUME NEW tr \in Seq(Entry), NEW d \in Entry, d.kind = "queued", ~Seen(tr, d.k), InOrder(tr)
  PROVE  InOrder(tr \o <<d>>)
<1> DEFINE tr2 == tr \o <<d>>
           n == Len(tr) + 1
<1>1. /\ tr2 \in Seq(Entry)
      /\ Len(tr) \in Nat
      /\ Len(tr2) = n
      /\ \A p \in 1 .. Len(tr) : tr2[p] = tr[p]
      /\ tr2[n] = d
  BY Extended
<1>2. DOMAIN tr = 1 .. Len(tr) /\ DOMAIN tr2 = 1 .. n
  BY <1>1, LenProperties
<1>3. \A p \in 1 .. n : p # n => p \in 1 .. Len(tr)
  BY <1>1
<1>4. \A j, u : d # Did("granted", j, u)
  BY DEF Did
<1> HIDE DEF tr2
<1>5. InOrder(tr2)
  <2> SUFFICES \A i, j \in 1 .. n :
                 /\ i < j
                 /\ tr2[i].kind = "queued"
                 /\ tr2[j].kind \in {"queued", "granted"}
                 /\ tr2[i].tok = tr2[j].tok
                 /\ ~\E p \in 1 .. j - 1 : tr2[p].k = tr2[j].k
                 => \A g \in 1 .. n :
                      tr2[g] = Did("granted", tr2[j].k, tr2[j].tok) =>
                        \E f \in 1 .. g - 1 : tr2[f] = Did("granted", tr2[i].k, tr2[i].tok)
    BY <1>2 DEF InOrder
  <2> TAKE i, j \in 1 .. n
  <2> HAVE /\ i < j
           /\ tr2[i].kind = "queued"
           /\ tr2[j].kind \in {"queued", "granted"}
           /\ tr2[i].tok = tr2[j].tok
           /\ ~\E p \in 1 .. j - 1 : tr2[p].k = tr2[j].k
  <2> TAKE g \in 1 .. n
  <2> HAVE tr2[g] = Did("granted", tr2[j].k, tr2[j].tok)
  <2>1. g # n
    BY <1>1, <1>4
  <2>2. g \in 1 .. Len(tr) /\ tr2[g] = tr[g] /\ tr[g].k = tr2[j].k
    BY <1>1, <1>3, <2>1 DEF Did
  <2>3. j # n
    BY <1>1, <2>2 DEF Seen
  <2>4. /\ i \in 1 .. Len(tr) /\ j \in 1 .. Len(tr)
        /\ tr2[i] = tr[i] /\ tr2[j] = tr[j]
    BY <1>1, <1>3, <2>3
  <2>5. \A p \in 1 .. j - 1 : p \in 1 .. Len(tr) /\ tr2[p] = tr[p]
    BY <1>1, <2>4
  <2>6. \A p \in 1 .. g - 1 : p \in 1 .. Len(tr) /\ tr2[p] = tr[p]
    BY <1>1, <2>2
  <2>7. \E f \in 1 .. g - 1 : tr[f] = Did("granted", tr[i].k, tr[i].tok)
    BY <1>2, <2>2, <2>4, <2>5 DEF InOrder
  <2> QED
    BY <2>4, <2>6, <2>7
<1> QED
  BY <1>5 DEF tr2

\* the places of a queue that got k at its end
LEMMA QueuePlaces ==
  ASSUME NEW pending \in [Toks -> Seq(Reqs)], NEW t \in Toks, NEW k \in Reqs
  PROVE  LET P2 == [pending EXCEPT ![t] = Append(@, k)]
         IN  \A u \in Toks : \A q \in 1 .. Len(P2[u]) :
               \/ u = t /\ q = Len(pending[t]) + 1 /\ P2[u][q] = k
               \/ q \in 1 .. Len(pending[u]) /\ P2[u][q] = pending[u][q]
<1> DEFINE P2 == [pending EXCEPT ![t] = Append(@, k)]
<1>1. /\ Len(pending[t]) \in Nat
      /\ Len(P2[t]) = Len(pending[t]) + 1
      /\ \A q \in 1 .. Len(pending[t]) : P2[t][q] = pending[t][q]
      /\ P2[t][Len(pending[t]) + 1] = k
      /\ \A u \in Toks : u # t => P2[u] = pending[u]
  BY QueueAppend
<1> HIDE DEF P2
<1>2. ASSUME NEW u \in Toks, NEW q \in 1 .. Len(P2[u])
      PROVE  \/ u = t /\ q = Len(pending[t]) + 1 /\ P2[u][q] = k
             \/ q \in 1 .. Len(pending[u]) /\ P2[u][q] = pending[u][q]
  <2>1. CASE u = t
    BY <1>1, <2>1
  <2>2. CASE u # t
    BY <1>1, <2>2
  <2> QED
    BY <2>1, <2>2
<1> QED
  BY <1>2 DEF P2

LEMMA QueueOnceAppend ==
  ASSUME NEW pending \in [Toks -> Seq(Reqs)], NEW t \in Toks, NEW k \in Reqs,
         WaitsNowhere(pending, k), QueueOnce(pending)
  PROVE  QueueOnce([pending EXCEPT ![t] = Append(@, k)])
<1> DEFINE P2 == [pending EXCEPT ![t] = Append(@, k)]
<1>1. \A u \in Toks : \A q \in 1 .. Len(P2[u]) :
         \/ u = t /\ q = Len(pending[t]) + 1 /\ P2[u][q] = k
         \/ q \in 1 .. Len(pending[u]) /\ P2[u][q] = pending[u][q]
  BY QueuePlaces
<1>2. \A u \in Toks : \A q \in 1 .. Len(pending[u]) : pending[u][q] # k
  BY DEF WaitsNowhere, Waits
<1> HIDE DEF P2
<1>3. ASSUME NEW u \in Toks, NEW v \in Toks,
             NEW q \in 1 .. Len(P2[u]), NEW w \in 1 .. Len(P2[v]),
             P2[u][q] = P2[v][w]
      PROVE  u = v /\ q = w
  <2>1. CASE P2[u][q] = k
    BY ZenonT(60), <1>1, <1>2, <1>3, <2>1
  <2>2. CASE P2[u][q] # k
    <3>1. q \in 1 .. Len(pending[u]) /\ P2[u][q] = pending[u][q]
      BY <1>1, <2>2
    <3>2. w \in 1 .. Len(pending[v]) /\ P2[v][w] = pending[v][w]
      BY <1>1, <1>3, <2>2
    <3>3. q \in 1 .. Len(pending[u]) /\ w \in 1 .. Len(pending[v]) /\ pending[u][q] = pending[v][w]
      BY <1>3, <3>1, <3>2
    <3>4. \A q1 \in 1 .. Len(pending[u]), w1 \in 1 .. Len(pending[v]) :
            pending[u][q1] = pending[v][w1] => u = v /\ q1 = w1
      BY DEF QueueOnce
    <3> QED
      BY <3>3, <3>4
  <2> QED
    BY <2>1, <2>2
<1> QED
  BY <1>3 DEF QueueOnce, P2

LEMMA QueueOrderAppend ==
  ASSUME NEW tr \in Seq(Entry), NEW pending \in [Toks -> Seq(Reqs)],
         NEW k \in Reqs, NEW t \in Toks, ~Seen(tr, k), WaitsNowhere(pending, k),
         QueueOrder(pending, tr)
  PROVE  QueueOrder([pending EXCEPT ![t] = Append(@, k)], tr \o <<Did("queued", k, t)>>)
<1> DEFINE d == Did("queued", k, t)
           tr2 == tr \o <<d>>
           n == Len(tr) + 1
           P2 == [pending EXCEPT ![t] = Append(@, k)]
<1>0. d \in Entry
  BY DEF Did, Entry
<1>1. /\ Len(tr) \in Nat
      /\ Len(tr2) = n
      /\ \A p \in 1 .. Len(tr) : tr2[p] = tr[p]
      /\ tr2[n] = d
  BY <1>0, Extended
<1>2. \A u \in Toks : \A q \in 1 .. Len(P2[u]) :
         \/ u = t /\ q = Len(pending[t]) + 1 /\ P2[u][q] = k
         \/ q \in 1 .. Len(pending[u]) /\ P2[u][q] = pending[u][q]
  BY QueuePlaces
<1>3. Len(P2[t]) = Len(pending[t]) + 1 /\ Len(pending[t]) \in Nat
  BY QueueAppend
<1>4. \A u \in Toks : \A q \in 1 .. Len(pending[u]) : pending[u][q] # k
  BY DEF WaitsNowhere, Waits
<1>5. \A j, u : d = Did("queued", j, u) => j = k /\ u = t
  BY DEF Did
<1>6. \A p \in 1 .. Len(tr) : \A j, u : tr[p] = Did("queued", j, u) => j # k
  BY DEF Did, Seen
<1> HIDE DEF tr2, d, P2
<1>7. ASSUME NEW u \in Toks, NEW q \in 1 .. Len(P2[u]), NEW w \in 1 .. Len(P2[u]),
             NEW p \in 1 .. n, NEW o \in 1 .. n, q < w,
             tr2[p] = Did("queued", P2[u][q], u),
             tr2[o] = Did("queued", P2[u][w], u)
      PROVE  p < o
  <2>1. q \in 1 .. Len(pending[u]) /\ P2[u][q] = pending[u][q] /\ P2[u][q] # k
    BY <1>2, <1>3, <1>4, <1>7
  <2>2. p # n
    BY <1>1, <1>5, <1>7, <2>1
  <2>3. p \in 1 .. Len(tr) /\ tr2[p] = tr[p]
    BY <1>1, <2>2
  <2>4. CASE o = n
    BY <1>1, <2>3, <2>4
  <2>5. CASE o # n
    <3>1. o \in 1 .. Len(tr) /\ tr2[o] = tr[o]
      BY <1>1, <2>5
    <3>2. P2[u][w] # k
      BY <1>6, <1>7, <3>1
    <3>3. w \in 1 .. Len(pending[u]) /\ P2[u][w] = pending[u][w]
      BY <1>2, <3>2
    <3> QED
      BY <1>7, <2>1, <2>3, <3>1, <3>3 DEF QueueOrder
  <2> QED
    BY <2>4, <2>5
<1>8. QueueOrder(P2, tr2)
  BY <1>1, <1>7 DEF QueueOrder
<1> QED
  BY <1>8 DEF P2, tr2, d

LEMMA OrderQueued ==
  ASSUME NEW tr \in Seq(Entry), NEW pending \in [Toks -> Seq(Reqs)],
         NEW k \in Reqs, NEW t \in Toks, ~Seen(tr, k), WaitsNowhere(pending, k),
         QueueHolds(pending, tr), QueueOnce(pending), QueueOrder(pending, tr), InOrder(tr)
  PROVE  LET tr2 == tr \o <<Did("queued", k, t)>>
             P2 == [pending EXCEPT ![t] = Append(@, k)]
         IN  QueueHolds(P2, tr2) /\ QueueOnce(P2) /\ QueueOrder(P2, tr2) /\ InOrder(tr2)
<1> DEFINE d == Did("queued", k, t)
           tr2 == tr \o <<d>>
           P2 == [pending EXCEPT ![t] = Append(@, k)]
<1>0. d \in Entry /\ d.kind = "queued" /\ d.k = k
  BY DEF Did, Entry
<1>1. \A kind, j, u : Happened(tr2, kind, j, u) <=> Happened(tr, kind, j, u) \/ d = Did(kind, j, u)
  BY <1>0, ExtendedSeen
<1>2. \A j, u : d = Did("queued", j, u) => j = k /\ u = t
  BY DEF Did
<1>3. \A j, u : u \in Toks => (Waits(P2, j, u) <=> Waits(pending, j, u) \/ (j = k /\ u = t))
  BY QueueAppend
<1>4. InOrder(tr2)
  BY <1>0, InOrderQueued
<1>5. QueueOnce(P2) /\ QueueOrder(P2, tr2)
  BY QueueOnceAppend, QueueOrderAppend
<1> HIDE DEF tr2, d, P2
<1>8. QueueHolds(P2, tr2)
  <2> SUFFICES ASSUME NEW u \in Toks, NEW j \in Reqs, Happened(tr2, "queued", j, u)
               PROVE  Waits(P2, j, u) \/ Happened(tr2, "granted", j, u)
    BY DEF QueueHolds
  <2>1. CASE j = k /\ u = t
    BY <1>3, <2>1
  <2>2. CASE Happened(tr, "queued", j, u)
    <3>1. Waits(pending, j, u) \/ Happened(tr, "granted", j, u)
      BY <2>2 DEF QueueHolds
    <3> QED
      BY <3>1, <1>1, <1>3
  <2> QED
    BY <1>1, <1>2, <2>1, <2>2
<1> QED
  BY <1>4, <1>5, <1>8 DEF tr2, d, P2

\* the first of the queue is served
LEMMA InOrderDequeued ==
  ASSUME NEW tr \in Seq(Entry), NEW pending, NEW t \in Toks, NEW k \in Reqs,
         1 \in 1 .. Len(pending[t]), Len(pending[t]) \in Nat, k = pending[t][1],
         Happened(tr, "queued", k, t), ~Happened(tr, "granted", k, t),
         QueueHolds(pending, tr), QueueOrder(pending, tr), InOrder(tr)
  PROVE  InOrder(tr \o <<Did("granted", k, t)>>)
<1>1. \A p \in 1 .. Len(tr) : tr[p] \in Entry
  BY ElementOfSeq
<1>2. Seen(tr, k)
  BY DEF Seen, Happened, Did
<1>3. ASSUME NEW i \in 1 .. Len(tr), NEW j \in 1 .. Len(tr), i < j,
             tr[i].kind = "queued", tr[i].tok = t,
             tr[j].kind \in {"queued", "granted"}, tr[j].k = k, tr[j].tok = t,
             ~\E p \in 1 .. j - 1 : tr[p].k = k
      PROVE  Happened(tr, "granted", tr[i].k, t)
  <2>1. tr[i] = Did("queued", tr[i].k, t) /\ tr[i].k \in Reqs
    BY <1>1, <1>3 DEF Did, Entry
  <2>2. tr[j].kind # "granted"
    <3>1. tr[j] = Did(tr[j].kind, k, t)
      BY <1>1, <1>3 DEF Did, Entry
    <3> QED
      BY <3>1 DEF Happened
  <2>3. tr[j] = Did("queued", k, t)
    BY <1>1, <1>3, <2>2 DEF Did, Entry
  <2>4. Happened(tr, "queued", tr[i].k, t)
    BY <2>1 DEF Happened
  <2>5. ASSUME Waits(pending, tr[i].k, t) PROVE FALSE
    <3>1. PICK q \in 1 .. Len(pending[t]) : pending[t][q] = tr[i].k
      BY <2>5 DEF Waits
    <3>2. i \in 1 .. j - 1
      BY <1>3
    <3>3. tr[i].k # k
      BY <1>3, <3>2
    <3>4. q # 1
      BY <3>1, <3>3
    <3>5. 1 < q
      BY <3>1, <3>4
    <3>6. tr[j] = Did("queued", pending[t][1], t) /\ tr[i] = Did("queued", pending[t][q], t)
      BY <2>1, <2>3, <3>1
    <3>7. j < i
      BY <3>1, <3>5, <3>6 DEF QueueOrder
    <3> QED
      BY <1>3, <3>7
  <2> QED
    BY <2>1, <2>4, <2>5 DEF QueueHolds
<1> QED
  BY <1>2, <1>3, InOrderGrant

LEMMA OrderDequeued ==
  ASSUME NEW tr \in Seq(Entry), NEW pending \in [Toks -> Seq(Reqs)], NEW t \in Toks,
         pending[t] # << >>, NEW k, k = Head(pending[t]),
         Happened(tr, "queued", k, t), ~Happened(tr, "granted", k, t),
         QueueHolds(pending, tr), QueueOnce(pending), QueueOrder(pending, tr), InOrder(tr)
  PROVE  LET tr2 == tr \o <<Did("granted", k, t)>>
             P2 == [pending EXCEPT ![t] = Tail(@)]
         IN  QueueHolds(P2, tr2) /\ QueueOnce(P2) /\ QueueOrder(P2, tr2) /\ InOrder(tr2)
<1> DEFINE d == Did("granted", k, t)
           tr2 == tr \o <<d>>
           P2 == [pending EXCEPT ![t] = Tail(@)]
           n == Len(tr) + 1
<1>1. /\ P2 \in [Toks -> Seq(Reqs)]
      /\ k \in Reqs /\ k = pending[t][1]
      /\ Len(P2[t]) \in Nat /\ Len(pending[t]) = Len(P2[t]) + 1
      /\ \A q \in 1 .. Len(P2[t]) : P2[t][q] = pending[t][q + 1]
      /\ \A u \in Toks : u # t => P2[u] = pending[u]
      /\ \A j, u : u \in Toks => (Waits(P2, j, u) <=> Waits(pending, j, u) /\ j # k)
  BY ZenonT(60), QueueTail
<1>2. d \in Entry
  BY <1>1 DEF Did, Entry
<1>3. \A kind, j, u : Happened(tr2, kind, j, u) <=> Happened(tr, kind, j, u) \/ d = Did(kind, j, u)
  BY <1>2, ExtendedSeen
<1>4. /\ Len(tr) \in Nat
      /\ Len(tr2) = n
      /\ \A p \in 1 .. Len(tr) : tr2[p] = tr[p]
      /\ tr2[n] = d
  BY <1>2, Extended
<1>5. \A j, u : d # Did("queued", j, u)
  BY DEF Did
<1>6. 1 \in 1 .. Len(pending[t]) /\ Len(pending[t]) \in Nat
  BY <1>1
<1>7. InOrder(tr2)
  BY <1>1, <1>6, InOrderDequeued
<1> HIDE DEF tr2, P2
<1>8. QueueHolds(P2, tr2)
  <2> SUFFICES ASSUME NEW u \in Toks, NEW j \in Reqs, Happened(tr2, "queued", j, u)
               PROVE  Waits(P2, j, u) \/ Happened(tr2, "granted", j, u)
    BY DEF QueueHolds
  <2>1. Happened(tr, "queued", j, u)
    BY <1>3, <1>5
  <2>2. Waits(pending, j, u) \/ Happened(tr, "granted", j, u)
    BY <2>1 DEF QueueHolds
  <2>3. CASE j # k
    BY <1>1, <1>3, <2>2, <2>3
  <2>4. CASE j = k /\ u = t
    BY <1>3, <2>4
  <2>5. CASE j = k /\ u # t
    <3>1. ~Waits(pending, k, u)
      BY <1>1, <1>6, <2>5 DEF QueueOnce, Waits
    <3> QED
      BY <1>3, <2>2, <2>5, <3>1
  <2> QED
    BY <2>3, <2>4, <2>5
<1> HIDE DEF d
<1>9. \A u \in Toks : \A q \in 1 .. Len(P2[u]) :
        \/ u # t /\ q \in 1 .. Len(pending[u]) /\ P2[u][q] = pending[u][q]
        \/ u = t /\ q + 1 \in 1 .. Len(pending[u]) /\ P2[u][q] = pending[u][q + 1]
  <2> SUFFICES ASSUME NEW u \in Toks, NEW q \in 1 .. Len(P2[u])
               PROVE  \/ u # t /\ q \in 1 .. Len(pending[u]) /\ P2[u][q] = pending[u][q]
                      \/ u = t /\ q + 1 \in 1 .. Len(pending[u]) /\ P2[u][q] = pending[u][q + 1]
    OBVIOUS
  <2>1. CASE u = t
    BY <1>1, <2>1
  <2>2. CASE u # t
    BY <1>1, <2>2
  <2> QED
    BY <2>1, <2>2
<1>10. ASSUME NEW u \in Toks, NEW v \in Toks,
              NEW q \in 1 .. Len(P2[u]), NEW w \in 1 .. Len(P2[v]),
              P2[u][q] = P2[v][w]
       PROVE  u = v /\ q = w
  <2>1. \A q1 \in 1 .. Len(pending[u]), w1 \in 1 .. Len(pending[v]) :
          pending[u][q1] = pending[v][w1] => u = v /\ q1 = w1
    BY DEF QueueOnce
  <2>2. PICK a \in Int : (u # t => a = q) /\ (u = t => a = q + 1) /\ a \in 1 .. Len(pending[u])
                         /\ P2[u][q] = pending[u][a]
    BY <1>9
  <2>3. PICK b \in Int : (v # t => b = w) /\ (v = t => b = w + 1) /\ b \in 1 .. Len(pending[v])
                         /\ P2[v][w] = pending[v][b]
    BY <1>9
  <2>4. u = v /\ a = b
    BY <1>10, <2>1, <2>2, <2>3
  <2> QED
    BY <2>2, <2>3, <2>4
<1>11. QueueOnce(P2)
  BY <1>10 DEF QueueOnce
<1>12. ASSUME NEW u \in Toks, NEW q \in 1 .. Len(P2[u]), NEW w \in 1 .. Len(P2[u]),
              NEW p \in 1 .. n, NEW o \in 1 .. n, q < w,
              tr2[p] = Did("queued", P2[u][q], u),
              tr2[o] = Did("queued", P2[u][w], u)
       PROVE  p < o
  <2>1. p # n /\ o # n
    BY <1>4, <1>5, <1>12
  <2>2. p \in 1 .. Len(tr) /\ o \in 1 .. Len(tr) /\ tr2[p] = tr[p] /\ tr2[o] = tr[o]
    BY <1>4, <2>1
  <2>3. PICK a \in Int, b \in Int :
          /\ a \in 1 .. Len(pending[u]) /\ b \in 1 .. Len(pending[u]) /\ a < b
          /\ P2[u][q] = pending[u][a] /\ P2[u][w] = pending[u][b]
    <3>1. CASE u = t
      <4>1. q + 1 < w + 1
        BY <1>12
      <4> QED
        BY <1>9, <3>1, <4>1
    <3>2. CASE u # t
      BY <1>9, <1>12, <3>2
    <3> QED
      BY <3>1, <3>2
  <2> QED
    BY <1>12, <2>2, <2>3 DEF QueueOrder
<1>13. QueueOrder(P2, tr2)
  BY <1>4, <1>12 DEF QueueOrder
<1> QED
  BY <1>7, <1>8, <1>11, <1>13 DEF P2, tr2, d

-----------------------------------------------------------------------------
(* States and events.                                                      *)

Fields == {"r", "pending", "rng"}
IsRecord(s) == s = [f \in Fields |-> s[f]]

LEMMA StateFacts ==
  ASSUME NEW s \in State
  PROVE  /\ num_tokens(s.r) \in Toks /\ num_tokens(s.r) \in Nat
         /\ s.r \in [0 .. num_tokens(s.r) -> Pool]
         /\ DOMAIN s.r = 0 .. num_tokens(s.r)
         /\ s.pending \in [Toks -> Seq(Reqs)]
         /\ s.rng \in Nat
         /\ IsRecord(s)
<1>1. /\ s.r \in UNION {[0 .. n -> Pool] : n \in Toks}
      /\ s.pending \in [Toks -> Seq(Reqs)] /\ s.rng \in Nat
  BY DEF State
<1>2. IsRecord(s)
  BY DEF State, IsRecord, Fields
<1>3. PICK n \in Toks : s.r \in [0 .. n -> Pool]
  BY <1>1
<1>4. n \in Nat /\ DOMAIN s.r = 0 .. n
  BY <1>3, ResourceAssumption DEF Toks
<1>5. num_tokens(s.r) = n
  BY <1>4, NumTokens
<1> QED
  BY <1>1, <1>2, <1>3, <1>4, <1>5

LEMMA StateFromFields ==
  ASSUME NEW s, IsRecord(s), NEW n \in Toks, s.r \in [0 .. n -> Pool],
         s.pending \in [Toks -> Seq(Reqs)], s.rng \in Nat
  PROVE  s \in State
<1>1. s = [r |-> s.r, pending |-> s.pending, rng |-> s.rng]
  BY DEF IsRecord, Fields
<1> QED
  BY <1>1 DEF State

LEMMA StateEqual ==
  ASSUME NEW s, NEW t, IsRecord(s), IsRecord(t),
         s.r = t.r, s.pending = t.pending, s.rng = t.rng
  PROVE  s = t
<1>1. ASSUME NEW f \in Fields PROVE s[f] = t[f]
  BY DEF Fields
<1> QED
  BY <1>1 DEF IsRecord

LEMMA EventFacts ==
  ASSUME NEW e \in Event
  PROVE  /\ e.type \in {"GET", "FREE", "DEQ", "RESERVE", "ACK"}
         /\ e.ts \in Nat /\ e.src \in Nat /\ e.k \in Reqs \cup {NoReq}
         /\ e.tok \in Toks /\ e.ret \in {0, 1}
BY DEF Event

LEMMA EvFacts ==
  ASSUME NEW type \in {"GET", "FREE", "DEQ", "RESERVE", "ACK"}, NEW ts \in Nat, NEW src \in Nat,
         NEW k \in Reqs \cup {NoReq}, NEW tok \in Toks, NEW ret \in {0, 1}
  PROVE  LET e == Ev(type, ts, src, k, tok, ret)
         IN  /\ e \in Event
             /\ e.type = type /\ e.ts = ts /\ e.src = src /\ e.k = k /\ e.tok = tok /\ e.ret = ret
BY DEF Ev, Event

LEMMA LatencyFacts ==
  ASSUME NEW i \in Nat
  PROVE  codes_local_latency(i) \in Nat /\ codes_local_latency(i) >= 1
BY ResourceAssumption DEF codes_local_latency

\* what resource_response sends, and the event that looks at the queue again
LEMMA ResponseFacts ==
  ASSUME NEW s \in State, NEW e \in Event, NEW n \in Nat, NEW k \in Reqs, NEW tok \in Toks,
         NEW ret \in {0, 1}
  PROVE  LET a == resource_response(s, e, n, k, tok, ret)
         IN  /\ a \in Event /\ a.type = "ACK" /\ a.src = n /\ a.k = k /\ a.tok = tok
             /\ a.ret = ret /\ a.ts > e.ts
<1> DEFINE ts == e.ts + codes_local_latency(s.rng)
<1>1. e.ts \in Nat /\ s.rng \in Nat
  BY StateFacts, EventFacts
<1>2. ts \in Nat /\ ts > e.ts
  BY <1>1, LatencyFacts
<1> HIDE DEF ts
<1> QED
  BY <1>2, EvFacts DEF resource_response, ts

LEMMA DeqEventFacts ==
  ASSUME NEW e \in Event, NEW n \in Nat, NEW g \in Nat
  PROVE  LET a == DeqEvent(e, n, g)
         IN  a \in Event /\ a.type = "DEQ" /\ a.src = n /\ a.tok = e.tok /\ a.ts > e.ts
<1> DEFINE ts == e.ts + codes_local_latency(g)
<1>1. e.ts \in Nat /\ e.tok \in Toks
  BY EventFacts
<1>2. ts \in Nat /\ ts > e.ts
  BY <1>1, LatencyFacts
<1>3. DeqEvent(e, n, g) = Ev("DEQ", ts, n, NoReq, e.tok, 0)
  BY DEF DeqEvent
<1> HIDE DEF ts
<1>4. NoReq \in Reqs \cup {NoReq} /\ 0 \in {0, 1} /\ "DEQ" \in {"GET", "FREE", "DEQ", "RESERVE", "ACK"}
  OBVIOUS
<1>5. /\ Ev("DEQ", ts, n, NoReq, e.tok, 0) \in Event
      /\ Ev("DEQ", ts, n, NoReq, e.tok, 0).type = "DEQ"
      /\ Ev("DEQ", ts, n, NoReq, e.tok, 0).src = n
      /\ Ev("DEQ", ts, n, NoReq, e.tok, 0).tok = e.tok
      /\ Ev("DEQ", ts, n, NoReq, e.tok, 0).ts = ts
  BY <1>1, <1>2, <1>4 DEF Ev, Event
<1> QED
  BY <1>2, <1>3, <1>5

LEMMA RcFacts ==
  ASSUME NEW c0 \in BOOLEAN, NEW c1 \in BOOLEAN, NEW c2 \in BOOLEAN,
         NEW i \in Reqs \cup {NoReq}, NEW m \in Nat
  PROVE  /\ NoRc \in Rc
         /\ [NoRc EXCEPT !.c0 = TRUE] \in Rc
         /\ [NoRc EXCEPT !.min_avail_rc = m] \in Rc
         /\ [NoRc EXCEPT !.c0 = TRUE, !.min_avail_rc = m] \in Rc
         /\ [NoRc EXCEPT !.c1 = TRUE, !.min_avail_rc = m] \in Rc
         /\ [NoRc EXCEPT !.c1 = TRUE, !.c2 = TRUE, !.min_avail_rc = m] \in Rc
         /\ [NoRc EXCEPT !.c1 = TRUE, !.i_rc = i, !.min_avail_rc = m] \in Rc
BY DEF NoRc, Rc

-----------------------------------------------------------------------------
(* What a handler must do: keep Good, and be undone by its reverse         *)
(* handler.                                                                *)

Due(s, E, tr, A, now, e, n) ==
  /\ Good(s, E, tr, A, now)
  /\ e \in E /\ e.ts >= now
  /\ n \in Nat /\ n # 0

Outcome(s, E, tr, A, e, n, o) ==
  /\ o.rc \in Rc
  /\ o.sent \subseteq Event /\ \A f \in o.sent : f.src = n
  /\ o.did \in Seq(Entry)
  /\ Good(o.ns, (E \ {e}) \cup o.sent, tr \o o.did, A, e.ts)
  /\ \A x : x.ev = e /\ x.rc = o.rc => resource_rev_handler(o.ns, x) = s

LEMMA DueFacts ==
  ASSUME NEW s, NEW E, NEW tr, NEW A, NEW now, NEW e, NEW n, Due(s, E, tr, A, now, e, n)
  PROVE  /\ s \in State /\ E \subseteq Event /\ tr \in Seq(Entry) /\ now \in Nat
         /\ e \in E /\ e \in Event /\ e.ts >= now /\ n \in Nat /\ n # 0
         /\ PoolsHold(s.r, tr) /\ PeaksHold(s.r, tr)
         /\ EventsFit(s.r, E)
         /\ LifeOfEvents(E, tr) /\ LifeOfWaiting(s.pending, E, tr) /\ LifeOfScript(E, tr, A)
         /\ WakeupComing(s.r, s.pending, E)
         /\ InOrder(tr) /\ QueueHolds(s.pending, tr) /\ QueueOnce(s.pending)
         /\ QueueOrder(s.pending, tr)
         /\ ReservesFirst(E, tr, now)
         /\ e.tok \in DOMAIN s.r /\ e.tok \in Toks
         /\ e.type # "DEQ" => e.k \in Reqs /\ Coming(E, e.k)
         /\ e.type \in {"GET", "FREE"} => Script[e.k].op = "get"
         /\ e.type = "RESERVE" => Script[e.k].op = "reserve" /\ e.ts = 1
         /\ e.type # "RESERVE" => e.ts >= 2
         /\ e.type \in {"GET", "RESERVE"} => ~Seen(tr, e.k)
<1>1. Good(s, E, tr, A, now) /\ e \in E /\ e.ts >= now /\ n \in Nat /\ n # 0
  BY DEF Due
<1>2. /\ s \in State /\ E \subseteq Event /\ tr \in Seq(Entry) /\ now \in Nat
      /\ PoolsHold(s.r, tr) /\ PeaksHold(s.r, tr)
      /\ EventsFit(s.r, E)
      /\ LifeOfEvents(E, tr) /\ LifeOfWaiting(s.pending, E, tr) /\ LifeOfScript(E, tr, A)
      /\ WakeupComing(s.r, s.pending, E)
      /\ InOrder(tr) /\ QueueHolds(s.pending, tr) /\ QueueOnce(s.pending)
      /\ QueueOrder(s.pending, tr)
      /\ ReservesFirst(E, tr, now)
  BY <1>1 DEF Good
<1>3. e \in Event /\ e.tok \in Toks
  BY <1>1, <1>2, EventFacts
<1>4. /\ e.tok \in DOMAIN s.r
      /\ e.type # "DEQ" => e.k \in Reqs
      /\ e.type \in {"GET", "FREE"} => Script[e.k].op = "get"
      /\ e.type = "RESERVE" => Script[e.k].op = "reserve"
  BY <1>1, <1>2 DEF EventsFit
<1>5. e.type # "DEQ" => Coming(E, e.k)
  BY <1>1 DEF Coming
<1>6. (e.type = "RESERVE" => e.ts = 1) /\ (e.type # "RESERVE" => e.ts >= 2)
  BY <1>1, <1>2 DEF ReservesFirst
<1>7. e.type \in {"GET", "RESERVE"} => ~Seen(tr, e.k)
  BY <1>1, <1>2 DEF LifeOfEvents
<1> QED
  BY <1>1, <1>2, <1>3, <1>4, <1>5, <1>6, <1>7

\* a step about the request of the event it processes
LEMMA DueStep ==
  ASSUME NEW E, NEW tr, LifeOfEvents(E, tr), NEW e \in E, e.type # "DEQ",
         NEW sent, \A f \in sent : f.type # "DEQ" => f.k = e.k /\ f.type \notin {"GET", "RESERVE"},
         \A f, g \in sent : f.type # "DEQ" /\ g.type # "DEQ" => f = g
  PROVE  EventStep(E, e, sent, e.k)
BY DEF EventStep, LifeOfEvents

\* a step after which only reservations have to come first
LEMMA ReservesFirstStep ==
  ASSUME NEW E, NEW tr, NEW tr2, NEW now, NEW e \in Event, NEW sent \in SUBSET Event,
         ReservesFirst(E, tr, now),
         e.ts >= 2, \A f \in sent : f.type # "RESERVE" /\ f.ts > e.ts
  PROVE  ReservesFirst((E \ {e}) \cup sent, tr2, e.ts)
<1>1. e.ts \in Nat /\ \A f \in sent : f.ts \in Nat
  BY EventFacts
<1>2. ~(e.ts < 2)
  BY <1>1
<1>3. \A f \in (E \ {e}) \cup sent : IF f.type = "RESERVE" THEN f.ts = 1 ELSE f.ts >= 2
  <2>1. \A f \in E : IF f.type = "RESERVE" THEN f.ts = 1 ELSE f.ts >= 2
    BY DEF ReservesFirst
  <2>2. \A f \in sent : f.type # "RESERVE" /\ f.ts >= 2
    BY <1>1
  <2> QED
    BY <2>1, <2>2
<1> QED
  BY <1>2, <1>3 DEF ReservesFirst

\* a step that sends events for known pools
LEMMA EventsFitStep ==
  ASSUME NEW r, NEW r2, DOMAIN r \subseteq DOMAIN r2, NEW E, NEW e, NEW sent,
         EventsFit(r, E),
         \A f \in sent : /\ f.tok \in DOMAIN r2
                         /\ f.type # "DEQ" => f.k \in Reqs
                         /\ f.type \in {"GET", "FREE"} => Script[f.k].op = "get"
                         /\ f.type # "RESERVE"
                         /\ f.src # 0
  PROVE  EventsFit(r2, (E \ {e}) \cup sent)
BY DEF EventsFit

-----------------------------------------------------------------------------
(* The reverse handlers, by the paths the forward handlers mark.           *)

LEMMA RevGrant ==
  ASSUME NDEBUG = FALSE, NEW z, IsRecord(z), NEW x, x.ev.type = "GET",
         x.rc.c0 = FALSE, x.rc.c1 = TRUE, x.rc.c2 = TRUE
  PROVE  LET y == resource_rev_handler(z, x)
         IN  /\ IsRecord(y)
             /\ y.r = resource_free(Script[x.ev.k].req, x.ev.tok,
                        resource_restore_min_avail(x.ev.tok, x.rc.min_avail_rc, z.r))
             /\ y.pending = z.pending /\ y.rng = z.rng - 1
<1> DEFINE w == [z EXCEPT !.rng = @ - 1]
           y == [w EXCEPT !.r = resource_free(Script[x.ev.k].req, x.ev.tok,
                                  resource_restore_min_avail(x.ev.tok, x.rc.min_avail_rc, @))]
<1>1. IsRecord(w) /\ w.r = z.r /\ w.pending = z.pending /\ w.rng = z.rng - 1
  BY DEF IsRecord, Fields
<1>2. resource_rev_handler(z, x) = y
  BY DEF resource_rev_handler, handle_resource_get_rc, Asserted
<1> HIDE DEF w
<1>3. /\ IsRecord(y) /\ y.pending = w.pending /\ y.rng = w.rng
      /\ y.r = resource_free(Script[x.ev.k].req, x.ev.tok,
                 resource_restore_min_avail(x.ev.tok, x.rc.min_avail_rc, w.r))
  BY <1>1 DEF IsRecord, Fields
<1> QED
  BY <1>1, <1>2, <1>3

LEMMA RevEnqueue ==
  ASSUME NEW z, IsRecord(z), z.pending \in [Toks -> Seq(Reqs)],
         NEW x, x.ev.type = "GET", x.ev.tok \in Toks, x.rc.c0 = TRUE, x.rc.c1 = FALSE
  PROVE  LET y == resource_rev_handler(z, x)
             q == z.pending[x.ev.tok]
         IN  /\ IsRecord(y) /\ y.r = z.r /\ y.rng = z.rng
             /\ y.pending = [z.pending EXCEPT ![x.ev.tok] = SubSeq(q, 1, Len(q) - 1)]
<1> DEFINE y == [z EXCEPT !.pending[x.ev.tok] = SubSeq(@, 1, Len(@) - 1)]
<1>1. resource_rev_handler(z, x) = y
  BY DEF resource_rev_handler, handle_resource_get_rc
<1>2. /\ IsRecord(y) /\ y.r = z.r /\ y.rng = z.rng
      /\ y.pending = [z.pending EXCEPT ![x.ev.tok] =
                        SubSeq(z.pending[x.ev.tok], 1, Len(z.pending[x.ev.tok]) - 1)]
  BY DEF IsRecord, Fields
<1> QED
  BY <1>1, <1>2

LEMMA RevRefuse ==
  ASSUME NEW z, IsRecord(z), NEW x, x.ev.type = "GET",
         x.rc.c0 = FALSE, x.rc.c1 = TRUE, x.rc.c2 = FALSE
  PROVE  LET y == resource_rev_handler(z, x)
         IN  IsRecord(y) /\ y.r = z.r /\ y.pending = z.pending /\ y.rng = z.rng - 1
<1> DEFINE y == [z EXCEPT !.rng = @ - 1]
<1>1. resource_rev_handler(z, x) = y
  BY DEF resource_rev_handler, handle_resource_get_rc
<1>2. IsRecord(y) /\ y.r = z.r /\ y.pending = z.pending /\ y.rng = z.rng - 1
  BY DEF IsRecord, Fields
<1> QED
  BY <1>1, <1>2

LEMMA RevFree ==
  ASSUME NDEBUG = FALSE, NEW z, IsRecord(z), NEW x, x.ev.type = "FREE"
  PROVE  LET y == resource_rev_handler(z, x)
         IN  /\ IsRecord(y) /\ y.r = resource_get(Script[x.ev.k].req, x.ev.tok, z.r)
             /\ y.pending = z.pending /\ y.rng = z.rng - 1
<1> DEFINE y == [z EXCEPT !.r = resource_get(Script[x.ev.k].req, x.ev.tok, @), !.rng = @ - 1]
<1>1. resource_rev_handler(z, x) = y
  BY DEF resource_rev_handler, handle_resource_free_rc, Asserted
<1>2. /\ IsRecord(y) /\ y.r = resource_get(Script[x.ev.k].req, x.ev.tok, z.r)
      /\ y.pending = z.pending /\ y.rng = z.rng - 1
  BY DEF IsRecord, Fields
<1> QED
  BY <1>1, <1>2

LEMMA RevDequeue ==
  ASSUME NDEBUG = FALSE, NEW z, IsRecord(z), z.pending \in [Toks -> Seq(Reqs)],
         NEW x, x.ev.type = "DEQ", x.ev.tok \in Toks, x.rc.c0 = FALSE, x.rc.c1 = TRUE
  PROVE  LET y == resource_rev_handler(z, x)
             t == x.ev.tok
         IN  /\ IsRecord(y)
             /\ y.r = resource_free(Script[x.rc.i_rc].req, t,
                        resource_restore_min_avail(t, x.rc.min_avail_rc, z.r))
             /\ y.pending = [z.pending EXCEPT ![t] = <<x.rc.i_rc>> \o z.pending[t]]
             /\ y.rng = z.rng - 2
<1> DEFINE t == x.ev.tok
           k == x.rc.i_rc
           w == [z EXCEPT !.pending[t] = <<k>> \o @]
           v == [w EXCEPT !.r = resource_free(Script[k].req, t,
                                  resource_restore_min_avail(t, x.rc.min_avail_rc, @))]
           y == [v EXCEPT !.rng = @ - 2]
<1>1. /\ IsRecord(w) /\ w.r = z.r /\ w.rng = z.rng
      /\ w.pending = [z.pending EXCEPT ![t] = <<k>> \o z.pending[t]]
  BY DEF IsRecord, Fields
<1>2. resource_rev_handler(z, x) = y
  BY DEF resource_rev_handler, handle_resource_deq_rc, Asserted
<1> HIDE DEF w
<1>3. /\ IsRecord(v) /\ v.pending = w.pending /\ v.rng = w.rng
      /\ v.r = resource_free(Script[k].req, t,
                 resource_restore_min_avail(t, x.rc.min_avail_rc, w.r))
  BY <1>1 DEF IsRecord, Fields
<1> HIDE DEF v
<1>4. IsRecord(y) /\ y.r = v.r /\ y.pending = v.pending /\ y.rng = v.rng - 2
  BY <1>3 DEF IsRecord, Fields
<1> QED
  BY <1>1, <1>2, <1>3, <1>4

LEMMA RevReserve ==
  ASSUME NEW z, IsRecord(z), NEW x, x.ev.type = "RESERVE"
  PROVE  LET y == resource_rev_handler(z, x)
         IN  /\ IsRecord(y) /\ y.r = Unreserve(Script[x.ev.k].req, z.r)
             /\ y.pending = z.pending /\ y.rng = z.rng - 1
<1> DEFINE y == [z EXCEPT !.r = Unreserve(Script[x.ev.k].req, @), !.rng = @ - 1]
<1>1. resource_rev_handler(z, x) = y
  BY DEF resource_rev_handler, handle_resource_reserve_rc
<1>2. /\ IsRecord(y) /\ y.r = Unreserve(Script[x.ev.k].req, z.r)
      /\ y.pending = z.pending /\ y.rng = z.rng - 1
  BY DEF IsRecord, Fields
<1> QED
  BY <1>1, <1>2

LEMMA RevNothing ==
  ASSUME NEW z, NEW x,
         \/ x.ev.type = "ACK"
         \/ x.ev.type = "DEQ" /\ x.rc.c0 = TRUE
         \/ x.ev.type = "DEQ" /\ x.rc.c1 = FALSE
  PROVE  resource_rev_handler(z, x) = z
BY DEF resource_rev_handler, handle_resource_deq_rc

-----------------------------------------------------------------------------
(* The handlers.                                                           *)

\* the pools of a state after a grant, and after a release
LEMMA GrantPools ==
  ASSUME NEW s \in State, NEW k \in Reqs, NEW t \in DOMAIN s.r,
         resource_get_ret(Script[k].req, t, s.r) = 0
  PROVE  LET q == resource_get(Script[k].req, t, s.r)
         IN  /\ q \in [0 .. num_tokens(s.r) -> Pool]
             /\ q[t].avail <= s.r[t].avail
             /\ \A u \in DOMAIN s.r : u # t => q[u] = s.r[u]
             /\ resource_free(Script[k].req, t,
                  resource_restore_min_avail(t, s.r[t].min_avail, q)) = s.r
<1> DEFINE m == num_tokens(s.r)
           r == s.r
           req == Script[k].req
           q == resource_get(req, t, r)
<1>1. m \in Nat /\ r \in [0 .. m -> Pool] /\ DOMAIN r = 0 .. m
  BY StateFacts
<1>2. req \in Nat
  BY ScriptFacts
<1>3. t \in 0 .. m /\ resource_get_ret(req, t, r) = 0
  BY <1>1
<1>4. r[t].avail \in Nat
  BY <1>1, <1>3, PoolFacts
<1> HIDE DEF m, r, req
<1>5. /\ q \in [0 .. m -> Pool]
      /\ req <= r[t].avail
      /\ q[t].avail = r[t].avail - req
      /\ \A u \in 0 .. m : q[u].max = r[u].max /\ (u # t => q[u] = r[u])
  BY <1>1, <1>2, <1>3, PoolGet
<1>6. resource_free(req, t, resource_restore_min_avail(t, r[t].min_avail, q)) = r
  BY <1>1, <1>2, <1>3, PoolUndoGet
<1> HIDE DEF q
<1>7. q[t].avail <= r[t].avail
  BY <1>2, <1>4, <1>5
<1> QED
  BY <1>1, <1>5, <1>6, <1>7 DEF m, r, req, q

LEMMA FreePools ==
  ASSUME NEW s \in State, NEW k \in Reqs, NEW t \in DOMAIN s.r,
         s.r[t].avail + Script[k].req <= s.r[t].max, s.r[t].min_avail <= s.r[t].avail
  PROVE  LET q == resource_free(Script[k].req, t, s.r)
         IN  /\ q \in [0 .. num_tokens(s.r) -> Pool]
             /\ \A u \in DOMAIN s.r : u # t => q[u] = s.r[u]
             /\ resource_get(Script[k].req, t, q) = s.r
<1> DEFINE m == num_tokens(s.r)
           r == s.r
           req == Script[k].req
           q == resource_free(req, t, r)
<1>1. m \in Nat /\ r \in [0 .. m -> Pool] /\ DOMAIN r = 0 .. m
  BY StateFacts
<1>2. req \in Nat
  BY ScriptFacts
<1>3. t \in 0 .. m /\ r[t].avail + req <= r[t].max /\ r[t].min_avail <= r[t].avail
  BY <1>1
<1> HIDE DEF m, r, req
<1>4. /\ q \in [0 .. m -> Pool]
      /\ \A u \in 0 .. m : q[u].max = r[u].max /\ (u # t => q[u] = r[u])
  BY <1>1, <1>2, <1>3, PoolFree
<1>5. resource_get(req, t, q) = r
  BY <1>1, <1>2, <1>3, PoolUndoFree
<1> QED
  BY <1>1, <1>4, <1>5 DEF m, r, req, q

\* the rest of the queues' state when the queues stay as they are
LEMMA WaitingSame ==
  ASSUME NEW E, NEW e, NEW sent, NEW k, EventStep(E, e, sent, k),
         NEW tr, NEW tr2, TraceStep(tr, tr2, k),
         NEW pending, LifeOfWaiting(pending, E, tr),
         \A t \in Toks : ~Waits(pending, k, t)
  PROVE  LifeOfWaiting(pending, (E \ {e}) \cup sent, tr2)
<1> DEFINE E2 == (E \ {e}) \cup sent
<1>1. ASSUME NEW t \in Toks, NEW j \in Reqs, Waits(pending, j, t)
      PROVE  MayWait(E2, tr2, j, t)
  <2>1. j # k
    BY <1>1
  <2> QED
    BY <1>1, <2>1, LifeOfWaitingStep
<1> HIDE DEF E2
<1>2. LifeOfWaiting(pending, E2, tr2)
  BY <1>1 DEF LifeOfWaiting
<1> QED
  BY <1>2 DEF E2

LEMMA WakeupSame ==
  ASSUME NEW r, NEW r2, NEW pending, NEW E, NEW e, e.type # "DEQ", NEW sent,
         WakeupComing(r, pending, E),
         \A t \in DOMAIN r2 : /\ pending[t] # << >>
                              /\ Script[Head(pending[t])].req <= r2[t].avail
                              => t \in DOMAIN r /\ Script[Head(pending[t])].req <= r[t].avail
  PROVE  WakeupComing(r2, pending, (E \ {e}) \cup sent)
BY DEF WakeupComing

LEMMA GetGrantOutcome ==
  ASSUME NDEBUG = FALSE,
         NEW s, NEW E, NEW tr, NEW A, NEW now, NEW e, NEW n, Due(s, E, tr, A, now, e, n),
         e.type = "GET", get_ret(s, e) = 0
  PROVE  Outcome(s, E, tr, A, e, n, get_grant(s, e, n))
<1> DEFINE o == get_grant(s, e, n)
           k == e.k
           t == e.tok
           m == num_tokens(s.r)
           d == Did("granted", k, t)
           tr2 == tr \o <<d>>
           a == resource_response(s, e, n, k, t, 0)
           q == resource_get(Script[k].req, t, s.r)
<1>1. /\ s \in State /\ E \subseteq Event /\ tr \in Seq(Entry)
      /\ e \in E /\ e \in Event /\ n \in Nat /\ n # 0
      /\ k \in Reqs /\ Coming(E, k) /\ t \in Toks /\ t \in DOMAIN s.r
      /\ e.ts >= 2 /\ ~Seen(tr, k) /\ Script[k].op = "get"
  BY DueFacts
<1>2. /\ PoolsHold(s.r, tr) /\ PeaksHold(s.r, tr) /\ EventsFit(s.r, E)
      /\ LifeOfEvents(E, tr) /\ LifeOfWaiting(s.pending, E, tr) /\ LifeOfScript(E, tr, A)
      /\ WakeupComing(s.r, s.pending, E) /\ InOrder(tr) /\ QueueHolds(s.pending, tr)
      /\ QueueOnce(s.pending) /\ QueueOrder(s.pending, tr) /\ ReservesFirst(E, tr, now)
  BY DueFacts
<1>3. /\ m \in Toks /\ m \in Nat /\ s.r \in [0 .. m -> Pool] /\ DOMAIN s.r = 0 .. m
      /\ s.pending \in [Toks -> Seq(Reqs)] /\ s.rng \in Nat /\ IsRecord(s)
  BY <1>1, StateFacts
<1>4. s.pending[t] = << >> /\ resource_get_ret(Script[k].req, t, s.r) = 0
  BY DEF get_ret
<1>5. Script[k].req \in Nat
  BY <1>1, ScriptFacts
<1>6. /\ o.ns.r = q /\ o.ns.pending = s.pending /\ o.ns.rng = s.rng + 1 /\ IsRecord(o.ns)
      /\ o.sent = {a} /\ o.did = <<d>>
  BY <1>3 DEF get_grant, IsRecord, Fields
<1>7. /\ o.rc.c0 = FALSE /\ o.rc.c1 = TRUE /\ o.rc.c2 = TRUE
      /\ o.rc.min_avail_rc = s.r[t].min_avail
  BY DEF get_grant, NoRc
<1>8. o.rc \in Rc
  <2>1. s.r[t].min_avail \in Nat
    BY <1>1, <1>3, PoolFacts
  <2> QED
    BY <2>1 DEF get_grant, NoRc, Rc
<1>9. d \in Entry /\ d.k = k
  BY <1>1 DEF Did, Entry
<1>10. /\ a \in Event /\ a.type = "ACK" /\ a.src = n /\ a.k = k /\ a.tok = t
       /\ a.ret = 0 /\ a.ts > e.ts
  BY <1>1, ResponseFacts
<1>11. \A kind, u : ~Happened(tr, kind, k, u)
  BY <1>1 DEF Happened, Seen, Did
<1>12. /\ tr2 \in Seq(Entry) /\ TraceStep(tr, tr2, k)
       /\ Happened(tr2, "granted", k, t) /\ ~Happened(tr2, "freed", k, t)
  <2>1. tr2 \in Seq(Entry) /\ TraceStep(tr, tr2, k)
    BY <1>1, <1>9, Extended, TraceStepDid
  <2>2. \A kind, j, u : Happened(tr2, kind, j, u) <=> Happened(tr, kind, j, u) \/ d = Did(kind, j, u)
    BY <1>1, <1>9, ExtendedSeen
  <2>3. d # Did("freed", k, t)
    BY DEF Did
  <2> HIDE DEF tr2
  <2> QED
    BY <1>11, <2>1, <2>2, <2>3
<1>13. /\ q \in [0 .. m -> Pool]
       /\ \A u \in DOMAIN s.r : u # t => q[u] = s.r[u]
  BY <1>1, <1>4, GrantPools
<1>14. PoolsHold(q, tr2) /\ PeaksHold(q, tr2)
  BY <1>1, <1>2, <1>3, <1>4, <1>11, PoolsGrant
<1>15. resource_free(Script[k].req, t, resource_restore_min_avail(t, s.r[t].min_avail, q)) = s.r
  BY <1>1, <1>4, GrantPools
<1>16. QueueHolds(s.pending, tr2) /\ QueueOrder(s.pending, tr2) /\ InOrder(tr2)
  BY <1>1, <1>2, <1>3, <1>4, OrderGet
<1> HIDE DEF o, d, tr2, a, q
<1>17. EventStep(E, e, {a}, k)
  BY <1>1, <1>2, <1>10, DueStep
<1>18. \A u \in Toks : ~Waits(s.pending, k, u)
  BY <1>1, <1>2 DEF LifeOfWaiting, MayWait
<1> DEFINE E2 == (E \ {e}) \cup {a}
<1>19. LifeOfEvents(E2, tr2)
  BY <1>2, <1>10, <1>12, <1>17, LifeOfEventsStep
<1>20. LifeOfWaiting(s.pending, E2, tr2)
  BY <1>2, <1>12, <1>17, <1>18, WaitingSame
<1>21. LifeOfScript(E2, tr2, A)
  BY <1>1, <1>2, <1>12, <1>17, LifeOfScriptStep
<1>22. EventsFit(q, E2)
  <2>1. DOMAIN q = DOMAIN s.r
    BY <1>3, <1>13
  <2>2. \A f \in {a} : /\ f.tok \in DOMAIN q
                       /\ f.type # "DEQ" => f.k \in Reqs
                       /\ f.type \in {"GET", "FREE"} => Script[f.k].op = "get"
                       /\ f.type # "RESERVE"
                       /\ f.src # 0
    BY <1>1, <1>10, <2>1
  <2> QED
    BY <1>2, <2>1, <2>2, EventsFitStep
<1>23. ReservesFirst(E2, tr2, e.ts)
  BY <1>1, <1>2, <1>10, ReservesFirstStep
<1>24. WakeupComing(q, s.pending, E2)
  <2>1. \A u \in DOMAIN q : /\ s.pending[u] # << >>
                            /\ Script[Head(s.pending[u])].req <= q[u].avail
                            => u \in DOMAIN s.r /\ Script[Head(s.pending[u])].req <= s.r[u].avail
    BY <1>3, <1>4, <1>13
  <2> QED
    BY <1>2, <2>1, WakeupSame
<1>25. o.ns \in State
  <2>1. s.rng + 1 \in Nat
    BY <1>3
  <2> QED
    BY <1>3, <1>6, <1>13, <2>1, StateFromFields
<1>26. Good(o.ns, (E \ {e}) \cup o.sent, tr \o o.did, A, e.ts)
  <2>1. E2 \subseteq Event /\ e.ts \in Nat
    BY <1>1, <1>10, EventFacts
  <2> HIDE DEF E2
  <2>2. Good(o.ns, E2, tr2, A, e.ts)
    BY <1>2, <1>6, <1>12, <1>14, <1>16, <1>19, <1>20, <1>21, <1>22, <1>23, <1>24, <1>25, <2>1
       DEF Good
  <2> QED
    BY <1>6, <2>2 DEF E2, tr2
<1>27. ASSUME NEW x, x.ev = e, x.rc = o.rc
       PROVE  resource_rev_handler(o.ns, x) = s
  <2> DEFINE y == resource_rev_handler(o.ns, x)
  <2>0. /\ x.ev.type = "GET" /\ x.ev.k = k /\ x.ev.tok = t
        /\ x.rc.c0 = FALSE /\ x.rc.c1 = TRUE /\ x.rc.c2 = TRUE
        /\ x.rc.min_avail_rc = s.r[t].min_avail
    BY <1>7, <1>27
  <2>1. /\ IsRecord(y)
        /\ y.r = resource_free(Script[x.ev.k].req, x.ev.tok,
                   resource_restore_min_avail(x.ev.tok, x.rc.min_avail_rc, o.ns.r))
        /\ y.pending = o.ns.pending /\ y.rng = o.ns.rng - 1
    BY <1>6, <2>0, RevGrant
  <2> HIDE DEF y, k, t
  <2>2. y.r = s.r /\ y.pending = s.pending
    BY <1>6, <1>15, <2>0, <2>1
  <2>3. y.rng = s.rng
    BY <1>3, <1>6, <2>1
  <2>4. y = s
    BY <1>3, <2>1, <2>2, <2>3, StateEqual
  <2> QED
    BY <2>4 DEF y
<1>28. o.did \in Seq(Entry)
  BY <1>6, <1>9
<1>29. o.sent \subseteq Event /\ \A f \in o.sent : f.src = n
  BY <1>6, <1>10
<1> QED
  BY <1>8, <1>26, <1>27, <1>28, <1>29 DEF Outcome, o

\* A queue that got a request at its end and loses its last is what it was.
LEMMA QueueUndoAppend ==
  ASSUME NEW pending \in [Toks -> Seq(Reqs)], NEW t \in Toks, NEW k \in Reqs,
         NEW P2, P2 = [pending EXCEPT ![t] = Append(@, k)]
  PROVE  [P2 EXCEPT ![t] = SubSeq(P2[t], 1, Len(P2[t]) - 1)] = pending
<1> DEFINE s == pending[t]
           s2 == Append(s, k)
           s3 == SubSeq(s2, 1, Len(s2) - 1)
<1>1. s \in Seq(Reqs) /\ Len(s) \in Nat
  BY LenProperties
<1>2. /\ Len(s2) - 1 = Len(s)
      /\ \A i \in 1 .. Len(s) : s2[i] = s[i] /\ s[i] \in Reqs
  <2>1. \A i \in 1 .. Len(s) : s[i] \in Reqs
    BY <1>1, ElementOfSeq
  <2> QED
    BY <1>1, <2>1, AppendProperties
<1>3. s3 = s
  <2> HIDE DEF s, s2
  <2>1. s3 = SubSeq(s2, 1, Len(s))
    BY <1>2
  <2> HIDE DEF s3
  <2>2. \A i \in 1 .. Len(s) : s2[i] \in Reqs
    BY <1>2
  <2>3. 1 \in Int /\ Len(s) \in Int
    BY <1>1
  <2>4. /\ SubSeq(s2, 1, Len(s)) \in Seq(Reqs)
        /\ Len(SubSeq(s2, 1, Len(s))) = IF 1 <= Len(s) THEN Len(s) - 1 + 1 ELSE 0
        /\ \A i \in 1 .. Len(s) - 1 + 1 : SubSeq(s2, 1, Len(s))[i] = s2[1 + i - 1]
    BY <2>2, <2>3, SubSeqProperties
  <2>5. /\ s3 \in Seq(Reqs) /\ Len(s3) = Len(s)
        /\ \A i \in 1 .. Len(s3) : s3[i] = s[i]
    BY <1>1, <1>2, <2>1, <2>4
  <2> QED
    BY <1>1, <2>5, SeqEqual
<1>4. P2[t] = s2
  OBVIOUS
<1>5. [P2 EXCEPT ![t] = SubSeq(P2[t], 1, Len(P2[t]) - 1)] = [P2 EXCEPT ![t] = s]
  BY <1>3, <1>4
<1>6. [P2 EXCEPT ![t] = s] = pending
  OBVIOUS
<1> QED
  BY <1>5, <1>6

\* no wakeup is due for a request that was just queued
LEMMA WakeupQueued ==
  ASSUME NEW s \in State, NEW k \in Reqs, NEW t \in DOMAIN s.r, t \in Toks, NEW E, NEW e,
         e.type # "DEQ", WakeupComing(s.r, s.pending, E),
         s.pending[t] = << >> => resource_get_ret(Script[k].req, t, s.r) = 1
  PROVE  WakeupComing(s.r, [s.pending EXCEPT ![t] = Append(@, k)], E \ {e})
<1> DEFINE m == num_tokens(s.r)
           r == s.r
           P == s.pending
           P2 == [P EXCEPT ![t] = Append(@, k)]
           req == Script[k].req
<1>1. m \in Nat /\ r \in [0 .. m -> Pool] /\ P \in [Toks -> Seq(Reqs)] /\ DOMAIN r = 0 .. m
  BY StateFacts
<1>2. req \in Nat
  BY ScriptFacts
<1>3. P[t] = << >> => req > r[t].avail
  <2> SUFFICES ASSUME P[t] = << >>
               PROVE  req > r[t].avail
    OBVIOUS
  <2>1. resource_get_ret(req, t, r) = 1 /\ t \in 0 .. m
    BY <1>1
  <2> HIDE DEF m, r, P, req
  <2> QED
    BY <1>1, <1>2, <2>1, GetRet
<1>4. /\ Len(P[t]) \in Nat /\ Len(P2[t]) = Len(P[t]) + 1
      /\ \A q \in 1 .. Len(P[t]) : P2[t][q] = P[t][q]
      /\ P2[t][Len(P[t]) + 1] = k
      /\ \A u \in Toks : u # t => P2[u] = P[u]
  <2> HIDE DEF P
  <2> QED
    BY <1>1, QueueAppend
<1>5. r[t].avail \in Nat /\ Head(P2[t]) = P2[t][1] /\ (P[t] # << >> => Head(P[t]) = P[t][1])
  BY <1>1, PoolFacts
<1>6. P[t] # << >> => 1 \in 1 .. Len(P[t])
  <2>1. P[t] \in Seq(Reqs)
    BY <1>1
  <2>2. P[t] # << >> => Len(P[t]) # 0
    BY <2>1, EmptySeq
  <2> QED
    BY <1>4, <2>2
<1>7. P[t] = << >> => Len(P[t]) = 0
  OBVIOUS
<1> SUFFICES ASSUME NEW u \in DOMAIN r, P2[u] # << >>, Script[Head(P2[u])].req <= r[u].avail
             PROVE  \E f \in E \ {e} : f.type = "DEQ" /\ f.tok = u
  BY DEF WakeupComing
<1> HIDE DEF P2, P, r, m, req
<1>8. u \in Toks
  BY <1>1, ResourceAssumption, StateFacts DEF Toks, m, r
<1>9. P[u] # << >> /\ Script[Head(P[u])].req <= r[u].avail
  <2>1. CASE u # t
    BY <1>4, <1>8, <2>1
  <2>2. CASE u = t /\ P[t] = << >>
    <3>1. Head(P2[t]) = k
      BY <1>4, <1>5, <1>7, <2>2
    <3>2. req <= r[t].avail
      BY <2>2, <3>1 DEF req
    <3> QED
      BY <1>2, <1>3, <1>5, <2>2, <3>2
  <2>3. CASE u = t /\ P[t] # << >>
    BY <1>4, <1>5, <1>6, <2>3
  <2> QED
    BY <2>1, <2>2, <2>3
<1>10. \E f \in E : f.type = "DEQ" /\ f.tok = u
  BY <1>9 DEF WakeupComing, r, P
<1> QED
  BY <1>10

LEMMA GetEnqueueOutcome ==
  ASSUME NEW s, NEW E, NEW tr, NEW A, NEW now, NEW e, NEW n, Due(s, E, tr, A, now, e, n),
         e.type = "GET", get_ret(s, e) = 1
  PROVE  Outcome(s, E, tr, A, e, n, get_enqueue(s, e))
<1> DEFINE o == get_enqueue(s, e)
           k == e.k
           t == e.tok
           m == num_tokens(s.r)
           d == Did("queued", k, t)
           tr2 == tr \o <<d>>
           P2 == [s.pending EXCEPT ![t] = Append(@, k)]
<1>1. /\ s \in State /\ E \subseteq Event /\ tr \in Seq(Entry)
      /\ e \in E /\ e \in Event /\ n \in Nat /\ n # 0
      /\ k \in Reqs /\ Coming(E, k) /\ t \in Toks /\ t \in DOMAIN s.r
      /\ e.ts >= 2 /\ ~Seen(tr, k) /\ Script[k].op = "get"
  BY DueFacts
<1>2. /\ PoolsHold(s.r, tr) /\ PeaksHold(s.r, tr) /\ EventsFit(s.r, E)
      /\ LifeOfEvents(E, tr) /\ LifeOfWaiting(s.pending, E, tr) /\ LifeOfScript(E, tr, A)
      /\ WakeupComing(s.r, s.pending, E) /\ InOrder(tr) /\ QueueHolds(s.pending, tr)
      /\ QueueOnce(s.pending) /\ QueueOrder(s.pending, tr) /\ ReservesFirst(E, tr, now)
  BY DueFacts
<1>3. /\ m \in Toks /\ m \in Nat /\ s.r \in [0 .. m -> Pool] /\ DOMAIN s.r = 0 .. m
      /\ s.pending \in [Toks -> Seq(Reqs)] /\ s.rng \in Nat /\ IsRecord(s)
  BY <1>1, StateFacts
<1>4. s.pending[t] = << >> => resource_get_ret(Script[k].req, t, s.r) = 1
  BY DEF get_ret
<1>5. /\ o.ns.r = s.r /\ o.ns.pending = P2 /\ o.ns.rng = s.rng /\ IsRecord(o.ns)
      /\ o.sent = {} /\ o.did = <<d>>
  BY <1>3 DEF get_enqueue, IsRecord, Fields
<1>6. o.rc.c0 = TRUE /\ o.rc.c1 = FALSE
  BY DEF get_enqueue, NoRc
<1>7. o.rc \in Rc
  <2>1. s.r[t].min_avail \in Nat
    BY <1>1, <1>3, PoolFacts
  <2> QED
    BY <2>1 DEF get_enqueue, NoRc, Rc
<1>8. d \in Entry /\ d.k = k /\ d.kind \in {"queued", "refused"} /\ d.tok \in 0 .. m
  BY <1>1, <1>3 DEF Did, Entry
<1>9. \A kind, u : ~Happened(tr, kind, k, u)
  BY <1>1 DEF Happened, Seen, Did
<1>10. /\ tr2 \in Seq(Entry) /\ TraceStep(tr, tr2, k)
       /\ Happened(tr2, "queued", k, t)
       /\ \A u \in Toks : ~Happened(tr2, "granted", k, u) /\ ~Happened(tr2, "freed", k, u)
  <2>1. tr2 \in Seq(Entry) /\ TraceStep(tr, tr2, k)
    BY <1>1, <1>8, Extended, TraceStepDid
  <2>2. \A kind, j, u : Happened(tr2, kind, j, u) <=> Happened(tr, kind, j, u) \/ d = Did(kind, j, u)
    BY <1>1, <1>8, ExtendedSeen
  <2>3. \A u : d # Did("freed", k, u) /\ d # Did("granted", k, u)
    BY DEF Did
  <2> HIDE DEF tr2
  <2> QED
    BY <1>9, <2>1, <2>2, <2>3
<1>11. PoolsHold(s.r, tr2) /\ PeaksHold(s.r, tr2)
  <2> HIDE DEF d
  <2> QED
    BY <1>1, <1>2, <1>3, <1>8, PoolsSame
<1>12. \A u \in Toks : ~Waits(s.pending, k, u)
  BY <1>1, <1>2 DEF LifeOfWaiting, MayWait
<1>13. QueueHolds(P2, tr2) /\ QueueOnce(P2) /\ QueueOrder(P2, tr2) /\ InOrder(tr2)
  <2>1. WaitsNowhere(s.pending, k)
    BY <1>12 DEF WaitsNowhere
  <2> QED
    BY <1>1, <1>2, <1>3, <2>1, OrderQueued
<1>14. /\ P2 \in [Toks -> Seq(Reqs)]
       /\ \A j, u : u \in Toks => (Waits(P2, j, u) <=> Waits(s.pending, j, u) \/ (j = k /\ u = t))
  BY ZenonT(60), <1>1, <1>3, QueueAppend
<1>15. [P2 EXCEPT ![t] = SubSeq(P2[t], 1, Len(P2[t]) - 1)] = s.pending
  BY <1>1, <1>3, QueueUndoAppend
<1>16. WakeupComing(s.r, P2, E \ {e})
  BY <1>1, <1>2, <1>4, WakeupQueued
<1> HIDE DEF o, d, tr2, P2
<1> DEFINE E2 == (E \ {e}) \cup {}
<1>17. EventStep(E, e, {}, k)
  BY <1>1, <1>2, DueStep
<1>18. LifeOfEvents(E2, tr2)
  BY <1>2, <1>10, <1>17, LifeOfEventsStep
<1>19. LifeOfWaiting(P2, E2, tr2)
  <2>1. ASSUME NEW u \in Toks, NEW j \in Reqs, Waits(P2, j, u)
        PROVE  MayWait(E2, tr2, j, u)
    <3>1. CASE j # k
      <4>1. Waits(s.pending, j, u)
        BY <1>14, <2>1, <3>1
      <4> QED
        BY <1>2, <1>10, <1>17, <3>1, <4>1, LifeOfWaitingStep
    <3>2. CASE j = k
      <4>1. u = t
        BY <1>12, <1>14, <2>1, <3>2
      <4>2. ~Coming(E2, k)
        BY <1>17, ComingStep
      <4> HIDE DEF k, t, E2
      <4> QED
        BY <1>1, <1>10, <3>2, <4>1, <4>2 DEF MayWait
    <3> QED
      BY <3>1, <3>2
  <2> HIDE DEF E2
  <2> QED
    BY <2>1 DEF LifeOfWaiting
<1>20. LifeOfScript(E2, tr2, A)
  BY <1>1, <1>2, <1>10, <1>17, LifeOfScriptStep
<1>21. EventsFit(s.r, E2)
  BY <1>2 DEF EventsFit
<1>22. ReservesFirst(E2, tr2, e.ts)
  BY <1>1, <1>2, ReservesFirstStep
<1>23. o.ns \in State
  BY <1>3, <1>5, <1>14, StateFromFields
<1>24. Good(o.ns, (E \ {e}) \cup o.sent, tr \o o.did, A, e.ts)
  <2>1. E2 \subseteq Event /\ e.ts \in Nat
    BY <1>1, EventFacts
  <2>2. WakeupComing(s.r, P2, E2)
    BY <1>16
  <2> HIDE DEF E2
  <2>3. Good(o.ns, E2, tr2, A, e.ts)
    BY <1>5, <1>10, <1>11, <1>13, <1>18, <1>19, <1>20, <1>21, <1>22, <1>23, <2>1, <2>2
       DEF Good
  <2> QED
    BY <1>5, <2>3 DEF E2, tr2
<1>25. ASSUME NEW x, x.ev = e, x.rc = o.rc
       PROVE  resource_rev_handler(o.ns, x) = s
  <2> DEFINE y == resource_rev_handler(o.ns, x)
  <2>1. /\ x.ev.type = "GET" /\ x.ev.tok = t /\ x.ev.tok \in Toks
        /\ x.rc.c0 = TRUE /\ x.rc.c1 = FALSE
        /\ IsRecord(o.ns) /\ o.ns.pending \in [Toks -> Seq(Reqs)]
    BY <1>1, <1>5, <1>6, <1>14, <1>25
  <2>2. /\ IsRecord(y)
        /\ y.r = o.ns.r /\ y.rng = o.ns.rng
        /\ y.pending = [o.ns.pending EXCEPT ![x.ev.tok] =
                          SubSeq(o.ns.pending[x.ev.tok], 1, Len(o.ns.pending[x.ev.tok]) - 1)]
    BY <2>1, RevEnqueue
  <2> HIDE DEF y, k, t
  <2>3. y.pending = s.pending
    BY <1>5, <1>15, <2>1, <2>2
  <2>4. y = s
    BY <1>3, <1>5, <2>2, <2>3, StateEqual
  <2> QED
    BY <2>4 DEF y
<1>26. o.did \in Seq(Entry)
  BY <1>5, <1>8
<1> QED
  BY <1>5, <1>7, <1>24, <1>25, <1>26 DEF Outcome, o

LEMMA GetRefuseOutcome ==
  ASSUME NEW s, NEW E, NEW tr, NEW A, NEW now, NEW e, NEW n, Due(s, E, tr, A, now, e, n),
         e.type = "GET"
  PROVE  Outcome(s, E, tr, A, e, n, get_refuse(s, e, n))
<1> DEFINE o == get_refuse(s, e, n)
           k == e.k
           t == e.tok
           m == num_tokens(s.r)
           d == Did("refused", k, t)
           tr2 == tr \o <<d>>
           a == resource_response(s, e, n, k, t, 1)
<1>1. /\ s \in State /\ E \subseteq Event /\ tr \in Seq(Entry)
      /\ e \in E /\ e \in Event /\ n \in Nat /\ n # 0
      /\ k \in Reqs /\ Coming(E, k) /\ t \in Toks /\ t \in DOMAIN s.r
      /\ e.ts >= 2 /\ ~Seen(tr, k) /\ Script[k].op = "get"
  BY DueFacts
<1>2. /\ PoolsHold(s.r, tr) /\ PeaksHold(s.r, tr) /\ EventsFit(s.r, E)
      /\ LifeOfEvents(E, tr) /\ LifeOfWaiting(s.pending, E, tr) /\ LifeOfScript(E, tr, A)
      /\ WakeupComing(s.r, s.pending, E) /\ InOrder(tr) /\ QueueHolds(s.pending, tr)
      /\ QueueOnce(s.pending) /\ QueueOrder(s.pending, tr) /\ ReservesFirst(E, tr, now)
  BY DueFacts
<1>3. /\ m \in Toks /\ m \in Nat /\ s.r \in [0 .. m -> Pool] /\ DOMAIN s.r = 0 .. m
      /\ s.pending \in [Toks -> Seq(Reqs)] /\ s.rng \in Nat /\ IsRecord(s)
  BY <1>1, StateFacts
<1>4. /\ o.ns.r = s.r /\ o.ns.pending = s.pending /\ o.ns.rng = s.rng + 1 /\ IsRecord(o.ns)
      /\ o.sent = {a} /\ o.did = <<d>>
  BY <1>3 DEF get_refuse, IsRecord, Fields
<1>5. o.rc.c0 = FALSE /\ o.rc.c1 = TRUE /\ o.rc.c2 = FALSE
  BY DEF get_refuse, NoRc
<1>6. o.rc \in Rc
  <2>1. s.r[t].min_avail \in Nat
    BY <1>1, <1>3, PoolFacts
  <2> QED
    BY <2>1 DEF get_refuse, NoRc, Rc
<1>7. /\ d \in Entry /\ d.k = k /\ d.kind \in {"queued", "refused"} /\ d.tok \in 0 .. m
      /\ d.kind \notin {"queued", "granted"}
  BY <1>1, <1>3 DEF Did, Entry
<1>8. /\ a \in Event /\ a.type = "ACK" /\ a.src = n /\ a.k = k /\ a.tok = t
      /\ a.ret = 1 /\ a.ts > e.ts
  BY <1>1, ResponseFacts
<1>9. tr2 \in Seq(Entry) /\ TraceStep(tr, tr2, k)
  BY <1>1, <1>7, Extended, TraceStepDid
<1> HIDE DEF d
<1>10. PoolsHold(s.r, tr2) /\ PeaksHold(s.r, tr2)
  BY <1>1, <1>2, <1>3, <1>7, PoolsSame
<1>11. QueueHolds(s.pending, tr2) /\ QueueOrder(s.pending, tr2) /\ InOrder(tr2)
  BY <1>1, <1>2, <1>7, OrderSame
<1> HIDE DEF o, tr2, a
<1>12. EventStep(E, e, {a}, k)
  BY <1>1, <1>2, <1>8, DueStep
<1>13. \A u \in Toks : ~Waits(s.pending, k, u)
  BY <1>1, <1>2 DEF LifeOfWaiting, MayWait
<1> DEFINE E2 == (E \ {e}) \cup {a}
<1>14. LifeOfEvents(E2, tr2)
  BY <1>2, <1>8, <1>9, <1>12, LifeOfEventsStep
<1>15. LifeOfWaiting(s.pending, E2, tr2)
  BY <1>2, <1>9, <1>12, <1>13, WaitingSame
<1>16. LifeOfScript(E2, tr2, A)
  BY <1>1, <1>2, <1>9, <1>12, LifeOfScriptStep
<1>17. EventsFit(s.r, E2)
  <2>1. \A f \in {a} : /\ f.tok \in DOMAIN s.r
                       /\ f.type # "DEQ" => f.k \in Reqs
                       /\ f.type \in {"GET", "FREE"} => Script[f.k].op = "get"
                       /\ f.type # "RESERVE"
                       /\ f.src # 0
    BY <1>1, <1>8
  <2> QED
    BY <1>2, <2>1, EventsFitStep
<1>18. ReservesFirst(E2, tr2, e.ts)
  BY <1>1, <1>2, <1>8, ReservesFirstStep
<1>19. WakeupComing(s.r, s.pending, E2)
  BY <1>2 DEF WakeupComing
<1>20. o.ns \in State
  <2>1. s.rng + 1 \in Nat
    BY <1>3
  <2> QED
    BY <1>3, <1>4, <2>1, StateFromFields
<1>21. Good(o.ns, (E \ {e}) \cup o.sent, tr \o o.did, A, e.ts)
  <2>1. E2 \subseteq Event /\ e.ts \in Nat
    BY <1>1, <1>8, EventFacts
  <2> HIDE DEF E2
  <2>2. Good(o.ns, E2, tr2, A, e.ts)
    BY <1>2, <1>4, <1>9, <1>10, <1>11, <1>14, <1>15, <1>16, <1>17, <1>18, <1>19, <1>20, <2>1
       DEF Good
  <2> QED
    BY <1>4, <2>2 DEF E2, tr2
<1>22. ASSUME NEW x, x.ev = e, x.rc = o.rc
       PROVE  resource_rev_handler(o.ns, x) = s
  <2> DEFINE y == resource_rev_handler(o.ns, x)
  <2>1. x.ev.type = "GET" /\ x.rc.c0 = FALSE /\ x.rc.c1 = TRUE /\ x.rc.c2 = FALSE
    BY <1>5, <1>22
  <2>2. IsRecord(y) /\ y.r = o.ns.r /\ y.pending = o.ns.pending /\ y.rng = o.ns.rng - 1
    BY <1>4, <2>1, RevRefuse
  <2> HIDE DEF y
  <2>3. y.rng = s.rng
    BY <1>3, <1>4, <2>2
  <2>4. y = s
    BY <1>3, <1>4, <2>2, <2>3, StateEqual
  <2> QED
    BY <2>4 DEF y
<1>23. o.did \in Seq(Entry)
  BY <1>4, <1>7
<1>24. o.sent \subseteq Event /\ \A f \in o.sent : f.src = n
  BY <1>4, <1>8
<1> QED
  BY <1>6, <1>21, <1>22, <1>23, <1>24 DEF Outcome, o

LEMMA FreeOutcome ==
  ASSUME NDEBUG = FALSE,
         NEW s, NEW E, NEW tr, NEW A, NEW now, NEW e, NEW n, Due(s, E, tr, A, now, e, n),
         e.type = "FREE"
  PROVE  Outcome(s, E, tr, A, e, n, handle_resource_free(s, e, n))
<1> DEFINE o == handle_resource_free(s, e, n)
           k == e.k
           t == e.tok
           m == num_tokens(s.r)
           d == Did("freed", k, t)
           tr2 == tr \o <<d>>
           a == DeqEvent(e, n, s.rng)
           q == resource_free(Script[k].req, t, s.r)
<1>1. /\ s \in State /\ E \subseteq Event /\ tr \in Seq(Entry)
      /\ e \in E /\ e \in Event /\ n \in Nat /\ n # 0
      /\ k \in Reqs /\ Coming(E, k) /\ t \in Toks /\ t \in DOMAIN s.r
      /\ e.ts >= 2 /\ Script[k].op = "get"
  BY DueFacts
<1>2. /\ PoolsHold(s.r, tr) /\ PeaksHold(s.r, tr) /\ EventsFit(s.r, E)
      /\ LifeOfEvents(E, tr) /\ LifeOfWaiting(s.pending, E, tr) /\ LifeOfScript(E, tr, A)
      /\ WakeupComing(s.r, s.pending, E) /\ InOrder(tr) /\ QueueHolds(s.pending, tr)
      /\ QueueOnce(s.pending) /\ QueueOrder(s.pending, tr) /\ ReservesFirst(E, tr, now)
  BY DueFacts
<1>3. /\ m \in Toks /\ m \in Nat /\ s.r \in [0 .. m -> Pool] /\ DOMAIN s.r = 0 .. m
      /\ s.pending \in [Toks -> Seq(Reqs)] /\ s.rng \in Nat /\ IsRecord(s)
  BY <1>1, StateFacts
<1>4. Happened(tr, "granted", k, t) /\ ~Happened(tr, "freed", k, t)
  BY <1>1, <1>2 DEF LifeOfEvents
<1>5. /\ o.ns.r = q /\ o.ns.pending = s.pending /\ o.ns.rng = s.rng + 1 /\ IsRecord(o.ns)
      /\ o.sent = {a} /\ o.did = <<d>>
  BY <1>3 DEF handle_resource_free, Asserted, IsRecord, Fields
<1>6. o.rc \in Rc
  BY DEF handle_resource_free, NoRc, Rc
<1>7. d \in Entry /\ d.k = k /\ d.kind \notin {"queued", "granted"}
  BY <1>1 DEF Did, Entry
<1>8. a \in Event /\ a.type = "DEQ" /\ a.src = n /\ a.tok = t /\ a.ts > e.ts
  BY <1>1, <1>3, DeqEventFacts
<1>9. tr2 \in Seq(Entry) /\ TraceStep(tr, tr2, k)
  BY <1>1, <1>7, Extended, TraceStepDid
<1>10. /\ PoolsHold(q, tr2) /\ PeaksHold(q, tr2)
       /\ s.r[t].avail + Script[k].req <= s.r[t].max
       /\ s.r[t].min_avail <= s.r[t].avail
  BY <1>1, <1>2, <1>3, <1>4, PoolsFree
<1>11. /\ q \in [0 .. m -> Pool]
       /\ \A u \in DOMAIN s.r : u # t => q[u] = s.r[u]
       /\ resource_get(Script[k].req, t, q) = s.r
  BY <1>1, <1>10, FreePools
<1> HIDE DEF d
<1>12. QueueHolds(s.pending, tr2) /\ QueueOrder(s.pending, tr2) /\ InOrder(tr2)
  BY <1>1, <1>2, <1>7, OrderSame
<1> HIDE DEF o, tr2, a, q
<1>13. EventStep(E, e, {a}, k)
  BY <1>1, <1>2, <1>8, DueStep
<1>14. \A u \in Toks : ~Waits(s.pending, k, u)
  BY <1>1, <1>2, <1>4 DEF LifeOfWaiting, MayWait
<1> DEFINE E2 == (E \ {e}) \cup {a}
<1>15. LifeOfEvents(E2, tr2)
  BY <1>2, <1>8, <1>9, <1>13, LifeOfEventsStep
<1>16. LifeOfWaiting(s.pending, E2, tr2)
  BY <1>2, <1>9, <1>13, <1>14, WaitingSame
<1>17. LifeOfScript(E2, tr2, A)
  BY <1>1, <1>2, <1>9, <1>13, LifeOfScriptStep
<1>18. DOMAIN q = DOMAIN s.r
  BY <1>3, <1>11
<1>19. EventsFit(q, E2)
  <2>1. \A f \in {a} : /\ f.tok \in DOMAIN q
                       /\ f.type # "DEQ" => f.k \in Reqs
                       /\ f.type \in {"GET", "FREE"} => Script[f.k].op = "get"
                       /\ f.type # "RESERVE"
                       /\ f.src # 0
    BY <1>1, <1>8, <1>18
  <2> QED
    BY <1>2, <1>18, <2>1, EventsFitStep
<1>20. ReservesFirst(E2, tr2, e.ts)
  BY <1>1, <1>2, <1>8, ReservesFirstStep
<1>21. WakeupComing(q, s.pending, E2)
  <2>1. ASSUME NEW u \in DOMAIN q, s.pending[u] # << >>,
               Script[Head(s.pending[u])].req <= q[u].avail
        PROVE  \E f \in E2 : f.type = "DEQ" /\ f.tok = u
    <3>1. CASE u = t
      BY <1>8, <3>1
    <3>2. CASE u # t
      <4>1. \E f \in E : f.type = "DEQ" /\ f.tok = u
        BY <1>2, <1>11, <1>18, <2>1, <3>2 DEF WakeupComing
      <4> QED
        BY <4>1
    <3> QED
      BY <3>1, <3>2
  <2> HIDE DEF E2
  <2> QED
    BY <2>1 DEF WakeupComing
<1>22. o.ns \in State
  <2>1. s.rng + 1 \in Nat
    BY <1>3
  <2> QED
    BY <1>3, <1>5, <1>11, <2>1, StateFromFields
<1>23. Good(o.ns, (E \ {e}) \cup o.sent, tr \o o.did, A, e.ts)
  <2>1. E2 \subseteq Event /\ e.ts \in Nat
    BY <1>1, <1>8, EventFacts
  <2> HIDE DEF E2
  <2>2. Good(o.ns, E2, tr2, A, e.ts)
    BY <1>2, <1>5, <1>9, <1>10, <1>12, <1>15, <1>16, <1>17, <1>19, <1>20, <1>21, <1>22, <2>1
       DEF Good
  <2> QED
    BY <1>5, <2>2 DEF E2, tr2
<1>24. ASSUME NEW x, x.ev = e, x.rc = o.rc
       PROVE  resource_rev_handler(o.ns, x) = s
  <2> DEFINE y == resource_rev_handler(o.ns, x)
  <2>1. x.ev.type = "FREE" /\ x.ev.k = k /\ x.ev.tok = t
    BY <1>24
  <2>2. /\ IsRecord(y) /\ y.r = resource_get(Script[x.ev.k].req, x.ev.tok, o.ns.r)
        /\ y.pending = o.ns.pending /\ y.rng = o.ns.rng - 1
    BY <1>5, <2>1, RevFree
  <2> HIDE DEF y, k, t
  <2>3. y.r = s.r /\ y.pending = s.pending
    BY <1>5, <1>11, <2>1, <2>2
  <2>4. y.rng = s.rng
    BY <1>3, <1>5, <2>2
  <2>5. y = s
    BY <1>3, <2>2, <2>3, <2>4, StateEqual
  <2> QED
    BY <2>5 DEF y
<1>25. o.did \in Seq(Entry)
  BY <1>5, <1>7
<1>26. o.sent \subseteq Event /\ \A f \in o.sent : f.src = n
  BY <1>5, <1>8
<1> QED
  BY <1>6, <1>23, <1>24, <1>25, <1>26 DEF Outcome, o

\* a look at a queue that leaves it as it is
LEMMA DeqNothing ==
  ASSUME NEW s, NEW E, NEW tr, NEW A, NEW now, NEW e, NEW n, Due(s, E, tr, A, now, e, n),
         e.type = "DEQ", NEW o, o.ns = s, o.sent = {}, o.did = << >>, o.rc \in Rc,
         o.rc.c0 = TRUE \/ o.rc.c1 = FALSE,
         s.pending[e.tok] = << >> \/ ~(Script[Head(s.pending[e.tok])].req <= s.r[e.tok].avail)
  PROVE  Outcome(s, E, tr, A, e, n, o)
<1> DEFINE E2 == (E \ {e}) \cup {}
<1>1. /\ s \in State /\ E \subseteq Event /\ tr \in Seq(Entry)
      /\ e \in E /\ e \in Event /\ e.ts >= 2
  BY DueFacts
<1>2. /\ PoolsHold(s.r, tr) /\ PeaksHold(s.r, tr) /\ EventsFit(s.r, E)
      /\ LifeOfEvents(E, tr) /\ LifeOfWaiting(s.pending, E, tr) /\ LifeOfScript(E, tr, A)
      /\ WakeupComing(s.r, s.pending, E) /\ InOrder(tr) /\ QueueHolds(s.pending, tr)
      /\ QueueOnce(s.pending) /\ QueueOrder(s.pending, tr) /\ ReservesFirst(E, tr, now)
  BY DueFacts
<1>3. TraceStep(tr, tr, NoReq)
  BY TraceStepNone
<1>4. EventStep(E, e, {}, NoReq)
  BY <1>2, ResourceAssumption DEF EventStep, EventsFit
<1>5. LifeOfEvents(E2, tr)
  BY <1>2, <1>3, <1>4, LifeOfEventsStep
<1>6. LifeOfWaiting(s.pending, E2, tr)
  <2>1. \A u \in Toks : ~Waits(s.pending, NoReq, u)
    <3>1. s.pending \in [Toks -> Seq(Reqs)]
      BY <1>1, StateFacts
    <3>2. ASSUME NEW u \in Toks, NEW p \in 1 .. Len(s.pending[u])
          PROVE  s.pending[u][p] # NoReq
      <4>1. s.pending[u] \in Seq(Reqs)
        BY <3>1
      <4>2. s.pending[u][p] \in Reqs
        BY <4>1, ElementOfSeq
      <4> QED
        BY <4>2, ResourceAssumption
    <3> QED
      BY <3>2 DEF Waits
  <2> QED
    BY <1>2, <1>3, <1>4, <2>1, WaitingSame
<1>7. LifeOfScript(E2, tr, A)
  BY <1>2, <1>3, <1>4, ResourceAssumption, LifeOfScriptStep
<1>8. EventsFit(s.r, E2)
  BY <1>2 DEF EventsFit
<1>9. ReservesFirst(E2, tr, e.ts)
  BY <1>1, <1>2, ReservesFirstStep
<1>10. WakeupComing(s.r, s.pending, E2)
  <2>1. ASSUME NEW u \in DOMAIN s.r, s.pending[u] # << >>,
               Script[Head(s.pending[u])].req <= s.r[u].avail
        PROVE  \E f \in E2 : f.type = "DEQ" /\ f.tok = u
    <3>1. u # e.tok
      BY <2>1
    <3>2. \E f \in E : f.type = "DEQ" /\ f.tok = u
      BY <1>2, <2>1 DEF WakeupComing
    <3> QED
      BY <3>1, <3>2
  <2> HIDE DEF E2
  <2> QED
    BY <2>1 DEF WakeupComing
<1>11. Good(o.ns, (E \ {e}) \cup o.sent, tr \o o.did, A, e.ts)
  <2>1. E2 \subseteq Event /\ e.ts \in Nat
    BY <1>1, EventFacts
  <2>2. tr \o o.did = tr
    BY <1>1, ConcatEmptySeq
  <2> HIDE DEF E2
  <2>3. Good(s, E2, tr, A, e.ts)
    BY <1>1, <1>2, <1>5, <1>6, <1>7, <1>8, <1>9, <1>10, <2>1 DEF Good
  <2> QED
    BY <2>2, <2>3 DEF E2
<1>12. ASSUME NEW x, x.ev = e, x.rc = o.rc
       PROVE  resource_rev_handler(o.ns, x) = s
  BY <1>12, RevNothing
<1>13. o.did \in Seq(Entry)
  OBVIOUS
<1> QED
  BY <1>11, <1>12, <1>13 DEF Outcome

LEMMA DeqEmptyOutcome ==
  ASSUME NEW s, NEW E, NEW tr, NEW A, NEW now, NEW e, NEW n, Due(s, E, tr, A, now, e, n),
         e.type = "DEQ", s.pending[e.tok] = << >>
  PROVE  Outcome(s, E, tr, A, e, n, deq_empty(s))
<1> DEFINE o == deq_empty(s)
<1>1. o.ns = s /\ o.sent = {} /\ o.did = << >> /\ o.rc \in Rc /\ o.rc.c0 = TRUE
  BY DEF deq_empty, NoRc, Rc
<1> HIDE DEF o
<1>2. Outcome(s, E, tr, A, e, n, o)
  BY <1>1, DeqNothing
<1> QED
  BY <1>2 DEF o

LEMMA DeqWaitOutcome ==
  ASSUME NEW s, NEW E, NEW tr, NEW A, NEW now, NEW e, NEW n, Due(s, E, tr, A, now, e, n),
         e.type = "DEQ", s.pending[e.tok] # << >>,
         resource_get_ret(Script[Head(s.pending[e.tok])].req, e.tok, s.r) = 1
  PROVE  Outcome(s, E, tr, A, e, n, deq_wait(s, e))
<1> DEFINE o == deq_wait(s, e)
           t == e.tok
           m == num_tokens(s.r)
           req == Script[Head(s.pending[t])].req
           r == s.r
<1>1. s \in State /\ t \in DOMAIN s.r /\ t \in Toks
  BY DueFacts
<1>2. /\ m \in Nat /\ r \in [0 .. m -> Pool] /\ DOMAIN r = 0 .. m
      /\ s.pending \in [Toks -> Seq(Reqs)]
  BY <1>1, StateFacts
<1>3. req \in Nat
  <2>1. s.pending[t] \in Seq(Reqs)
    BY <1>1, <1>2
  <2>2. Head(s.pending[t]) \in Reqs
    BY <2>1, HeadTailProperties
  <2> QED
    BY <2>2, ScriptFacts
<1>4. t \in 0 .. m /\ resource_get_ret(req, t, r) = 1
  BY <1>1, <1>2
<1>5. r[t].min_avail \in Nat /\ r[t].avail \in Nat
  BY <1>2, <1>4, PoolFacts
<1>6. o.ns = s /\ o.sent = {} /\ o.did = << >> /\ o.rc \in Rc /\ o.rc.c1 = FALSE
  BY <1>5 DEF deq_wait, NoRc, Rc
<1>7. ~(req <= r[t].avail)
  <2> HIDE DEF m, r, req, t
  <2>1. req > r[t].avail
    BY <1>2, <1>3, <1>4, GetRet
  <2> QED
    BY <1>3, <1>5, <2>1
<1> HIDE DEF o
<1>8. Outcome(s, E, tr, A, e, n, o)
  BY <1>6, <1>7, DeqNothing
<1> QED
  BY <1>8 DEF o

LEMMA DeqGrantOutcome ==
  ASSUME NDEBUG = FALSE,
         NEW s, NEW E, NEW tr, NEW A, NEW now, NEW e, NEW n, Due(s, E, tr, A, now, e, n),
         e.type = "DEQ", s.pending[e.tok] # << >>,
         resource_get_ret(Script[Head(s.pending[e.tok])].req, e.tok, s.r) = 0
  PROVE  Outcome(s, E, tr, A, e, n, deq_grant(s, e, n))
<1> DEFINE o == deq_grant(s, e, n)
           t == e.tok
           k == Head(s.pending[t])
           m == num_tokens(s.r)
           d == Did("granted", k, t)
           tr2 == tr \o <<d>>
           a == resource_response(s, e, n, k, t, 0)
           b == DeqEvent(e, n, s.rng + 1)
           q == resource_get(Script[k].req, t, s.r)
           P2 == [s.pending EXCEPT ![t] = Tail(@)]
<1>1. /\ s \in State /\ E \subseteq Event /\ tr \in Seq(Entry)
      /\ e \in E /\ e \in Event /\ n \in Nat /\ n # 0
      /\ t \in Toks /\ t \in DOMAIN s.r /\ e.ts >= 2
  BY DueFacts
<1>2. /\ PoolsHold(s.r, tr) /\ PeaksHold(s.r, tr) /\ EventsFit(s.r, E)
      /\ LifeOfEvents(E, tr) /\ LifeOfWaiting(s.pending, E, tr) /\ LifeOfScript(E, tr, A)
      /\ WakeupComing(s.r, s.pending, E) /\ InOrder(tr) /\ QueueHolds(s.pending, tr)
      /\ QueueOnce(s.pending) /\ QueueOrder(s.pending, tr) /\ ReservesFirst(E, tr, now)
  BY DueFacts
<1>3. /\ m \in Toks /\ m \in Nat /\ s.r \in [0 .. m -> Pool] /\ DOMAIN s.r = 0 .. m
      /\ s.pending \in [Toks -> Seq(Reqs)] /\ s.rng \in Nat /\ IsRecord(s)
  BY <1>1, StateFacts
<1>4. /\ P2 \in [Toks -> Seq(Reqs)]
      /\ k \in Reqs /\ Waits(s.pending, k, t)
      /\ \A u \in Toks : u # t => P2[u] = s.pending[u]
      /\ \A j, u : u \in Toks => (Waits(P2, j, u) <=> Waits(s.pending, j, u) /\ j # k)
      /\ <<k>> \o P2[t] = s.pending[t]
  BY ZenonT(60), <1>1, <1>2, <1>3, QueueTail
<1>5. MayWait(E, tr, k, t)
  BY <1>1, <1>2, <1>4 DEF LifeOfWaiting
<1>6. /\ Script[k].op = "get" /\ ~Coming(E, k)
      /\ Happened(tr, "queued", k, t) /\ ~Happened(tr, "granted", k, t)
      /\ ~Happened(tr, "freed", k, t)
  BY <1>1, <1>5 DEF MayWait
<1>7. /\ o.ns.r = q /\ o.ns.pending = P2 /\ o.ns.rng = s.rng + 2 /\ IsRecord(o.ns)
      /\ o.sent = {a, b} /\ o.did = <<d>>
  BY <1>3 DEF deq_grant, IsRecord, Fields
<1>8. /\ o.rc.c0 = FALSE /\ o.rc.c1 = TRUE /\ o.rc.i_rc = k
      /\ o.rc.min_avail_rc = s.r[t].min_avail
  BY DEF deq_grant, NoRc
<1>9. o.rc \in Rc
  <2>1. s.r[t].min_avail \in Nat
    BY <1>1, <1>3, PoolFacts
  <2> QED
    BY <1>4, <2>1 DEF deq_grant, NoRc, Rc
<1>10. d \in Entry /\ d.k = k
  BY <1>1, <1>4 DEF Did, Entry
<1>11. /\ a \in Event /\ a.type = "ACK" /\ a.src = n /\ a.k = k /\ a.tok = t
       /\ a.ret = 0 /\ a.ts > e.ts
  BY <1>1, <1>4, ResponseFacts
<1>12. b \in Event /\ b.type = "DEQ" /\ b.src = n /\ b.tok = t /\ b.ts > e.ts
  <2>1. s.rng + 1 \in Nat
    BY <1>3
  <2> QED
    BY <1>1, <2>1, DeqEventFacts
<1>13. /\ tr2 \in Seq(Entry) /\ TraceStep(tr, tr2, k)
       /\ Happened(tr2, "granted", k, t) /\ ~Happened(tr2, "freed", k, t)
  <2>1. tr2 \in Seq(Entry) /\ TraceStep(tr, tr2, k)
    BY <1>1, <1>10, Extended, TraceStepDid
  <2>2. \A kind, j, u : Happened(tr2, kind, j, u) <=> Happened(tr, kind, j, u) \/ d = Did(kind, j, u)
    BY <1>1, <1>10, ExtendedSeen
  <2>3. d # Did("freed", k, t)
    BY SMTT(30) DEF Did
  <2> HIDE DEF tr2
  <2> QED
    BY <1>6, <2>1, <2>2, <2>3
<1>14. /\ q \in [0 .. m -> Pool]
       /\ \A u \in DOMAIN s.r : u # t => q[u] = s.r[u]
       /\ resource_free(Script[k].req, t,
            resource_restore_min_avail(t, s.r[t].min_avail, q)) = s.r
  <2> HIDE DEF k
  <2> QED
    BY ZenonT(60), <1>1, <1>4, GrantPools DEF k
<1>15. PoolsHold(q, tr2) /\ PeaksHold(q, tr2)
  BY <1>1, <1>2, <1>3, <1>4, <1>6, PoolsGrant
<1>16. QueueHolds(P2, tr2) /\ QueueOnce(P2) /\ QueueOrder(P2, tr2) /\ InOrder(tr2)
  BY <1>1, <1>2, <1>3, <1>6, OrderDequeued
<1>17. [P2 EXCEPT ![t] = <<k>> \o P2[t]] = s.pending
  <2>1. [P2 EXCEPT ![t] = s.pending[t]] = s.pending
    BY <1>1, <1>3
  <2> QED
    BY <1>4, <2>1
<1> HIDE DEF o, d, tr2, a, b, q, P2, k
<1>18. EventStep(E, e, {a, b}, k)
  BY <1>6, <1>11, <1>12 DEF EventStep, Coming
<1> DEFINE E2 == (E \ {e}) \cup {a, b}
<1>19. LifeOfEvents(E2, tr2)
  <2>1. \A f \in {a, b} :
          f.type = "FREE" \/ (f.type = "ACK" /\ Script[k].op = "get" /\ f.ret = 0) =>
            Happened(tr2, "granted", k, f.tok) /\ ~Happened(tr2, "freed", k, f.tok)
    BY <1>11, <1>12, <1>13
  <2> QED
    BY <1>2, <1>13, <1>18, <2>1, LifeOfEventsStep
<1>20. LifeOfWaiting(P2, E2, tr2)
  <2>1. ASSUME NEW u \in Toks, NEW j \in Reqs, Waits(P2, j, u)
        PROVE  MayWait(E2, tr2, j, u)
    <3>1. j # k /\ Waits(s.pending, j, u)
      BY <1>4, <2>1
    <3> QED
      BY <1>2, <1>13, <1>18, <3>1, LifeOfWaitingStep
  <2> HIDE DEF E2
  <2> QED
    BY <2>1 DEF LifeOfWaiting
<1>21. LifeOfScript(E2, tr2, A)
  <2>1. Seen(tr, k)
    BY <1>6 DEF Happened, Seen, Did
  <2> QED
    BY <1>2, <1>6, <1>13, <1>18, <2>1, LifeOfScriptStep
<1>22. DOMAIN q = DOMAIN s.r
  BY <1>3, <1>14
<1>23. EventsFit(q, E2)
  <2>1. \A f \in {a, b} : /\ f.tok \in DOMAIN q
                          /\ f.type # "DEQ" => f.k \in Reqs
                          /\ f.type \in {"GET", "FREE"} => Script[f.k].op = "get"
                          /\ f.type # "RESERVE"
                          /\ f.src # 0
    BY <1>1, <1>4, <1>11, <1>12, <1>22
  <2> QED
    BY <1>2, <1>22, <2>1, EventsFitStep
<1>24. ReservesFirst(E2, tr2, e.ts)
  BY <1>1, <1>2, <1>11, <1>12, ReservesFirstStep
<1>25. WakeupComing(q, P2, E2)
  <2>1. ASSUME NEW u \in DOMAIN q, P2[u] # << >>, Script[Head(P2[u])].req <= q[u].avail
        PROVE  \E f \in E2 : f.type = "DEQ" /\ f.tok = u
    <3>1. CASE u = t
      BY <1>12, <3>1
    <3>2. CASE u # t
      <4>1. u \in Toks
        BY <1>3, <1>22, ResourceAssumption DEF Toks
      <4>2. P2[u] = s.pending[u] /\ q[u] = s.r[u] /\ u \in DOMAIN s.r
        BY <1>4, <1>14, <1>22, <3>2, <4>1
      <4>3. \E f \in E : f.type = "DEQ" /\ f.tok = u
        BY <1>2, <2>1, <4>2 DEF WakeupComing
      <4> QED
        BY <3>2, <4>3
    <3> QED
      BY <3>1, <3>2
  <2> HIDE DEF E2
  <2> QED
    BY <2>1 DEF WakeupComing
<1>26. o.ns \in State
  <2>1. s.rng + 2 \in Nat
    BY <1>3
  <2> QED
    BY <1>3, <1>4, <1>7, <1>14, <2>1, StateFromFields
<1>27. Good(o.ns, (E \ {e}) \cup o.sent, tr \o o.did, A, e.ts)
  <2>1. E2 \subseteq Event /\ e.ts \in Nat
    BY <1>1, <1>11, <1>12, EventFacts
  <2> HIDE DEF E2
  <2>2. Good(o.ns, E2, tr2, A, e.ts)
    BY <1>7, <1>13, <1>15, <1>16, <1>19, <1>20, <1>21, <1>23, <1>24, <1>25, <1>26, <2>1
       DEF Good
  <2> QED
    BY <1>7, <2>2 DEF E2, tr2
<1>28. ASSUME NEW x, x.ev = e, x.rc = o.rc
       PROVE  resource_rev_handler(o.ns, x) = s
  <2> DEFINE y == resource_rev_handler(o.ns, x)
  <2>1. /\ x.ev.type = "DEQ" /\ x.ev.tok = t /\ x.ev.tok \in Toks
        /\ x.rc.c0 = FALSE /\ x.rc.c1 = TRUE /\ x.rc.i_rc = k
        /\ x.rc.min_avail_rc = s.r[t].min_avail
        /\ IsRecord(o.ns) /\ o.ns.pending \in [Toks -> Seq(Reqs)]
    BY <1>1, <1>4, <1>7, <1>8, <1>28
  <2>2. /\ IsRecord(y)
        /\ y.r = resource_free(Script[x.rc.i_rc].req, x.ev.tok,
                   resource_restore_min_avail(x.ev.tok, x.rc.min_avail_rc, o.ns.r))
        /\ y.pending = [o.ns.pending EXCEPT ![x.ev.tok] = <<x.rc.i_rc>> \o o.ns.pending[x.ev.tok]]
        /\ y.rng = o.ns.rng - 2
    BY <2>1, RevDequeue
  <2> HIDE DEF y, t
  <2>3. y.r = s.r
    BY <1>7, <1>14, <2>1, <2>2
  <2>4. y.pending = s.pending
    BY <1>7, <1>17, <2>1, <2>2
  <2>5. y.rng = s.rng
    BY <1>3, <1>7, <2>2
  <2>6. y = s
    BY <1>3, <2>2, <2>3, <2>4, <2>5, StateEqual
  <2> QED
    BY <2>6 DEF y
<1>29. o.did \in Seq(Entry)
  BY <1>7, <1>10
<1>30. o.sent \subseteq Event /\ \A f \in o.sent : f.src = n
  BY <1>7, <1>11, <1>12
<1> QED
  BY <1>9, <1>27, <1>28, <1>29, <1>30 DEF Outcome, o

LEMMA ReserveOutcome ==
  ASSUME ReservesFit,
         NEW s, NEW E, NEW tr, NEW A, NEW now, NEW e, NEW n, Due(s, E, tr, A, now, e, n),
         e.type = "RESERVE", Script[e.k].req <= s.r[0].avail
  PROVE  Outcome(s, E, tr, A, e, n, handle_resource_reserve(s, e, n))
<1> DEFINE o == handle_resource_reserve(s, e, n)
           k == e.k
           m == num_tokens(s.r)
           t == m + 1
           d == Did("reserved", k, t)
           tr2 == tr \o <<d>>
           a == resource_response(s, e, n, k, t, 0)
           q == resource_reserve(Script[k].req, s.r)
<1>1. /\ s \in State /\ E \subseteq Event /\ tr \in Seq(Entry) /\ now \in Nat
      /\ e \in E /\ e \in Event /\ n \in Nat /\ n # 0 /\ e.ts >= now
      /\ k \in Reqs /\ Coming(E, k)
      /\ e.ts = 1 /\ ~Seen(tr, k) /\ Script[k].op = "reserve"
  BY DueFacts
<1>2. /\ PoolsHold(s.r, tr) /\ PeaksHold(s.r, tr) /\ EventsFit(s.r, E)
      /\ LifeOfEvents(E, tr) /\ LifeOfWaiting(s.pending, E, tr) /\ LifeOfScript(E, tr, A)
      /\ WakeupComing(s.r, s.pending, E) /\ InOrder(tr) /\ QueueHolds(s.pending, tr)
      /\ QueueOnce(s.pending) /\ QueueOrder(s.pending, tr) /\ ReservesFirst(E, tr, now)
  BY DueFacts
<1>3. /\ m \in Toks /\ m \in Nat /\ s.r \in [0 .. m -> Pool] /\ DOMAIN s.r = 0 .. m
      /\ s.pending \in [Toks -> Seq(Reqs)] /\ s.rng \in Nat /\ IsRecord(s)
  BY <1>1, StateFacts
<1>4. \A p \in 1 .. Len(tr) : tr[p].kind = "reserved"
  BY <1>1, <1>2 DEF ReservesFirst
<1>5. /\ o.ns.r = q /\ o.ns.pending = s.pending /\ o.ns.rng = s.rng + 1 /\ IsRecord(o.ns)
      /\ o.sent = {a} /\ o.did = <<d>>
  BY <1>3 DEF handle_resource_reserve, IsRecord, Fields
<1>6. o.rc \in Rc
  BY DEF handle_resource_reserve, NoRc, Rc
<1>7. /\ t \in Toks /\ s.r[0].avail <= s.r[0].max
      /\ PoolsHold(q, tr2) /\ PeaksHold(q, tr2)
  <2>1. Script[k].req <= s.r[0].avail
    OBVIOUS
  <2> QED
    BY <1>1, <1>2, <1>3, <1>4, <2>1, PoolsReserve
<1>8. /\ q \in [0 .. t -> Pool] /\ Unreserve(Script[k].req, q) = s.r
      /\ DOMAIN s.r \subseteq DOMAIN q /\ t \in DOMAIN q
  <2> DEFINE r == s.r
             req == Script[k].req
  <2>1. req \in Nat
    BY <1>1, ScriptFacts
  <2>2. /\ m \in Nat /\ r \in [0 .. m -> Pool] /\ DOMAIN r = 0 .. m
        /\ req <= r[0].avail /\ r[0].avail <= r[0].max
    BY <1>3, <1>7
  <2> HIDE DEF r, req, m
  <2>3. /\ resource_reserve(req, r) \in [0 .. m + 1 -> Pool]
        /\ Unreserve(req, resource_reserve(req, r)) = r
    BY <2>1, <2>2, PoolReserve
  <2>4. q \in [0 .. t -> Pool] /\ Unreserve(Script[k].req, q) = s.r
    BY <2>3 DEF r, req
  <2>5. DOMAIN s.r = 0 .. m /\ DOMAIN q = 0 .. m + 1
    BY <2>2, <2>4 DEF r
  <2> QED
    BY <2>2, <2>4, <2>5
<1>9. d \in Entry /\ d.k = k /\ d.kind = "reserved" /\ d.kind \notin {"queued", "granted"}
  BY <1>1, <1>7 DEF Did, Entry
<1>10. /\ a \in Event /\ a.type = "ACK" /\ a.src = n /\ a.k = k /\ a.tok = t
       /\ a.ret = 0 /\ a.ts > e.ts
  BY <1>1, <1>7, ResponseFacts
<1>11. tr2 \in Seq(Entry) /\ TraceStep(tr, tr2, k)
  BY <1>1, <1>9, Extended, TraceStepDid
<1> HIDE DEF d, t
<1>12. QueueHolds(s.pending, tr2) /\ QueueOrder(s.pending, tr2) /\ InOrder(tr2)
  BY <1>1, <1>2, <1>9, OrderSame
<1>13. \A p \in 1 .. Len(tr2) : tr2[p].kind = "reserved"
  <2>1. /\ Len(tr) \in Nat /\ Len(tr2) = Len(tr) + 1
        /\ \A p \in 1 .. Len(tr) : tr2[p] = tr[p]
        /\ tr2[Len(tr) + 1] = d
    BY <1>1, <1>9, Extended
  <2> HIDE DEF tr2
  <2> QED
    BY <1>4, <1>9, <2>1
<1> HIDE DEF o, tr2, a, q
<1>14. EventStep(E, e, {a}, k)
  BY <1>1, <1>2, <1>10, DueStep
<1>15. \A u \in Toks, j \in Reqs : ~Waits(s.pending, j, u)
  <2>1. \A j, u : ~Happened(tr, "queued", j, u)
    BY <1>4 DEF Happened, Did
  <2> QED
    BY <1>2, <2>1 DEF LifeOfWaiting, MayWait
<1> DEFINE E2 == (E \ {e}) \cup {a}
<1>16. LifeOfEvents(E2, tr2)
  BY <1>1, <1>2, <1>10, <1>11, <1>14, LifeOfEventsStep
<1>17. LifeOfWaiting(s.pending, E2, tr2)
  BY <1>15 DEF LifeOfWaiting
<1>18. LifeOfScript(E2, tr2, A)
  BY <1>1, <1>2, <1>11, <1>14, LifeOfScriptStep
<1>19. EventsFit(q, E2)
  <2>1. \A f \in {a} : /\ f.tok \in DOMAIN q
                       /\ f.type # "DEQ" => f.k \in Reqs
                       /\ f.type \in {"GET", "FREE"} => Script[f.k].op = "get"
                       /\ f.type # "RESERVE"
                       /\ f.src # 0
    BY <1>1, <1>8, <1>10
  <2> QED
    BY <1>2, <1>8, <2>1, EventsFitStep
<1>20. ReservesFirst(E2, tr2, e.ts)
  <2>1. a.ts >= 2
    BY <1>1, <1>10, EventFacts
  <2> QED
    BY <1>2, <1>10, <1>13, <2>1 DEF ReservesFirst
<1>21. WakeupComing(q, s.pending, E2)
  <2>1. ASSUME NEW u \in DOMAIN q
        PROVE  s.pending[u] = << >>
    <3>1. u \in Toks
      BY <1>7, <1>8, ResourceAssumption DEF Toks
    <3>2. s.pending[u] \in Seq(Reqs)
      BY <1>3, <3>1
    <3>3. SUFFICES ASSUME s.pending[u] # << >>
                   PROVE  FALSE
      OBVIOUS
    <3>4. Len(s.pending[u]) \in Nat /\ Len(s.pending[u]) # 0
      BY <3>2, <3>3, EmptySeq, LenProperties
    <3>5. 1 \in 1 .. Len(s.pending[u]) /\ s.pending[u][1] \in Reqs
      BY <3>2, <3>4, ElementOfSeq
    <3> QED
      BY <1>15, <3>1, <3>5 DEF Waits
  <2> QED
    BY <2>1 DEF WakeupComing
<1>22. o.ns \in State
  <2>1. s.rng + 1 \in Nat
    BY <1>3
  <2> QED
    BY <1>3, <1>5, <1>7, <1>8, <2>1, StateFromFields
<1>23. Good(o.ns, (E \ {e}) \cup o.sent, tr \o o.did, A, e.ts)
  <2>1. E2 \subseteq Event /\ e.ts \in Nat
    BY <1>1, <1>10, EventFacts
  <2> HIDE DEF E2
  <2>2. Good(o.ns, E2, tr2, A, e.ts)
    BY <1>2, <1>5, <1>7, <1>11, <1>12, <1>16, <1>17, <1>18, <1>19, <1>20, <1>21, <1>22, <2>1
       DEF Good
  <2> QED
    BY <1>5, <2>2 DEF E2, tr2
<1>24. ASSUME NEW x, x.ev = e, x.rc = o.rc
       PROVE  resource_rev_handler(o.ns, x) = s
  <2> DEFINE y == resource_rev_handler(o.ns, x)
  <2>1. x.ev.type = "RESERVE" /\ x.ev.k = k
    BY <1>24
  <2>2. /\ IsRecord(y) /\ y.r = Unreserve(Script[x.ev.k].req, o.ns.r)
        /\ y.pending = o.ns.pending /\ y.rng = o.ns.rng - 1
    BY <1>5, <2>1, RevReserve
  <2> HIDE DEF y, k
  <2>3. y.r = s.r /\ y.pending = s.pending
    BY <1>5, <1>8, <2>1, <2>2
  <2>4. y.rng = s.rng
    BY <1>3, <1>5, <2>2
  <2>5. y = s
    BY <1>3, <2>2, <2>3, <2>4, StateEqual
  <2> QED
    BY <2>5 DEF y
<1>25. o.did \in Seq(Entry)
  BY <1>5, <1>9
<1>26. o.sent \subseteq Event /\ \A f \in o.sent : f.src = n
  BY <1>5, <1>10
<1> QED
  BY <1>6, <1>23, <1>24, <1>25, <1>26 DEF Outcome, o

\* What a client does with an answer, for step n.
ReactsWith(e, n, sent) ==
  LET users == {k \in Reqs : Script[k].of = e.k}
  IN  IF Script[e.k].op = "reserve"
      THEN \E d \in [users -> Delays] : sent = {Ev("GET", e.ts + d[k], n, k, e.tok, 0) : k \in users}
      ELSE IF e.ret = 0
      THEN \E d \in Delays : sent = {Ev("FREE", e.ts + d, n, e.k, e.tok, 0)}
      ELSE sent = {}

LEMMA ReactionsAre ==
  ASSUME NEW e, NEW sent \in Reactions(e)
  PROVE  ReactsWith(e, Step, sent)
BY DEF Reactions, ReactsWith

\* the part of an answer's outcome that does not depend on the answer
LEMMA AckRest ==
  ASSUME NEW s, NEW E, NEW tr, NEW A, NEW now, NEW e, NEW n, Due(s, E, tr, A, now, e, n),
         e.type = "ACK", NEW sent \in SUBSET Event,
         \A f \in sent : /\ f.tok = e.tok /\ f.k \in Reqs /\ Script[f.k].op = "get"
                         /\ f.type \in {"GET", "FREE"} /\ f.src = n /\ f.ts > e.ts,
         LifeOfEvents((E \ {e}) \cup sent, tr),
         LifeOfWaiting(s.pending, (E \ {e}) \cup sent, tr),
         LifeOfScript((E \ {e}) \cup sent, tr, A)
  PROVE  Outcome(s, E, tr, A, e, n, [ns |-> s, rc |-> NoRc, sent |-> sent, did |-> << >>])
<1> DEFINE o == [ns |-> s, rc |-> NoRc, sent |-> sent, did |-> << >>]
           E2 == (E \ {e}) \cup sent
<1>1. /\ s \in State /\ E \subseteq Event /\ tr \in Seq(Entry) /\ n # 0
      /\ e \in E /\ e \in Event /\ e.ts >= 2 /\ e.tok \in DOMAIN s.r
  BY DueFacts
<1>2. /\ PoolsHold(s.r, tr) /\ PeaksHold(s.r, tr) /\ EventsFit(s.r, E)
      /\ WakeupComing(s.r, s.pending, E) /\ InOrder(tr) /\ QueueHolds(s.pending, tr)
      /\ QueueOnce(s.pending) /\ QueueOrder(s.pending, tr) /\ ReservesFirst(E, tr, now)
  BY DueFacts
<1>3. EventsFit(s.r, E2)
  <2>1. \A f \in sent : /\ f.tok \in DOMAIN s.r
                        /\ f.type # "DEQ" => f.k \in Reqs
                        /\ f.type \in {"GET", "FREE"} => Script[f.k].op = "get"
                        /\ f.type # "RESERVE"
                        /\ f.src # 0
    BY <1>1
  <2> QED
    BY <1>2, <2>1, EventsFitStep
<1>4. ReservesFirst(E2, tr, e.ts)
  BY <1>1, <1>2, ReservesFirstStep
<1>5. WakeupComing(s.r, s.pending, E2)
  BY <1>2 DEF WakeupComing
<1>6. o.ns = s /\ o.sent = sent /\ o.did = << >> /\ o.rc = NoRc
  OBVIOUS
<1> HIDE DEF o
<1>7. Good(o.ns, (E \ {e}) \cup o.sent, tr \o o.did, A, e.ts)
  <2>1. E2 \subseteq Event /\ e.ts \in Nat
    BY <1>1, EventFacts
  <2>2. tr \o o.did = tr
    BY <1>1, <1>6, ConcatEmptySeq
  <2>3. /\ LifeOfEvents(E2, tr) /\ LifeOfWaiting(s.pending, E2, tr) /\ LifeOfScript(E2, tr, A)
    OBVIOUS
  <2> HIDE DEF E2
  <2>4. Good(s, E2, tr, A, e.ts)
    BY <1>1, <1>2, <1>3, <1>4, <1>5, <2>1, <2>3 DEF Good
  <2> QED
    BY <1>6, <2>2, <2>4 DEF E2
<1>8. ASSUME NEW x, x.ev = e, x.rc = o.rc
      PROVE  resource_rev_handler(o.ns, x) = s
  BY <1>6, <1>8, RevNothing
<1>9. o.did \in Seq(Entry) /\ o.rc \in Rc
  BY <1>6 DEF NoRc, Rc
<1>10. o.sent \subseteq Event /\ \A f \in o.sent : f.src = n
  BY <1>6
<1> QED
  BY <1>7, <1>8, <1>9, <1>10 DEF Outcome, o

\* the client of a reservation sends the requests that use its token
LEMMA AckReserveOutcome ==
  ASSUME NEW s, NEW E, NEW tr, NEW A, NEW now, NEW e, NEW n, Due(s, E, tr, A, now, e, n),
         e.type = "ACK", Script[e.k].op = "reserve", NEW sent, ReactsWith(e, n, sent)
  PROVE  Outcome(s, E, tr, A, e, n, [ns |-> s, rc |-> NoRc, sent |-> sent, did |-> << >>])
<1> DEFINE k == e.k
           users == {j \in Reqs : Script[j].of = k}
           E2 == (E \ {e}) \cup sent
<1>1. /\ E \subseteq Event /\ e \in E /\ e \in Event /\ n \in Nat
      /\ k \in Reqs /\ Coming(E, k) /\ e.tok \in Toks /\ e.ts \in Nat
  BY DueFacts, EventFacts
<1>2. /\ LifeOfEvents(E, tr) /\ LifeOfWaiting(s.pending, E, tr) /\ LifeOfScript(E, tr, A)
      /\ EventsFit(s.r, E)
  BY DueFacts
<1>3. PICK d \in [users -> Delays] :
        sent = {Ev("GET", e.ts + d[j], n, j, e.tok, 0) : j \in users}
  BY DEF ReactsWith
<1> DEFINE F(j) == Ev("GET", e.ts + d[j], n, j, e.tok, 0)
<1>4. ASSUME NEW j \in users
      PROVE  /\ F(j) \in Event /\ F(j).type = "GET" /\ F(j).ts = e.ts + d[j] /\ F(j).src = n
             /\ F(j).k = j /\ F(j).tok = e.tok /\ F(j).ts > e.ts
  <2>1. d[j] \in Nat /\ d[j] # 0
    BY <1>3, TWAssumption
  <2>2. e.ts + d[j] \in Nat /\ e.ts + d[j] > e.ts
    BY <1>1, <2>1
  <2>3. j \in Reqs \cup {NoReq} /\ 0 \in {0, 1} /\ "GET" \in {"GET", "FREE", "DEQ", "RESERVE", "ACK"}
    OBVIOUS
  <2> DEFINE ts == e.ts + d[j]
  <2> HIDE DEF ts, users
  <2>4. LET g == Ev("GET", ts, n, j, e.tok, 0)
        IN  /\ g \in Event
            /\ g.type = "GET" /\ g.ts = ts /\ g.src = n /\ g.k = j /\ g.tok = e.tok /\ g.ret = 0
    <3>1. ts \in Nat
      BY <2>2 DEF ts
    <3> QED
      BY <1>1, <2>3, <3>1 DEF Ev, Event
  <2> QED
    BY <2>2, <2>4 DEF ts
<1>5. \A f \in sent : f = F(f.k) /\ f.k \in users
  BY <1>3, <1>4
<1>6. \A j \in users : Script[j].of = k /\ j \in Reqs /\ Script[j].op = "get" /\ j # k
  <2>1. Script[k].of = NoReq /\ k # NoReq
    BY <1>1, ScriptFacts
  <2> SUFFICES ASSUME NEW j \in users
               PROVE  Script[j].of = k /\ j \in Reqs /\ Script[j].op = "get" /\ j # k
    OBVIOUS
  <2>2. j \in Reqs /\ Script[j].of = k /\ Script[j].op \in {"get", "reserve"}
        /\ (Script[j].op = "reserve" => Script[j].of = NoReq)
    BY ScriptFacts
  <2> QED
    BY <2>1, <2>2
<1>7. \A j \in users : ~Coming(E, j) /\ ~Seen(tr, j)
  BY <1>1, <1>2, <1>6, ScriptFacts DEF LifeOfScript
<1> HIDE DEF F, users
<1>8. \A f \in sent : /\ f \in Event /\ f.tok = e.tok /\ f.k \in Reqs /\ Script[f.k].op = "get"
                      /\ f.type \in {"GET", "FREE"} /\ f.type = "GET" /\ f.src = n /\ f.ts > e.ts
  <2> SUFFICES ASSUME NEW f \in sent
               PROVE  /\ f \in Event /\ f.tok = e.tok /\ f.k \in Reqs /\ Script[f.k].op = "get"
                      /\ f.type \in {"GET", "FREE"} /\ f.type = "GET" /\ f.src = n /\ f.ts > e.ts
    OBVIOUS
  <2> DEFINE j == f.k
  <2>1. f = F(j) /\ j \in users
    BY <1>5
  <2> HIDE DEF j
  <2>2. F(j) \in Event /\ F(j).type = "GET" /\ F(j).src = n /\ F(j).tok = e.tok /\ F(j).ts > e.ts
    BY <1>4, <2>1
  <2>3. j \in Reqs /\ Script[j].op = "get"
    BY <1>6, <2>1
  <2> QED
    BY <2>1, <2>2, <2>3 DEF j
<1>9. \A j : Coming(E2, j) => Coming(E, j) \/ j \in users
  BY <1>5 DEF Coming
<1>10. ~Coming(E2, k)
  <2>1. SUFFICES ASSUME NEW f \in E2, f.type # "DEQ", f.k = k
                 PROVE  FALSE
    BY DEF Coming
  <2>2. CASE f \in sent
    BY <1>5, <1>6, <2>1, <2>2
  <2>3. CASE f \in E \ {e}
    BY <1>1, <1>2, <2>1, <2>3 DEF LifeOfEvents
  <2> QED
    BY <2>2, <2>3
<1>11. LifeOfEvents(E2, tr)
  <2>1. ASSUME NEW f \in E2, NEW g \in E2, f.type # "DEQ", g.type # "DEQ", f.k = g.k
        PROVE  f = g
    <3>1. CASE f \in sent /\ g \in sent
      BY <1>5, <2>1, <3>1
    <3>2. CASE f \in E /\ g \in E
      BY <1>2, <2>1, <3>2 DEF LifeOfEvents
    <3>3. CASE f \in sent /\ g \in E
      <4>1. Coming(E, f.k)
        BY <2>1, <3>3 DEF Coming
      <4> QED
        BY <1>5, <1>7, <3>3, <4>1
    <3>4. CASE f \in E /\ g \in sent
      <4>1. Coming(E, g.k)
        BY <2>1, <3>4 DEF Coming
      <4> QED
        BY <1>5, <1>7, <3>4, <4>1
    <3> QED
      BY <3>1, <3>2, <3>3, <3>4
  <2>2. ASSUME NEW f \in E2, f.type \in {"GET", "RESERVE"}
        PROVE  ~Seen(tr, f.k)
    <3>1. CASE f \in sent
      BY <1>5, <1>7, <3>1
    <3>2. CASE f \in E
      BY <1>2, <2>2, <3>2 DEF LifeOfEvents
    <3> QED
      BY <3>1, <3>2
  <2>3. ASSUME NEW f \in E2,
               f.type = "FREE" \/ (f.type = "ACK" /\ Script[f.k].op = "get" /\ f.ret = 0)
        PROVE  Happened(tr, "granted", f.k, f.tok) /\ ~Happened(tr, "freed", f.k, f.tok)
    <3>1. f \in E
      BY <1>8, <2>3
    <3> QED
      BY <1>2, <2>3, <3>1 DEF LifeOfEvents
  <2> HIDE DEF E2
  <2> QED
    BY <2>1, <2>2, <2>3 DEF LifeOfEvents
<1>12. LifeOfWaiting(s.pending, E2, tr)
  <2>1. ASSUME NEW u \in Toks, NEW j \in Reqs, Waits(s.pending, j, u)
        PROVE  MayWait(E2, tr, j, u)
    <3>1. MayWait(E, tr, j, u)
      BY <1>2, <2>1 DEF LifeOfWaiting
    <3>2. Seen(tr, j)
      BY <3>1 DEF MayWait, Happened, Seen, Did
    <3>3. ~Coming(E2, j)
      BY <1>7, <1>9, <3>1, <3>2 DEF MayWait
    <3> HIDE DEF E2
    <3> QED
      BY <3>1, <3>3 DEF MayWait
  <2> HIDE DEF E2
  <2> QED
    BY <2>1 DEF LifeOfWaiting
<1>13. LifeOfScript(E2, tr, A)
  <2>1. ASSUME NEW j \in Reqs, Coming(E2, j) \/ Seen(tr, j)
        PROVE  IF Script[j].of = NoReq THEN j \in A
               ELSE Script[j].of \in A /\ ~Coming(E2, Script[j].of)
    <3>1. CASE j \in users
      <4>1. Script[j].of = k /\ k # NoReq
        BY <1>1, <1>6, <3>1, ScriptFacts
      <4>2. Script[k].of = NoReq
        BY <1>1, ScriptFacts
      <4>3. k \in A
        BY <1>1, <1>2, <4>2 DEF LifeOfScript
      <4> QED
        BY <1>10, <4>1, <4>3
    <3>2. CASE j \notin users
      <4>1. Coming(E, j) \/ Seen(tr, j)
        BY <1>9, <2>1, <3>2
      <4>2. IF Script[j].of = NoReq THEN j \in A
            ELSE Script[j].of \in A /\ ~Coming(E, Script[j].of)
        BY <1>2, <4>1 DEF LifeOfScript
      <4>3. ASSUME Script[j].of # NoReq
            PROVE  Script[j].of \notin users
        <5>1. Script[j].of \in Reqs /\ Script[Script[j].of].op = "reserve"
          BY <4>3, ScriptFacts
        <5> QED
          BY <1>6, <5>1
      <4> QED
        BY <1>9, <4>2, <4>3
    <3> QED
      BY <3>1, <3>2
  <2> HIDE DEF E2
  <2> QED
    BY <2>1 DEF LifeOfScript
<1> QED
  BY <1>8, <1>11, <1>12, <1>13, AckRest

\* the client of a get releases what it got
LEMMA AckGetOutcome ==
  ASSUME NEW s, NEW E, NEW tr, NEW A, NEW now, NEW e, NEW n, Due(s, E, tr, A, now, e, n),
         e.type = "ACK", Script[e.k].op # "reserve", NEW sent, ReactsWith(e, n, sent)
  PROVE  Outcome(s, E, tr, A, e, n, [ns |-> s, rc |-> NoRc, sent |-> sent, did |-> << >>])
<1> DEFINE k == e.k
           E2 == (E \ {e}) \cup sent
<1>1. /\ E \subseteq Event /\ e \in E /\ e \in Event /\ n \in Nat
      /\ k \in Reqs /\ Coming(E, k) /\ e.tok \in Toks /\ e.ts \in Nat
  BY DueFacts, EventFacts
<1>2. /\ LifeOfEvents(E, tr) /\ LifeOfWaiting(s.pending, E, tr) /\ LifeOfScript(E, tr, A)
  BY DueFacts
<1>3. Script[k].op = "get"
  BY <1>1, ScriptFacts
<1>4. \A f \in sent : /\ f \in Event /\ f.tok = e.tok /\ f.k \in Reqs /\ Script[f.k].op = "get"
                      /\ f.type \in {"GET", "FREE"} /\ f.src = n /\ f.ts > e.ts
                      /\ f.type = "FREE" /\ f.k = k /\ e.ret = 0
  <2>1. CASE e.ret = 0
    <3>1. PICK d \in Delays : sent = {Ev("FREE", e.ts + d, n, k, e.tok, 0)}
      BY <2>1 DEF ReactsWith
    <3> DEFINE ts == e.ts + d
    <3>2. ts \in Nat /\ ts > e.ts
      BY <1>1, TWAssumption
    <3> HIDE DEF ts, k
    <3>3. LET g == Ev("FREE", ts, n, k, e.tok, 0)
          IN  /\ g \in Event
              /\ g.type = "FREE" /\ g.ts = ts /\ g.src = n /\ g.k = k /\ g.tok = e.tok /\ g.ret = 0
      <4>1. k \in Reqs \cup {NoReq} /\ 0 \in {0, 1} /\ "FREE" \in {"GET", "FREE", "DEQ", "RESERVE", "ACK"}
        BY <1>1
      <4> QED
        BY <1>1, <3>2, <4>1, EvFacts
    <3> QED
      BY <1>1, <1>3, <2>1, <3>1, <3>2, <3>3 DEF ts
  <2>2. CASE e.ret # 0
    BY <2>2 DEF ReactsWith
  <2> QED
    BY <2>1, <2>2
<1>5. \A f, g \in sent : f = g
  BY DEF ReactsWith
<1>6. EventStep(E, e, sent, k)
  BY <1>1, <1>2, <1>4, <1>5, DueStep
<1>7. TraceStep(tr, tr, k)
  BY TraceStepNone
<1>8. LifeOfEvents(E2, tr)
  <2>1. \A f \in sent :
          f.type = "FREE" \/ (f.type = "ACK" /\ Script[k].op = "get" /\ f.ret = 0) =>
            Happened(tr, "granted", k, f.tok) /\ ~Happened(tr, "freed", k, f.tok)
    BY <1>1, <1>2, <1>3, <1>4 DEF LifeOfEvents
  <2> QED
    BY <1>2, <1>6, <1>7, <2>1, LifeOfEventsStep
<1>9. LifeOfWaiting(s.pending, E2, tr)
  <2>1. \A u \in Toks : ~Waits(s.pending, k, u)
    BY <1>1, <1>2 DEF LifeOfWaiting, MayWait
  <2> QED
    BY <1>2, <1>6, <1>7, <2>1, WaitingSame
<1>10. LifeOfScript(E2, tr, A)
  BY <1>1, <1>2, <1>6, <1>7, LifeOfScriptStep
<1> QED
  BY <1>4, <1>8, <1>9, <1>10, AckRest

-----------------------------------------------------------------------------
(* A request arrives from elsewhere, or is withdrawn, at any position.     *)

LEMMA RequestFacts ==
  ASSUME NEW k \in Reqs, NEW ts \in Times
  PROVE  LET a == RequestEvent(k, ts)
         IN  /\ a \in Event /\ a.src = 0 /\ a.k = k /\ a.tok = 0
             /\ a.type \in {"GET", "RESERVE"}
             /\ a.type = "GET" => Script[k].op = "get" /\ a.ts >= 2
             /\ a.type = "RESERVE" => Script[k].op = "reserve" /\ a.ts = 1
<1>1. 0 \in Toks /\ ts \in Nat /\ ts >= 2
  BY TWAssumption, ResourceAssumption DEF Toks
<1>2. Script[k].op \in {"get", "reserve"}
  BY ScriptFacts
<1> QED
  BY <1>1, <1>2 DEF RequestEvent, Ev, Event

LEMMA GoodArrive ==
  ASSUME NEW s, NEW E, NEW tr, NEW A, NEW now, Good(s, E, tr, A, now),
         NEW k \in Reqs, k \notin A, Script[k].of = NoReq, NEW ts \in Times
  PROVE  Good(s, E \cup {RequestEvent(k, ts)}, tr, A \cup {k}, now)
<1> DEFINE a == RequestEvent(k, ts)
           E2 == E \cup {a}
           A2 == A \cup {k}
<1>1. /\ a \in Event /\ a.src = 0 /\ a.k = k /\ a.tok = 0
      /\ a.type \in {"GET", "RESERVE"}
      /\ a.type = "GET" => Script[k].op = "get" /\ a.ts >= 2
      /\ a.type = "RESERVE" => Script[k].op = "reserve" /\ a.ts = 1
  BY RequestFacts
<1> HIDE DEF a
<1>2. /\ s \in State /\ E \subseteq Event /\ tr \in Seq(Entry)
      /\ EventsFit(s.r, E) /\ LifeOfEvents(E, tr) /\ LifeOfWaiting(s.pending, E, tr)
      /\ LifeOfScript(E, tr, A) /\ WakeupComing(s.r, s.pending, E) /\ ReservesFirst(E, tr, now)
  BY DEF Good
<1>3. ~Coming(E, k) /\ ~Seen(tr, k)
  BY <1>2 DEF LifeOfScript
<1>4. \A j : j # k => (Coming(E2, j) <=> Coming(E, j))
  BY <1>1 DEF Coming
<1>5. EventsFit(s.r, E2)
  <2>1. 0 \in DOMAIN s.r
    BY <1>2, StateFacts
  <2> QED
    BY <1>1, <1>2, <2>1 DEF EventsFit
<1>6. LifeOfEvents(E2, tr)
  <2>1. \A f, g \in E2 : f.type # "DEQ" /\ g.type # "DEQ" /\ f.k = g.k => f = g
    BY <1>1, <1>2, <1>3 DEF LifeOfEvents, Coming
  <2>2. \A f \in E2 : f.type \in {"GET", "RESERVE"} => ~Seen(tr, f.k)
    BY <1>1, <1>2, <1>3 DEF LifeOfEvents
  <2>3. \A f \in E2 :
          f.type = "FREE" \/ (f.type = "ACK" /\ Script[f.k].op = "get" /\ f.ret = 0) =>
            Happened(tr, "granted", f.k, f.tok) /\ ~Happened(tr, "freed", f.k, f.tok)
    BY <1>1, <1>2 DEF LifeOfEvents
  <2> HIDE DEF E2
  <2> QED
    BY <2>1, <2>2, <2>3 DEF LifeOfEvents
<1>7. LifeOfWaiting(s.pending, E2, tr)
  <2>1. ASSUME NEW u \in Toks, NEW j \in Reqs, Waits(s.pending, j, u)
        PROVE  MayWait(E2, tr, j, u)
    <3>1. MayWait(E, tr, j, u)
      BY <1>2, <2>1 DEF LifeOfWaiting
    <3>2. Seen(tr, j)
      BY <3>1 DEF MayWait, Happened, Seen, Did
    <3>3. ~Coming(E2, j)
      BY <1>3, <1>4, <3>1, <3>2 DEF MayWait
    <3> HIDE DEF E2
    <3> QED
      BY <3>1, <3>3 DEF MayWait
  <2> HIDE DEF E2
  <2> QED
    BY <2>1 DEF LifeOfWaiting
<1>8. LifeOfScript(E2, tr, A2)
  <2>1. ASSUME NEW j \in Reqs, Coming(E2, j) \/ Seen(tr, j)
        PROVE  IF Script[j].of = NoReq THEN j \in A2
               ELSE Script[j].of \in A2 /\ ~Coming(E2, Script[j].of)
    <3>1. CASE j = k
      BY <3>1
    <3>2. CASE j # k
      <4>1. IF Script[j].of = NoReq THEN j \in A
            ELSE Script[j].of \in A /\ ~Coming(E, Script[j].of)
        BY <1>2, <1>4, <2>1, <3>2 DEF LifeOfScript
      <4> QED
        BY <1>4, <4>1
    <3> QED
      BY <3>1, <3>2
  <2> HIDE DEF E2, A2
  <2> QED
    BY <2>1 DEF LifeOfScript
<1>9. WakeupComing(s.r, s.pending, E2)
  BY <1>2 DEF WakeupComing
<1>10. ReservesFirst(E2, tr, now)
  BY <1>1, <1>2 DEF ReservesFirst
<1>11. E2 \subseteq Event
  BY <1>1, <1>2
<1> HIDE DEF E2, A2
<1>12. Good(s, E2, tr, A2, now)
  BY <1>5, <1>6, <1>7, <1>8, <1>9, <1>10, <1>11 DEF Good
<1> QED
  BY <1>12 DEF E2, A2, a

LEMMA GoodCancel ==
  ASSUME NEW s, NEW E, NEW tr, NEW A, NEW now, Good(s, E, tr, A, now), NEW e \in E, e.src = 0
  PROVE  Good(s, E \ {e}, tr, A \ {e.k}, now)
<1> DEFINE E2 == E \ {e}
           A2 == A \ {e.k}
<1>1. /\ E \subseteq Event /\ EventsFit(s.r, E) /\ LifeOfEvents(E, tr)
      /\ LifeOfWaiting(s.pending, E, tr)
      /\ LifeOfScript(E, tr, A) /\ WakeupComing(s.r, s.pending, E) /\ ReservesFirst(E, tr, now)
  BY DEF Good
<1>2. e.type \in {"GET", "RESERVE"} /\ e.k \in Reqs /\ Script[e.k].of = NoReq
  BY <1>1 DEF EventsFit
<1>3. ~Seen(tr, e.k) /\ ~Coming(E2, e.k) /\ Coming(E, e.k)
  BY <1>1, <1>2 DEF LifeOfEvents, Coming
<1>4. \A j : Coming(E2, j) => Coming(E, j)
  BY DEF Coming
<1>5. EventsFit(s.r, E2) /\ LifeOfEvents(E2, tr) /\ ReservesFirst(E2, tr, now)
  <2>1. EventsFit(s.r, E2)
    BY <1>1 DEF EventsFit
  <2>2. LifeOfEvents(E2, tr)
    BY <1>1 DEF LifeOfEvents
  <2>3. ReservesFirst(E2, tr, now)
    BY <1>1 DEF ReservesFirst
  <2> QED
    BY <2>1, <2>2, <2>3
<1>6. LifeOfWaiting(s.pending, E2, tr)
  BY <1>1, <1>4 DEF LifeOfWaiting, MayWait
<1>7. WakeupComing(s.r, s.pending, E2)
  <2>1. \A f \in E : f.type = "DEQ" => f \in E2
    BY <1>2
  <2> HIDE DEF E2
  <2> QED
    BY <1>1, <2>1 DEF WakeupComing
<1>8. LifeOfScript(E2, tr, A2)
  <2>1. ASSUME NEW j \in Reqs, Coming(E2, j) \/ Seen(tr, j)
        PROVE  IF Script[j].of = NoReq THEN j \in A2
               ELSE Script[j].of \in A2 /\ ~Coming(E2, Script[j].of)
    <3>1. j # e.k
      BY <1>3, <2>1
    <3>2. IF Script[j].of = NoReq THEN j \in A
          ELSE Script[j].of \in A /\ ~Coming(E, Script[j].of)
      BY <1>1, <1>4, <2>1 DEF LifeOfScript
    <3> QED
      BY <1>3, <1>4, <3>1, <3>2
  <2> HIDE DEF E2, A2
  <2> QED
    BY <2>1 DEF LifeOfScript
<1>9. E2 \subseteq Event
  BY <1>1
<1> HIDE DEF E2, A2
<1>10. Good(s, E2, tr, A2, now)
  BY <1>5, <1>6, <1>7, <1>8, <1>9 DEF Good
<1> QED
  BY <1>10 DEF E2, A2

-----------------------------------------------------------------------------
(* The list of processed events.                                           *)

LEMMA PrefixOfMore ==
  ASSUME NEW tr \in Seq(Entry), NEW did \in Seq(Entry), NEW m \in 0 .. Len(tr)
  PROVE  SubSeq(tr \o did, 1, m) = SubSeq(tr, 1, m)
<1>1. Len(tr) \in Nat
  BY LenProperties
<1>2. CASE m = 0
  BY <1>2, SubSeqEmpty
<1>3. CASE m # 0
  <2>1. m \in 1 .. Len(tr) /\ 1 \in 1 .. Len(tr)
    BY <1>1, <1>3
  <2> QED
    BY <2>1, SubSeqOfConcat1
<1> QED
  BY <1>2, <1>3

LEMMA PrefixFacts ==
  ASSUME NEW S, NEW tr \in Seq(S), NEW m \in 0 .. Len(tr)
  PROVE  /\ SubSeq(tr, 1, m) \in Seq(S) /\ Len(SubSeq(tr, 1, m)) = m
         /\ \A i \in 1 .. m : SubSeq(tr, 1, m)[i] = tr[i]
         /\ \A l \in 0 .. m : SubSeq(SubSeq(tr, 1, m), 1, l) = SubSeq(tr, 1, l)
<1>1. Len(tr) \in Nat /\ m \in Nat /\ 1 \in Int /\ m \in Int
  BY LenProperties
<1>2. \A i \in 1 .. m : tr[i] \in S
  <2>1. \A i \in 1 .. m : i \in 1 .. Len(tr)
    BY <1>1
  <2> QED
    BY <2>1, ElementOfSeq
<1> DEFINE p == SubSeq(tr, 1, m)
<1>3. /\ p \in Seq(S) /\ Len(p) = IF 1 <= m THEN m - 1 + 1 ELSE 0
      /\ \A i \in 1 .. m - 1 + 1 : p[i] = tr[1 + i - 1]
  BY <1>1, <1>2, SubSeqProperties
<1>4. p \in Seq(S) /\ Len(p) = m /\ \A i \in 1 .. m : p[i] = tr[i]
  <2> HIDE DEF p
  <2> QED
    BY <1>1, <1>3
<1> HIDE DEF p
<1>5. ASSUME NEW l \in 0 .. m
      PROVE  SubSeq(p, 1, l) = SubSeq(tr, 1, l)
  <2>1. l \in Nat /\ l \in Int
    BY <1>1
  <2>2. \A i \in 1 .. l : p[i] = tr[i] /\ p[i] \in S /\ tr[i] \in S
    <3>1. \A i \in 1 .. l : i \in 1 .. m
      BY <1>1, <2>1
    <3> QED
      BY <1>2, <1>4, <3>1
  <2> DEFINE a == SubSeq(p, 1, l)
             b == SubSeq(tr, 1, l)
  <2>3. /\ a \in Seq(S) /\ Len(a) = IF 1 <= l THEN l - 1 + 1 ELSE 0
        /\ \A i \in 1 .. l - 1 + 1 : a[i] = p[1 + i - 1]
    BY <1>1, <2>1, <2>2, SubSeqProperties
  <2>4. /\ b \in Seq(S) /\ Len(b) = IF 1 <= l THEN l - 1 + 1 ELSE 0
        /\ \A i \in 1 .. l - 1 + 1 : b[i] = tr[1 + i - 1]
    BY <1>1, <2>1, <2>2, SubSeqProperties
  <2> HIDE DEF a, b
  <2>5. Len(a) = Len(b) /\ \A i \in 1 .. Len(a) : a[i] = b[i]
    BY <2>1, <2>2, <2>3, <2>4
  <2>6. a = b
    BY <2>3, <2>4, <2>5, SeqEqual
  <2> QED
    BY <2>6 DEF a, b
<1> QED
  BY <1>4, <1>5 DEF p

LEMMA InvFacts ==
  ASSUME IndInv
  PROVE  /\ Len(log) \in Nat /\ Len(trace) \in Nat /\ committed \in Nat /\ gvt \in Nat
         /\ log \in Seq(LogEntry) /\ trace \in Seq(Entry) /\ events \subseteq Event
         /\ arrived \subseteq Reqs /\ rollbacks \in 0 .. MaxRollbacks
         /\ Step \in Nat /\ Step # 0
         /\ \A j \in 1 .. Len(log) : log[j] \in LogEntry /\ log[j].ev \in Event
<1>1. /\ committed \in Nat /\ gvt \in Nat
      /\ log \in Seq(LogEntry) /\ trace \in Seq(Entry) /\ events \subseteq Event
      /\ arrived \subseteq Reqs /\ rollbacks \in 0 .. MaxRollbacks
  BY DEF IndInv, TypeInv
<1>2. Len(log) \in Nat /\ Len(trace) \in Nat
  BY <1>1, LenProperties
<1>3. Step \in Nat /\ Step # 0
  BY <1>1, <1>2 DEF Step
<1>4. \A j \in 1 .. Len(log) : log[j] \in LogEntry
  BY <1>1, ElementOfSeq
<1> QED
  BY <1>1, <1>2, <1>3, <1>4 DEF LogEntry

\* the last position is the present
LEMMA Present ==
  ASSUME IndInv
  PROVE  /\ StateAt(Len(log)) = ns /\ LiveAt(Len(log)) = events
         /\ TraceAt(Len(log)) = trace /\ TimeAt(Len(log)) = Now
         /\ Good(ns, events, trace, arrived, Now)
<1>1. Len(log) \in Nat /\ trace \in Seq(Entry) /\ log \in Seq(LogEntry) /\ committed \in Nat
  BY InvFacts
<1>2. StateAt(Len(log)) = ns
  BY DEF StateAt
<1>3. TraceAt(Len(log)) = trace
  BY <1>1, SubSeqFull DEF TraceAt, MarkAt
<1>4. TimeAt(Len(log)) = Now
  <2>1. log = << >> <=> Len(log) = 0
    BY <1>1, EmptySeq
  <2> QED
    BY <2>1 DEF TimeAt, Now, LastEntry
<1>5. LiveAt(Len(log)) = events
  <2>1. Undone(Len(log)) = {}
    BY <1>1 DEF Undone
  <2>2. \A e \in events : e.src <= committed + Len(log)
    BY DEF IndInv, SourcesInv
  <2> QED
    BY <2>1, <2>2 DEF LiveAt
<1>6. Len(log) \in 0 .. Len(log)
  BY <1>1
<1>7. Good(StateAt(Len(log)), LiveAt(Len(log)), TraceAt(Len(log)), arrived, TimeAt(Len(log)))
  BY <1>6 DEF IndInv, GoodInv
<1> QED
  BY <1>2, <1>3, <1>4, <1>5, <1>7

\* an event that is processed finds the LP in a good position
LEMMA ReadyIsDue ==
  ASSUME IndInv, NEW e \in events, NEW type, Ready(e, type)
  PROVE  Due(ns, events, trace, arrived, Now, e, Step)
<1>1. Good(ns, events, trace, arrived, Now)
  BY Present
<1>2. Step \in Nat /\ Step # 0
  BY InvFacts
<1> QED
  BY <1>1, <1>2 DEF Due, Ready

\* an event is processed: the positions so far stay what they were
LEMMA ProcessPositions ==
  ASSUME IndInv, NEW e \in events, NEW o,
         Outcome(ns, events, trace, arrived, e, Step, o), Process(e, o),
         NEW i \in 0 .. Len(log)
  PROVE  /\ StateAt(i)' = StateAt(i) /\ MarkAt(i)' = MarkAt(i)
         /\ TraceAt(i)' = TraceAt(i) /\ TimeAt(i)' = TimeAt(i)
         /\ Undone(i)' = Undone(i) \cup {e} /\ LiveAt(i)' = LiveAt(i)
<1> DEFINE n == Len(log)
           x == [ev |-> e, rc |-> o.rc, sent |-> o.sent, before |-> ns, mark |-> Len(trace)]
<1>1. /\ n \in Nat /\ Len(trace) \in Nat /\ committed \in Nat
      /\ log \in Seq(LogEntry) /\ trace \in Seq(Entry) /\ events \subseteq Event
  BY InvFacts
<1>2. /\ ns' = o.ns /\ events' = (events \ {e}) \cup o.sent
      /\ log' = Append(log, x) /\ trace' = trace \o o.did
      /\ committed' = committed /\ gvt' = gvt
  BY DEF Process
<1>3. o.did \in Seq(Entry) /\ (\A f \in o.sent : f.src = Step) /\ o.sent \subseteq Event
  BY DEF Outcome
<1>4. x.ev = e /\ x.before = ns /\ x.mark = Len(trace)
  OBVIOUS
<1> HIDE DEF x
<1>5. Len(log') = n + 1 /\ (\A j \in 1 .. n : log'[j] = log[j]) /\ log'[n + 1] = x
  BY <1>1, <1>2
<1>6. MarkAt(i) \in 0 .. Len(trace)
  BY DEF IndInv, MarksInv
<1>7. i # Len(log') /\ i \in Nat
  BY <1>1, <1>5
<1>8. StateAt(i)' = StateAt(i) /\ MarkAt(i)' = MarkAt(i)
  <2>1. CASE i = n
    BY <1>4, <1>5, <1>7, <2>1 DEF StateAt, MarkAt
  <2>2. CASE i # n
    <3>1. i + 1 \in 1 .. n
      BY <1>1, <1>7, <2>2
    <3>2. log'[i + 1] = log[i + 1]
      BY <1>5, <3>1
    <3> QED
      BY <1>7, <2>2, <3>2 DEF StateAt, MarkAt
  <2> QED
    BY <2>1, <2>2
<1>9. TraceAt(i)' = TraceAt(i)
  BY <1>1, <1>2, <1>3, <1>6, <1>8, PrefixOfMore DEF TraceAt
<1>10. TimeAt(i)' = TimeAt(i)
  <2>1. i # 0 => i \in 1 .. n
    BY <1>1, <1>7
  <2> QED
    BY <1>2, <1>5, <2>1 DEF TimeAt
<1>11. Undone(i)' = Undone(i) \cup {e}
  <2>1. Undone(i)' = {log'[j].ev : j \in i + 1 .. n + 1}
    BY <1>5 DEF Undone
  <2>2. i + 1 .. n + 1 = (i + 1 .. n) \cup {n + 1}
    BY <1>1, <1>7
  <2>3. \A j \in i + 1 .. n : log'[j] = log[j]
    BY <1>1, <1>5, <1>7
  <2>4. log'[n + 1].ev = e
    BY <1>4, <1>5
  <2> QED
    BY ZenonT(60), <2>1, <2>2, <2>3, <2>4 DEF Undone
<1>12. LiveAt(i)' = LiveAt(i)
  <2>1. \A f \in o.sent : ~(f.src <= committed + i)
    BY <1>1, <1>3, <1>7 DEF Step
  <2> QED
    BY <1>2, <1>11, <2>1 DEF LiveAt
<1> QED
  BY <1>8, <1>9, <1>10, <1>11, <1>12

LEMMA ProcessInv ==
  ASSUME IndInv, NEW e \in events, NEW o,
         Outcome(ns, events, trace, arrived, e, Step, o), Process(e, o)
  PROVE  IndInv'
<1> DEFINE n == Len(log)
           x == [ev |-> e, rc |-> o.rc, sent |-> o.sent, before |-> ns, mark |-> Len(trace)]
<1>1. /\ n \in Nat /\ Len(trace) \in Nat /\ committed \in Nat
      /\ log \in Seq(LogEntry) /\ trace \in Seq(Entry) /\ events \subseteq Event
      /\ Step \in Nat
  BY InvFacts
<1>2. /\ ns' = o.ns /\ events' = (events \ {e}) \cup o.sent
      /\ log' = Append(log, x) /\ trace' = trace \o o.did /\ arrived' = arrived
      /\ committed' = committed /\ gvt' = gvt /\ rollbacks' = rollbacks
  BY DEF Process
<1>3. /\ o.did \in Seq(Entry) /\ (\A f \in o.sent : f.src = Step) /\ o.sent \subseteq Event
      /\ o.rc \in Rc
      /\ Good(o.ns, (events \ {e}) \cup o.sent, trace \o o.did, arrived, e.ts)
      /\ \A y : y.ev = e /\ y.rc = o.rc => resource_rev_handler(o.ns, y) = ns
  BY DEF Outcome
<1>4. x.ev = e /\ x.before = ns /\ x.mark = Len(trace) /\ x.rc = o.rc /\ x.sent = o.sent
  OBVIOUS
<1>5. x \in LogEntry
  <2>1. ns \in State
    BY Present DEF Good
  <2> QED
    BY <1>1, <1>3, <2>1 DEF LogEntry
<1> HIDE DEF x
<1>6. /\ log' \in Seq(LogEntry) /\ Len(log') = n + 1
      /\ (\A j \in 1 .. n : log'[j] = log[j]) /\ log'[n + 1] = x
  BY <1>1, <1>2, <1>5, AppendProperties
<1>7. trace' \in Seq(Entry) /\ Len(trace') \in Nat /\ Len(trace) <= Len(trace')
  BY <1>1, <1>2, <1>3, ConcatProperties, LenProperties
<1>8. \A i \in 0 .. n : /\ StateAt(i)' = StateAt(i) /\ MarkAt(i)' = MarkAt(i)
                        /\ TraceAt(i)' = TraceAt(i) /\ TimeAt(i)' = TimeAt(i)
                        /\ Undone(i)' = Undone(i) \cup {e} /\ LiveAt(i)' = LiveAt(i)
  BY ProcessPositions
<1>9. \A i \in 0 .. n + 1 : i \in 0 .. n \/ i = n + 1
  BY <1>1
<1>10. \A i \in 1 .. n + 1 : i \in 1 .. n \/ i = n + 1
  BY <1>1
<1>11. ASSUME NEW i \in Nat, i = n + 1
       PROVE  /\ StateAt(i)' = o.ns /\ MarkAt(i)' = Len(trace')
              /\ TimeAt(i)' = e.ts /\ TraceAt(i)' = trace' /\ Undone(i)' = {}
  <2>1. StateAt(i)' = o.ns /\ MarkAt(i)' = Len(trace')
    BY <1>2, <1>6, <1>11 DEF StateAt, MarkAt
  <2>2. TimeAt(i)' = e.ts
    BY <1>1, <1>4, <1>6, <1>11 DEF TimeAt
  <2>3. TraceAt(i)' = trace'
    BY <1>7, <2>1, SubSeqFull DEF TraceAt
  <2>4. Undone(i)' = {}
    BY <1>1, <1>6, <1>11 DEF Undone
  <2> QED
    BY <2>1, <2>2, <2>3, <2>4
<1>12. \A f \in events' : f.src <= committed' + Len(log')
  <2>1. \A f \in events : f.src <= committed + n /\ f.src \in Nat
    BY <1>1, EventFacts DEF IndInv, SourcesInv
  <2> QED
    BY <1>1, <1>2, <1>3, <1>6, <2>1 DEF Step
<1>13. TypeInv'
  <2>1. arrived' \subseteq Reqs /\ gvt' \in Nat /\ committed' \in Nat /\ rollbacks' \in 0 .. MaxRollbacks
    BY <1>2, InvFacts
  <2> QED
    BY <1>1, <1>2, <1>3, <1>6, <1>7, <2>1 DEF TypeInv
<1>14. SourcesInv'
  <2>1. ASSUME NEW j \in 1 .. n + 1
        PROVE  /\ \A f \in log'[j].sent : f.src = committed' + j
               /\ log'[j].ev.src < committed' + j
               /\ \A f \in events' \cup Undone(j)' : f.src = committed' + j => f \in log'[j].sent
               /\ log'[j].ev \notin events' \cup Undone(j)'
    <3>1. CASE j \in 1 .. n
      <4>1. /\ \A f \in log[j].sent : f.src = committed + j
            /\ log[j].ev.src < committed + j
            /\ \A f \in events \cup Undone(j) : f.src = committed + j => f \in log[j].sent
            /\ log[j].ev \notin events \cup Undone(j)
        BY <3>1 DEF IndInv, SourcesInv
      <4>2. log'[j] = log[j] /\ Undone(j)' = Undone(j) \cup {e}
        BY <1>1, <1>6, <1>8, <3>1
      <4>3. \A f \in o.sent : f.src # committed + j
        BY <1>1, <1>3, <3>1 DEF Step
      <4>4. log[j].ev \notin o.sent
        <5>1. log[j].ev \in Event
          BY <3>1, InvFacts
        <5> QED
          BY <1>1, <1>3, <3>1, <4>1, <5>1, EventFacts DEF Step
      <4> QED
        BY <1>2, <4>1, <4>2, <4>3, <4>4
    <3>2. CASE j = n + 1
      <4>1. e.src <= committed + n /\ e.src \in Nat
        BY <1>1, EventFacts DEF IndInv, SourcesInv
      <4>2. \A f \in events : f.src <= committed + n /\ f.src \in Nat
        BY <1>1, EventFacts DEF IndInv, SourcesInv
      <4>3. log'[j].ev = e /\ log'[j].sent = o.sent /\ Undone(j)' = {}
        BY <1>4, <1>6, <1>11, <3>2
      <4>4. e \notin o.sent
        BY <1>1, <1>3, <4>1 DEF Step
      <4>5. \A f \in o.sent : f.src = committed' + j
        BY <1>1, <1>2, <1>3, <3>2 DEF Step
      <4>6. \A f \in events' : f.src = committed' + j => f \in o.sent
        BY <1>1, <1>2, <3>2, <4>2
      <4>7. e.src < committed' + j
        BY <1>1, <1>2, <3>2, <4>1
      <4> QED
        BY <1>2, <4>3, <4>4, <4>5, <4>6, <4>7
    <3> QED
      BY <1>10, <3>1, <3>2
  <2> QED
    BY <1>6, <1>12, <2>1 DEF SourcesInv
<1>15. MarksInv'
  <2>1. \A i \in 0 .. n : MarkAt(i) \in 0 .. Len(trace)
    BY DEF IndInv, MarksInv
  <2>2. \A i, j \in 0 .. n : i <= j => MarkAt(i) <= MarkAt(j)
    BY DEF IndInv, MarksInv
  <2>3. ASSUME NEW i \in 0 .. n + 1
        PROVE  MarkAt(i)' \in 0 .. Len(trace')
    <3>1. CASE i \in 0 .. n
      BY <1>1, <1>7, <1>8, <2>1, <3>1
    <3>2. CASE i = n + 1
      BY <1>7, <1>11, <3>2
    <3> QED
      BY <1>9, <3>1, <3>2
  <2>4. ASSUME NEW i \in 0 .. n + 1, NEW j \in 0 .. n + 1, i <= j
        PROVE  MarkAt(i)' <= MarkAt(j)'
    <3>1. CASE i \in 0 .. n /\ j \in 0 .. n
      BY <1>8, <2>2, <2>4, <3>1
    <3>2. CASE j = n + 1
      BY <1>7, <1>11, <2>3, <3>2
    <3>3. CASE i = n + 1 /\ j \in 0 .. n
      BY <1>1, <2>4, <3>3
    <3> QED
      BY <1>9, <3>1, <3>2, <3>3
  <2> QED
    BY <1>6, <2>3, <2>4 DEF MarksInv
<1>16. GoodInv'
  <2>1. ASSUME NEW i \in 0 .. n + 1
        PROVE  Good(StateAt(i)', LiveAt(i)', TraceAt(i)', arrived', TimeAt(i)')
    <3>1. CASE i \in 0 .. n
      <4>1. Good(StateAt(i), LiveAt(i), TraceAt(i), arrived, TimeAt(i))
        BY <3>1 DEF IndInv, GoodInv
      <4> QED
        BY <1>2, <1>8, <3>1, <4>1
    <3>2. CASE i = n + 1
      <4>0. i \in Nat
        BY <1>1, <3>2
      <4>1. LiveAt(i)' = events'
        BY <1>6, <1>11, <1>12, <3>2, <4>0 DEF LiveAt
      <4> QED
        BY <1>2, <1>3, <1>11, <3>2, <4>0, <4>1
    <3> QED
      BY <1>9, <3>1, <3>2
  <2> QED
    BY <1>6, <2>1 DEF GoodInv
<1>17. ReverseInv'
  <2>1. ASSUME NEW i \in 1 .. n + 1
        PROVE  resource_rev_handler(StateAt(i)', log'[i]) = log'[i].before
    <3>1. CASE i \in 1 .. n
      <4>1. resource_rev_handler(StateAt(i), log[i]) = log[i].before
        BY <3>1 DEF IndInv, ReverseInv
      <4>2. i \in 0 .. n
        BY <1>1, <3>1
      <4> QED
        BY <1>6, <1>8, <3>1, <4>1, <4>2
    <3>2. CASE i = n + 1
      BY <1>3, <1>4, <1>6, <1>11, <3>2
    <3> QED
      BY <1>10, <3>1, <3>2
  <2> QED
    BY <1>6, <2>1 DEF ReverseInv
<1> QED
  BY <1>13, <1>14, <1>15, <1>16, <1>17 DEF IndInv

\* steps that change nothing but the events to come
LEMMA SamePositions ==
  ASSUME UNCHANGED <<ns, log, trace, committed, gvt>>, NEW i
  PROVE  /\ StateAt(i)' = StateAt(i) /\ MarkAt(i)' = MarkAt(i)
         /\ TraceAt(i)' = TraceAt(i) /\ TimeAt(i)' = TimeAt(i)
         /\ Undone(i)' = Undone(i)
BY DEF StateAt, MarkAt, TraceAt, TimeAt, Undone

LEMMA SameMarksAndReverse ==
  ASSUME IndInv, UNCHANGED <<ns, log, trace, committed, gvt>>
  PROVE  MarksInv' /\ ReverseInv'
<1>1. Len(log') = Len(log) /\ Len(trace') = Len(trace) /\ log' = log
  OBVIOUS
<1>2. MarksInv'
  <2>1. MarksInv
    BY DEF IndInv
  <2> QED
    BY <1>1, <2>1, SamePositions DEF MarksInv
<1>3. ReverseInv'
  <2>1. ReverseInv
    BY DEF IndInv
  <2> QED
    BY <1>1, <2>1, SamePositions DEF ReverseInv
<1> QED
  BY <1>2, <1>3

\* a processed event was to come when it was processed
LEMMA ProcessedWasLive ==
  ASSUME IndInv, NEW j \in 1 .. Len(log)
  PROVE  /\ log[j].ev \in LiveAt(j - 1)
         /\ Good(StateAt(j - 1), LiveAt(j - 1), TraceAt(j - 1), arrived, TimeAt(j - 1))
<1>1. Len(log) \in Nat /\ committed \in Nat /\ log[j].ev \in Event
  BY InvFacts
<1>2. log[j].ev.src < committed + j /\ log[j].ev.src \in Nat
  BY <1>1, EventFacts DEF IndInv, SourcesInv
<1>3. log[j].ev \in Undone(j - 1)
  <2>1. j \in (j - 1) + 1 .. Len(log)
    BY <1>1
  <2> QED
    BY <2>1 DEF Undone
<1>4. log[j].ev.src <= committed + (j - 1)
  BY <1>1, <1>2
<1>5. j - 1 \in 0 .. Len(log)
  BY <1>1
<1> QED
  BY <1>3, <1>4, <1>5 DEF LiveAt, IndInv, GoodInv

LEMMA ArriveInv ==
  ASSUME IndInv, NEW k \in Reqs, NEW ts \in Times, Arrive(k, ts)
  PROVE  IndInv'
<1> DEFINE a == RequestEvent(k, ts)
           n == Len(log)
<1>1. /\ n \in Nat /\ committed \in Nat /\ events \subseteq Event
  BY InvFacts
<1>2. /\ k \notin arrived /\ Script[k].of = NoReq
      /\ events' = events \cup {a} /\ arrived' = arrived \cup {k}
      /\ UNCHANGED <<ns, log, trace, committed, gvt, rollbacks>>
      /\ log' = log /\ committed' = committed
  BY DEF Arrive
<1>3. a \in Event /\ a.src = 0 /\ a.k = k /\ a.type # "DEQ"
  BY RequestFacts
<1>4. \A i : /\ StateAt(i)' = StateAt(i) /\ MarkAt(i)' = MarkAt(i)
             /\ TraceAt(i)' = TraceAt(i) /\ TimeAt(i)' = TimeAt(i)
             /\ Undone(i)' = Undone(i)
  BY <1>2, SamePositions
<1>5. TypeInv'
  BY <1>2, <1>3 DEF IndInv, TypeInv
<1>6. MarksInv' /\ ReverseInv'
  BY <1>2, SameMarksAndReverse
<1>7. ASSUME NEW j \in 1 .. n
      PROVE  log[j].ev # a
  <2>1. /\ log[j].ev \in LiveAt(j - 1)
        /\ Good(StateAt(j - 1), LiveAt(j - 1), TraceAt(j - 1), arrived, TimeAt(j - 1))
    BY ProcessedWasLive
  <2>2. LifeOfScript(LiveAt(j - 1), TraceAt(j - 1), arrived)
    BY <2>1 DEF Good
  <2>3. ~Coming(LiveAt(j - 1), k)
    BY <1>2, <2>2 DEF LifeOfScript
  <2> HIDE DEF a
  <2> QED
    BY <1>3, <2>1, <2>3 DEF Coming
<1> HIDE DEF a
<1>8. SourcesInv'
  <2>1. \A f \in events' : f.src <= committed' + Len(log')
    BY <1>1, <1>2, <1>3 DEF IndInv, SourcesInv
  <2>2. ASSUME NEW j \in 1 .. n
        PROVE  /\ \A f \in log'[j].sent : f.src = committed' + j
               /\ log'[j].ev.src < committed' + j
               /\ \A f \in events' \cup Undone(j)' : f.src = committed' + j => f \in log'[j].sent
               /\ log'[j].ev \notin events' \cup Undone(j)'
    <3>1. /\ \A f \in log[j].sent : f.src = committed + j
          /\ log[j].ev.src < committed + j
          /\ \A f \in events \cup Undone(j) : f.src = committed + j => f \in log[j].sent
          /\ log[j].ev \notin events \cup Undone(j)
      BY DEF IndInv, SourcesInv
    <3>2. a.src # committed + j
      BY <1>1, <1>3
    <3> QED
      BY <1>2, <1>4, <1>7, <3>1, <3>2
  <2> QED
    BY <1>2, <2>1, <2>2 DEF SourcesInv
<1>9. GoodInv'
  <2>1. ASSUME NEW i \in 0 .. n
        PROVE  Good(StateAt(i)', LiveAt(i)', TraceAt(i)', arrived', TimeAt(i)')
    <3>1. Good(StateAt(i), LiveAt(i), TraceAt(i), arrived, TimeAt(i))
      BY DEF IndInv, GoodInv
    <3>2. LiveAt(i)' = LiveAt(i) \cup {a}
      <4>1. a.src <= committed + i
        BY <1>1, <1>3
      <4> QED
        BY <1>2, <1>4, <4>1 DEF LiveAt
    <3>3. Good(StateAt(i), LiveAt(i) \cup {a}, TraceAt(i), arrived \cup {k}, TimeAt(i))
      BY <1>2, <3>1, GoodArrive DEF a
    <3> QED
      BY <1>2, <1>4, <3>2, <3>3
  <2> QED
    BY <1>2, <2>1 DEF GoodInv
<1> QED
  BY <1>5, <1>6, <1>8, <1>9 DEF IndInv

LEMMA CancelInv ==
  ASSUME IndInv, NEW e \in events, Cancel(e)
  PROVE  IndInv'
<1> DEFINE n == Len(log)
<1>1. /\ n \in Nat /\ committed \in Nat /\ events \subseteq Event /\ rollbacks \in 0 .. MaxRollbacks
  BY InvFacts
<1>2. /\ rollbacks < MaxRollbacks /\ e.src = 0
      /\ events' = events \ {e} /\ arrived' = arrived \ {e.k} /\ rollbacks' = rollbacks + 1
      /\ UNCHANGED <<ns, log, trace, committed, gvt>>
      /\ log' = log /\ committed' = committed
  BY DEF Cancel
<1>3. \A i : /\ StateAt(i)' = StateAt(i) /\ MarkAt(i)' = MarkAt(i)
             /\ TraceAt(i)' = TraceAt(i) /\ TimeAt(i)' = TimeAt(i)
             /\ Undone(i)' = Undone(i)
  BY <1>2, SamePositions
<1>4. TypeInv'
  <2>1. rollbacks' \in 0 .. MaxRollbacks
    BY <1>1, <1>2, TWAssumption
  <2> QED
    BY <1>2, <2>1 DEF IndInv, TypeInv
<1>5. MarksInv' /\ ReverseInv'
  BY <1>2, SameMarksAndReverse
<1>6. SourcesInv'
  BY <1>2, <1>3 DEF IndInv, SourcesInv
<1>7. GoodInv'
  <2>1. ASSUME NEW i \in 0 .. n
        PROVE  Good(StateAt(i)', LiveAt(i)', TraceAt(i)', arrived', TimeAt(i)')
    <3>1. Good(StateAt(i), LiveAt(i), TraceAt(i), arrived, TimeAt(i))
      BY DEF IndInv, GoodInv
    <3>2. e \notin Undone(i)
      <4>1. \A j \in i + 1 .. n : j \in 1 .. n
        BY <1>1
      <4>2. \A j \in 1 .. n : log[j].ev \notin events
        BY DEF IndInv, SourcesInv
      <4> QED
        BY <4>1, <4>2 DEF Undone
    <3>3. e \in LiveAt(i) /\ LiveAt(i)' = LiveAt(i) \ {e}
      <4>1. e.src <= committed + i
        BY <1>1, <1>2
      <4> QED
        BY <1>2, <1>3, <3>2, <4>1 DEF LiveAt
    <3>4. Good(StateAt(i), LiveAt(i) \ {e}, TraceAt(i), arrived \ {e.k}, TimeAt(i))
      BY <1>2, <3>1, <3>3, GoodCancel
    <3> QED
      BY <1>2, <1>3, <3>3, <3>4
  <2> QED
    BY <1>2, <2>1 DEF GoodInv
<1> QED
  BY <1>4, <1>5, <1>6, <1>7 DEF IndInv

\* the last processed event is undone: the positions before it are left
LEMMA UndoInv ==
  ASSUME IndInv, Undo
  PROVE  IndInv'
<1> DEFINE n == Len(log)
           x == log[n]
<1>1. /\ n \in Nat /\ committed \in Nat /\ events \subseteq Event /\ rollbacks \in 0 .. MaxRollbacks
      /\ log \in Seq(LogEntry) /\ trace \in Seq(Entry) /\ Len(trace) \in Nat
  BY InvFacts
<1>2. n # 0 /\ n \in 1 .. n /\ n - 1 \in Nat /\ n - 1 \in 0 .. n
  <2>1. n # 0
    BY <1>1, EmptySeq DEF Undo
  <2> QED
    BY <1>1, <2>1
<1>3. /\ ns' = resource_rev_handler(ns, x) /\ events' = (events \ x.sent) \cup {x.ev}
      /\ trace' = SubSeq(trace, 1, x.mark) /\ log' = SubSeq(log, 1, n - 1)
      /\ arrived' = arrived /\ committed' = committed /\ gvt' = gvt
      /\ rollbacks' \in {rollbacks, rollbacks + 1}
      /\ rollbacks' = rollbacks \/ rollbacks < MaxRollbacks
  BY DEF Undo, LastEntry
<1>4. x.ev \in Event
  BY <1>2, InvFacts
<1>5. ns' = x.before
  BY <1>2, <1>3 DEF IndInv, ReverseInv, StateAt
<1>6. /\ log' \in Seq(LogEntry) /\ Len(log') = n - 1
      /\ \A j \in 1 .. n - 1 : log'[j] = log[j]
  BY ZenonT(60), <1>1, <1>2, <1>3, PrefixFacts
<1>7. /\ \A i \in 0 .. n : MarkAt(i) \in 0 .. Len(trace)
      /\ \A i, j \in 0 .. n : i <= j => MarkAt(i) <= MarkAt(j)
  BY DEF IndInv, MarksInv
<1>8. x.mark = MarkAt(n - 1) /\ x.before = StateAt(n - 1)
  <2>1. n - 1 # n /\ (n - 1) + 1 = n
    BY <1>1
  <2> QED
    BY ZenonT(60), <2>1 DEF MarkAt, StateAt
<1>9. x.mark \in 0 .. Len(trace)
  BY <1>2, <1>7, <1>8
<1>10. /\ trace' \in Seq(Entry) /\ Len(trace') = x.mark
       /\ \A l \in 0 .. x.mark : SubSeq(trace', 1, l) = SubSeq(trace, 1, l)
  BY <1>1, <1>3, <1>9, PrefixFacts
<1>11. /\ \A e \in x.sent : e.src = committed + n
       /\ x.ev.src < committed + n
       /\ \A e \in events : e.src = committed + n => e \in x.sent
  BY <1>2 DEF IndInv, SourcesInv
<1>12. ASSUME NEW i \in 0 .. n - 1
       PROVE  /\ StateAt(i)' = StateAt(i) /\ MarkAt(i)' = MarkAt(i)
              /\ TraceAt(i)' = TraceAt(i) /\ TimeAt(i)' = TimeAt(i)
              /\ Undone(i)' \cup {x.ev} = Undone(i) /\ LiveAt(i)' = LiveAt(i)
  <2>1. i \in Nat /\ i # n /\ i \in 0 .. n /\ i <= n - 1
    BY <1>1, <1>2
  <2>2. StateAt(i)' = StateAt(i) /\ MarkAt(i)' = MarkAt(i)
    <3>1. CASE i = n - 1
      BY <1>5, <1>6, <1>8, <1>10, <3>1 DEF StateAt, MarkAt
    <3>2. CASE i # n - 1
      <4>1. i + 1 \in 1 .. n - 1
        BY <1>2, <2>1, <3>2
      <4>2. log'[i + 1] = log[i + 1]
        BY <1>6, <4>1
      <4> QED
        BY <1>6, <2>1, <3>2, <4>2 DEF StateAt, MarkAt
    <3> QED
      BY <3>1, <3>2
  <2>3. TraceAt(i)' = TraceAt(i)
    <3>1. MarkAt(i) \in Nat /\ MarkAt(i) <= x.mark
      BY <1>2, <1>7, <1>8, <2>1
    <3>2. MarkAt(i) \in 0 .. x.mark
      BY <1>9, <3>1
    <3> QED
      BY <1>10, <2>2, <3>2 DEF TraceAt
  <2>4. TimeAt(i)' = TimeAt(i)
    <3>1. i # 0 => i \in 1 .. n - 1
      BY <2>1
    <3> QED
      BY <1>3, <1>6, <3>1 DEF TimeAt
  <2>5. Undone(i)' \cup {x.ev} = Undone(i)
    <3>1. Undone(i)' = {log'[j].ev : j \in i + 1 .. n - 1}
      BY <1>6 DEF Undone
    <3>2. i + 1 .. n = (i + 1 .. n - 1) \cup {n}
      BY <1>1, <1>2, <2>1
    <3>3. \A j \in i + 1 .. n - 1 : log'[j] = log[j]
      BY <1>6, <2>1
    <3> QED
      BY ZenonT(60), <3>1, <3>2, <3>3 DEF Undone
  <2>6. LiveAt(i)' = LiveAt(i)
    <3>1. \A f \in x.sent : ~(f.src <= committed + i)
      BY <1>1, <1>11, <2>1
    <3> QED
      BY <1>3, <2>5, <3>1 DEF LiveAt
  <2> QED
    BY <2>2, <2>3, <2>4, <2>5, <2>6
<1>13. TypeInv'
  <2>1. rollbacks' \in 0 .. MaxRollbacks
    BY <1>1, <1>3, TWAssumption
  <2>2. events' \subseteq Event
    BY <1>1, <1>3, <1>4
  <2> QED
    BY <1>3, <1>6, <1>10, <2>1, <2>2 DEF IndInv, TypeInv
<1>14. SourcesInv'
  <2>1. \A f \in events' : f.src <= committed' + Len(log')
    <3>1. \A f \in events : f.src <= committed + n /\ f.src \in Nat
      BY <1>1, EventFacts DEF IndInv, SourcesInv
    <3>2. x.ev.src \in Nat
      BY <1>4, EventFacts
    <3>3. committed' + Len(log') = (committed + n) - 1
      <4>1. committed' = committed /\ Len(log') = n - 1
        BY <1>3, <1>6
      <4>2. committed \in Nat /\ n \in Nat
        BY <1>1
      <4> HIDE DEF n
      <4> QED
        BY <4>1, <4>2
    <3> SUFFICES ASSUME NEW f \in events'
                 PROVE  f.src <= committed' + Len(log')
      OBVIOUS
    <3>4. CASE f = x.ev
      BY <1>1, <1>11, <3>2, <3>3, <3>4
    <3>5. CASE f \in events /\ f \notin x.sent
      <4>1. f.src # committed + n /\ f.src <= committed + n /\ f.src \in Nat
        BY <1>11, <3>1, <3>5
      <4> QED
        BY <1>1, <3>3, <4>1
    <3> QED
      BY <1>3, <3>4, <3>5
  <2>2. ASSUME NEW j \in 1 .. n - 1
        PROVE  /\ \A f \in log'[j].sent : f.src = committed' + j
               /\ log'[j].ev.src < committed' + j
               /\ \A f \in events' \cup Undone(j)' : f.src = committed' + j => f \in log'[j].sent
               /\ log'[j].ev \notin events' \cup Undone(j)'
    <3>1. j \in 1 .. n /\ j \in 0 .. n - 1
      BY <1>1, <1>2
    <3>2. /\ \A f \in log[j].sent : f.src = committed + j
          /\ log[j].ev.src < committed + j
          /\ \A f \in events \cup Undone(j) : f.src = committed + j => f \in log[j].sent
          /\ log[j].ev \notin events \cup Undone(j)
      BY <3>1 DEF IndInv, SourcesInv
    <3>3. events' \cup Undone(j)' \subseteq events \cup Undone(j)
      BY <1>3, <1>12, <3>1
    <3> QED
      BY <1>3, <1>6, <3>2, <3>3
  <2> QED
    BY <1>6, <2>1, <2>2 DEF SourcesInv
<1>15. MarksInv'
  <2>1. ASSUME NEW i \in 0 .. n - 1
        PROVE  MarkAt(i)' \in 0 .. Len(trace')
    <3>1. i \in 0 .. n /\ i <= n - 1
      BY <1>1, <1>2
    <3>2. MarkAt(i) <= x.mark /\ MarkAt(i) \in 0 .. Len(trace)
      BY <1>2, <1>7, <1>8, <3>1
    <3> QED
      BY <1>1, <1>9, <1>10, <1>12, <3>2
  <2>2. ASSUME NEW i \in 0 .. n - 1, NEW j \in 0 .. n - 1, i <= j
        PROVE  MarkAt(i)' <= MarkAt(j)'
    <3>1. i \in 0 .. n /\ j \in 0 .. n
      BY <1>1, <1>2
    <3> QED
      BY <1>7, <1>12, <2>2, <3>1
  <2> QED
    BY <1>6, <2>1, <2>2 DEF MarksInv
<1>16. GoodInv'
  <2>1. ASSUME NEW i \in 0 .. n - 1
        PROVE  Good(StateAt(i)', LiveAt(i)', TraceAt(i)', arrived', TimeAt(i)')
    <3>1. i \in 0 .. n
      BY <1>1, <1>2
    <3>2. Good(StateAt(i), LiveAt(i), TraceAt(i), arrived, TimeAt(i))
      BY <3>1 DEF IndInv, GoodInv
    <3> QED
      BY <1>3, <1>12, <3>2
  <2> QED
    BY <1>6, <2>1 DEF GoodInv
<1>17. ReverseInv'
  <2>1. ASSUME NEW i \in 1 .. n - 1
        PROVE  resource_rev_handler(StateAt(i)', log'[i]) = log'[i].before
    <3>1. i \in 1 .. n /\ i \in 0 .. n - 1
      BY <1>1, <1>2
    <3>2. resource_rev_handler(StateAt(i), log[i]) = log[i].before
      BY <3>1 DEF IndInv, ReverseInv
    <3> QED
      BY <1>6, <1>12, <3>1, <3>2
  <2> QED
    BY <1>6, <2>1 DEF ReverseInv
<1> QED
  BY <1>13, <1>14, <1>15, <1>16, <1>17 DEF IndInv

\* the oldest processed event is committed: its successor's position is the first
LEMMA CommitInv ==
  ASSUME IndInv, Commit
  PROVE  IndInv'
<1> DEFINE n == Len(log)
<1>1. /\ n \in Nat /\ committed \in Nat /\ events \subseteq Event
      /\ log \in Seq(LogEntry) /\ trace \in Seq(Entry) /\ Len(trace) \in Nat
  BY InvFacts
<1>2. log # << >> /\ n # 0 /\ n - 1 \in Nat
  <2>1. log # << >>
    BY DEF Commit
  <2>2. n # 0
    BY <1>1, <2>1, EmptySeq
  <2> QED
    BY <1>1, <2>1, <2>2
<1>3. /\ log' = Tail(log) /\ committed' = committed + 1 /\ gvt' = log[1].ev.ts
      /\ ns' = ns /\ events' = events /\ trace' = trace /\ arrived' = arrived
      /\ rollbacks' = rollbacks
  BY DEF Commit
<1>4. /\ log' \in Seq(LogEntry) /\ Len(log') = n - 1
      /\ \A j \in 1 .. n - 1 : log'[j] = log[j + 1]
  BY <1>1, <1>2, <1>3, HeadTailProperties
<1>5. ASSUME NEW i \in 0 .. n - 1, NEW h \in Nat, h = i + 1
      PROVE  /\ StateAt(i)' = StateAt(h) /\ MarkAt(i)' = MarkAt(h)
             /\ TraceAt(i)' = TraceAt(h) /\ TimeAt(i)' = TimeAt(h)
             /\ Undone(i)' = Undone(h) /\ LiveAt(i)' = LiveAt(h)
             /\ h \in 0 .. n /\ h \in 1 .. n
  <2>1. i \in Nat /\ h \in 0 .. n /\ h \in 1 .. n
    BY <1>1, <1>2, <1>5
  <2>2. StateAt(i)' = StateAt(h) /\ MarkAt(i)' = MarkAt(h)
    <3>1. CASE i = n - 1
      <4>1. h = n
        BY <1>1, <1>5, <3>1
      <4> QED
        BY <1>3, <1>4, <3>1, <4>1 DEF StateAt, MarkAt
    <3>2. CASE i # n - 1
      <4>1. i + 1 \in 1 .. n - 1 /\ h # n
        BY <1>2, <1>5, <2>1, <3>2
      <4>2. log'[i + 1] = log[h + 1]
        BY <1>4, <1>5, <4>1
      <4> QED
        BY <1>4, <3>2, <4>1, <4>2 DEF StateAt, MarkAt
    <3> QED
      BY <3>1, <3>2
  <2>3. TraceAt(i)' = TraceAt(h)
    BY <1>3, <2>2 DEF TraceAt
  <2>4. TimeAt(i)' = TimeAt(h)
    <3>1. CASE i = 0
      <4>1. h = 1
        BY <1>5, <3>1
      <4> QED
        BY <1>3, <3>1, <4>1 DEF TimeAt
    <3>2. CASE i # 0
      <4>1. i \in 1 .. n - 1 /\ h # 0
        BY <1>2, <1>5, <2>1, <3>2
      <4>2. log'[i] = log[h]
        BY <1>4, <1>5, <4>1
      <4> QED
        BY <3>2, <4>1, <4>2 DEF TimeAt
    <3> QED
      BY <3>1, <3>2
  <2>5. Undone(i)' = Undone(h)
    <3>1. Undone(i)' = {log'[j].ev : j \in i + 1 .. n - 1}
      BY <1>4 DEF Undone
    <3>2. \A j \in i + 1 .. n - 1 : log'[j] = log[j + 1] /\ j + 1 \in h + 1 .. n
      BY <1>1, <1>2, <1>4, <1>5, <2>1
    <3>3. \A l \in h + 1 .. n : l - 1 \in i + 1 .. n - 1 /\ (l - 1) + 1 = l
      BY <1>1, <1>2, <1>5, <2>1
    <3>4. ASSUME NEW f
          PROVE  f \in Undone(i)' <=> f \in Undone(h)
      <4>1. ASSUME f \in Undone(i)'
            PROVE  f \in Undone(h)
        <5>1. PICK j \in i + 1 .. n - 1 : f = log'[j].ev
          BY <3>1, <4>1
        <5> DEFINE l == j + 1
        <5>2. l \in h + 1 .. n /\ log'[j] = log[l]
          BY <3>2
        <5> HIDE DEF l
        <5> QED
          BY <5>1, <5>2 DEF Undone
      <4>2. ASSUME f \in Undone(h)
            PROVE  f \in Undone(i)'
        <5>1. PICK l \in h + 1 .. n : f = log[l].ev
          BY <4>2 DEF Undone
        <5> DEFINE j == l - 1
        <5>2. j \in i + 1 .. n - 1 /\ log'[j] = log[l]
          BY <3>2, <3>3
        <5> HIDE DEF j
        <5> QED
          BY <3>1, <5>1, <5>2
      <4> QED
        BY <4>1, <4>2
    <3> QED
      BY <3>4
  <2>6. LiveAt(i)' = LiveAt(h)
    <3>1. committed' + i = committed + h
      BY <1>1, <1>3, <1>5, <2>1
    <3> QED
      BY <1>3, <2>5, <3>1 DEF LiveAt
  <2> QED
    BY <2>1, <2>2, <2>3, <2>4, <2>5, <2>6
<1>6. \A i \in 0 .. n - 1 : \E h \in Nat : h = i + 1
  BY <1>2
<1>7. TypeInv'
  <2>1. log[1].ev \in Event
    <3>1. 1 \in 1 .. n
      BY <1>1, <1>2
    <3> QED
      BY <3>1, InvFacts
  <2>2. gvt' \in Nat /\ committed' \in Nat
    BY <1>1, <1>3, <2>1, EventFacts
  <2> QED
    BY <1>1, <1>3, <1>4, <2>2 DEF IndInv, TypeInv
<1>8. SourcesInv'
  <2>1. \A f \in events' : f.src <= committed' + Len(log')
    <3>1. \A f \in events : f.src <= committed + n
      BY DEF IndInv, SourcesInv
    <3>2. committed' + Len(log') = committed + n
      BY <1>1, <1>3, <1>4
    <3> QED
      BY <1>3, <3>1, <3>2
  <2>2. ASSUME NEW j \in 1 .. n - 1
        PROVE  /\ \A f \in log'[j].sent : f.src = committed' + j
               /\ log'[j].ev.src < committed' + j
               /\ \A f \in events' \cup Undone(j)' : f.src = committed' + j => f \in log'[j].sent
               /\ log'[j].ev \notin events' \cup Undone(j)'
    <3>1. j \in 0 .. n - 1 /\ j \in Nat
      BY <1>1, <1>2
    <3>2. PICK h \in Nat : h = j + 1
      BY <3>1
    <3>3. /\ Undone(j)' = Undone(h) /\ h \in 1 .. n /\ log'[j] = log[h]
          /\ committed' + j = committed + h
      BY <1>1, <1>3, <1>4, <1>5, <3>1, <3>2
    <3>4. /\ \A f \in log[h].sent : f.src = committed + h
          /\ log[h].ev.src < committed + h
          /\ \A f \in events \cup Undone(h) : f.src = committed + h => f \in log[h].sent
          /\ log[h].ev \notin events \cup Undone(h)
      BY <3>3 DEF IndInv, SourcesInv
    <3> QED
      BY <1>3, <3>3, <3>4
  <2> QED
    BY <1>4, <2>1, <2>2 DEF SourcesInv
<1>9. MarksInv'
  <2>1. ASSUME NEW i \in 0 .. n - 1
        PROVE  MarkAt(i)' \in 0 .. Len(trace')
    <3>1. PICK h \in Nat : h = i + 1
      BY <1>6
    <3> QED
      BY <1>3, <1>5, <3>1 DEF IndInv, MarksInv
  <2>2. ASSUME NEW i \in 0 .. n - 1, NEW j \in 0 .. n - 1, i <= j
        PROVE  MarkAt(i)' <= MarkAt(j)'
    <3>1. PICK h \in Nat : h = i + 1
      BY <1>6
    <3>2. PICK l \in Nat : l = j + 1
      BY <1>6
    <3>3. h <= l
      BY <2>2, <3>1, <3>2
    <3>4. /\ MarkAt(i)' = MarkAt(h) /\ MarkAt(j)' = MarkAt(l) /\ h \in 0 .. n /\ l \in 0 .. n
      BY <1>5, <3>1, <3>2
    <3> QED
      BY <3>3, <3>4 DEF IndInv, MarksInv
  <2> QED
    BY <1>4, <2>1, <2>2 DEF MarksInv
<1>10. GoodInv'
  <2>1. ASSUME NEW i \in 0 .. n - 1
        PROVE  Good(StateAt(i)', LiveAt(i)', TraceAt(i)', arrived', TimeAt(i)')
    <3>1. PICK h \in Nat : h = i + 1
      BY <1>6
    <3>2. /\ StateAt(i)' = StateAt(h) /\ TraceAt(i)' = TraceAt(h) /\ TimeAt(i)' = TimeAt(h)
          /\ LiveAt(i)' = LiveAt(h) /\ h \in 0 .. n
      BY <1>5, <3>1
    <3>3. Good(StateAt(h), LiveAt(h), TraceAt(h), arrived, TimeAt(h))
      BY <3>2 DEF IndInv, GoodInv
    <3> QED
      BY <1>3, <3>2, <3>3
  <2> QED
    BY <1>4, <2>1 DEF GoodInv
<1>11. ReverseInv'
  <2>1. ASSUME NEW i \in 1 .. n - 1
        PROVE  resource_rev_handler(StateAt(i)', log'[i]) = log'[i].before
    <3>1. i \in 0 .. n - 1
      BY <1>1, <1>2
    <3>2. PICK h \in Nat : h = i + 1
      BY <1>6, <3>1
    <3>3. StateAt(i)' = StateAt(h) /\ h \in 1 .. n /\ log'[i] = log[h]
      BY <1>4, <1>5, <3>1, <3>2
    <3> QED
      BY <3>3 DEF IndInv, ReverseInv
  <2> QED
    BY <1>4, <2>1 DEF ReverseInv
<1> QED
  BY <1>7, <1>8, <1>9, <1>10, <1>11 DEF IndInv

LEMMA InitGood == Good(resource_lp_ind_init, {}, << >>, {}, 0)
<1> DEFINE s == resource_lp_ind_init
           r == resource_init
           tr == << >>
<1>1. s.r = r /\ s.pending = [t \in Toks |-> << >>] /\ s.rng = 0 /\ IsRecord(s)
  BY DEF resource_lp_ind_init, IsRecord, Fields
<1>2. 0 \in Toks /\ 0 .. 0 = {0} /\ 0 \in Nat
  BY ResourceAssumption DEF Toks
<1>3. /\ r \in [0 .. 0 -> Pool] /\ DOMAIN r = 0 .. 0 /\ DOMAIN r = {0}
      /\ r[0].avail = Capacity /\ r[0].max = Capacity /\ r[0].min_avail = Capacity
  BY <1>2, ResourceAssumption DEF resource_init, FullPool, Pool
<1>4. tr \in Seq(Entry) /\ Len(tr) = 0
  OBVIOUS
<1>5. num_tokens(r) = 0
  BY <1>2, <1>3, NumTokens
<1> HIDE DEF s, r
<1>6. s \in State
  <2>1. s.pending \in [Toks -> Seq(Reqs)]
    BY <1>1
  <2> QED
    BY <1>1, <1>2, <1>3, <2>1, StateFromFields
<1>7. PoolsHold(r, tr)
  <2>1. \A p \in 1 .. Len(tr) : FALSE
    BY <1>4
  <2>2. Held(tr, Len(tr), 0) = 0
    <3>1. Len(tr) \in 0 .. Len(tr)
      BY <1>4
    <3> QED
      BY <1>4, <2>1, <3>1, NothingHeld
  <2>3. \A t \in DOMAIN r : r[t].avail + Held(tr, Len(tr), t) = r[t].max
    BY <1>3, <2>2, ResourceAssumption
  <2>4. UnitsIn(r) = {0} \X (1 .. Capacity)
    BY <1>3 DEF UnitsIn
  <2>5. IsFiniteSet(UnitsIn(r)) /\ Cardinality(UnitsIn(r)) = Capacity
    <3>1. Capacity \in Nat
      BY ResourceAssumption
    <3>2. IsFiniteSet({0} \X (1 .. Capacity)) /\ Cardinality({0} \X (1 .. Capacity)) = Capacity
      BY <3>1, Column
    <3> QED
      BY <2>4, <3>2
  <2>6. Reserved(tr) = {}
    BY <2>1 DEF Reserved
  <2>7. Cardinality(Reserved(tr)) = 0
    BY <2>6, FS_EmptySet
  <2> HIDE DEF tr
  <2> QED
    BY <1>5, <2>1, <2>3, <2>5, <2>6, <2>7 DEF PoolsHold
<1>8. PeaksHold(r, tr)
  BY <1>3, <1>4 DEF PeaksHold
<1>9. EventsFit(s.r, {}) /\ LifeOfEvents({}, tr) /\ ReservesFirst({}, tr, 0)
  BY <1>4 DEF EventsFit, LifeOfEvents, ReservesFirst
<1>10. \A k, t : t \in Toks => ~Waits(s.pending, k, t)
  BY <1>1 DEF Waits
<1>11. LifeOfWaiting(s.pending, {}, tr)
  BY <1>10 DEF LifeOfWaiting
<1>12. LifeOfScript({}, tr, {})
  BY <1>4 DEF LifeOfScript, Coming, Seen
<1>13. WakeupComing(s.r, s.pending, {})
  BY <1>1, <1>2, <1>3 DEF WakeupComing
<1>14. InOrder(tr) /\ QueueHolds(s.pending, tr) /\ QueueOrder(s.pending, tr)
  BY <1>4 DEF InOrder, QueueHolds, QueueOrder, Happened
<1>15. QueueOnce(s.pending)
  BY <1>1 DEF QueueOnce
<1> HIDE DEF tr
<1>16. Good(s, {}, tr, {}, 0)
  BY <1>1, <1>4, <1>6, <1>7, <1>8, <1>9, <1>11, <1>12, <1>13, <1>14, <1>15 DEF Good
<1> QED
  BY <1>16 DEF s, tr

LEMMA InitInv == Init => IndInv
<1> SUFFICES ASSUME Init
             PROVE  IndInv
  OBVIOUS
<1>1. /\ ns = resource_lp_ind_init /\ events = {} /\ log = << >> /\ trace = << >>
      /\ arrived = {} /\ committed = 0 /\ gvt = 0 /\ rollbacks = 0
  BY DEF Init
<1>2. Len(log) = 0 /\ Len(trace) = 0 /\ log \in Seq(LogEntry) /\ trace \in Seq(Entry)
  BY <1>1
<1>3. TypeInv
  BY <1>1, <1>2, TWAssumption DEF TypeInv
<1>4. SourcesInv /\ ReverseInv
  BY <1>1, <1>2 DEF SourcesInv, ReverseInv
<1>5. \A i \in 0 .. Len(log) : i = 0
  BY <1>2
<1>6. /\ StateAt(0) = ns /\ MarkAt(0) = 0 /\ TraceAt(0) = << >> /\ TimeAt(0) = 0 /\ LiveAt(0) = {}
  <2>1. StateAt(0) = ns /\ MarkAt(0) = 0 /\ TimeAt(0) = 0
    BY <1>1, <1>2 DEF StateAt, MarkAt, TimeAt
  <2>2. TraceAt(0) = << >>
    BY <2>1, SubSeqEmpty DEF TraceAt
  <2>3. LiveAt(0) = {}
    BY <1>1, <1>2 DEF LiveAt, Undone
  <2> QED
    BY <2>1, <2>2, <2>3
<1>7. MarksInv
  BY <1>2, <1>5, <1>6 DEF MarksInv
<1>8. GoodInv
  BY <1>1, <1>5, <1>6, InitGood DEF GoodInv
<1> QED
  BY <1>3, <1>4, <1>7, <1>8 DEF IndInv

LEMMA StutterInv ==
  ASSUME IndInv, UNCHANGED vars
  PROVE  IndInv'
<1>1. /\ UNCHANGED <<ns, log, trace, committed, gvt>> /\ log' = log /\ committed' = committed
      /\ events' = events /\ arrived' = arrived /\ trace' = trace /\ gvt' = gvt
      /\ rollbacks' = rollbacks
  BY DEF vars
<1>2. \A i : /\ StateAt(i)' = StateAt(i) /\ TraceAt(i)' = TraceAt(i) /\ TimeAt(i)' = TimeAt(i)
             /\ Undone(i)' = Undone(i)
  BY <1>1, SamePositions
<1>3. \A i : LiveAt(i)' = LiveAt(i)
  BY <1>1, <1>2 DEF LiveAt
<1>4. TypeInv'
  BY <1>1 DEF IndInv, TypeInv
<1>5. SourcesInv'
  BY <1>1, <1>2 DEF IndInv, SourcesInv
<1>6. GoodInv'
  BY <1>1, <1>2, <1>3 DEF IndInv, GoodInv
<1>7. MarksInv' /\ ReverseInv'
  BY <1>1, SameMarksAndReverse
<1> QED
  BY <1>4, <1>5, <1>6, <1>7 DEF IndInv

\* The invariant is inductive.
LEMMA StepInv ==
  ASSUME NDEBUG = FALSE, ReservesFit, IndInv, Next
  PROVE  IndInv'
<1>1. ASSUME NEW e \in events, GetGrant(e)
      PROVE  IndInv'
  <2>1. Due(ns, events, trace, arrived, Now, e, Step) /\ e.type = "GET" /\ get_ret(ns, e) = 0
        /\ Process(e, get_grant(ns, e, Step))
    BY <1>1, ReadyIsDue DEF GetGrant, Ready
  <2>2. Outcome(ns, events, trace, arrived, e, Step, get_grant(ns, e, Step))
    BY <2>1, GetGrantOutcome
  <2> QED
    BY <2>1, <2>2, ProcessInv
<1>2. ASSUME NEW e \in events, GetEnqueue(e)
      PROVE  IndInv'
  <2>1. Due(ns, events, trace, arrived, Now, e, Step) /\ e.type = "GET" /\ get_ret(ns, e) = 1
        /\ Process(e, get_enqueue(ns, e))
    BY <1>2, ReadyIsDue DEF GetEnqueue, Ready
  <2>2. Outcome(ns, events, trace, arrived, e, Step, get_enqueue(ns, e))
    BY <2>1, GetEnqueueOutcome
  <2> QED
    BY <2>1, <2>2, ProcessInv
<1>3. ASSUME NEW e \in events, GetRefuse(e)
      PROVE  IndInv'
  <2>1. Due(ns, events, trace, arrived, Now, e, Step) /\ e.type = "GET"
        /\ Process(e, get_refuse(ns, e, Step))
    BY <1>3, ReadyIsDue DEF GetRefuse, Ready
  <2>2. Outcome(ns, events, trace, arrived, e, Step, get_refuse(ns, e, Step))
    BY <2>1, GetRefuseOutcome
  <2> QED
    BY <2>1, <2>2, ProcessInv
<1>4. ASSUME NEW e \in events, Free(e)
      PROVE  IndInv'
  <2>1. Due(ns, events, trace, arrived, Now, e, Step) /\ e.type = "FREE"
        /\ Process(e, handle_resource_free(ns, e, Step))
    BY <1>4, ReadyIsDue DEF Free, Ready
  <2>2. Outcome(ns, events, trace, arrived, e, Step, handle_resource_free(ns, e, Step))
    BY <2>1, FreeOutcome
  <2> QED
    BY <2>1, <2>2, ProcessInv
<1>5. ASSUME NEW e \in events, DeqEmpty(e)
      PROVE  IndInv'
  <2>1. Due(ns, events, trace, arrived, Now, e, Step) /\ e.type = "DEQ"
        /\ ns.pending[e.tok] = << >> /\ Process(e, deq_empty(ns))
    BY <1>5, ReadyIsDue DEF DeqEmpty, Ready
  <2>2. Outcome(ns, events, trace, arrived, e, Step, deq_empty(ns))
    BY <2>1, DeqEmptyOutcome
  <2> QED
    BY <2>1, <2>2, ProcessInv
<1>6. ASSUME NEW e \in events, DeqGrant(e)
      PROVE  IndInv'
  <2>1. Due(ns, events, trace, arrived, Now, e, Step) /\ e.type = "DEQ"
        /\ ns.pending[e.tok] # << >>
        /\ resource_get_ret(Script[Head(ns.pending[e.tok])].req, e.tok, ns.r) = 0
        /\ Process(e, deq_grant(ns, e, Step))
    BY <1>6, ReadyIsDue DEF DeqGrant, Ready, deq_ret
  <2>2. Outcome(ns, events, trace, arrived, e, Step, deq_grant(ns, e, Step))
    BY <2>1, DeqGrantOutcome
  <2> QED
    BY <2>1, <2>2, ProcessInv
<1>7. ASSUME NEW e \in events, DeqWait(e)
      PROVE  IndInv'
  <2>1. Due(ns, events, trace, arrived, Now, e, Step) /\ e.type = "DEQ"
        /\ ns.pending[e.tok] # << >>
        /\ resource_get_ret(Script[Head(ns.pending[e.tok])].req, e.tok, ns.r) = 1
        /\ Process(e, deq_wait(ns, e))
    BY <1>7, ReadyIsDue DEF DeqWait, Ready, deq_ret
  <2>2. Outcome(ns, events, trace, arrived, e, Step, deq_wait(ns, e))
    BY <2>1, DeqWaitOutcome
  <2> QED
    BY <2>1, <2>2, ProcessInv
<1>8. ASSUME NEW e \in events, Reserve(e)
      PROVE  IndInv'
  <2>1. Due(ns, events, trace, arrived, Now, e, Step) /\ e.type = "RESERVE"
        /\ Script[e.k].req <= ns.r[0].avail
        /\ Process(e, handle_resource_reserve(ns, e, Step))
    BY <1>8, ReadyIsDue DEF Reserve, Ready
  <2>2. Outcome(ns, events, trace, arrived, e, Step, handle_resource_reserve(ns, e, Step))
    BY <2>1, ReserveOutcome
  <2> QED
    BY <2>1, <2>2, ProcessInv
<1>9. ASSUME NEW e \in events, ClientAck(e)
      PROVE  IndInv'
  <2>1. Due(ns, events, trace, arrived, Now, e, Step) /\ e.type = "ACK"
    BY <1>9, ReadyIsDue DEF ClientAck, Ready
  <2>2. PICK sent \in Reactions(e) :
          Process(e, [ns |-> ns, rc |-> NoRc, sent |-> sent, did |-> << >>])
    BY <1>9 DEF ClientAck
  <2>3. ReactsWith(e, Step, sent)
    BY ReactionsAre
  <2> DEFINE o == [ns |-> ns, rc |-> NoRc, sent |-> sent, did |-> << >>]
  <2>4. Outcome(ns, events, trace, arrived, e, Step, o)
    BY <2>1, <2>3, AckReserveOutcome, AckGetOutcome
  <2> HIDE DEF o
  <2>5. Process(e, o)
    BY <2>2 DEF o
  <2> QED
    BY <2>4, <2>5, ProcessInv
<1>10. CASE HandleEvent
  BY <1>1, <1>2, <1>3, <1>4, <1>5, <1>6, <1>7, <1>8, <1>9, <1>10 DEF HandleEvent
<1>11. CASE \E k \in Reqs, ts \in Times : Arrive(k, ts)
  BY <1>11, ArriveInv
<1>12. CASE \E e \in events : Cancel(e)
  BY <1>12, CancelInv
<1>13. CASE Undo
  BY <1>13, UndoInv
<1>14. CASE Commit
  BY <1>14, CommitInv
<1>15. CASE Terminated
  BY <1>15, StutterInv DEF Terminated
<1> QED
  BY <1>10, <1>11, <1>12, <1>13, <1>14, <1>15 DEF Next

LEMMA Inductive ==
  ASSUME NDEBUG = FALSE, ReservesFit
  PROVE  Spec => []IndInv
<1>1. Init => IndInv
  BY InitInv
<1>2. IndInv /\ [Next]_vars => IndInv'
  BY StepInv, StutterInv
<1> QED
  BY <1>1, <1>2, PTL DEF Spec

-----------------------------------------------------------------------------
(* The theorems.                                                           *)

\* Every variable stays in its type, in every optimistic execution: no grant,
\* release, reservation or reverse handler of resource-lp.c drives a counter of
\* a pool or the random stream below zero, or leaves more units available in a
\* pool than belong to it.
THEOREM TypeCorrect ==
  ASSUME NDEBUG = FALSE, ReservesFit
  PROVE  Spec => []TypeOK
<1>1. IndInv => TypeOK
  <2> SUFFICES ASSUME IndInv
               PROVE  TypeOK
    OBVIOUS
  <2>1. ns \in State /\ PoolsHold(ns.r, trace)
    BY Present DEF Good
  <2>2. /\ num_tokens(ns.r) \in Nat /\ ns.r \in [0 .. num_tokens(ns.r) -> Pool]
        /\ DOMAIN ns.r = 0 .. num_tokens(ns.r)
        /\ ns.pending \in [Toks -> Seq(Reqs)] /\ ns.rng \in Nat /\ IsRecord(ns)
    BY <2>1, StateFacts
  <2>3. DOMAIN ns = {"r", "pending", "rng"}
    BY <2>2 DEF IsRecord, Fields
  <2>4. ASSUME NEW t \in DOMAIN ns.r
        PROVE  ns.r[t] \in Pool /\ ns.r[t].avail <= ns.r[t].max
    <3>1. ns.r[t] \in Pool
      BY <2>2
    <3>2. ns.r[t].avail \in Nat /\ ns.r[t].max \in Nat /\ Held(trace, Len(trace), t) \in Nat
      BY <3>1, PoolFacts, HeldType
    <3>3. ns.r[t].avail + Held(trace, Len(trace), t) = ns.r[t].max
      BY <2>1 DEF PoolsHold
    <3> QED
      BY <3>1, <3>2, <3>3
  <2> QED
    BY <2>2, <2>3, <2>4, InvFacts DEF TypeOK
<1> QED
  BY <1>1, Inductive, PTL

\* resource_rev_handler gives back exactly the state in which the event it undoes
\* found the LP, units, peak statistics, queues and random stream, for every
\* script of requests and every latency: the resource_get by which
\* handle_resource_free_rc takes units back always succeeds.
THEOREM RollbackCorrect ==
  ASSUME NDEBUG = FALSE, ReservesFit
  PROVE  Spec => []RollbackRestores
<1>1. IndInv => RollbackRestores
  <2> SUFFICES ASSUME IndInv, log # << >>
               PROVE  resource_rev_handler(ns, LastEntry) = LastEntry.before
    BY DEF RollbackRestores
  <2>1. Len(log) \in 1 .. Len(log)
    <3>1. Len(log) \in Nat /\ log \in Seq(LogEntry)
      BY InvFacts
    <3>2. Len(log) # 0
      BY <3>1, EmptySeq
    <3> QED
      BY <3>1, <3>2
  <2> QED
    BY <2>1 DEF IndInv, ReverseInv, StateAt, LastEntry
<1> QED
  BY <1>1, Inductive, PTL

\* Units are neither lost nor made, by resource_get, resource_free, the
\* reservations and their reverse handlers: in every pool what is available and
\* what the clients hold is what the pool was given, and the pools share out the
\* configured capacity.
THEOREM UnitsAreConserved ==
  ASSUME NDEBUG = FALSE, ReservesFit
  PROVE  Spec => []UnitsConserved
<1>1. IndInv => UnitsConserved
  BY Present DEF Good, PoolsHold, UnitsConserved
<1> QED
  BY <1>1, Inductive, PTL

\* When the request that waits longest for a pool would fit, a RESOURCE_DEQ event
\* for the pool is on its way: handle_resource_free and the grant of a waiting
\* request send one, and a rollback that takes one of them back restores a state
\* in which it was not needed.
THEOREM NoWakeupIsLost ==
  ASSUME NDEBUG = FALSE, ReservesFit
  PROVE  Spec => []NoLostWakeup
<1>1. IndInv => NoLostWakeup
  BY Present DEF Good, WakeupComing, NoLostWakeup
<1> QED
  BY <1>1, Inductive, PTL

\* Requests that wait for a pool are served in the order they came, and nobody
\* who comes later is served before them: handle_resource_get looks at the queue
\* before it looks at the pool, and handle_resource_deq_rc puts a request back at
\* the head of its queue.
THEOREM GrantsAreInOrder ==
  ASSUME NDEBUG = FALSE, ReservesFit
  PROVE  Spec => []GrantsInOrder
<1>1. IndInv => GrantsInOrder
  BY Present DEF Good, InOrder, GrantsInOrder
<1> QED
  BY <1>1, Inductive, PTL

\* a pool has no more units than the LP
LEMMA PoolWithinCapacity ==
  ASSUME NEW r, NEW t \in DOMAIN r, r[t].max \in Nat,
         IsFiniteSet(UnitsIn(r)), Cardinality(UnitsIn(r)) = Capacity
  PROVE  r[t].max <= Capacity
<1> DEFINE C == {t} \X (1 .. r[t].max)
<1>1. C \subseteq UnitsIn(r)
  BY DEF UnitsIn
<1>2. Cardinality(C) = r[t].max
  BY Column
<1> HIDE DEF C
<1>3. Cardinality(C) <= Cardinality(UnitsIn(r))
  BY <1>1, FS_Subset
<1> QED
  BY <1>2, <1>3

LEMMA MaxIs ==
  ASSUME NEW S, NEW m \in S, S \subseteq Int, \A x \in S : x <= m
  PROVE  Max(S) = m
<1>1. m \in S /\ \A y \in S : m >= y
  OBVIOUS
<1>2. Max(S) \in S /\ \A y \in S : Max(S) >= y
  BY <1>1 DEF Max
<1>3. Max(S) >= m /\ Max(S) <= m /\ Max(S) \in Int /\ m \in Int
  BY <1>2
<1> QED
  BY <1>3

\* The peak usage resource_finalize reports for a reserved pool is the most its
\* clients held at any time: min_avail follows resource_get, is put back by every
\* reverse handler that gives units back, and the difference does not wrap around.
THEOREM PeaksAreTrue ==
  ASSUME NDEBUG = FALSE, ReservesFit
  PROVE  Spec => []PeakOfReservedPools
<1>1. IndInv => PeakOfReservedPools
  <2> SUFFICES ASSUME IndInv, NEW t \in DOMAIN ns.r \ {0}
               PROVE  ReportedPeak(t) = Peak(t)
    BY DEF PeakOfReservedPools
  <2> DEFINE m == ns.r[t].max - ns.r[t].min_avail
             S == {Held(trace, i, t) : i \in 0 .. Len(trace)}
  <2>1. ns \in State /\ PoolsHold(ns.r, trace) /\ PeaksHold(ns.r, trace)
    BY Present DEF Good
  <2>2. ns.r[t] \in Pool
    BY <2>1, StateFacts
  <2>3. ns.r[t].max \in Nat /\ ns.r[t].min_avail \in Nat
    BY <2>2, PoolFacts
  <2>4. /\ ns.r[t].min_avail <= ns.r[t].max
        /\ \A i \in 0 .. Len(trace) : Held(trace, i, t) <= m
        /\ \E i \in 0 .. Len(trace) : Held(trace, i, t) = m
    BY <2>1 DEF PeaksHold
  <2>5. ns.r[t].max <= Capacity
    BY <2>1, <2>3, PoolWithinCapacity DEF PoolsHold
  <2>6. m \in Nat /\ m < Word /\ Word \in Nat
    BY <2>3, <2>4, <2>5, TWAssumption, ResourceAssumption
  <2> HIDE DEF m
  <2>7. Max(S) = m
    <3>1. m \in S /\ S \subseteq Int /\ \A x \in S : x <= m
      BY <2>4, HeldType
    <3> HIDE DEF S
    <3> QED
      BY <3>1, MaxIs
  <2>8. m % Word = m
    BY <2>6
  <2> QED
    BY <2>7, <2>8 DEF ReportedPeak, Peak, m
<1> QED
  BY <1>1, Inductive, PTL
=============================================================================
