--------------------------- MODULE DallyCreditProofs ---------------------------
(***************************************************************************)
(* Credits in DallyTW are neither lost nor made, and no buffer counts more *)
(* than it holds.                                                          *)
(*                                                                         *)
(* A slot is a channel of a port, or a terminal's one channel; a chunk     *)
(* that holds a place in a slot is a token of it, until its credit is      *)
(* back.  The invariant gives each token the one place it is in: a buffer, *)
(* the queue of the next router, or an event.                              *)
(***************************************************************************)
EXTENDS DallyTWProofs

-----------------------------------------------------------------------------
(* Slots, tokens and places.                                               *)

RSlots == {z \in Routers \X PortType \X Chans : z[2] \in Ports(z[1])}
TSlot(t) == <<t, InjectionPort(t), 0>>
Slots == RSlots \cup {TSlot(t) : t \in Terminals}
SlotRank(z) == ChannelRank(z[2], z[3])

\* names of chunks, and tokens
Ids == Terminals \X Nat \X Nat
Id(k) == <<k.src, k.pid, k.id>>
Tokens == Slots \X Ids

\* the token of a chunk: of the slot it waits in, of the slot it still holds while
\* it waits for the next, of the slot it will hold first
KeyOf(how, y, k) ==
  IF how = "wait" THEN << <<k.from, k.saved_port, k.saved_chan>>, Id(k) >>
  ELSE IF how = "pend" THEN <<y, Id(k)>>
  ELSE <<TSlot(y), Id(k)>>
Keys(how, y, q) == {KeyOf(how, y, q[i]) : i \in 1 .. Len(q)}
NoTwice(how, y, q) ==
  \A i, j \in 1 .. Len(q) : KeyOf(how, y, q[i]) = KeyOf(how, y, q[j]) => i = j

\* events that carry a chunk or a credit, and the token they stand for
ArriveTypes == {"R_ARRIVE", "T_ARRIVE"}
NetTypes == ArriveTypes \cup {"T_BUFFER", "R_BUFFER"}
NetEvents(E) == {e \in E : e.type \in NetTypes}
EventKey(e) ==
  IF e.type \in ArriveTypes THEN << <<e.chunk.from, e.chunk.port, e.chunk.chan>>, Id(e.chunk) >>
  ELSE IF e.type = "T_BUFFER" THEN <<TSlot(e.to), <<e.by[2], e.by[3], e.by[4]>> >>
  ELSE << <<e.to, e.port, e.chan>>, <<e.by[2], e.by[3], e.by[4]>> >>

\* what a view says of a slot or a terminal
PendAt(v, z) == v[z[1]][z[2]].pending[z[3]]
WaitAt(v, z) == v[z[1]][z[2]].queued[z[3]]
OccAt(v, z) ==
  IF z[1] \in Terminals THEN v[z[1]].vc_occupancy ELSE v[z[1]][z[2]].vc_occupancy[z[3]]
OwnAt(v, t) == v[t].terminal_msgs
CountAt(v, t) == v[t].packet_counter

\* places of tokens
Nowhere == [in |-> "none", what |-> 0]
Pends(z) == [in |-> "pend", what |-> z]
Waits(z) == [in |-> "wait", what |-> z]
On(e) == [in |-> "event", what |-> e]
IsPlace(y) ==
  \/ \E z \in RSlots : y = Pends(z)
  \/ \E z \in RSlots : y = Waits(z)
  \/ \E e : y = On(e)
Holds(v, D, y) ==
  IF y.in = "pend" THEN Keys("pend", y.what, PendAt(v, y.what))
  ELSE IF y.in = "wait" THEN Keys("wait", y.what, WaitAt(v, y.what))
  ELSE IF y.what \in D THEN {EventKey(y.what)} ELSE {}

\* the chunk itself is there, not only its credit
Live(y) == y.in \in {"pend", "wait"} \/ (y.in = "event" /\ y.what.type \in ArriveTypes)

Used(Pl, z) == {k \in Ids : Pl[<<z, k>>] # Nowhere}

PlacesOK(v, D, Pl) ==
  \A y : IsPlace(y) => /\ Holds(v, D, y) \subseteq Tokens
                       /\ \A z \in Tokens : Pl[z] = y <=> z \in Holds(v, D, y)
PlaceType(Pl) == \A z \in Tokens : Pl[z] = Nowhere \/ IsPlace(Pl[z])
QueuesOK(v) ==
  \A z \in RSlots : NoTwice("pend", z, PendAt(v, z)) /\ NoTwice("wait", z, WaitAt(v, z))
CountsOK(v, Pl) ==
  \A z \in Slots : /\ IsFiniteSet(Used(Pl, z))
                   /\ OccAt(v, z) = ChunkSize * Cardinality(Used(Pl, z))
\* the slots of a chunk ascend to where it is
RanksOK(Pl) ==
  \A y, z \in Slots, k \in Ids :
    y # z /\ Live(Pl[<<y, k>>]) /\ Pl[<<z, k>>] # Nowhere => SlotRank(z) < SlotRank(y)
\* a chunk that has not left its terminal has no token, and the next packet none yet
OwnOK(v, Pl) ==
  /\ \A t \in Terminals :
       /\ CountAt(v, t) \in Nat /\ NoTwice("own", t, OwnAt(v, t))
       /\ \A i \in 1 .. Len(OwnAt(v, t)) :
            /\ OwnAt(v, t)[i].pid < CountAt(v, t)
            /\ \A z \in Slots : Pl[<<z, Id(OwnAt(v, t)[i])>>] = Nowhere
  /\ \A z \in Slots, k \in Ids : Pl[<<z, k>>] # Nowhere => k[2] < CountAt(v, k[1])

CreditInv(v, D, Pl) ==
  /\ PlaceType(Pl) /\ PlacesOK(v, D, Pl) /\ QueuesOK(v) /\ CountsOK(v, Pl)
  /\ RanksOK(Pl) /\ OwnOK(v, Pl)

LEMMA PlaceFacts ==
  /\ Nowhere.in = "none" /\ ~Live(Nowhere) /\ ~IsPlace(Nowhere)
  /\ \A x, y : Pends(x).in = "pend" /\ Pends(x).what = x /\ Waits(x).in = "wait"
               /\ Waits(x).what = x /\ On(x).in = "event" /\ On(x).what = x
  /\ \A x, y : Pends(x) # Waits(y) /\ Pends(x) # On(y) /\ Waits(x) # On(y)
  /\ \A x, y : /\ Pends(x) = Pends(y) => x = y
               /\ Waits(x) = Waits(y) => x = y
               /\ On(x) = On(y) => x = y
  /\ \A x : Pends(x) # Nowhere /\ Waits(x) # Nowhere /\ On(x) # Nowhere
  /\ \A x : Live(Pends(x)) /\ Live(Waits(x)) /\ (Live(On(x)) <=> x.type \in ArriveTypes)
  /\ \A e : IsPlace(On(e))
  /\ \A z \in RSlots : IsPlace(Pends(z)) /\ IsPlace(Waits(z))
<1>1. \A x, y : Pends(x).in = "pend" /\ Pends(x).what = x /\ Waits(x).in = "wait"
               /\ Waits(x).what = x /\ On(x).in = "event" /\ On(x).what = x
  BY DEF Pends, Waits, On
<1>2. Nowhere.in = "none"
  BY DEF Nowhere
<1>3. \A x, y : Pends(x) # Waits(y) /\ Pends(x) # On(y) /\ Waits(x) # On(y)
  BY <1>1
<1>4. \A x, y : /\ Pends(x) = Pends(y) => x = y
                /\ Waits(x) = Waits(y) => x = y
                /\ On(x) = On(y) => x = y
  BY <1>1
<1>5. \A x : Pends(x) # Nowhere /\ Waits(x) # Nowhere /\ On(x) # Nowhere
  BY <1>1, <1>2
<1>6. \A x : Live(Pends(x)) /\ Live(Waits(x)) /\ (Live(On(x)) <=> x.type \in ArriveTypes)
  BY <1>1 DEF Live
<1>7. ~Live(Nowhere)
  BY <1>2 DEF Live
<1>8. ~IsPlace(Nowhere)
  BY <1>5 DEF IsPlace
<1>9. \A e : IsPlace(On(e))
  BY Zenon DEF IsPlace
<1>10. \A z \in RSlots : IsPlace(Pends(z)) /\ IsPlace(Waits(z))
  BY Zenon DEF IsPlace
<1>. QED
  BY <1>1, <1>2, <1>3, <1>4, <1>5, <1>6, <1>7, <1>8, <1>9, <1>10, Zenon

LEMMA SlotFacts ==
  /\ \A r \in Routers : \A p \in Ports(r), c \in Chans : <<r, p, c>> \in RSlots
  /\ \A z \in RSlots : /\ z = <<z[1], z[2], z[3]>> /\ z[1] \in Routers /\ z[1] \notin Terminals
                       /\ z[2] \in Ports(z[1]) /\ z[3] \in Chans
  /\ \A t \in Terminals : /\ TSlot(t) \in Slots /\ TSlot(t) \notin RSlots /\ TSlot(t)[1] = t
                          /\ TSlot(t)[2] = InjectionPort(t) /\ TSlot(t)[3] = 0
  /\ \A s, t : TSlot(s) = TSlot(t) => s = t
  /\ RSlots \subseteq Slots
  /\ \A z \in Slots : SlotRank(z) \in Int
<1>1. \A r \in Routers : \A p \in Ports(r), c \in Chans : <<r, p, c>> \in RSlots
  BY PortFacts DEF RSlots
<1>2. \A z \in RSlots : /\ z = <<z[1], z[2], z[3]>> /\ z[1] \in Routers
                        /\ z[2] \in PortType /\ z[2] \in Ports(z[1]) /\ z[3] \in Chans
  BY DEF RSlots
<1>3. Routers \cap Terminals = {}
  BY RouteAssumption
<1>4. \A t : /\ TSlot(t)[1] = t /\ TSlot(t)[2] = InjectionPort(t) /\ TSlot(t)[3] = 0
  BY DEF TSlot
<1>5. \A t \in Terminals : TSlot(t) \in Slots /\ TSlot(t) \notin RSlots
  BY <1>2, <1>3, <1>4, Zenon DEF Slots
<1>6. ASSUME NEW z \in Slots PROVE SlotRank(z) \in Int
  <2>1. z[2].kind \in Kinds \cup {"INJECTION"} /\ z[3] \in Int
    <3>1. CASE z \in RSlots
      <4>1. z[2] \in PortType /\ z[3] \in Chans
        BY <1>2, <3>1
      <4>. QED
        BY <4>1, NetAssumption DEF PortType, Chans
    <3>2. CASE z \notin RSlots
      <4>1. PICK t \in Terminals : z = TSlot(t)
        BY <3>2 DEF Slots
      <4>2. z[2] = InjectionPort(t) /\ z[3] = 0
        BY <1>4, <4>1
      <4>. QED
        BY <4>2 DEF InjectionPort, Conn
    <3>. QED
      BY <3>1, <3>2
  <2>2. HopAt(z[2], z[3]).kind = z[2].kind /\ HopAt(z[2], z[3]).chan = z[3]
    BY DEF HopAt
  <2> DEFINE h == HopAt(z[2], z[3])
  <2> HIDE DEF h
  <2>3. h.kind \in Kinds \cup {"INJECTION"} /\ h.chan \in Int
    BY <2>1, <2>2 DEF h
  <2>4. Walk!Rank(h) \in Int
    BY <2>3, NetAssumption DEF Walk!Rank, Kinds
  <2>. QED
    BY <2>4 DEF h, SlotRank, ChannelRank
<1>7. ASSUME NEW s, NEW t, TSlot(s) = TSlot(t) PROVE s = t
  <2>1. TSlot(s)[1] = s /\ TSlot(t)[1] = t
    BY <1>4
  <2>. QED
    BY <1>7, <2>1
<1>8. \A z \in RSlots : z[1] \notin Terminals
  BY <1>2, <1>3, Zenon
<1>9. RSlots \subseteq Slots
  BY Zenon DEF Slots
<1>10. \A t \in Terminals : /\ TSlot(t) \in Slots /\ TSlot(t) \notin RSlots /\ TSlot(t)[1] = t
                            /\ TSlot(t)[2] = InjectionPort(t) /\ TSlot(t)[3] = 0
  BY <1>4, <1>5, Zenon
<1>. QED
  BY <1>1, <1>2, <1>6, <1>7, <1>8, <1>9, <1>10, Zenon

LEMMA KeysAppend ==
  ASSUME NEW how, NEW y, NEW S, NEW q, q \in Seq(S), NEW k, k \in S
  PROVE  /\ Keys(how, y, Append(q, k)) = Keys(how, y, q) \cup {KeyOf(how, y, k)}
         /\ NoTwice(how, y, q) /\ KeyOf(how, y, k) \notin Keys(how, y, q) =>
              NoTwice(how, y, Append(q, k))
<1> DEFINE n == Len(q)
           a == Append(q, k)
<1>1. n \in Nat /\ Len(a) = n + 1 /\ (\A i \in 1 .. n : a[i] = q[i]) /\ a[n + 1] = k
  BY AppendProperties, LenProperties
<1> HIDE DEF a
<1>2. Keys(how, y, a) = Keys(how, y, q) \cup {KeyOf(how, y, k)}
  <2>1. ASSUME NEW i \in 1 .. Len(a) PROVE KeyOf(how, y, a[i]) \in Keys(how, y, q) \cup {KeyOf(how, y, k)}
    <3>1. i \in 1 .. n \/ i = n + 1
      <4> HIDE DEF n
      <4>. QED
        BY <1>1
    <3>. QED
      BY <1>1, <3>1, Zenon DEF Keys
  <2>2. ASSUME NEW i \in 1 .. n PROVE KeyOf(how, y, q[i]) \in Keys(how, y, a)
    <3>1. i \in 1 .. Len(a)
      <4> HIDE DEF n
      <4>. QED
        BY <1>1
    <3>. QED
      BY <1>1, <3>1, Zenon DEF Keys
  <2>3. KeyOf(how, y, k) \in Keys(how, y, a)
    <3>1. n + 1 \in 1 .. Len(a)
      <4> HIDE DEF n
      <4>. QED
        BY <1>1
    <3>. QED
      BY <1>1, <3>1, Zenon DEF Keys
  <2>. QED
    BY <2>1, <2>2, <2>3, Zenon DEF Keys
<1>3. ASSUME NoTwice(how, y, q), KeyOf(how, y, k) \notin Keys(how, y, q)
      PROVE  NoTwice(how, y, a)
  <2> SUFFICES ASSUME NEW i \in 1 .. Len(a), NEW j \in 1 .. Len(a),
                      KeyOf(how, y, a[i]) = KeyOf(how, y, a[j])
               PROVE  i = j
    BY DEF NoTwice
  <2>1. (i \in 1 .. n \/ i = n + 1) /\ (j \in 1 .. n \/ j = n + 1)
    <3> HIDE DEF n
    <3>. QED
      BY <1>1
  <2>2. CASE i \in 1 .. n /\ j \in 1 .. n
    BY <1>1, <1>3, <2>2, Zenon DEF NoTwice
  <2>3. CASE i \in 1 .. n /\ j = n + 1
    BY <1>1, <1>3, <2>3, Zenon DEF Keys
  <2>4. CASE i = n + 1 /\ j \in 1 .. n
    BY <1>1, <1>3, <2>4, Zenon DEF Keys
  <2>. QED
    BY <2>1, <2>2, <2>3, <2>4
<1>. QED
  BY <1>2, <1>3 DEF a

LEMMA KeysTail ==
  ASSUME NEW how, NEW y, NEW S, NEW q, q \in Seq(S), q # << >>, NoTwice(how, y, q)
  PROVE  /\ Keys(how, y, Tail(q)) = Keys(how, y, q) \ {KeyOf(how, y, Head(q))}
         /\ KeyOf(how, y, Head(q)) \in Keys(how, y, q)
         /\ NoTwice(how, y, Tail(q))
<1> DEFINE n == Len(q)
           a == Tail(q)
<1>1. /\ n \in Nat \ {0} /\ Len(a) = n - 1 /\ (\A i \in 1 .. n - 1 : a[i] = q[i + 1])
      /\ Head(q) = q[1]
  BY HeadTailProperties, LenProperties, EmptySeq
<1> HIDE DEF a
<1>2. /\ \A i \in 1 .. Len(a) : i + 1 \in 1 .. n /\ i + 1 # 1 /\ i \in 1 .. n - 1
      /\ \A i \in 1 .. n : i = 1 \/ (i - 1 \in 1 .. Len(a) /\ a[i - 1] = q[i])
      /\ 1 \in 1 .. n
      /\ \A i, j \in 1 .. Len(a) : i + 1 = j + 1 => i = j
  <2> HIDE DEF n
  <2>. QED
    BY <1>1
<1>3. \A i \in 1 .. Len(a) : a[i] = q[i + 1]
  BY <1>1, <1>2, Zenon
<1>4. KeyOf(how, y, Head(q)) \in Keys(how, y, q)
  BY <1>1, <1>2, Zenon DEF Keys
<1>5. NoTwice(how, y, a)
  <2> SUFFICES ASSUME NEW i \in 1 .. Len(a), NEW j \in 1 .. Len(a),
                      KeyOf(how, y, a[i]) = KeyOf(how, y, a[j])
               PROVE  i = j
    BY DEF NoTwice
  <2>1. KeyOf(how, y, q[i + 1]) = KeyOf(how, y, q[j + 1]) /\ i + 1 \in 1 .. n /\ j + 1 \in 1 .. n
    BY <1>2, <1>3, Zenon
  <2>2. i + 1 = j + 1
    BY <2>1, Zenon DEF NoTwice
  <2>. QED
    BY <1>2, <2>2, Zenon
<1>6. \A x \in Keys(how, y, a) : x \in Keys(how, y, q) /\ x # KeyOf(how, y, Head(q))
  <2> SUFFICES ASSUME NEW i \in 1 .. Len(a)
               PROVE  KeyOf(how, y, a[i]) \in Keys(how, y, q) /\ KeyOf(how, y, a[i]) # KeyOf(how, y, q[1])
    BY <1>1, Zenon DEF Keys
  <2>1. a[i] = q[i + 1] /\ i + 1 \in 1 .. n /\ i + 1 # 1
    BY <1>2, <1>3, Zenon
  <2>2. KeyOf(how, y, q[i + 1]) # KeyOf(how, y, q[1])
    BY <1>2, <2>1, Zenon DEF NoTwice
  <2>. QED
    BY <2>1, <2>2, Zenon DEF Keys
<1>7. \A x \in Keys(how, y, q) : x = KeyOf(how, y, Head(q)) \/ x \in Keys(how, y, a)
  <2> SUFFICES ASSUME NEW i \in 1 .. n
               PROVE  KeyOf(how, y, q[i]) = KeyOf(how, y, q[1]) \/ KeyOf(how, y, q[i]) \in Keys(how, y, a)
    BY <1>1, Zenon DEF Keys
  <2>. QED
    BY <1>2, Zenon DEF Keys
<1>. QED
  BY <1>4, <1>5, <1>6, <1>7, Zenon DEF a

-----------------------------------------------------------------------------
(* What a step does to the invariant, part by part.                        *)

\* the places after tokens z1 and z2 have gone to x1 and x2
Moved(Pl, z1, x1, z2, x2) ==
  [z \in Tokens |-> IF z = z1 THEN x1 ELSE IF z = z2 THEN x2 ELSE Pl[z]]

\* ... as seen in the buffers and events
HoldsMoved(v, D, v2, D2, Pl, z1, x1, z2, x2) ==
  \A y, z : IsPlace(y) =>
    (z \in Holds(v2, D2, y) <=> \/ z \in Holds(v, D, y) /\ ~(z = z1 /\ y = Pl[z1])
                                \/ z = z1 /\ y = x1
                                \/ z = z2 /\ y = x2)

LEMMA PlacesMoved ==
  ASSUME NEW v, NEW D, NEW v2, NEW D2, NEW Pl, NEW z1 \in Tokens, NEW x1, NEW z2 \in Tokens, NEW x2,
         PlaceType(Pl), PlacesOK(v, D, Pl),
         x1 = Nowhere \/ IsPlace(x1), x2 = Nowhere \/ IsPlace(x2),
         (z1 = z2 /\ x1 = x2) \/ (z1 # z2 /\ Pl[z2] = Nowhere),
         HoldsMoved(v, D, v2, D2, Pl, z1, x1, z2, x2)
  PROVE  PlaceType(Moved(Pl, z1, x1, z2, x2)) /\ PlacesOK(v2, D2, Moved(Pl, z1, x1, z2, x2))
<1> DEFINE Q == Moved(Pl, z1, x1, z2, x2)
<1>1. \A z \in Tokens : Q[z] = IF z = z1 THEN x1 ELSE IF z = z2 THEN x2 ELSE Pl[z]
  BY Zenon DEF Moved
<1>2. ~IsPlace(Nowhere)
  BY PlaceFacts
<1> HIDE DEF Q
<1>3. PlaceType(Q)
  BY <1>1, Zenon DEF PlaceType
<1>4. ASSUME NEW y, IsPlace(y) PROVE Holds(v2, D2, y) \subseteq Tokens
  <2>1. Holds(v, D, y) \subseteq Tokens
    BY <1>4, Zenon DEF PlacesOK
  <2>. QED
    BY <1>4, <2>1, Zenon DEF HoldsMoved
<1>5. ASSUME NEW y, IsPlace(y), NEW z \in Tokens PROVE Q[z] = y <=> z \in Holds(v2, D2, y)
  <2>1. Pl[z] = y <=> z \in Holds(v, D, y)
    BY <1>5, Zenon DEF PlacesOK
  <2>2. z \in Holds(v2, D2, y) <=> \/ z \in Holds(v, D, y) /\ ~(z = z1 /\ y = Pl[z1])
                                   \/ z = z1 /\ y = x1
                                   \/ z = z2 /\ y = x2
    BY <1>5, Zenon DEF HoldsMoved
  <2>3. CASE z = z1
    <3>1. Q[z] = x1
      BY <1>1, <2>3, Zenon
    <3>. QED
      BY <2>1, <2>2, <2>3, <3>1, Zenon
  <2>4. CASE z # z1 /\ z = z2
    <3>1. Q[z] = x2 /\ Pl[z] = Nowhere
      BY <1>1, <2>4, Zenon
    <3>2. Pl[z] # y
      BY <1>2, <1>5, <3>1, Zenon
    <3>. QED
      BY <2>1, <2>2, <2>4, <3>1, <3>2, Zenon
  <2>5. CASE z # z1 /\ z # z2
    <3>1. Q[z] = Pl[z]
      BY <1>1, <2>5, Zenon
    <3>. QED
      BY <2>1, <2>2, <2>5, <3>1, Zenon
  <2>. QED
    BY <2>3, <2>4, <2>5
<1>6. PlacesOK(v2, D2, Q)
  BY <1>4, <1>5, Zenon DEF PlacesOK
<1>. QED
  BY <1>3, <1>6 DEF Q

\* the same tokens
SameUse(Pl, Q) == \A z \in Tokens : Q[z] = Nowhere <=> Pl[z] = Nowhere

LEMMA TokenPair ==
  ASSUME NEW z \in Slots, NEW k \in Ids
  PROVE  <<z, k>> \in Tokens
  BY DEF Tokens

LEMMA CountsSame ==
  ASSUME NEW v, NEW v2, NEW Pl, NEW Q, CountsOK(v, Pl), SameUse(Pl, Q),
         \A z \in Slots : OccAt(v2, z) = OccAt(v, z)
  PROVE  CountsOK(v2, Q)
<1>1. \A z \in Slots : Used(Q, z) = Used(Pl, z)
  BY TokenPair, Zenon DEF Used, SameUse
<1>. QED
  BY <1>1, Zenon DEF CountsOK

LEMMA CountsMore ==
  ASSUME NEW v, NEW v2, NEW Pl, NEW Q, CountsOK(v, Pl), NEW s \in Slots, NEW k \in Ids,
         Pl[<<s, k>>] = Nowhere, Q[<<s, k>>] # Nowhere,
         \A z \in Tokens : z # <<s, k>> => (Q[z] = Nowhere <=> Pl[z] = Nowhere),
         \A z \in Slots : OccAt(v2, z) = IF z = s THEN OccAt(v, s) + ChunkSize ELSE OccAt(v, z)
  PROVE  CountsOK(v2, Q)
<1>1. \A z \in Slots : z # s => Used(Q, z) = Used(Pl, z)
  <2> SUFFICES ASSUME NEW z \in Slots, z # s, NEW j \in Ids
               PROVE  Q[<<z, j>>] = Nowhere <=> Pl[<<z, j>>] = Nowhere
    BY Zenon DEF Used
  <2>1. <<z, j>> # <<s, k>>
    OBVIOUS
  <2>. QED
    BY <2>1, TokenPair, Zenon
<1>2. Used(Q, s) = Used(Pl, s) \cup {k} /\ k \notin Used(Pl, s)
  <2>1. ASSUME NEW j \in Ids, j # k PROVE Q[<<s, j>>] = Nowhere <=> Pl[<<s, j>>] = Nowhere
    <3>1. <<s, j>> # <<s, k>>
      BY <2>1
    <3>. QED
      BY <3>1, TokenPair, Zenon
  <2>2. k \in Used(Q, s) /\ k \notin Used(Pl, s)
    BY Zenon DEF Used
  <2>3. ASSUME NEW j \in Used(Q, s) PROVE j \in Used(Pl, s) \cup {k}
    BY <2>1, Zenon DEF Used
  <2>4. ASSUME NEW j \in Used(Pl, s) PROVE j \in Used(Q, s)
    BY <2>1, Zenon DEF Used
  <2>. QED
    BY <2>2, <2>3, <2>4
<1>3. IsFiniteSet(Used(Pl, s)) /\ OccAt(v, s) = ChunkSize * Cardinality(Used(Pl, s))
  BY Zenon DEF CountsOK
<1>4. /\ IsFiniteSet(Used(Q, s)) /\ Cardinality(Used(Q, s)) = Cardinality(Used(Pl, s)) + 1
      /\ Cardinality(Used(Pl, s)) \in Nat
  BY <1>2, <1>3, FS_AddElement, FS_CardinalityType
<1>5. OccAt(v2, s) = ChunkSize * Cardinality(Used(Q, s))
  <2>1. OccAt(v2, s) = OccAt(v, s) + ChunkSize
    OBVIOUS
  <2>2. ChunkSize \in Nat
    BY SizeFacts
  <2> DEFINE c == Cardinality(Used(Pl, s))
  <2>3. ChunkSize * c + ChunkSize = ChunkSize * (c + 1)
    BY <1>4, <2>2
  <2>. QED
    BY <1>3, <1>4, <2>1, <2>3
<1>6. ASSUME NEW z \in Slots PROVE IsFiniteSet(Used(Q, z)) /\ OccAt(v2, z) = ChunkSize * Cardinality(Used(Q, z))
  <2>1. CASE z = s
    BY <1>4, <1>5, <2>1
  <2>2. CASE z # s
    BY <1>1, <2>2, Zenon DEF CountsOK
  <2>. QED
    BY <2>1, <2>2
<1>. QED
  BY <1>6, Zenon DEF CountsOK

LEMMA CountsLess ==
  ASSUME NEW v, NEW v2, NEW Pl, NEW Q, CountsOK(v, Pl), NEW s \in Slots, NEW k \in Ids,
         Pl[<<s, k>>] # Nowhere, Q[<<s, k>>] = Nowhere,
         \A z \in Tokens : z # <<s, k>> => (Q[z] = Nowhere <=> Pl[z] = Nowhere),
         \A z \in Slots : OccAt(v2, z) = IF z = s THEN OccAt(v, s) - ChunkSize ELSE OccAt(v, z)
  PROVE  CountsOK(v2, Q)
<1>1. \A z \in Slots : z # s => Used(Q, z) = Used(Pl, z)
  <2> SUFFICES ASSUME NEW z \in Slots, z # s, NEW j \in Ids
               PROVE  Q[<<z, j>>] = Nowhere <=> Pl[<<z, j>>] = Nowhere
    BY Zenon DEF Used
  <2>1. <<z, j>> # <<s, k>>
    OBVIOUS
  <2>. QED
    BY <2>1, TokenPair, Zenon
<1>2. Used(Q, s) = Used(Pl, s) \ {k} /\ k \in Used(Pl, s)
  <2>1. ASSUME NEW j \in Ids, j # k PROVE Q[<<s, j>>] = Nowhere <=> Pl[<<s, j>>] = Nowhere
    <3>1. <<s, j>> # <<s, k>>
      BY <2>1
    <3>. QED
      BY <3>1, TokenPair, Zenon
  <2>. QED
    BY <2>1, Zenon DEF Used
<1>3. IsFiniteSet(Used(Pl, s)) /\ OccAt(v, s) = ChunkSize * Cardinality(Used(Pl, s))
  BY Zenon DEF CountsOK
<1>4. /\ IsFiniteSet(Used(Q, s)) /\ Cardinality(Used(Q, s)) = Cardinality(Used(Pl, s)) - 1
      /\ Cardinality(Used(Pl, s)) \in Nat
  BY <1>2, <1>3, FS_RemoveElement, FS_CardinalityType
<1>5. OccAt(v2, s) = ChunkSize * Cardinality(Used(Q, s))
  <2>1. OccAt(v2, s) = OccAt(v, s) - ChunkSize
    OBVIOUS
  <2>2. ChunkSize \in Nat
    BY SizeFacts
  <2> DEFINE c == Cardinality(Used(Pl, s))
  <2>3. ChunkSize * c - ChunkSize = ChunkSize * (c - 1)
    BY <1>4, <2>2
  <2>. QED
    BY <1>3, <1>4, <2>1, <2>3
<1>6. ASSUME NEW z \in Slots PROVE IsFiniteSet(Used(Q, z)) /\ OccAt(v2, z) = ChunkSize * Cardinality(Used(Q, z))
  <2>1. CASE z = s
    BY <1>4, <1>5, <2>1
  <2>2. CASE z # s
    BY <1>1, <2>2, Zenon DEF CountsOK
  <2>. QED
    BY <2>1, <2>2
<1>. QED
  BY <1>6, Zenon DEF CountsOK

LEMMA RanksFewer ==
  ASSUME NEW Pl, NEW Q, RanksOK(Pl),
         \A z \in Tokens : (Q[z] # Nowhere => Pl[z] # Nowhere) /\ (Live(Q[z]) => Live(Pl[z]))
  PROVE  RanksOK(Q)
<1> SUFFICES ASSUME NEW y \in Slots, NEW z \in Slots, NEW k \in Ids,
                    y # z, Live(Q[<<y, k>>]), Q[<<z, k>>] # Nowhere
             PROVE  SlotRank(z) < SlotRank(y)
  BY Zenon DEF RanksOK
<1>1. Live(Pl[<<y, k>>]) /\ Pl[<<z, k>>] # Nowhere
  BY TokenPair, Zenon
<1>. QED
  BY <1>1, Zenon DEF RanksOK

\* a chunk that was at s takes a place in a channel of higher rank
LEMMA RanksPassed ==
  ASSUME NEW Pl, RanksOK(Pl), NEW s \in Slots, NEW d \in Slots, NEW k \in Ids,
         Live(Pl[<<s, k>>]), SlotRank(s) < SlotRank(d)
  PROVE  /\ <<s, k>> # <<d, k>> /\ Pl[<<d, k>>] = Nowhere
         /\ \A Q : /\ \A z \in Tokens : z # <<s, k>> /\ z # <<d, k>> => Q[z] = Pl[z]
                   /\ ~Live(Q[<<s, k>>])
                   => RanksOK(Q)
<1>1. \A z \in Slots : SlotRank(z) \in Int
  BY SlotFacts, Zenon
<1>2. s # d
  BY <1>1
<1>3. \A z \in Slots : z # s /\ Pl[<<z, k>>] # Nowhere => SlotRank(z) < SlotRank(s)
  BY Zenon DEF RanksOK
<1>4. Pl[<<d, k>>] = Nowhere
  <2>1. SUFFICES ASSUME Pl[<<d, k>>] # Nowhere PROVE FALSE
    OBVIOUS
  <2>2. SlotRank(d) < SlotRank(s)
    BY <1>2, <1>3, <2>1, Zenon
  <2>. QED
    BY <1>1, <2>2
<1>5. \A z \in Slots : z # s => ~Live(Pl[<<z, k>>])
  <2> SUFFICES ASSUME NEW z \in Slots, z # s, Live(Pl[<<z, k>>]) PROVE FALSE
    OBVIOUS
  <2>1. Pl[<<z, k>>] # Nowhere /\ Pl[<<s, k>>] # Nowhere
    BY PlaceFacts
  <2>2. SlotRank(z) < SlotRank(s) /\ SlotRank(s) < SlotRank(z)
    BY <2>1, Zenon DEF RanksOK
  <2>. QED
    BY <1>1, <2>2
<1>6. ASSUME NEW Q, \A z \in Tokens : z # <<s, k>> /\ z # <<d, k>> => Q[z] = Pl[z],
             ~Live(Q[<<s, k>>])
      PROVE  RanksOK(Q)
  <2> SUFFICES ASSUME NEW y \in Slots, NEW z \in Slots, NEW j \in Ids,
                      y # z, Live(Q[<<y, j>>]), Q[<<z, j>>] # Nowhere
               PROVE  SlotRank(z) < SlotRank(y)
    BY Zenon DEF RanksOK
  <2>1. CASE j # k
    <3>1. <<y, j>> # <<s, k>> /\ <<y, j>> # <<d, k>> /\ <<z, j>> # <<s, k>> /\ <<z, j>> # <<d, k>>
      BY <2>1
    <3>2. Q[<<y, j>>] = Pl[<<y, j>>] /\ Q[<<z, j>>] = Pl[<<z, j>>]
      BY <1>6, <3>1, TokenPair, Zenon
    <3>. QED
      BY <3>2, Zenon DEF RanksOK
  <2>2. CASE j = k
    <3>1. \A w \in Slots : w # s /\ w # d => Q[<<w, k>>] = Pl[<<w, k>>]
      <4> SUFFICES ASSUME NEW w \in Slots, w # s, w # d PROVE Q[<<w, k>>] = Pl[<<w, k>>]
        OBVIOUS
      <4>1. <<w, k>> # <<s, k>> /\ <<w, k>> # <<d, k>>
        OBVIOUS
      <4>. QED
        BY <1>6, <4>1, TokenPair, Zenon
    <3>2. y = d
      BY <1>5, <1>6, <2>2, <3>1, Zenon
    <3>3. CASE z = s
      BY <3>2, <3>3
    <3>4. CASE z # s
      <4>1. Pl[<<z, k>>] # Nowhere
        BY <2>2, <3>1, <3>2, <3>4, Zenon
      <4>2. SlotRank(z) < SlotRank(s)
        BY <1>3, <3>4, <4>1, Zenon
      <4>. QED
        BY <1>1, <3>2, <4>2
    <3>. QED
      BY <3>3, <3>4
  <2>. QED
    BY <2>1, <2>2
<1>7. <<s, k>> # <<d, k>>
  BY <1>2
<1>. QED
  BY <1>4, <1>6, <1>7, Zenon

\* the first place of a chunk that had none
LEMMA RanksFirst ==
  ASSUME NEW Pl, NEW Q, RanksOK(Pl), NEW s \in Slots, NEW k \in Ids,
         \A z \in Slots : Pl[<<z, k>>] = Nowhere,
         \A z \in Tokens : z # <<s, k>> => Q[z] = Pl[z]
  PROVE  RanksOK(Q)
<1> SUFFICES ASSUME NEW y \in Slots, NEW z \in Slots, NEW j \in Ids,
                    y # z, Live(Q[<<y, j>>]), Q[<<z, j>>] # Nowhere
             PROVE  SlotRank(z) < SlotRank(y)
  BY Zenon DEF RanksOK
<1>1. CASE j # k
  <2>1. <<y, j>> # <<s, k>> /\ <<z, j>> # <<s, k>>
    BY <1>1
  <2>2. Q[<<y, j>>] = Pl[<<y, j>>] /\ Q[<<z, j>>] = Pl[<<z, j>>]
    BY <2>1, TokenPair, Zenon
  <2>. QED
    BY <2>2, Zenon DEF RanksOK
<1>2. CASE j = k
  <2>1. ASSUME NEW w \in Slots, w # s PROVE Q[<<w, k>>] = Nowhere
    <3>1. <<w, k>> # <<s, k>>
      BY <2>1
    <3>. QED
      BY <3>1, TokenPair, Zenon
  <2>2. ~Live(Nowhere)
    BY PlaceFacts
  <2>. QED
    BY <1>2, <2>1, <2>2, Zenon
<1>. QED
  BY <1>1, <1>2

SameOwn(v, v2) ==
  \A t \in Terminals : OwnAt(v2, t) = OwnAt(v, t) /\ CountAt(v2, t) = CountAt(v, t)
OnlyOld(Pl, Q) ==
  \A z \in Slots, k \in Ids : Q[<<z, k>>] # Nowhere => \E y \in Slots : Pl[<<y, k>>] # Nowhere
OwnNamed(v) ==
  \A t \in Terminals : \A i \in 1 .. Len(OwnAt(v, t)) : Id(OwnAt(v, t)[i]) \in Ids

LEMMA OwnSame ==
  ASSUME NEW v, NEW v2, NEW Pl, NEW Q, OwnOK(v, Pl), SameOwn(v, v2), OnlyOld(Pl, Q), OwnNamed(v)
  PROVE  OwnOK(v2, Q)
<1>1. ASSUME NEW t \in Terminals
      PROVE  /\ CountAt(v2, t) \in Nat /\ NoTwice("own", t, OwnAt(v2, t))
             /\ \A i \in 1 .. Len(OwnAt(v2, t)) :
                  /\ OwnAt(v2, t)[i].pid < CountAt(v2, t)
                  /\ \A z \in Slots : Q[<<z, Id(OwnAt(v2, t)[i])>>] = Nowhere
  <2>1. OwnAt(v2, t) = OwnAt(v, t) /\ CountAt(v2, t) = CountAt(v, t)
    BY Zenon DEF SameOwn
  <2>2. CountAt(v, t) \in Nat /\ NoTwice("own", t, OwnAt(v, t))
    BY Zenon DEF OwnOK
  <2>3. ASSUME NEW i \in 1 .. Len(OwnAt(v, t))
        PROVE  /\ OwnAt(v, t)[i].pid < CountAt(v, t)
               /\ \A z \in Slots : Q[<<z, Id(OwnAt(v, t)[i])>>] = Nowhere
    <3>1. /\ OwnAt(v, t)[i].pid < CountAt(v, t)
          /\ \A z \in Slots : Pl[<<z, Id(OwnAt(v, t)[i])>>] = Nowhere
      BY Zenon DEF OwnOK
    <3>2. Id(OwnAt(v, t)[i]) \in Ids
      BY Zenon DEF OwnNamed
    <3>. QED
      BY <3>1, <3>2, Zenon DEF OnlyOld
  <2>. QED
    BY <2>1, <2>2, <2>3, Zenon
<1>2. ASSUME NEW z \in Slots, NEW k \in Ids, Q[<<z, k>>] # Nowhere PROVE k[2] < CountAt(v2, k[1])
  <2>1. PICK y \in Slots : Pl[<<y, k>>] # Nowhere
    BY <1>2, Zenon DEF OnlyOld
  <2>2. k[2] < CountAt(v, k[1])
    BY <2>1, Zenon DEF OwnOK
  <2>3. k[1] \in Terminals
    BY DEF Ids
  <2>4. CountAt(v2, k[1]) = CountAt(v, k[1])
    BY <2>3, Zenon DEF SameOwn
  <2>. QED
    BY <2>2, <2>4
<1>. QED
  BY <1>1, <1>2, Zenon DEF OwnOK

-----------------------------------------------------------------------------
(* The steps of chunks and credits.                                        *)

\* a view in which the queues hold chunks
ViewOK(v) ==
  /\ \A z \in RSlots : PendAt(v, z) \in Seq(ChunkType) /\ WaitAt(v, z) \in Seq(ChunkType)
  /\ \A t \in Terminals : OwnAt(v, t) \in Seq({k \in ChunkType : k.src = t})

SamePend(v, v2) == \A z \in RSlots : PendAt(v2, z) = PendAt(v, z)
SameWait(v, v2) == \A z \in RSlots : WaitAt(v2, z) = WaitAt(v, z)
SameOcc(v, v2) == \A z \in Slots : OccAt(v2, z) = OccAt(v, z)
LEMMA IdFacts ==
  ASSUME NEW k \in ChunkType
  PROVE  Id(k) \in Ids /\ Id(k)[1] = k.src /\ Id(k)[2] = k.pid /\ Id(k)[3] = k.id
  BY DEF ChunkType, Id, Ids

LEMMA OwnIds ==
  ASSUME NEW v, ViewOK(v), NEW t \in Terminals, NEW i \in 1 .. Len(OwnAt(v, t))
  PROVE  Id(OwnAt(v, t)[i]) \in Ids /\ OwnAt(v, t)[i] \in ChunkType /\ OwnAt(v, t)[i].src = t
<1> DEFINE q == OwnAt(v, t)
<1>1. q \in Seq({k \in ChunkType : k.src = t})
  BY Zenon DEF ViewOK
<1> HIDE DEF q
<1>2. q[i] \in {k \in ChunkType : k.src = t}
  BY <1>1, ElementOfSeq DEF q
<1>3. q[i] \in ChunkType /\ q[i].src = t
  BY <1>2
<1>. QED
  BY <1>3, IdFacts DEF q

LEMMA HoldsFacts ==
  ASSUME NEW v, NEW D, NEW z
  PROVE  /\ Holds(v, D, Pends(z)) = Keys("pend", z, PendAt(v, z))
         /\ Holds(v, D, Waits(z)) = Keys("wait", z, WaitAt(v, z))
         /\ \A w : w \in Holds(v, D, On(z)) <=> z \in D /\ w = EventKey(z)
<1>1. /\ Pends(z).in = "pend" /\ Pends(z).what = z /\ Waits(z).in = "wait"
      /\ Waits(z).what = z /\ On(z).in = "event" /\ On(z).what = z
  BY PlaceFacts, Zenon
<1>2. Holds(v, D, Pends(z)) = Keys("pend", z, PendAt(v, z))
  BY <1>1, Zenon DEF Holds
<1>3. Holds(v, D, Waits(z)) = Keys("wait", z, WaitAt(v, z))
  <2>1. Waits(z).in # "pend"
    BY <1>1
  <2>. QED
    BY <1>1, <2>1, Zenon DEF Holds
<1>4. Holds(v, D, On(z)) = IF z \in D THEN {EventKey(z)} ELSE {}
  <2>1. On(z).in # "pend" /\ On(z).in # "wait"
    BY <1>1
  <2>. QED
    BY <1>1, <2>1, Zenon DEF Holds
<1>5. \A w : w \in Holds(v, D, On(z)) <=> z \in D /\ w = EventKey(z)
  BY <1>4
<1>. QED
  BY <1>2, <1>3, <1>5

\* tokens in buffers and events
LEMMA TokenFacts ==
  ASSUME NEW v, NEW D, NEW Pl, PlacesOK(v, D, Pl)
  PROVE  /\ \A e : e \in D => EventKey(e) \in Tokens /\ Pl[EventKey(e)] = On(e)
         /\ \A z \in RSlots : /\ Keys("pend", z, PendAt(v, z)) \subseteq Tokens
                              /\ Keys("wait", z, WaitAt(v, z)) \subseteq Tokens
         /\ \A z \in RSlots, x \in Tokens :
              /\ Pl[x] = Pends(z) <=> x \in Keys("pend", z, PendAt(v, z))
              /\ Pl[x] = Waits(z) <=> x \in Keys("wait", z, WaitAt(v, z))
         /\ \A e, x : x \in Tokens /\ Pl[x] = On(e) => e \in D /\ x = EventKey(e)
<1>1. ASSUME NEW e, e \in D PROVE EventKey(e) \in Tokens /\ Pl[EventKey(e)] = On(e)
  <2>1. EventKey(e) \in Holds(v, D, On(e)) /\ IsPlace(On(e))
    BY <1>1, HoldsFacts, PlaceFacts, Zenon
  <2>2. EventKey(e) \in Tokens
    BY <2>1, Zenon DEF PlacesOK
  <2>. QED
    BY <2>1, <2>2, Zenon DEF PlacesOK
<1>2. ASSUME NEW z \in RSlots
      PROVE  /\ Keys("pend", z, PendAt(v, z)) \subseteq Tokens
             /\ Keys("wait", z, WaitAt(v, z)) \subseteq Tokens
             /\ \A x \in Tokens :
                  /\ Pl[x] = Pends(z) <=> x \in Keys("pend", z, PendAt(v, z))
                  /\ Pl[x] = Waits(z) <=> x \in Keys("wait", z, WaitAt(v, z))
  <2>1. IsPlace(Pends(z)) /\ IsPlace(Waits(z))
    BY PlaceFacts, Zenon
  <2>2. /\ Holds(v, D, Pends(z)) \subseteq Tokens
        /\ \A x \in Tokens : Pl[x] = Pends(z) <=> x \in Holds(v, D, Pends(z))
    BY <2>1, Zenon DEF PlacesOK
  <2>3. /\ Holds(v, D, Waits(z)) \subseteq Tokens
        /\ \A x \in Tokens : Pl[x] = Waits(z) <=> x \in Holds(v, D, Waits(z))
    BY <2>1, Zenon DEF PlacesOK
  <2>4. /\ Holds(v, D, Pends(z)) = Keys("pend", z, PendAt(v, z))
        /\ Holds(v, D, Waits(z)) = Keys("wait", z, WaitAt(v, z))
    BY HoldsFacts
  <2>. QED
    BY <2>2, <2>3, <2>4, Zenon
<1>3. ASSUME NEW e, NEW x \in Tokens, Pl[x] = On(e) PROVE e \in D /\ x = EventKey(e)
  <2>1. IsPlace(On(e))
    BY PlaceFacts, Zenon
  <2>2. x \in Holds(v, D, On(e))
    BY <1>3, <2>1, Zenon DEF PlacesOK
  <2>. QED
    BY <2>2, HoldsFacts
<1>. QED
  BY <1>1, <1>2, <1>3, Zenon

\* how buffers and events change
PendMoved(v, v2, Pl, z1, x1, z2, x2) ==
  \A z \in RSlots : \A w :
    w \in Keys("pend", z, PendAt(v2, z)) <=>
      \/ w \in Keys("pend", z, PendAt(v, z)) /\ ~(w = z1 /\ Pends(z) = Pl[z1])
      \/ w = z1 /\ Pends(z) = x1
      \/ w = z2 /\ Pends(z) = x2
WaitMoved(v, v2, Pl, z1, x1, z2, x2) ==
  \A z \in RSlots : \A w :
    w \in Keys("wait", z, WaitAt(v2, z)) <=>
      \/ w \in Keys("wait", z, WaitAt(v, z)) /\ ~(w = z1 /\ Waits(z) = Pl[z1])
      \/ w = z1 /\ Waits(z) = x1
      \/ w = z2 /\ Waits(z) = x2

LEMMA HoldsBy ==
  ASSUME NEW v, NEW D, NEW v2, NEW D2, NEW Pl, NEW z1 \in Tokens, NEW x1, NEW z2, NEW x2,
         PlacesOK(v, D, Pl),
         PendMoved(v, v2, Pl, z1, x1, z2, x2), WaitMoved(v, v2, Pl, z1, x1, z2, x2),
         \A f : f \in D2 <=> (f \in D /\ Pl[z1] # On(f)) \/ x1 = On(f) \/ x2 = On(f),
         \A f : x1 = On(f) => EventKey(f) = z1,
         \A f : x2 = On(f) => EventKey(f) = z2
  PROVE  HoldsMoved(v, D, v2, D2, Pl, z1, x1, z2, x2)
<1> SUFFICES ASSUME NEW y, NEW w, IsPlace(y)
             PROVE  w \in Holds(v2, D2, y) <=>
               \/ w \in Holds(v, D, y) /\ ~(w = z1 /\ y = Pl[z1])
               \/ w = z1 /\ y = x1
               \/ w = z2 /\ y = x2
  BY Zenon DEF HoldsMoved
<1>1. ASSUME NEW z \in RSlots, y = Pends(z)
      PROVE  w \in Holds(v2, D2, y) <=>
               \/ w \in Holds(v, D, y) /\ ~(w = z1 /\ y = Pl[z1])
               \/ w = z1 /\ y = x1
               \/ w = z2 /\ y = x2
  <2>1. /\ Holds(v2, D2, y) = Keys("pend", z, PendAt(v2, z))
        /\ Holds(v, D, y) = Keys("pend", z, PendAt(v, z))
    BY <1>1, HoldsFacts
  <2>2. w \in Keys("pend", z, PendAt(v2, z)) <=>
          \/ w \in Keys("pend", z, PendAt(v, z)) /\ ~(w = z1 /\ Pends(z) = Pl[z1])
          \/ w = z1 /\ Pends(z) = x1
          \/ w = z2 /\ Pends(z) = x2
    BY <1>1, Zenon DEF PendMoved
  <2>. QED
    BY <1>1, <2>1, <2>2
<1>2. ASSUME NEW z \in RSlots, y = Waits(z)
      PROVE  w \in Holds(v2, D2, y) <=>
               \/ w \in Holds(v, D, y) /\ ~(w = z1 /\ y = Pl[z1])
               \/ w = z1 /\ y = x1
               \/ w = z2 /\ y = x2
  <2>1. /\ Holds(v2, D2, y) = Keys("wait", z, WaitAt(v2, z))
        /\ Holds(v, D, y) = Keys("wait", z, WaitAt(v, z))
    BY <1>2, HoldsFacts
  <2>2. w \in Keys("wait", z, WaitAt(v2, z)) <=>
          \/ w \in Keys("wait", z, WaitAt(v, z)) /\ ~(w = z1 /\ Waits(z) = Pl[z1])
          \/ w = z1 /\ Waits(z) = x1
          \/ w = z2 /\ Waits(z) = x2
    BY <1>2, Zenon DEF WaitMoved
  <2>. QED
    BY <1>2, <2>1, <2>2
<1>3. ASSUME NEW f, y = On(f)
      PROVE  w \in Holds(v2, D2, y) <=>
               \/ w \in Holds(v, D, y) /\ ~(w = z1 /\ y = Pl[z1])
               \/ w = z1 /\ y = x1
               \/ w = z2 /\ y = x2
  <2>1. /\ w \in Holds(v2, D2, y) <=> f \in D2 /\ w = EventKey(f)
        /\ w \in Holds(v, D, y) <=> f \in D /\ w = EventKey(f)
    BY <1>3, HoldsFacts
  <2>2. Pl[z1] = On(f) => z1 = EventKey(f)
    BY TokenFacts
  <2>3. f \in D2 <=> (f \in D /\ Pl[z1] # On(f)) \/ x1 = On(f) \/ x2 = On(f)
    BY Zenon
  <2>4. (x1 = On(f) => EventKey(f) = z1) /\ (x2 = On(f) => EventKey(f) = z2)
    BY Zenon
  <2>. QED
    BY <1>3, <2>1, <2>2, <2>3, <2>4
<1>. QED
  BY <1>1, <1>2, <1>3, Zenon DEF IsPlace

LEMMA StepSame ==
  ASSUME NEW v, NEW v2, NEW D, NEW Pl, CreditInv(v, D, Pl),
         SamePend(v, v2), SameWait(v, v2), SameOcc(v, v2), SameOwn(v, v2)
  PROVE  CreditInv(v2, D, Pl)
<1>1. ASSUME NEW y, IsPlace(y) PROVE Holds(v2, D, y) = Holds(v, D, y)
  <2>1. ASSUME NEW z \in RSlots, y = Pends(z) PROVE Holds(v2, D, y) = Holds(v, D, y)
    <3>1. PendAt(v2, z) = PendAt(v, z)
      BY Zenon DEF SamePend
    <3>. QED
      BY <2>1, <3>1, HoldsFacts
  <2>2. ASSUME NEW z \in RSlots, y = Waits(z) PROVE Holds(v2, D, y) = Holds(v, D, y)
    <3>1. WaitAt(v2, z) = WaitAt(v, z)
      BY Zenon DEF SameWait
    <3>. QED
      BY <2>2, <3>1, HoldsFacts
  <2>3. ASSUME NEW f, y = On(f) PROVE Holds(v2, D, y) = Holds(v, D, y)
    <3>1. y.in = "event"
      BY <2>3, PlaceFacts, Zenon
    <3>2. y.in # "pend" /\ y.in # "wait"
      BY <3>1
    <3>. QED
      BY <3>2, Zenon DEF Holds
  <2>. QED
    BY <1>1, <2>1, <2>2, <2>3, Zenon DEF IsPlace
<1>2. PlacesOK(v2, D, Pl)
  BY <1>1, Zenon DEF PlacesOK, CreditInv
<1>3. QueuesOK(v2)
  BY Zenon DEF QueuesOK, CreditInv, SamePend, SameWait
<1>4. CountsOK(v2, Pl)
  BY Zenon DEF CountsOK, CreditInv, SameOcc
<1>5. OwnOK(v2, Pl)
  <2>1. \A k \in Ids : k[1] \in Terminals
    BY DEF Ids
  <2>2. \A z \in Slots, k \in Ids : Pl[<<z, k>>] # Nowhere => k[2] < CountAt(v2, k[1])
    BY <2>1, Zenon DEF OwnOK, CreditInv, SameOwn
  <2>3. ASSUME NEW t \in Terminals
        PROVE  /\ CountAt(v2, t) \in Nat /\ NoTwice("own", t, OwnAt(v2, t))
               /\ \A i \in 1 .. Len(OwnAt(v2, t)) :
                    /\ OwnAt(v2, t)[i].pid < CountAt(v2, t)
                    /\ \A z \in Slots : Pl[<<z, Id(OwnAt(v2, t)[i])>>] = Nowhere
    <3>1. OwnAt(v2, t) = OwnAt(v, t) /\ CountAt(v2, t) = CountAt(v, t)
      BY Zenon DEF SameOwn
    <3>. QED
      BY <3>1, Zenon DEF OwnOK, CreditInv
  <2>. QED
    BY <2>2, <2>3, Zenon DEF OwnOK
<1>. QED
  BY <1>2, <1>3, <1>4, <1>5, Zenon DEF CreditInv

\* no buffer is concerned
NoPend(x) == \A z : x # Pends(z)
NoWait(x) == \A z : x # Waits(z)

LEMMA NoFacts ==
  /\ NoPend(Nowhere) /\ NoWait(Nowhere)
  /\ \A f : NoPend(On(f)) /\ NoWait(On(f))
  /\ \A z : NoPend(Waits(z)) /\ NoWait(Pends(z))
  /\ \A f : On(f) # Nowhere
<1>1. /\ \A x, y : Pends(x) # Waits(y) /\ Pends(x) # On(y) /\ Waits(x) # On(y)
      /\ \A x : Pends(x) # Nowhere /\ Waits(x) # Nowhere /\ On(x) # Nowhere
  BY PlaceFacts
<1>2. NoPend(Nowhere) /\ NoWait(Nowhere)
  BY <1>1, Zenon DEF NoPend, NoWait
<1>3. \A f : NoPend(On(f)) /\ NoWait(On(f))
  BY <1>1, Zenon DEF NoPend, NoWait
<1>4. \A z : NoPend(Waits(z)) /\ NoWait(Pends(z))
  BY <1>1, Zenon DEF NoPend, NoWait
<1>. QED
  BY <1>1, <1>2, <1>3, <1>4, Zenon

LEMMA PendNone ==
  ASSUME NEW v, NEW v2, NEW Pl, NEW z1, NEW x1, NEW z2, NEW x2,
         SamePend(v, v2), NoPend(Pl[z1]), NoPend(x1), NoPend(x2)
  PROVE  PendMoved(v, v2, Pl, z1, x1, z2, x2)
<1> SUFFICES ASSUME NEW z \in RSlots, NEW w
             PROVE  w \in Keys("pend", z, PendAt(v2, z)) <=>
                      \/ w \in Keys("pend", z, PendAt(v, z)) /\ ~(w = z1 /\ Pends(z) = Pl[z1])
                      \/ w = z1 /\ Pends(z) = x1
                      \/ w = z2 /\ Pends(z) = x2
  BY Zenon DEF PendMoved
<1>1. PendAt(v2, z) = PendAt(v, z) /\ Pends(z) # Pl[z1] /\ Pends(z) # x1 /\ Pends(z) # x2
  BY Zenon DEF SamePend, NoPend
<1>. QED
  BY <1>1, Zenon

LEMMA WaitNone ==
  ASSUME NEW v, NEW v2, NEW Pl, NEW z1, NEW x1, NEW z2, NEW x2,
         SameWait(v, v2), NoWait(Pl[z1]), NoWait(x1), NoWait(x2)
  PROVE  WaitMoved(v, v2, Pl, z1, x1, z2, x2)
<1> SUFFICES ASSUME NEW z \in RSlots, NEW w
             PROVE  w \in Keys("wait", z, WaitAt(v2, z)) <=>
                      \/ w \in Keys("wait", z, WaitAt(v, z)) /\ ~(w = z1 /\ Waits(z) = Pl[z1])
                      \/ w = z1 /\ Waits(z) = x1
                      \/ w = z2 /\ Waits(z) = x2
  BY Zenon DEF WaitMoved
<1>1. WaitAt(v2, z) = WaitAt(v, z) /\ Waits(z) # Pl[z1] /\ Waits(z) # x1 /\ Waits(z) # x2
  BY Zenon DEF SameWait, NoWait
<1>. QED
  BY <1>1, Zenon

\* only one buffer, queue or count changes
OnlyPend(v, v2, d, q) == \A z \in RSlots : PendAt(v2, z) = IF z = d THEN q ELSE PendAt(v, z)
OnlyWait(v, v2, d, q) == \A z \in RSlots : WaitAt(v2, z) = IF z = d THEN q ELSE WaitAt(v, z)
OnlyOcc(v, v2, d, n) == \A z \in Slots : OccAt(v2, z) = IF z = d THEN n ELSE OccAt(v, z)

LEMMA PendAdded ==
  ASSUME NEW v, NEW v2, NEW Pl, NEW z1, NEW x1, NEW d \in RSlots, NEW k \in ChunkType,
         PendAt(v, d) \in Seq(ChunkType),
         OnlyPend(v, v2, d, Append(PendAt(v, d), k)), NoPend(Pl[z1]), NoPend(x1)
  PROVE  PendMoved(v, v2, Pl, z1, x1, <<d, Id(k)>>, Pends(d))
<1> DEFINE z2 == <<d, Id(k)>>
<1> SUFFICES ASSUME NEW z \in RSlots, NEW w
             PROVE  w \in Keys("pend", z, PendAt(v2, z)) <=>
                      \/ w \in Keys("pend", z, PendAt(v, z)) /\ ~(w = z1 /\ Pends(z) = Pl[z1])
                      \/ w = z1 /\ Pends(z) = x1
                      \/ w = z2 /\ Pends(z) = Pends(d)
  BY Zenon DEF PendMoved
<1>1. Pends(z) # Pl[z1] /\ Pends(z) # x1 /\ (Pends(z) = Pends(d) <=> z = d)
  <2>1. Pends(z) = Pends(d) => z = d
    BY PlaceFacts
  <2>. QED
    BY <2>1, Zenon DEF NoPend
<1>2. CASE z # d
  <2>1. PendAt(v2, z) = PendAt(v, z)
    BY <1>2, Zenon DEF OnlyPend
  <2>. QED
    BY <1>1, <1>2, <2>1, Zenon
<1>3. CASE z = d
  <2>1. PendAt(v2, z) = Append(PendAt(v, d), k)
    BY <1>3, Zenon DEF OnlyPend
  <2>2. KeyOf("pend", d, k) = z2
    BY DEF KeyOf
  <2>3. Keys("pend", d, Append(PendAt(v, d), k)) = Keys("pend", d, PendAt(v, d)) \cup {z2}
    BY <2>2, KeysAppend
  <2>. QED
    BY <1>1, <1>3, <2>1, <2>3, Zenon
<1>. QED
  BY <1>2, <1>3

LEMMA WaitAdded ==
  ASSUME NEW v, NEW v2, NEW Pl, NEW z1, NEW d \in RSlots, NEW k \in ChunkType,
         WaitAt(v, d) \in Seq(ChunkType), z1 = KeyOf("wait", d, k),
         OnlyWait(v, v2, d, Append(WaitAt(v, d), k)), NoWait(Pl[z1])
  PROVE  WaitMoved(v, v2, Pl, z1, Waits(d), z1, Waits(d))
<1> SUFFICES ASSUME NEW z \in RSlots, NEW w
             PROVE  w \in Keys("wait", z, WaitAt(v2, z)) <=>
                      \/ w \in Keys("wait", z, WaitAt(v, z)) /\ ~(w = z1 /\ Waits(z) = Pl[z1])
                      \/ w = z1 /\ Waits(z) = Waits(d)
                      \/ w = z1 /\ Waits(z) = Waits(d)
  BY Zenon DEF WaitMoved
<1>1. Waits(z) # Pl[z1] /\ (Waits(z) = Waits(d) <=> z = d)
  <2>1. Waits(z) = Waits(d) => z = d
    BY PlaceFacts
  <2>. QED
    BY <2>1, Zenon DEF NoWait
<1>2. CASE z # d
  <2>1. WaitAt(v2, z) = WaitAt(v, z)
    BY <1>2, Zenon DEF OnlyWait
  <2>. QED
    BY <1>1, <1>2, <2>1, Zenon
<1>3. CASE z = d
  <2>1. WaitAt(v2, z) = Append(WaitAt(v, d), k)
    BY <1>3, Zenon DEF OnlyWait
  <2>3. Keys("wait", d, Append(WaitAt(v, d), k)) = Keys("wait", d, WaitAt(v, d)) \cup {z1}
    BY KeysAppend
  <2>. QED
    BY <1>1, <1>3, <2>1, <2>3, Zenon
<1>. QED
  BY <1>2, <1>3

LEMMA PendTaken ==
  ASSUME NEW v, NEW v2, NEW Pl, NEW z1, NEW x1, NEW d \in RSlots,
         PendAt(v, d) \in Seq(ChunkType), PendAt(v, d) # << >>, NoTwice("pend", d, PendAt(v, d)),
         z1 = KeyOf("pend", d, Head(PendAt(v, d))), Pl[z1] = Pends(d), NoPend(x1),
         OnlyPend(v, v2, d, Tail(PendAt(v, d)))
  PROVE  PendMoved(v, v2, Pl, z1, x1, z1, x1)
<1> SUFFICES ASSUME NEW z \in RSlots, NEW w
             PROVE  w \in Keys("pend", z, PendAt(v2, z)) <=>
                      \/ w \in Keys("pend", z, PendAt(v, z)) /\ ~(w = z1 /\ Pends(z) = Pl[z1])
                      \/ w = z1 /\ Pends(z) = x1
                      \/ w = z1 /\ Pends(z) = x1
  BY Zenon DEF PendMoved
<1>1. Pends(z) # x1 /\ (Pends(z) = Pends(d) <=> z = d)
  <2>1. Pends(z) = Pends(d) => z = d
    BY PlaceFacts
  <2>. QED
    BY <2>1, Zenon DEF NoPend
<1>2. CASE z # d
  <2>1. PendAt(v2, z) = PendAt(v, z)
    BY <1>2, Zenon DEF OnlyPend
  <2>. QED
    BY <1>1, <1>2, <2>1, Zenon
<1>3. CASE z = d
  <2>1. PendAt(v2, z) = Tail(PendAt(v, d))
    BY <1>3, Zenon DEF OnlyPend
  <2>3. Keys("pend", d, Tail(PendAt(v, d))) = Keys("pend", d, PendAt(v, d)) \ {z1}
    BY KeysTail
  <2>. QED
    BY <1>1, <1>3, <2>1, <2>3, Zenon
<1>. QED
  BY <1>2, <1>3

LEMMA WaitTaken ==
  ASSUME NEW v, NEW v2, NEW Pl, NEW z1, NEW x1, NEW z2, NEW x2, NEW d \in RSlots,
         WaitAt(v, d) \in Seq(ChunkType), WaitAt(v, d) # << >>, NoTwice("wait", d, WaitAt(v, d)),
         z1 = KeyOf("wait", d, Head(WaitAt(v, d))), Pl[z1] = Waits(d), NoWait(x1), NoWait(x2),
         OnlyWait(v, v2, d, Tail(WaitAt(v, d)))
  PROVE  WaitMoved(v, v2, Pl, z1, x1, z2, x2)
<1> SUFFICES ASSUME NEW z \in RSlots, NEW w
             PROVE  w \in Keys("wait", z, WaitAt(v2, z)) <=>
                      \/ w \in Keys("wait", z, WaitAt(v, z)) /\ ~(w = z1 /\ Waits(z) = Pl[z1])
                      \/ w = z1 /\ Waits(z) = x1
                      \/ w = z2 /\ Waits(z) = x2
  BY Zenon DEF WaitMoved
<1>1. Waits(z) # x1 /\ Waits(z) # x2 /\ (Waits(z) = Waits(d) <=> z = d)
  <2>1. Waits(z) = Waits(d) => z = d
    BY PlaceFacts
  <2>. QED
    BY <2>1, Zenon DEF NoWait
<1>2. CASE z # d
  <2>1. WaitAt(v2, z) = WaitAt(v, z)
    BY <1>2, Zenon DEF OnlyWait
  <2>. QED
    BY <1>1, <1>2, <2>1, Zenon
<1>3. CASE z = d
  <2>1. WaitAt(v2, z) = Tail(WaitAt(v, d))
    BY <1>3, Zenon DEF OnlyWait
  <2>3. Keys("wait", d, Tail(WaitAt(v, d))) = Keys("wait", d, WaitAt(v, d)) \ {z1}
    BY KeysTail
  <2>. QED
    BY <1>1, <1>3, <2>1, <2>3, Zenon
<1>. QED
  BY <1>2, <1>3

LEMMA TokenParts ==
  ASSUME NEW z \in Tokens
  PROVE  z = <<z[1], z[2]>> /\ z[1] \in Slots /\ z[2] \in Ids
  BY DEF Tokens

LEMMA MovedAt ==
  ASSUME NEW Pl, NEW z1 \in Tokens, NEW x1, NEW z2 \in Tokens, NEW x2
  PROVE  /\ Moved(Pl, z1, x1, z2, x2)[z1] = x1
         /\ z2 # z1 => Moved(Pl, z1, x1, z2, x2)[z2] = x2
         /\ \A z \in Tokens : z # z1 /\ z # z2 => Moved(Pl, z1, x1, z2, x2)[z] = Pl[z]
  BY Zenon DEF Moved

\* a place given up for another changes no owner
LEMMA OwnMoved ==
  ASSUME NEW v, NEW v2, NEW Pl, NEW z1 \in Tokens, NEW x1, NEW z2 \in Tokens, NEW x2,
         ViewOK(v), OwnOK(v, Pl), SameOwn(v, v2), Pl[z1] # Nowhere, z2[2] = z1[2]
  PROVE  OwnOK(v2, Moved(Pl, z1, x1, z2, x2))
<1> DEFINE Q == Moved(Pl, z1, x1, z2, x2)
<1>1. \A z \in Tokens : z # z1 /\ z # z2 => Q[z] = Pl[z]
  BY MovedAt
<1> HIDE DEF Q
<1>2. z1 = <<z1[1], z1[2]>> /\ z1[1] \in Slots /\ z1[2] \in Ids
  BY TokenParts
<1>3. ASSUME NEW z \in Slots, NEW k \in Ids, Q[<<z, k>>] # Nowhere
      PROVE  \E y \in Slots : Pl[<<y, k>>] # Nowhere
  <2>1. <<z, k>> \in Tokens
    BY TokenPair
  <2>2. CASE k = z1[2]
    BY <1>2, <2>2, Zenon
  <2>3. CASE k # z1[2]
    <3>1. <<z, k>> # z1 /\ <<z, k>> # z2
      BY <2>3, <2>1, TokenParts
    <3>. QED
      BY <1>1, <1>3, <2>1, <3>1, Zenon
  <2>. QED
    BY <2>2, <2>3
<1>4. OwnNamed(v)
  BY OwnIds DEF OwnNamed
<1>5. OnlyOld(Pl, Q)
  BY <1>3, Zenon DEF OnlyOld
<1>6. OwnOK(v2, Q)
  BY <1>4, <1>5, OwnSame
<1>. QED
  BY <1>6 DEF Q

\* an event that stands for a token is followed by another
LEMMA StepEvent ==
  ASSUME NEW v, NEW v2, NEW D, NEW Pl, ViewOK(v), CreditInv(v, D, Pl), NEW e \in D, NEW g,
         g # e, EventKey(g) = EventKey(e), g.type \in ArriveTypes => e.type \in ArriveTypes,
         SamePend(v, v2), SameWait(v, v2), SameOcc(v, v2), SameOwn(v, v2)
  PROVE  g \notin D /\ \E Q : CreditInv(v2, (D \ {e}) \cup {g}, Q)
<1> DEFINE z1 == EventKey(e)
           Q == Moved(Pl, z1, On(g), z1, On(g))
           D2 == (D \ {e}) \cup {g}
<1>1. /\ PlaceType(Pl) /\ PlacesOK(v, D, Pl) /\ QueuesOK(v) /\ CountsOK(v, Pl)
      /\ RanksOK(Pl) /\ OwnOK(v, Pl)
  BY Zenon DEF CreditInv
<1>2. z1 \in Tokens /\ Pl[z1] = On(e)
  BY <1>1, TokenFacts
<1>3. g \notin D
  <2> SUFFICES ASSUME g \in D PROVE FALSE
    OBVIOUS
  <2>1. Pl[EventKey(g)] = On(g)
    BY <1>1, TokenFacts
  <2>2. On(g) = On(e)
    BY <1>2, <2>1, Zenon
  <2>. QED
    BY <2>2, PlaceFacts
<1> HIDE DEF z1
<1>4. PendMoved(v, v2, Pl, z1, On(g), z1, On(g)) /\ WaitMoved(v, v2, Pl, z1, On(g), z1, On(g))
  BY <1>2, NoFacts, PendNone, WaitNone, Zenon
<1>5. \A f, h : On(f) = On(h) => f = h
  BY PlaceFacts
<1>6. \A f : f \in D2 <=> (f \in D /\ Pl[z1] # On(f)) \/ On(g) = On(f) \/ On(g) = On(f)
  BY <1>2, <1>5, Zenon
<1>7. \A f : On(g) = On(f) => EventKey(f) = z1
  BY <1>5, Zenon DEF z1
<1> HIDE DEF D2
<1>8. HoldsMoved(v, D, v2, D2, Pl, z1, On(g), z1, On(g))
  BY <1>1, <1>2, <1>4, <1>6, <1>7, HoldsBy
<1>9. IsPlace(On(g)) /\ On(g) # Nowhere /\ Pl[z1] # Nowhere /\ (Live(On(g)) => Live(On(e)))
  <2>1. IsPlace(On(g)) /\ On(g) # Nowhere /\ On(e) # Nowhere
    BY PlaceFacts, Zenon
  <2>2. (Live(On(g)) <=> g.type \in ArriveTypes) /\ (Live(On(e)) <=> e.type \in ArriveTypes)
    BY PlaceFacts, Zenon
  <2>. QED
    BY <1>2, <2>1, <2>2, Zenon
<1>10. PlaceType(Q) /\ PlacesOK(v2, D2, Q)
  BY <1>1, <1>2, <1>8, <1>9, PlacesMoved
<1>11. Q[z1] = On(g) /\ \A z \in Tokens : z # z1 => Q[z] = Pl[z]
  BY <1>2, MovedAt
<1>12. OwnOK(v2, Q)
  BY <1>1, <1>2, <1>9, OwnMoved
<1> HIDE DEF Q
<1>13. QueuesOK(v2)
  BY <1>1, Zenon DEF QueuesOK, SamePend, SameWait
<1>14. CountsOK(v2, Q)
  <2>1. SameUse(Pl, Q)
    BY <1>9, <1>11, Zenon DEF SameUse
  <2>2. \A z \in Slots : OccAt(v2, z) = OccAt(v, z)
    BY Zenon DEF SameOcc
  <2>. QED
    BY <1>1, <2>1, <2>2, CountsSame
<1>15. RanksOK(Q)
  <2>1. \A z \in Tokens : (Q[z] # Nowhere => Pl[z] # Nowhere) /\ (Live(Q[z]) => Live(Pl[z]))
    BY <1>2, <1>9, <1>11, Zenon
  <2>. QED
    BY <1>1, <2>1, RanksFewer
<1>. QED
  BY <1>3, <1>10, <1>12, <1>13, <1>14, <1>15, Zenon DEF CreditInv, D2

\* a credit arrives
LEMMA StepFree ==
  ASSUME NEW v, NEW v2, NEW D, NEW Pl, ViewOK(v), CreditInv(v, D, Pl), NEW e \in D, NEW d,
         d = EventKey(e)[1],
         SamePend(v, v2), SameWait(v, v2), OnlyOcc(v, v2, d, OccAt(v, d) - ChunkSize), SameOwn(v, v2)
  PROVE  \E Q : CreditInv(v2, D \ {e}, Q)
<1> DEFINE z1 == EventKey(e)
           Q == Moved(Pl, z1, Nowhere, z1, Nowhere)
           D2 == D \ {e}
<1>1. /\ PlaceType(Pl) /\ PlacesOK(v, D, Pl) /\ QueuesOK(v) /\ CountsOK(v, Pl)
      /\ RanksOK(Pl) /\ OwnOK(v, Pl)
  BY Zenon DEF CreditInv
<1>2. z1 \in Tokens /\ Pl[z1] = On(e)
  BY <1>1, TokenFacts
<1>3. d = z1[1]
  OBVIOUS
<1> HIDE DEF z1
<1>4. PendMoved(v, v2, Pl, z1, Nowhere, z1, Nowhere) /\ WaitMoved(v, v2, Pl, z1, Nowhere, z1, Nowhere)
  BY <1>2, NoFacts, PendNone, WaitNone, Zenon
<1>5. (\A f, h : On(f) = On(h) => f = h) /\ (\A f : On(f) # Nowhere)
  BY PlaceFacts
<1>6. \A f : f \in D2 <=> (f \in D /\ Pl[z1] # On(f)) \/ Nowhere = On(f) \/ Nowhere = On(f)
  BY <1>2, <1>5, Zenon
<1> HIDE DEF D2
<1>8. HoldsMoved(v, D, v2, D2, Pl, z1, Nowhere, z1, Nowhere)
  BY <1>1, <1>2, <1>4, <1>5, <1>6, HoldsBy
<1>10. PlaceType(Q) /\ PlacesOK(v2, D2, Q)
  BY <1>1, <1>2, <1>8, PlacesMoved
<1>11. Q[z1] = Nowhere /\ \A z \in Tokens : z # z1 => Q[z] = Pl[z]
  BY <1>2, MovedAt
<1>12. OwnOK(v2, Q)
  BY <1>1, <1>2, <1>5, OwnMoved
<1> HIDE DEF Q
<1>13. QueuesOK(v2)
  BY <1>1, Zenon DEF QueuesOK, SamePend, SameWait
<1>14. CountsOK(v2, Q)
  <2> DEFINE k == z1[2]
  <2>1. z1 = <<d, k>> /\ d \in Slots /\ k \in Ids
    BY <1>2, <1>3, TokenParts
  <2> HIDE DEF k
  <2>2. Pl[<<d, k>>] # Nowhere /\ Q[<<d, k>>] = Nowhere
    BY <1>2, <1>5, <1>11, <2>1, Zenon
  <2>3. \A z \in Tokens : z # <<d, k>> => (Q[z] = Nowhere <=> Pl[z] = Nowhere)
    BY <1>11, <2>1, Zenon
  <2>4. \A z \in Slots : OccAt(v2, z) = IF z = d THEN OccAt(v, d) - ChunkSize ELSE OccAt(v, z)
    BY Zenon DEF OnlyOcc
  <2>. QED
    BY <1>1, <2>1, <2>2, <2>3, <2>4, CountsLess
<1>15. RanksOK(Q)
  <2>1. \A z \in Tokens : (Q[z] # Nowhere => Pl[z] # Nowhere) /\ (Live(Q[z]) => Live(Pl[z]))
    <3>1. ~Live(Nowhere)
      BY PlaceFacts
    <3>. QED
      BY <1>11, <3>1, Zenon
  <2>. QED
    BY <1>1, <2>1, RanksFewer
<1>. QED
  BY <1>10, <1>12, <1>13, <1>14, <1>15, Zenon DEF CreditInv, D2

\* an arriving chunk has to wait
LEMMA StepWait ==
  ASSUME NEW v, NEW v2, NEW D, NEW Pl, ViewOK(v), CreditInv(v, D, Pl), NEW e \in D,
         e.type \in ArriveTypes, NEW d \in RSlots, NEW k \in ChunkType,
         KeyOf("wait", d, k) = EventKey(e),
         SamePend(v, v2), OnlyWait(v, v2, d, Append(WaitAt(v, d), k)), SameOcc(v, v2), SameOwn(v, v2)
  PROVE  \E Q : CreditInv(v2, D \ {e}, Q)
<1> DEFINE z1 == EventKey(e)
           Q == Moved(Pl, z1, Waits(d), z1, Waits(d))
           D2 == D \ {e}
<1>1. /\ PlaceType(Pl) /\ PlacesOK(v, D, Pl) /\ QueuesOK(v) /\ CountsOK(v, Pl)
      /\ RanksOK(Pl) /\ OwnOK(v, Pl)
  BY Zenon DEF CreditInv
<1>2. z1 \in Tokens /\ Pl[z1] = On(e)
  BY <1>1, TokenFacts
<1>3. z1 = KeyOf("wait", d, k)
  OBVIOUS
<1> HIDE DEF z1
<1>4. WaitAt(v, d) \in Seq(ChunkType)
  BY Zenon DEF ViewOK
<1>5. PendMoved(v, v2, Pl, z1, Waits(d), z1, Waits(d)) /\ WaitMoved(v, v2, Pl, z1, Waits(d), z1, Waits(d))
  <2>1. NoPend(Pl[z1]) /\ NoWait(Pl[z1]) /\ NoPend(Waits(d))
    BY <1>2, NoFacts, Zenon
  <2>. QED
    BY <1>3, <1>4, <2>1, PendNone, WaitAdded
<1>6. /\ \A f, h : On(f) = On(h) => f = h
      /\ \A f : On(f) # Nowhere /\ Waits(d) # On(f)
      /\ Waits(d) # Nowhere /\ IsPlace(Waits(d)) /\ Live(On(e))
  BY PlaceFacts
<1>7. \A f : f \in D2 <=> (f \in D /\ Pl[z1] # On(f)) \/ Waits(d) = On(f) \/ Waits(d) = On(f)
  BY <1>2, <1>6, Zenon
<1> HIDE DEF D2
<1>8. HoldsMoved(v, D, v2, D2, Pl, z1, Waits(d), z1, Waits(d))
  BY <1>1, <1>2, <1>5, <1>6, <1>7, HoldsBy
<1>10. PlaceType(Q) /\ PlacesOK(v2, D2, Q)
  BY <1>1, <1>2, <1>6, <1>8, PlacesMoved
<1>11. Q[z1] = Waits(d) /\ \A z \in Tokens : z # z1 => Q[z] = Pl[z]
  BY <1>2, MovedAt
<1>12. OwnOK(v2, Q)
  BY <1>1, <1>2, <1>6, OwnMoved
<1> HIDE DEF Q
<1>13. QueuesOK(v2)
  <2> SUFFICES ASSUME NEW z \in RSlots
               PROVE  NoTwice("pend", z, PendAt(v2, z)) /\ NoTwice("wait", z, WaitAt(v2, z))
    BY Zenon DEF QueuesOK
  <2>1. NoTwice("pend", z, PendAt(v, z)) /\ NoTwice("wait", z, WaitAt(v, z))
    BY <1>1, Zenon DEF QueuesOK
  <2>2. PendAt(v2, z) = PendAt(v, z) /\ WaitAt(v2, z) = IF z = d THEN Append(WaitAt(v, d), k) ELSE WaitAt(v, z)
    BY Zenon DEF SamePend, OnlyWait
  <2>3. z1 \notin Keys("wait", d, WaitAt(v, d))
    <3>1. Pl[z1] # Waits(d)
      BY <1>2, <1>6, Zenon
    <3>. QED
      BY <1>1, <1>2, <3>1, TokenFacts
  <2>4. CASE z = d
    BY <1>3, <1>4, <2>1, <2>2, <2>3, <2>4, KeysAppend
  <2>. QED
    BY <2>1, <2>2, <2>4, Zenon
<1>14. CountsOK(v2, Q)
  <2>1. SameUse(Pl, Q)
    BY <1>2, <1>6, <1>11, Zenon DEF SameUse
  <2>2. \A z \in Slots : OccAt(v2, z) = OccAt(v, z)
    BY Zenon DEF SameOcc
  <2>. QED
    BY <1>1, <2>1, <2>2, CountsSame
<1>15. RanksOK(Q)
  <2>1. \A z \in Tokens : (Q[z] # Nowhere => Pl[z] # Nowhere) /\ (Live(Q[z]) => Live(Pl[z]))
    BY <1>2, <1>6, <1>11, Zenon
  <2>. QED
    BY <1>1, <2>1, RanksFewer
<1>. QED
  BY <1>10, <1>12, <1>13, <1>14, <1>15, Zenon DEF CreditInv, D2

\* the chunk at the head of a buffer leaves
LEMMA StepLeave ==
  ASSUME NEW v, NEW v2, NEW D, NEW Pl, ViewOK(v), CreditInv(v, D, Pl), NEW d \in RSlots, NEW g,
         PendAt(v, d) # << >>, EventKey(g) = <<d, Id(Head(PendAt(v, d)))>>,
         OnlyPend(v, v2, d, Tail(PendAt(v, d))), SameWait(v, v2), SameOcc(v, v2), SameOwn(v, v2)
  PROVE  g \notin D /\ \E Q : CreditInv(v2, D \cup {g}, Q)
<1> DEFINE z1 == EventKey(g)
           Q == Moved(Pl, z1, On(g), z1, On(g))
           D2 == D \cup {g}
           q == PendAt(v, d)
<1>1. /\ PlaceType(Pl) /\ PlacesOK(v, D, Pl) /\ QueuesOK(v) /\ CountsOK(v, Pl)
      /\ RanksOK(Pl) /\ OwnOK(v, Pl)
  BY Zenon DEF CreditInv
<1>2. q \in Seq(ChunkType) /\ NoTwice("pend", d, q)
  BY <1>1, Zenon DEF ViewOK, QueuesOK
<1>3. z1 = KeyOf("pend", d, Head(q))
  BY DEF KeyOf
<1>4. z1 \in Keys("pend", d, q)
  <2>1. KeyOf("pend", d, Head(q)) \in Keys("pend", d, q)
    <3> HIDE DEF q
    <3>1. q # << >>
      BY DEF q
    <3>. QED
      BY <1>2, <3>1, KeysTail
  <2>. QED
    BY <1>3, <2>1, Zenon
<1>5. z1 \in Tokens /\ Pl[z1] = Pends(d)
  BY <1>1, <1>4, TokenFacts
<1>6. /\ \A f, h : On(f) = On(h) => f = h
      /\ \A f : On(f) # Nowhere /\ Pends(d) # On(f)
      /\ Pends(d) # Nowhere /\ IsPlace(On(g)) /\ Live(Pends(d))
  BY PlaceFacts
<1>7. g \notin D
  <2> SUFFICES ASSUME g \in D PROVE FALSE
    OBVIOUS
  <2>1. Pl[EventKey(g)] = On(g)
    BY <1>1, TokenFacts
  <2>. QED
    BY <1>5, <1>6, <2>1, Zenon
<1> HIDE DEF z1
<1>8. PendMoved(v, v2, Pl, z1, On(g), z1, On(g)) /\ WaitMoved(v, v2, Pl, z1, On(g), z1, On(g))
  <2>1. NoPend(On(g)) /\ NoWait(On(g)) /\ NoWait(Pl[z1])
    BY <1>5, NoFacts, Zenon
  <2>. QED
    BY <1>2, <1>3, <1>5, <2>1, PendTaken, WaitNone
<1>9. \A f : f \in D2 <=> (f \in D /\ Pl[z1] # On(f)) \/ On(g) = On(f) \/ On(g) = On(f)
  BY <1>5, <1>6, Zenon
<1>10. \A f : On(g) = On(f) => EventKey(f) = z1
  BY <1>6, Zenon DEF z1
<1> HIDE DEF D2
<1>11. HoldsMoved(v, D, v2, D2, Pl, z1, On(g), z1, On(g))
  BY <1>1, <1>5, <1>8, <1>9, <1>10, HoldsBy
<1>12. PlaceType(Q) /\ PlacesOK(v2, D2, Q)
  BY <1>1, <1>5, <1>6, <1>11, PlacesMoved
<1>13. Q[z1] = On(g) /\ \A z \in Tokens : z # z1 => Q[z] = Pl[z]
  BY <1>5, MovedAt
<1>14. OwnOK(v2, Q)
  BY <1>1, <1>5, <1>6, OwnMoved
<1> HIDE DEF Q
<1>15. QueuesOK(v2)
  <2> SUFFICES ASSUME NEW z \in RSlots
               PROVE  NoTwice("pend", z, PendAt(v2, z)) /\ NoTwice("wait", z, WaitAt(v2, z))
    BY Zenon DEF QueuesOK
  <2>1. NoTwice("pend", z, PendAt(v, z)) /\ NoTwice("wait", z, WaitAt(v, z))
    BY <1>1, Zenon DEF QueuesOK
  <2>2. WaitAt(v2, z) = WaitAt(v, z) /\ PendAt(v2, z) = IF z = d THEN Tail(q) ELSE PendAt(v, z)
    BY Zenon DEF SameWait, OnlyPend
  <2>3. NoTwice("pend", d, Tail(q))
    BY <1>2, KeysTail
  <2>. QED
    BY <2>1, <2>2, <2>3, Zenon
<1>16. CountsOK(v2, Q)
  <2>1. SameUse(Pl, Q)
    BY <1>5, <1>6, <1>13, Zenon DEF SameUse
  <2>2. \A z \in Slots : OccAt(v2, z) = OccAt(v, z)
    BY Zenon DEF SameOcc
  <2>. QED
    BY <1>1, <2>1, <2>2, CountsSame
<1>17. RanksOK(Q)
  <2>1. \A z \in Tokens : (Q[z] # Nowhere => Pl[z] # Nowhere) /\ (Live(Q[z]) => Live(Pl[z]))
    BY <1>5, <1>6, <1>13, Zenon
  <2>. QED
    BY <1>1, <2>1, RanksFewer
<1>. QED
  BY <1>7, <1>12, <1>14, <1>15, <1>16, <1>17, Zenon DEF CreditInv, D2

\* an arriving chunk takes a place, and the credit for the one it had goes back
LEMMA StepEnter ==
  ASSUME NEW v, NEW v2, NEW D, NEW Pl, ViewOK(v), CreditInv(v, D, Pl), NEW e \in D,
         e.type \in ArriveTypes, NEW g, g.type \notin ArriveTypes, EventKey(g) = EventKey(e),
         NEW d \in RSlots, NEW k \in ChunkType, Id(k) = EventKey(e)[2],
         SlotRank(EventKey(e)[1]) < SlotRank(d),
         OnlyPend(v, v2, d, Append(PendAt(v, d), k)), SameWait(v, v2),
         OnlyOcc(v, v2, d, OccAt(v, d) + ChunkSize), SameOwn(v, v2)
  PROVE  g \notin D /\ \E Q : CreditInv(v2, (D \ {e}) \cup {g}, Q)
<1> DEFINE z1 == EventKey(e)
           i == Id(k)
           z2 == <<d, i>>
           Q == Moved(Pl, z1, On(g), z2, Pends(d))
           D2 == (D \ {e}) \cup {g}
<1>1. /\ PlaceType(Pl) /\ PlacesOK(v, D, Pl) /\ QueuesOK(v) /\ CountsOK(v, Pl)
      /\ RanksOK(Pl) /\ OwnOK(v, Pl)
  BY Zenon DEF CreditInv
<1>2. z1 \in Tokens /\ Pl[z1] = On(e)
  BY <1>1, TokenFacts
<1>3. z1 = <<z1[1], i>> /\ z1[1] \in Slots /\ i \in Ids /\ SlotRank(z1[1]) < SlotRank(d)
      /\ z1[2] = i
  BY <1>2, TokenParts
<1>4. /\ \A f, h : On(f) = On(h) => f = h
      /\ \A f : On(f) # Nowhere /\ Pends(d) # On(f)
      /\ Pends(d) # Nowhere /\ IsPlace(On(g)) /\ IsPlace(Pends(d)) /\ Live(On(e)) /\ ~Live(On(g))
  BY PlaceFacts
<1>5. g \notin D
  <2> SUFFICES ASSUME g \in D PROVE FALSE
    OBVIOUS
  <2>1. Pl[EventKey(g)] = On(g)
    BY <1>1, TokenFacts
  <2>2. On(g) = On(e)
    BY <1>2, <2>1, Zenon
  <2>. QED
    BY <1>4, <2>2, Zenon
<1>6. \A f : On(g) = On(f) => EventKey(f) = z1
  BY <1>4, Zenon
<1> HIDE DEF z1, i
<1>7. d \in Slots /\ z2 \in Tokens /\ z2[1] = d /\ z2[2] = i
  <2>1. d \in Slots
    BY SlotFacts, Zenon
  <2>. QED
    BY <1>3, <2>1, TokenPair
<1>8. /\ z1 # z2 /\ Pl[z2] = Nowhere
      /\ \A R : (\A z \in Tokens : z # z1 /\ z # z2 => R[z] = Pl[z]) /\ ~Live(R[z1]) => RanksOK(R)
  <2> DEFINE s == z1[1]
  <2>1. z1 = <<s, i>> /\ s \in Slots /\ SlotRank(s) < SlotRank(d) /\ Live(Pl[<<s, i>>])
    BY <1>2, <1>3, <1>4, Zenon
  <2> HIDE DEF s
  <2>2. /\ <<s, i>> # <<d, i>> /\ Pl[<<d, i>>] = Nowhere
        /\ \A R : /\ \A z \in Tokens : z # <<s, i>> /\ z # <<d, i>> => R[z] = Pl[z]
                  /\ ~Live(R[<<s, i>>])
                  => RanksOK(R)
    BY <1>1, <1>3, <1>7, <2>1, RanksPassed
  <2>. QED
    BY <2>1, <2>2, Zenon
<1>9. PendAt(v, d) \in Seq(ChunkType)
  BY Zenon DEF ViewOK
<1>10. PendMoved(v, v2, Pl, z1, On(g), z2, Pends(d)) /\ WaitMoved(v, v2, Pl, z1, On(g), z2, Pends(d))
  <2>1. NoPend(On(g)) /\ NoWait(On(g)) /\ NoWait(Pl[z1]) /\ NoPend(Pl[z1]) /\ NoWait(Pends(d))
    BY <1>2, NoFacts, Zenon
  <2>2. PendMoved(v, v2, Pl, z1, On(g), z2, Pends(d))
    BY <1>9, <2>1, PendAdded DEF i
  <2>. QED
    BY <2>1, <2>2, WaitNone
<1>11. \A f : f \in D2 <=> (f \in D /\ Pl[z1] # On(f)) \/ On(g) = On(f) \/ Pends(d) = On(f)
  BY <1>2, <1>4, Zenon
<1> HIDE DEF z2, D2
<1>12. HoldsMoved(v, D, v2, D2, Pl, z1, On(g), z2, Pends(d))
  BY <1>1, <1>2, <1>4, <1>6, <1>10, <1>11, HoldsBy
<1>13. PlaceType(Q) /\ PlacesOK(v2, D2, Q)
  BY <1>1, <1>2, <1>4, <1>7, <1>8, <1>12, PlacesMoved
<1>14. Q[z1] = On(g) /\ Q[z2] = Pends(d) /\ \A z \in Tokens : z # z1 /\ z # z2 => Q[z] = Pl[z]
  BY <1>2, <1>7, <1>8, MovedAt
<1>15. OwnOK(v2, Q)
  BY <1>1, <1>2, <1>3, <1>4, <1>7, OwnMoved
<1> HIDE DEF Q
<1>16. QueuesOK(v2)
  <2> SUFFICES ASSUME NEW z \in RSlots
               PROVE  NoTwice("pend", z, PendAt(v2, z)) /\ NoTwice("wait", z, WaitAt(v2, z))
    BY Zenon DEF QueuesOK
  <2>1. NoTwice("pend", z, PendAt(v, z)) /\ NoTwice("wait", z, WaitAt(v, z))
    BY <1>1, Zenon DEF QueuesOK
  <2>2. WaitAt(v2, z) = WaitAt(v, z) /\ PendAt(v2, z) = IF z = d THEN Append(PendAt(v, d), k) ELSE PendAt(v, z)
    BY Zenon DEF SameWait, OnlyPend
  <2>3. z2 \notin Keys("pend", d, PendAt(v, d)) /\ KeyOf("pend", d, k) = z2
    <3>1. Pl[z2] # Pends(d)
      BY <1>4, <1>8, Zenon
    <3>2. z2 \notin Keys("pend", d, PendAt(v, d))
      BY <1>1, <1>7, <3>1, TokenFacts
    <3>3. KeyOf("pend", d, k) = z2
      BY DEF KeyOf, z2, i
    <3>. QED
      BY <3>2, <3>3
  <2>4. CASE z = d
    BY <1>9, <2>1, <2>2, <2>3, <2>4, KeysAppend
  <2>. QED
    BY <2>1, <2>2, <2>4, Zenon
<1>17. CountsOK(v2, Q)
  <2>1. Pl[<<d, i>>] = Nowhere /\ Q[<<d, i>>] # Nowhere
    BY <1>4, <1>8, <1>14, Zenon DEF z2
  <2>2. \A z \in Tokens : z # <<d, i>> => (Q[z] = Nowhere <=> Pl[z] = Nowhere)
    BY <1>2, <1>4, <1>14, Zenon DEF z2
  <2>3. \A z \in Slots : OccAt(v2, z) = IF z = d THEN OccAt(v, d) + ChunkSize ELSE OccAt(v, z)
    BY Zenon DEF OnlyOcc
  <2>. QED
    BY <1>1, <1>3, <1>7, <2>1, <2>2, <2>3, CountsMore
<1>18. RanksOK(Q)
  BY <1>4, <1>8, <1>14, Zenon
<1>. QED
  BY <1>5, <1>13, <1>15, <1>16, <1>17, <1>18, Zenon DEF CreditInv, D2

\* a waiting chunk takes the place that became free
LEMMA StepMove ==
  ASSUME NEW v, NEW v2, NEW D, NEW Pl, ViewOK(v), CreditInv(v, D, Pl), NEW d \in RSlots,
         WaitAt(v, d) # << >>, NEW k, k = Head(WaitAt(v, d)), k \in ChunkType,
         NEW g, g.type \notin ArriveTypes, EventKey(g) = KeyOf("wait", d, k),
         SlotRank(EventKey(g)[1]) < SlotRank(d),
         OnlyPend(v, v2, d, Append(PendAt(v, d), k)), OnlyWait(v, v2, d, Tail(WaitAt(v, d))),
         OnlyOcc(v, v2, d, OccAt(v, d) + ChunkSize), SameOwn(v, v2)
  PROVE  g \notin D /\ \E Q : CreditInv(v2, D \cup {g}, Q)
<1> DEFINE z1 == EventKey(g)
           i == Id(k)
           z2 == <<d, i>>
           q == WaitAt(v, d)
           Q == Moved(Pl, z1, On(g), z2, Pends(d))
           D2 == D \cup {g}
<1>1. /\ PlaceType(Pl) /\ PlacesOK(v, D, Pl) /\ QueuesOK(v) /\ CountsOK(v, Pl)
      /\ RanksOK(Pl) /\ OwnOK(v, Pl)
  BY Zenon DEF CreditInv
<1>2. q \in Seq(ChunkType) /\ PendAt(v, d) \in Seq(ChunkType) /\ NoTwice("wait", d, q) /\ q # << >>
  BY <1>1, Zenon DEF ViewOK, QueuesOK
<1>3. z1 = KeyOf("wait", d, Head(q)) /\ z1[2] = i
  BY DEF KeyOf
<1>4. z1 \in Keys("wait", d, q)
  <2>1. KeyOf("wait", d, Head(q)) \in Keys("wait", d, q)
    <3> HIDE DEF q
    <3>. QED
      BY <1>2, KeysTail
  <2>. QED
    BY <1>3, <2>1, Zenon
<1>5. z1 \in Tokens /\ Pl[z1] = Waits(d)
  BY <1>1, <1>4, TokenFacts
<1>6. z1 = <<z1[1], i>> /\ z1[1] \in Slots /\ i \in Ids /\ SlotRank(z1[1]) < SlotRank(d)
  BY <1>3, <1>5, TokenParts
<1>7. /\ \A f, h : On(f) = On(h) => f = h
      /\ \A f : On(f) # Nowhere /\ Pends(d) # On(f) /\ Waits(d) # On(f)
      /\ Pends(d) # Nowhere /\ Waits(d) # Nowhere /\ IsPlace(On(g)) /\ IsPlace(Pends(d))
      /\ Live(Waits(d)) /\ ~Live(On(g))
  BY PlaceFacts
<1>8. g \notin D
  <2> SUFFICES ASSUME g \in D PROVE FALSE
    OBVIOUS
  <2>1. Pl[EventKey(g)] = On(g)
    BY <1>1, TokenFacts
  <2>. QED
    BY <1>5, <1>7, <2>1, Zenon
<1>9. \A f : On(g) = On(f) => EventKey(f) = z1
  BY <1>7, Zenon
<1> HIDE DEF z1, i
<1>10. d \in Slots /\ z2 \in Tokens /\ z2[1] = d /\ z2[2] = i
  <2>1. d \in Slots
    BY SlotFacts, Zenon
  <2>. QED
    BY <1>6, <2>1, TokenPair
<1>11. /\ z1 # z2 /\ Pl[z2] = Nowhere
       /\ \A R : (\A z \in Tokens : z # z1 /\ z # z2 => R[z] = Pl[z]) /\ ~Live(R[z1]) => RanksOK(R)
  <2> DEFINE s == z1[1]
  <2>1. z1 = <<s, i>> /\ s \in Slots /\ SlotRank(s) < SlotRank(d) /\ Live(Pl[<<s, i>>])
    BY <1>5, <1>6, <1>7, Zenon
  <2> HIDE DEF s
  <2>2. /\ <<s, i>> # <<d, i>> /\ Pl[<<d, i>>] = Nowhere
        /\ \A R : /\ \A z \in Tokens : z # <<s, i>> /\ z # <<d, i>> => R[z] = Pl[z]
                  /\ ~Live(R[<<s, i>>])
                  => RanksOK(R)
    BY <1>1, <1>6, <1>10, <2>1, RanksPassed
  <2>. QED
    BY <2>1, <2>2, Zenon
<1>12. PendMoved(v, v2, Pl, z1, On(g), z2, Pends(d)) /\ WaitMoved(v, v2, Pl, z1, On(g), z2, Pends(d))
  <2>1. NoPend(On(g)) /\ NoWait(On(g)) /\ NoPend(Pl[z1]) /\ NoWait(Pends(d))
    BY <1>5, NoFacts, Zenon
  <2>2. PendMoved(v, v2, Pl, z1, On(g), z2, Pends(d))
    BY <1>2, <2>1, PendAdded DEF i
  <2>3. WaitMoved(v, v2, Pl, z1, On(g), z2, Pends(d))
    BY <1>2, <1>3, <1>5, <2>1, WaitTaken
  <2>. QED
    BY <2>2, <2>3
<1>13. \A f : f \in D2 <=> (f \in D /\ Pl[z1] # On(f)) \/ On(g) = On(f) \/ Pends(d) = On(f)
  BY <1>5, <1>7, Zenon
<1> HIDE DEF z2, D2
<1>14. HoldsMoved(v, D, v2, D2, Pl, z1, On(g), z2, Pends(d))
  BY <1>1, <1>5, <1>7, <1>9, <1>12, <1>13, HoldsBy
<1>15. PlaceType(Q) /\ PlacesOK(v2, D2, Q)
  BY <1>1, <1>5, <1>7, <1>10, <1>11, <1>14, PlacesMoved
<1>16. Q[z1] = On(g) /\ Q[z2] = Pends(d) /\ \A z \in Tokens : z # z1 /\ z # z2 => Q[z] = Pl[z]
  BY <1>5, <1>10, <1>11, MovedAt
<1>17. OwnOK(v2, Q)
  BY <1>1, <1>3, <1>5, <1>7, <1>10, OwnMoved
<1> HIDE DEF Q
<1>18. QueuesOK(v2)
  <2> SUFFICES ASSUME NEW z \in RSlots
               PROVE  NoTwice("pend", z, PendAt(v2, z)) /\ NoTwice("wait", z, WaitAt(v2, z))
    BY Zenon DEF QueuesOK
  <2>1. NoTwice("pend", z, PendAt(v, z)) /\ NoTwice("wait", z, WaitAt(v, z))
    BY <1>1, Zenon DEF QueuesOK
  <2>2. /\ WaitAt(v2, z) = IF z = d THEN Tail(q) ELSE WaitAt(v, z)
        /\ PendAt(v2, z) = IF z = d THEN Append(PendAt(v, d), k) ELSE PendAt(v, z)
    BY Zenon DEF OnlyWait, OnlyPend
  <2>3. z2 \notin Keys("pend", d, PendAt(v, d)) /\ KeyOf("pend", d, k) = z2
    <3>1. Pl[z2] # Pends(d)
      BY <1>7, <1>11, Zenon
    <3>2. z2 \notin Keys("pend", d, PendAt(v, d))
      BY <1>1, <1>10, <3>1, TokenFacts
    <3>3. KeyOf("pend", d, k) = z2
      BY DEF KeyOf, z2, i
    <3>. QED
      BY <3>2, <3>3
  <2>4. NoTwice("wait", d, Tail(q))
    <3> HIDE DEF q
    <3>. QED
      BY <1>2, KeysTail
  <2>5. ASSUME z = d PROVE NoTwice("pend", d, Append(PendAt(v, d), k))
    BY <1>2, <2>1, <2>3, <2>5, KeysAppend
  <2>. QED
    BY <2>1, <2>2, <2>4, <2>5, Zenon
<1>19. CountsOK(v2, Q)
  <2>1. Pl[<<d, i>>] = Nowhere /\ Q[<<d, i>>] # Nowhere
    BY <1>7, <1>11, <1>16, Zenon DEF z2
  <2>2. \A z \in Tokens : z # <<d, i>> => (Q[z] = Nowhere <=> Pl[z] = Nowhere)
    BY <1>5, <1>7, <1>16, Zenon DEF z2
  <2>3. \A z \in Slots : OccAt(v2, z) = IF z = d THEN OccAt(v, d) + ChunkSize ELSE OccAt(v, z)
    BY Zenon DEF OnlyOcc
  <2>. QED
    BY <1>1, <1>6, <1>10, <2>1, <2>2, <2>3, CountsMore
<1>20. RanksOK(Q)
  BY <1>7, <1>11, <1>16, Zenon
<1>. QED
  BY <1>8, <1>15, <1>17, <1>18, <1>19, <1>20, Zenon DEF CreditInv, D2

OnlyOwn(v, v2, t, q) == \A u \in Terminals : OwnAt(v2, u) = IF u = t THEN q ELSE OwnAt(v, u)
OnlyCount(v, v2, t, n) == \A u \in Terminals : CountAt(v2, u) = IF u = t THEN n ELSE CountAt(v, u)

\* no two names of a terminal's own chunks are the same
LEMMA OwnDiffer ==
  ASSUME NEW t, NEW q, NoTwice("own", t, q), NEW i \in 1 .. Len(q), NEW j \in 1 .. Len(q),
         Id(q[i]) = Id(q[j])
  PROVE  i = j
<1>1. KeyOf("own", t, q[i]) = <<TSlot(t), Id(q[i])>> /\ KeyOf("own", t, q[j]) = <<TSlot(t), Id(q[j])>>
  BY DEF KeyOf
<1>2. KeyOf("own", t, q[i]) = KeyOf("own", t, q[j])
  BY <1>1
<1>. QED
  BY <1>2, Zenon DEF NoTwice

\* the first chunk of a terminal leaves it
LEMMA StepInject ==
  ASSUME NEW v, NEW v2, NEW D, NEW Pl, ViewOK(v), CreditInv(v, D, Pl), NEW t \in Terminals,
         OwnAt(v, t) # << >>, NEW g, EventKey(g) = <<TSlot(t), Id(Head(OwnAt(v, t)))>>,
         SamePend(v, v2), SameWait(v, v2), OnlyOcc(v, v2, TSlot(t), OccAt(v, TSlot(t)) + ChunkSize),
         OnlyOwn(v, v2, t, Tail(OwnAt(v, t))), OnlyCount(v, v2, t, CountAt(v, t))
  PROVE  g \notin D /\ \E Q : CreditInv(v2, D \cup {g}, Q)
<1> DEFINE q == OwnAt(v, t)
           k == Head(q)
           i == Id(k)
           z1 == <<TSlot(t), i>>
           Q == Moved(Pl, z1, On(g), z1, On(g))
           D2 == D \cup {g}
<1>1. /\ PlaceType(Pl) /\ PlacesOK(v, D, Pl) /\ QueuesOK(v) /\ CountsOK(v, Pl)
      /\ RanksOK(Pl) /\ OwnOK(v, Pl)
  BY Zenon DEF CreditInv
<1>2. q \in Seq({x \in ChunkType : x.src = t}) /\ q # << >>
  BY Zenon DEF ViewOK
<1>3. /\ Len(q) \in Nat \ {0} /\ k = q[1] /\ 1 \in 1 .. Len(q) /\ Len(Tail(q)) = Len(q) - 1
      /\ \A j \in 1 .. Len(Tail(q)) : Tail(q)[j] = q[j + 1] /\ j + 1 \in 1 .. Len(q) /\ j + 1 # 1
  <2> HIDE DEF q
  <2>1. /\ Len(q) \in Nat \ {0} /\ Head(q) = q[1] /\ Len(Tail(q)) = Len(q) - 1
        /\ \A j \in 1 .. Len(q) - 1 : Tail(q)[j] = q[j + 1]
    BY <1>2, HeadTailProperties, LenProperties, EmptySeq
  <2>. QED
    BY <2>1
<1>4. i \in Ids /\ k \in ChunkType /\ k.src = t /\ i[1] = t /\ i[2] = k.pid
  <2>1. i \in Ids /\ k \in ChunkType /\ k.src = t
    <3>1. Id(q[1]) \in Ids /\ q[1] \in ChunkType /\ q[1].src = t
      BY <1>3, OwnIds
    <3>. QED
      BY <1>3, <3>1, Zenon
  <2> HIDE DEF k
  <2>. QED
    BY <2>1, IdFacts
<1>5. /\ NoTwice("own", t, q) /\ k.pid < CountAt(v, t)
      /\ \A z \in Slots : Pl[<<z, i>>] = Nowhere
      /\ \A j \in 1 .. Len(q) : q[j].pid < CountAt(v, t) /\ \A z \in Slots : Pl[<<z, Id(q[j])>>] = Nowhere
      /\ CountAt(v, t) \in Nat
  <2>1. /\ NoTwice("own", t, q) /\ CountAt(v, t) \in Nat
        /\ \A j \in 1 .. Len(q) : q[j].pid < CountAt(v, t) /\ \A z \in Slots : Pl[<<z, Id(q[j])>>] = Nowhere
    BY <1>1, Zenon DEF OwnOK
  <2>. QED
    BY <1>3, <2>1, Zenon
<1>6. /\ \A f, h : On(f) = On(h) => f = h
      /\ \A f : On(f) # Nowhere
      /\ IsPlace(On(g))
  BY PlaceFacts
<1> HIDE DEF k, i
<1>7. EventKey(g) = z1
  BY DEF k, i
<1> HIDE DEF q
<1>8. TSlot(t) \in Slots /\ z1 \in Tokens /\ Pl[z1] = Nowhere
  <2>1. TSlot(t) \in Slots
    BY SlotFacts, Zenon
  <2>. QED
    BY <1>4, <1>5, <2>1, TokenPair
<1>9. g \notin D
  <2> SUFFICES ASSUME g \in D PROVE FALSE
    OBVIOUS
  <2>1. Pl[EventKey(g)] = On(g)
    BY <1>1, TokenFacts
  <2>. QED
    BY <1>6, <1>7, <1>8, <2>1, Zenon
<1>10. \A f : On(g) = On(f) => EventKey(f) = z1
  BY <1>6, <1>7, Zenon
<1> HIDE DEF z1
<1>11. PendMoved(v, v2, Pl, z1, On(g), z1, On(g)) /\ WaitMoved(v, v2, Pl, z1, On(g), z1, On(g))
  BY <1>8, NoFacts, PendNone, WaitNone, Zenon
<1>12. \A f : f \in D2 <=> (f \in D /\ Pl[z1] # On(f)) \/ On(g) = On(f) \/ On(g) = On(f)
  BY <1>6, <1>8, Zenon
<1> HIDE DEF D2
<1>13. HoldsMoved(v, D, v2, D2, Pl, z1, On(g), z1, On(g))
  BY <1>1, <1>8, <1>10, <1>11, <1>12, HoldsBy
<1>14. PlaceType(Q) /\ PlacesOK(v2, D2, Q)
  BY <1>1, <1>6, <1>8, <1>13, PlacesMoved
<1>15. Q[z1] = On(g) /\ \A z \in Tokens : z # z1 => Q[z] = Pl[z]
  BY <1>8, MovedAt
<1> HIDE DEF Q
<1>16. QueuesOK(v2)
  BY <1>1, Zenon DEF QueuesOK, SamePend, SameWait
<1>17. CountsOK(v2, Q)
  <2> DEFINE d == TSlot(t)
  <2> HIDE DEF d
  <2>1. Pl[<<d, i>>] = Nowhere /\ Q[<<d, i>>] # Nowhere /\ d \in Slots
    BY <1>6, <1>8, <1>15, Zenon DEF z1, d
  <2>2. \A z \in Tokens : z # <<d, i>> => (Q[z] = Nowhere <=> Pl[z] = Nowhere)
    BY <1>15, Zenon DEF z1, d
  <2>3. \A z \in Slots : OccAt(v2, z) = IF z = d THEN OccAt(v, d) + ChunkSize ELSE OccAt(v, z)
    BY Zenon DEF OnlyOcc, d
  <2>. QED
    BY <1>1, <1>4, <2>1, <2>2, <2>3, CountsMore
<1>18. RanksOK(Q)
  <2>1. \A z \in Tokens : z # <<TSlot(t), i>> => Q[z] = Pl[z]
    BY <1>15, Zenon DEF z1
  <2>. QED
    BY <1>1, <1>4, <1>5, <1>8, <2>1, RanksFirst
<1>19. ASSUME NEW j \in Ids, j # i, NEW z \in Slots PROVE Q[<<z, j>>] = Pl[<<z, j>>]
  <2>1. <<z, j>> # z1 /\ <<z, j>> \in Tokens
    BY <1>19, TokenPair DEF z1
  <2>. QED
    BY <1>15, <2>1, Zenon
<1>20. OwnOK(v2, Q)
  <2>1. ASSUME NEW u \in Terminals
        PROVE  /\ CountAt(v2, u) \in Nat /\ NoTwice("own", u, OwnAt(v2, u))
               /\ \A j \in 1 .. Len(OwnAt(v2, u)) :
                    /\ OwnAt(v2, u)[j].pid < CountAt(v2, u)
                    /\ \A z \in Slots : Q[<<z, Id(OwnAt(v2, u)[j])>>] = Nowhere
    <3>1. CountAt(v2, u) = CountAt(v, u) /\ CountAt(v, u) \in Nat
      BY <1>1, Zenon DEF OnlyCount, OwnOK
    <3>2. CASE u = t
      <4>1. OwnAt(v2, u) = Tail(q)
        BY <3>2, Zenon DEF OnlyOwn, q
      <4>2. NoTwice("own", t, Tail(q))
        BY <1>2, <1>5, KeysTail
      <4>3. ASSUME NEW j \in 1 .. Len(Tail(q))
            PROVE  Tail(q)[j].pid < CountAt(v, t) /\ \A z \in Slots : Q[<<z, Id(Tail(q)[j])>>] = Nowhere
        <5>1. Tail(q)[j] = q[j + 1] /\ j + 1 \in 1 .. Len(q) /\ j + 1 # 1
          BY <1>3, Zenon
        <5>2. Id(q[j + 1]) # i
          BY <1>3, <1>5, <5>1, OwnDiffer DEF i
        <5>3. Id(q[j + 1]) \in Ids
          BY <5>1, OwnIds DEF q
        <5>4. \A z \in Slots : Q[<<z, Id(q[j + 1])>>] = Nowhere
          BY <1>5, <1>19, <5>1, <5>2, <5>3, Zenon
        <5>. QED
          BY <1>5, <5>1, <5>4, Zenon
      <4>. QED
        BY <3>1, <3>2, <4>1, <4>2, <4>3, Zenon
    <3>3. CASE u # t
      <4>1. OwnAt(v2, u) = OwnAt(v, u)
        BY <3>3, Zenon DEF OnlyOwn
      <4>2. /\ NoTwice("own", u, OwnAt(v, u))
            /\ \A j \in 1 .. Len(OwnAt(v, u)) :
                 /\ OwnAt(v, u)[j].pid < CountAt(v, u)
                 /\ \A z \in Slots : Pl[<<z, Id(OwnAt(v, u)[j])>>] = Nowhere
        BY <1>1, Zenon DEF OwnOK
      <4>3. ASSUME NEW j \in 1 .. Len(OwnAt(v, u)), NEW z \in Slots
            PROVE  Q[<<z, Id(OwnAt(v, u)[j])>>] = Nowhere
        <5>1. Id(OwnAt(v, u)[j]) \in Ids /\ OwnAt(v, u)[j] \in ChunkType /\ OwnAt(v, u)[j].src = u
          BY OwnIds
        <5>2. Id(OwnAt(v, u)[j])[1] = u
          BY <5>1, IdFacts
        <5>3. Id(OwnAt(v, u)[j]) # i
          BY <1>4, <3>3, <5>2
        <5>. QED
          BY <1>19, <4>2, <5>1, <5>3, Zenon
      <4>. QED
        BY <3>1, <4>1, <4>2, <4>3, Zenon
    <3>. QED
      BY <3>2, <3>3
  <2>2. ASSUME NEW z \in Slots, NEW j \in Ids, Q[<<z, j>>] # Nowhere PROVE j[2] < CountAt(v2, j[1])
    <3>1. j[1] \in Terminals
      BY DEF Ids
    <3>2. CountAt(v2, j[1]) = CountAt(v, j[1])
      BY <3>1, Zenon DEF OnlyCount
    <3>3. CASE j = i
      BY <1>4, <1>5, <3>2, <3>3
    <3>4. CASE j # i
      <4>1. Pl[<<z, j>>] # Nowhere
        BY <1>19, <2>2, <3>4, Zenon
      <4>2. j[2] < CountAt(v, j[1])
        BY <1>1, <4>1, Zenon DEF OwnOK
      <4>. QED
        BY <3>2, <4>2
    <3>. QED
      BY <3>3, <3>4
  <2>. QED
    BY <2>1, <2>2, Zenon DEF OwnOK
<1>. QED
  BY <1>9, <1>14, <1>16, <1>17, <1>18, <1>20, Zenon DEF CreditInv, D2

\* a terminal cuts a packet into chunks
LEMMA StepGenerate ==
  ASSUME NEW v, NEW v2, NEW D, NEW Pl, ViewOK(v), CreditInv(v, D, Pl), NEW t \in Terminals,
         NEW new, new \in Seq({x \in ChunkType : x.src = t}),
         \A j \in 1 .. Len(new) : new[j].pid = CountAt(v, t) /\ new[j].id = j - 1,
         SamePend(v, v2), SameWait(v, v2), SameOcc(v, v2),
         OnlyOwn(v, v2, t, OwnAt(v, t) \o new), OnlyCount(v, v2, t, CountAt(v, t) + 1)
  PROVE  CreditInv(v2, D, Pl)
<1> DEFINE q == OwnAt(v, t)
           c == CountAt(v, t)
           a == q \o new
<1>1. /\ PlaceType(Pl) /\ PlacesOK(v, D, Pl) /\ QueuesOK(v) /\ CountsOK(v, Pl)
      /\ RanksOK(Pl) /\ OwnOK(v, Pl)
  BY Zenon DEF CreditInv
<1>2. /\ q \in Seq({x \in ChunkType : x.src = t}) /\ c \in Nat /\ NoTwice("own", t, q)
      /\ \A j \in 1 .. Len(q) : q[j].pid < c /\ \A z \in Slots : Pl[<<z, Id(q[j])>>] = Nowhere
      /\ \A z \in Slots, k \in Ids : Pl[<<z, k>>] # Nowhere => k[2] < CountAt(v, k[1])
  BY <1>1, Zenon DEF ViewOK, OwnOK
<1> HIDE DEF q, c
<1>3. /\ Len(q) \in Nat /\ Len(new) \in Nat /\ Len(a) = Len(q) + Len(new)
      /\ \A j \in 1 .. Len(q) : a[j] = q[j]
      /\ \A j \in Len(q) + 1 .. Len(a) : a[j] = new[j - Len(q)] /\ j - Len(q) \in 1 .. Len(new)
      /\ \A j \in 1 .. Len(a) : j \in 1 .. Len(q) \/ j \in Len(q) + 1 .. Len(a)
  <2> DEFINE T == {x \in ChunkType : x.src = t}
  <2> HIDE DEF T
  <2>1. q \in Seq(T) /\ new \in Seq(T)
    BY <1>2 DEF T
  <2>2. Len(q) \in Nat /\ Len(new) \in Nat /\ Len(a) = Len(q) + Len(new)
    BY <2>1
  <2>3. \A j \in 1 .. Len(a) : a[j] = IF j <= Len(q) THEN q[j] ELSE new[j - Len(q)]
    BY <2>1, <2>2
  <2> HIDE DEF a
  <2>4. ASSUME NEW j \in 1 .. Len(q) PROVE a[j] = q[j]
    <3>1. j \in 1 .. Len(a) /\ j <= Len(q)
      BY <2>2
    <3>. QED
      BY <2>3, <3>1
  <2>5. ASSUME NEW j \in Len(q) + 1 .. Len(a)
        PROVE  a[j] = new[j - Len(q)] /\ j - Len(q) \in 1 .. Len(new)
    <3>1. j \in 1 .. Len(a) /\ ~(j <= Len(q)) /\ j - Len(q) \in 1 .. Len(new)
      BY <2>2
    <3>. QED
      BY <2>3, <3>1
  <2>6. \A j \in 1 .. Len(a) : j \in 1 .. Len(q) \/ j \in Len(q) + 1 .. Len(a)
    BY <2>2
  <2>. QED
    BY <2>2, <2>4, <2>5, <2>6
<1> HIDE DEF a
<1>4. ASSUME NEW j \in Len(q) + 1 .. Len(a)
      PROVE  /\ a[j].pid = c /\ a[j].id = j - Len(q) - 1
             /\ Id(a[j]) \in Ids /\ Id(a[j])[1] = t /\ Id(a[j])[2] = c /\ Id(a[j])[3] = j - Len(q) - 1
  <2> DEFINE w == new[j - Len(q)]
  <2>1. a[j] = w /\ w \in ChunkType /\ w.src = t /\ w.pid = c /\ w.id = j - Len(q) - 1
    <3>1. a[j] = w /\ j - Len(q) \in 1 .. Len(new)
      BY <1>3
    <3>2. w \in {x \in ChunkType : x.src = t}
      BY <3>1, ElementOfSeq
    <3>3. w.pid = c /\ w.id = j - Len(q) - 1
      BY <3>1, Zenon DEF c
    <3>. QED
      BY <3>1, <3>2, <3>3
  <2> HIDE DEF w
  <2>. QED
    BY <2>1, IdFacts
<1>5. ASSUME NEW j \in 1 .. Len(q)
      PROVE  a[j] = q[j] /\ Id(q[j])[2] = q[j].pid /\ q[j].pid < c /\ q[j].pid \in Nat
  <2>1. q[j] \in ChunkType /\ a[j] = q[j] /\ q[j].pid < c
    <3>1. q[j] \in {x \in ChunkType : x.src = t}
      BY <1>2, ElementOfSeq
    <3>. QED
      BY <1>2, <1>3, <3>1
  <2>2. q[j].pid \in Nat
    BY <2>1 DEF ChunkType
  <2>. QED
    BY <2>1, <2>2, IdFacts
<1>6. NoTwice("own", t, a)
  <2> SUFFICES ASSUME NEW i \in 1 .. Len(a), NEW j \in 1 .. Len(a),
                      KeyOf("own", t, a[i]) = KeyOf("own", t, a[j])
               PROVE  i = j
    BY Zenon DEF NoTwice
  <2>1. Id(a[i]) = Id(a[j])
    <3>1. KeyOf("own", t, a[i]) = <<TSlot(t), Id(a[i])>> /\ KeyOf("own", t, a[j]) = <<TSlot(t), Id(a[j])>>
      BY DEF KeyOf
    <3> DEFINE b1 == Id(a[i])
               b2 == Id(a[j])
    <3> HIDE DEF b1, b2
    <3>2. <<TSlot(t), b1>> = <<TSlot(t), b2>>
      BY <3>1 DEF b1, b2
    <3>3. b1 = b2
      BY <3>2
    <3>. QED
      BY <3>3 DEF b1, b2
  <2>2. CASE i \in 1 .. Len(q) /\ j \in 1 .. Len(q)
    <3>1. Id(q[i]) = Id(q[j])
      BY <1>5, <2>1, <2>2, Zenon
    <3>. QED
      BY <1>2, <2>2, <3>1, OwnDiffer
  <2>3. CASE i \in 1 .. Len(q) /\ j \in Len(q) + 1 .. Len(a)
    <3>1. Id(a[i])[2] < c /\ Id(a[j])[2] = c /\ Id(a[i])[2] \in Nat
      BY <1>4, <1>5, <2>3
    <3>. QED
      BY <1>2, <2>1, <3>1
  <2>4. CASE i \in Len(q) + 1 .. Len(a) /\ j \in 1 .. Len(q)
    <3>1. Id(a[j])[2] < c /\ Id(a[i])[2] = c /\ Id(a[j])[2] \in Nat
      BY <1>4, <1>5, <2>4
    <3>. QED
      BY <1>2, <2>1, <3>1
  <2>5. CASE i \in Len(q) + 1 .. Len(a) /\ j \in Len(q) + 1 .. Len(a)
    <3>1. Id(a[i])[3] = i - Len(q) - 1 /\ Id(a[j])[3] = j - Len(q) - 1
      BY <1>4, <2>5
    <3>. QED
      BY <1>3, <2>1, <3>1
  <2>. QED
    BY <1>3, <2>2, <2>3, <2>4, <2>5
<1>7. ASSUME NEW j \in 1 .. Len(a)
      PROVE  a[j].pid < c + 1 /\ \A z \in Slots : Pl[<<z, Id(a[j])>>] = Nowhere
  <2>1. CASE j \in 1 .. Len(q)
    <3>1. a[j].pid < c + 1
      BY <1>2, <1>5, <2>1
    <3>2. \A z \in Slots : Pl[<<z, Id(a[j])>>] = Nowhere
      BY <1>2, <1>5, <2>1, Zenon
    <3>. QED
      BY <3>1, <3>2
  <2>2. CASE j \in Len(q) + 1 .. Len(a)
    <3>1. a[j].pid < c + 1
      BY <1>2, <1>4, <2>2
    <3>2. ASSUME NEW z \in Slots, Pl[<<z, Id(a[j])>>] # Nowhere PROVE FALSE
      <4> DEFINE k == Id(a[j])
      <4>1. k \in Ids /\ k[1] = t /\ k[2] = c
        BY <1>4, <2>2
      <4> HIDE DEF k
      <4>2. k[2] < CountAt(v, k[1])
        <5>1. Pl[<<z, k>>] # Nowhere
          BY <3>2 DEF k
        <5>. QED
          BY <1>2, <4>1, <5>1, Zenon
      <4>3. c < c
        BY <4>1, <4>2 DEF c
      <4>. QED
        BY <1>2, <4>3
    <3>. QED
      BY <3>1, <3>2
  <2>. QED
    BY <1>3, <2>1, <2>2
<1>8. OwnOK(v2, Pl)
  <2>1. ASSUME NEW u \in Terminals
        PROVE  /\ CountAt(v2, u) \in Nat /\ NoTwice("own", u, OwnAt(v2, u))
               /\ \A j \in 1 .. Len(OwnAt(v2, u)) :
                    /\ OwnAt(v2, u)[j].pid < CountAt(v2, u)
                    /\ \A z \in Slots : Pl[<<z, Id(OwnAt(v2, u)[j])>>] = Nowhere
    <3>1. CASE u = t
      <4>1. OwnAt(v2, u) = a /\ CountAt(v2, u) = c + 1
        BY <3>1, Zenon DEF OnlyOwn, OnlyCount, a, q, c
      <4>2. c + 1 \in Nat
        BY <1>2
      <4>. QED
        BY <1>6, <1>7, <3>1, <4>1, <4>2, Zenon
    <3>2. CASE u # t
      <4>1. OwnAt(v2, u) = OwnAt(v, u) /\ CountAt(v2, u) = CountAt(v, u)
        BY <3>2, Zenon DEF OnlyOwn, OnlyCount
      <4>. QED
        BY <1>1, <4>1, ZenonT(30) DEF OwnOK
    <3>. QED
      BY <3>1, <3>2
  <2>2. ASSUME NEW z \in Slots, NEW k \in Ids, Pl[<<z, k>>] # Nowhere PROVE k[2] < CountAt(v2, k[1])
    <3>1. k[1] \in Terminals /\ k[2] \in Nat
      BY DEF Ids
    <3>2. k[2] < CountAt(v, k[1])
      BY <1>2, <2>2, Zenon
    <3>3. CASE k[1] = t
      <4>1. CountAt(v2, k[1]) = c + 1 /\ CountAt(v, k[1]) = c
        BY <3>3, Zenon DEF OnlyCount, c
      <4>. QED
        BY <1>2, <3>1, <3>2, <4>1
    <3>4. CASE k[1] # t
      <4>1. CountAt(v2, k[1]) = CountAt(v, k[1])
        BY <3>1, <3>4, Zenon DEF OnlyCount
      <4>. QED
        BY <3>2, <4>1
    <3>. QED
      BY <3>3, <3>4
  <2>. QED
    BY <2>1, <2>2, Zenon DEF OwnOK
<1>9. ASSUME NEW y, IsPlace(y) PROVE Holds(v2, D, y) = Holds(v, D, y)
  <2>1. ASSUME NEW z \in RSlots, y = Pends(z) PROVE Holds(v2, D, y) = Holds(v, D, y)
    <3>1. PendAt(v2, z) = PendAt(v, z)
      BY Zenon DEF SamePend
    <3>. QED
      BY <2>1, <3>1, HoldsFacts
  <2>2. ASSUME NEW z \in RSlots, y = Waits(z) PROVE Holds(v2, D, y) = Holds(v, D, y)
    <3>1. WaitAt(v2, z) = WaitAt(v, z)
      BY Zenon DEF SameWait
    <3>. QED
      BY <2>2, <3>1, HoldsFacts
  <2>3. ASSUME NEW f, y = On(f) PROVE Holds(v2, D, y) = Holds(v, D, y)
    <3>1. y.in = "event"
      BY <2>3, PlaceFacts, Zenon
    <3>2. y.in # "pend" /\ y.in # "wait"
      BY <3>1
    <3>. QED
      BY <3>2, Zenon DEF Holds
  <2>. QED
    BY <1>9, <2>1, <2>2, <2>3, Zenon DEF IsPlace
<1>10. PlacesOK(v2, D, Pl)
  BY <1>1, <1>9, Zenon DEF PlacesOK
<1>11. QueuesOK(v2)
  BY <1>1, Zenon DEF QueuesOK, SamePend, SameWait
<1>12. CountsOK(v2, Pl)
  BY <1>1, Zenon DEF CountsOK, SameOcc
<1>. QED
  BY <1>1, <1>8, <1>10, <1>11, <1>12, Zenon DEF CreditInv

-----------------------------------------------------------------------------
(* What the handlers do to chunks and credits.                             *)

StatesOK(S) == S = [x \in Lps |-> S[x]] /\ \A x \in Lps : StateOK(x, S[x])

LEMMA StatesView ==
  ASSUME NEW S, StatesOK(S)
  PROVE  ViewOK(S)
<1>1. ASSUME NEW z \in RSlots
      PROVE  PendAt(S, z) \in Seq(ChunkType) /\ WaitAt(S, z) \in Seq(ChunkType)
  <2>1. z[1] \in Routers /\ z[1] \notin Terminals /\ z[2] \in Ports(z[1]) /\ z[3] \in Chans
    BY SlotFacts, Zenon
  <2>2. RouterOK(z[1], S[z[1]])
    BY <2>1, Zenon DEF StatesOK, StateOK, Lps
  <2> DEFINE P == S[z[1]][z[2]]
  <2>3. P.pending \in Pendings(z[1], z[2]) /\ P.queued \in Queueds(z[1], z[2])
    BY <2>1, <2>2, Zenon DEF RouterOK, PortOK
  <2> HIDE DEF P
  <2>4. P.pending[z[3]] \in Seq(ChunkType) /\ P.queued[z[3]] \in Seq(ChunkType)
    BY <2>1, <2>3 DEF Pendings, Queueds
  <2>. QED
    BY <2>4 DEF P, PendAt, WaitAt
<1>2. ASSUME NEW t \in Terminals PROVE OwnAt(S, t) \in Seq({k \in ChunkType : k.src = t})
  <2>1. S[t].terminal_msgs \in Seq(OwnChunk(t))
    BY Zenon DEF StatesOK, StateOK, Lps, TermOK
  <2>2. OwnChunk(t) \subseteq {k \in ChunkType : k.src = t}
    BY DEF OwnChunk
  <2>3. S[t].terminal_msgs \in Seq({k \in ChunkType : k.src = t})
    <3> DEFINE A == OwnChunk(t)
               B == {k \in ChunkType : k.src = t}
    <3> HIDE DEF A, B
    <3>1. S[t].terminal_msgs \in Seq(A) /\ A \subseteq B
      BY <2>1, <2>2 DEF A, B
    <3>2. S[t].terminal_msgs \in Seq(B)
      BY <3>1, SeqOfMore
    <3>. QED
      BY <3>2 DEF B
  <2>. QED
    BY <2>3, Zenon DEF OwnAt
<1>. QED
  BY <1>1, <1>2, Zenon DEF ViewOK

LEMMA TermAccess ==
  ASSUME NEW S, StatesOK(S), NEW t \in Terminals, NEW ns, NEW T, T = [S EXCEPT ![t] = ns]
  PROVE  /\ SamePend(S, T) /\ SameWait(S, T)
         /\ OnlyOcc(S, T, TSlot(t), ns.vc_occupancy) /\ OccAt(S, TSlot(t)) = S[t].vc_occupancy
         /\ OnlyOwn(S, T, t, ns.terminal_msgs) /\ OwnAt(S, t) = S[t].terminal_msgs
         /\ OnlyCount(S, T, t, ns.packet_counter) /\ CountAt(S, t) = S[t].packet_counter
         /\ ns.vc_occupancy = S[t].vc_occupancy => SameOcc(S, T)
         /\ ns.terminal_msgs = S[t].terminal_msgs /\ ns.packet_counter = S[t].packet_counter
              => SameOwn(S, T)
<1>1. DOMAIN S = Lps /\ t \in Lps
  BY Zenon DEF StatesOK, Lps
<1>2. T[t] = ns /\ \A y \in Lps : y # t => T[y] = S[y]
  BY <1>1, Zenon
<1>3. \A z \in RSlots : z[1] \in Lps /\ z[1] # t /\ z[1] \notin Terminals
  <2>1. \A z \in RSlots : z[1] \in Routers /\ z[1] \notin Terminals
    BY SlotFacts, Zenon
  <2>. QED
    BY <2>1, Zenon DEF Lps
<1>4. SamePend(S, T)
  BY <1>2, <1>3, Zenon DEF SamePend, PendAt
<1>5. SameWait(S, T)
  BY <1>2, <1>3, Zenon DEF SameWait, WaitAt
<1>6. TSlot(t)[1] = t /\ \A u \in Terminals : TSlot(u)[1] = u
  BY SlotFacts, Zenon
<1>7. OccAt(S, TSlot(t)) = S[t].vc_occupancy /\ OccAt(T, TSlot(t)) = ns.vc_occupancy
  BY <1>2, <1>6, Zenon DEF OccAt
<1>8. ASSUME NEW z \in Slots, z # TSlot(t) PROVE OccAt(T, z) = OccAt(S, z)
  <2>1. z[1] \in Lps /\ z[1] # t
    <3>1. CASE z \in RSlots
      BY <1>3, <3>1, Zenon
    <3>2. CASE z \notin RSlots
      <4>1. PICK u \in Terminals : z = TSlot(u)
        BY <3>2, Zenon DEF Slots
      <4>. QED
        BY <1>6, <1>8, <4>1, Zenon DEF Lps
    <3>. QED
      BY <3>1, <3>2
  <2>2. T[z[1]] = S[z[1]]
    BY <1>2, <2>1, Zenon
  <2>. QED
    BY <2>2 DEF OccAt
<1>9. OnlyOcc(S, T, TSlot(t), ns.vc_occupancy)
  BY <1>7, <1>8, Zenon DEF OnlyOcc
<1>10. ns.vc_occupancy = S[t].vc_occupancy => SameOcc(S, T)
  BY <1>7, <1>8, Zenon DEF SameOcc
<1>11. \A u \in Terminals : T[u] = IF u = t THEN ns ELSE S[u]
  BY <1>2, Zenon DEF Lps
<1>12. OnlyOwn(S, T, t, ns.terminal_msgs) /\ OwnAt(S, t) = S[t].terminal_msgs
  BY <1>11 DEF OnlyOwn, OwnAt
<1>13. OnlyCount(S, T, t, ns.packet_counter) /\ CountAt(S, t) = S[t].packet_counter
  BY <1>11 DEF OnlyCount, CountAt
<1>14. ns.terminal_msgs = S[t].terminal_msgs /\ ns.packet_counter = S[t].packet_counter
         => SameOwn(S, T)
  BY <1>11, Zenon DEF SameOwn, OwnAt, CountAt
<1>. QED
  BY <1>4, <1>5, <1>7, <1>9, <1>10, <1>12, <1>13, <1>14, Zenon

\* S and T in channel c, slot d, of a port that was P and is q
ChannelChange(S, T, P, q, c, d) ==
  /\ d \in RSlots /\ PendAt(S, d) = P.pending[c]
  /\ WaitAt(S, d) = P.queued[c] /\ OccAt(S, d) = P.vc_occupancy[c]
  /\ \A x : q.pending = [P.pending EXCEPT ![c] = x] => OnlyPend(S, T, d, x)
  /\ \A x : q.queued = [P.queued EXCEPT ![c] = x] => OnlyWait(S, T, d, x)
  /\ \A x : q.vc_occupancy = [P.vc_occupancy EXCEPT ![c] = x] => OnlyOcc(S, T, d, x)

\* T is S with q as port p of router r
PortChange(S, T, r, p, q) ==
  StatesOK(S) /\ r \in Routers /\ p \in Ports(r) /\ T = [S EXCEPT ![r] = [S[r] EXCEPT ![p] = q]]

LEMMA RouterAccess ==
  ASSUME NEW S, NEW T, NEW r, NEW p, NEW q, PortChange(S, T, r, p, q)
  PROVE  /\ SameOwn(S, T)
         /\ q.pending = S[r][p].pending => SamePend(S, T)
         /\ q.queued = S[r][p].queued => SameWait(S, T)
         /\ q.vc_occupancy = S[r][p].vc_occupancy => SameOcc(S, T)
         /\ \A c \in Chans : ChannelChange(S, T, S[r][p], q, c, <<r, p, c>>)
<1> DEFINE s == S[r]
           P == s[p]
<1>0. r \in Routers /\ p \in Ports(r) /\ StatesOK(S) /\ T = [S EXCEPT ![r] = [S[r] EXCEPT ![p] = q]]
  BY Zenon DEF PortChange
<1> USE <1>0
<1>1. DOMAIN S = Lps /\ r \in Lps /\ r \notin Terminals
  BY RouteAssumption DEF StatesOK, Lps
<1>2. RouterOK(r, s)
  BY <1>1, Zenon DEF StatesOK, StateOK
<1>3. DOMAIN s = Ports(r) /\ PortOK(r, p, P)
  <2>1. s = [i \in Ports(r) |-> s[i]] /\ PortOK(r, p, P)
    BY <1>2, Zenon DEF RouterOK
  <2> HIDE DEF s
  <2>. QED
    BY <2>1, Zenon
<1>4. /\ DOMAIN P.pending = Chans /\ DOMAIN P.queued = Chans /\ DOMAIN P.vc_occupancy = Chans
  <2>1. P.pending \in Pendings(r, p) /\ P.queued \in Queueds(r, p) /\ P.vc_occupancy \in [Chans -> Int]
    BY <1>3, Zenon DEF PortOK
  <2> HIDE DEF P
  <2>. QED
    BY <2>1 DEF Pendings, Queueds
<1>5. /\ T[r] = [s EXCEPT ![p] = q] /\ \A y \in Lps : y # r => T[y] = S[y]
  BY <1>1, Zenon
<1>6. /\ T[r][p] = q /\ \A y \in Ports(r) : y # p => T[r][y] = s[y]
  <2> HIDE DEF s
  <2>. QED
    BY <1>3, <1>5, Zenon
<1> HIDE DEF P, s
<1>7. ASSUME NEW z \in RSlots
      PROVE  IF z[1] = r /\ z[2] = p THEN T[z[1]][z[2]] = q /\ S[z[1]][z[2]] = P
             ELSE T[z[1]][z[2]] = S[z[1]][z[2]]
  <2>1. z[1] \in Lps /\ z[2] \in Ports(z[1])
    <3>1. z[1] \in Routers /\ z[2] \in Ports(z[1])
      BY SlotFacts, Zenon
    <3>. QED
      BY <3>1, Zenon DEF Lps
  <2>. QED
    BY <1>5, <1>6, <2>1, Zenon DEF P, s
<1>8. SameOwn(S, T)
  <2>1. \A t \in Terminals : T[t] = S[t]
    BY <1>1, <1>5, Zenon DEF Lps
  <2>. QED
    BY <2>1, Zenon DEF SameOwn, OwnAt, CountAt
<1>9. \A z \in RSlots : z[1] \notin Terminals /\ z[3] \in Chans
  BY SlotFacts, Zenon
<1>10. ASSUME NEW z \in Slots, z \notin RSlots PROVE OccAt(T, z) = OccAt(S, z)
  <2>1. PICK u \in Terminals : z = TSlot(u)
    BY <1>10, Zenon DEF Slots
  <2>2. z[1] = u
    BY <2>1, SlotFacts, Zenon
  <2>3. T[z[1]] = S[z[1]]
    BY <1>1, <1>5, <2>2, Zenon DEF Lps
  <2>. QED
    BY <2>3 DEF OccAt
<1>11. q.pending = P.pending => SamePend(S, T)
  BY <1>7, Zenon DEF SamePend, PendAt
<1>12. q.queued = P.queued => SameWait(S, T)
  BY <1>7, Zenon DEF SameWait, WaitAt
<1>13. ASSUME q.vc_occupancy = P.vc_occupancy PROVE SameOcc(S, T)
  <2>1. \A z \in RSlots : OccAt(T, z) = OccAt(S, z)
    BY <1>7, <1>9, <1>13 DEF OccAt
  <2>. QED
    BY <1>10, <2>1, Zenon DEF SameOcc
<1>14. ASSUME NEW c \in Chans
       PROVE  ChannelChange(S, T, P, q, c, <<r, p, c>>)
  <2> DEFINE d == <<r, p, c>>
  <2>1. d \in RSlots
    BY SlotFacts
  <2>2. d[1] = r /\ d[2] = p /\ d[3] = c
    OBVIOUS
  <2>3. \A z \in RSlots : z[1] = r /\ z[2] = p /\ z[3] = c => z = d
    <3>1. \A z \in RSlots : z = <<z[1], z[2], z[3]>>
      BY SlotFacts, Zenon
    <3>. QED
      BY <3>1, Zenon
  <2> HIDE DEF d
  <2>4. PendAt(S, d) = P.pending[c] /\ WaitAt(S, d) = P.queued[c] /\ OccAt(S, d) = P.vc_occupancy[c]
    BY <1>1, <2>2, Zenon DEF PendAt, WaitAt, OccAt, P, s
  <2>5. ASSUME NEW x, q.pending = [P.pending EXCEPT ![c] = x], NEW z \in RSlots
        PROVE  PendAt(T, z) = IF z = d THEN x ELSE PendAt(S, z)
    <3>1. z[3] \in Chans
      BY <1>9
    <3>2. q.pending[c] = x /\ (z[3] # c => q.pending[z[3]] = P.pending[z[3]])
      BY <1>4, <2>5, <3>1, Zenon
    <3>3. CASE z = d
      BY <1>7, <2>2, <3>2, <3>3 DEF PendAt
    <3>4. CASE z # d /\ z[1] = r /\ z[2] = p
      BY <1>7, <2>3, <3>2, <3>4, Zenon DEF PendAt
    <3>5. CASE ~(z[1] = r /\ z[2] = p)
      <4>1. z # d
        BY <2>2, <3>5, Zenon
      <4>. QED
        BY <1>7, <3>5, <4>1 DEF PendAt
    <3>. QED
      BY <3>3, <3>4, <3>5, Zenon
  <2>6. ASSUME NEW x, q.queued = [P.queued EXCEPT ![c] = x], NEW z \in RSlots
        PROVE  WaitAt(T, z) = IF z = d THEN x ELSE WaitAt(S, z)
    <3>1. z[3] \in Chans
      BY <1>9
    <3>2. q.queued[c] = x /\ (z[3] # c => q.queued[z[3]] = P.queued[z[3]])
      BY <1>4, <2>6, <3>1, Zenon
    <3>3. CASE z = d
      BY <1>7, <2>2, <3>2, <3>3 DEF WaitAt
    <3>4. CASE z # d /\ z[1] = r /\ z[2] = p
      BY <1>7, <2>3, <3>2, <3>4, Zenon DEF WaitAt
    <3>5. CASE ~(z[1] = r /\ z[2] = p)
      <4>1. z # d
        BY <2>2, <3>5, Zenon
      <4>. QED
        BY <1>7, <3>5, <4>1 DEF WaitAt
    <3>. QED
      BY <3>3, <3>4, <3>5, Zenon
  <2>7. ASSUME NEW x, q.vc_occupancy = [P.vc_occupancy EXCEPT ![c] = x], NEW z \in RSlots
        PROVE  OccAt(T, z) = IF z = d THEN x ELSE OccAt(S, z)
    <3>1. z[3] \in Chans /\ z[1] \notin Terminals
      BY <1>9
    <3>2. q.vc_occupancy[c] = x /\ (z[3] # c => q.vc_occupancy[z[3]] = P.vc_occupancy[z[3]])
      BY <1>4, <2>7, <3>1, Zenon
    <3>3. CASE z = d
      BY <1>7, <2>2, <3>1, <3>2, <3>3 DEF OccAt
    <3>4. CASE z # d /\ z[1] = r /\ z[2] = p
      BY <1>7, <2>3, <3>1, <3>2, <3>4, Zenon DEF OccAt
    <3>5. CASE ~(z[1] = r /\ z[2] = p)
      <4>1. z # d
        BY <2>2, <3>5, Zenon
      <4>. QED
        BY <1>7, <3>1, <3>5, <4>1 DEF OccAt
    <3>. QED
      BY <3>3, <3>4, <3>5, Zenon
  <2>8. \A x : q.pending = [P.pending EXCEPT ![c] = x] => OnlyPend(S, T, d, x)
    BY <2>5, Zenon DEF OnlyPend
  <2>9. \A x : q.queued = [P.queued EXCEPT ![c] = x] => OnlyWait(S, T, d, x)
    BY <2>6, Zenon DEF OnlyWait
  <2>10. ASSUME NEW x, q.vc_occupancy = [P.vc_occupancy EXCEPT ![c] = x] PROVE OnlyOcc(S, T, d, x)
    <3>1. \A z \in Slots : z \notin RSlots => z # d
      BY <2>1, Zenon
    <3>. QED
      BY <1>10, <2>7, <2>10, <3>1, Zenon DEF OnlyOcc
  <2>. QED
    BY <2>1, <2>4, <2>8, <2>9, <2>10, Zenon DEF d, ChannelChange
<1>. QED
  BY <1>8, <1>11, <1>12, <1>13, <1>14, Zenon DEF P, s

\* what a handler's outcome does to the chunks and credits D in events: what it sends
\* is new, and the invariant holds after it
Flows(S, D, e, o) ==
  \A Pl : CreditInv(S, D, Pl) =>
    /\ NetEvents(o.sent) \cap D = {}
    /\ \E Q : CreditInv([S EXCEPT ![e.to] = o.ns], (D \ {e}) \cup NetEvents(o.sent), Q)

LEMMA FlowNone ==
  ASSUME NEW S, StatesOK(S), NEW e, NEW o, NEW D, e.to \in Terminals, e \notin D,
         NetEvents(o.sent) = {}, o.ns.vc_occupancy = S[e.to].vc_occupancy,
         o.ns.terminal_msgs = S[e.to].terminal_msgs,
         o.ns.packet_counter = S[e.to].packet_counter
  PROVE  Flows(S, D, e, o)
<1> DEFINE T == [S EXCEPT ![e.to] = o.ns]
<1>1. SamePend(S, T) /\ SameWait(S, T) /\ SameOcc(S, T) /\ SameOwn(S, T)
  BY TermAccess
<1> HIDE DEF T
<1> SUFFICES ASSUME NEW Pl, CreditInv(S, D, Pl)
             PROVE  /\ NetEvents(o.sent) \cap D = {}
                    /\ \E Q : CreditInv(T, (D \ {e}) \cup NetEvents(o.sent), Q)
  BY Zenon DEF Flows, T
<1>2. (D \ {e}) \cup NetEvents(o.sent) = D
  OBVIOUS
<1>3. CreditInv(T, D, Pl)
  BY <1>1, StepSame
<1>. QED
  BY <1>2, <1>3

\* of what a terminal sends, only arrivals and credits matter
LEMMA NetNone ==
  /\ NetEvents({}) = {}
  /\ \A f : f.type \notin NetTypes => NetEvents({f}) = {}
  /\ \A f : f.type \in NetTypes => NetEvents({f}) = {f}
  /\ \A A, B : NetEvents(A \cup B) = NetEvents(A) \cup NetEvents(B)
  BY Zenon DEF NetEvents

LEMMA FlowSchedNext ==
  ASSUME NEW S, StatesOK(S), NEW e, NEW F, NEW D, TermReady(e.to, S[e.to], F, e),
         e.type = "SCHED_NEXT", e \notin D
  PROVE  Flows(S, D, e, handle_sched_next(S[e.to], e))
<1> DEFINE s == S[e.to]
           o == handle_sched_next(s, e)
<1>1. e.to \in Terminals /\ DOMAIN s = TermFields
  BY TermDomain DEF TermReady, TermOK
<1>2. /\ NetEvents(o.sent) = {} /\ o.ns.vc_occupancy = s.vc_occupancy
      /\ o.ns.terminal_msgs = s.terminal_msgs /\ o.ns.packet_counter = s.packet_counter
  <2> HIDE DEF s
  <2>. QED
    BY <1>1 DEF handle_sched_next, sched_empty, sched_issue, Outcome, NetEvents, NetTypes,
       ArriveTypes, GenerateEvent, TermFields
<1> HIDE DEF o
<1>. QED
  BY <1>1, <1>2, FlowNone DEF o

LEMMA FlowNewMsg ==
  ASSUME NEW S, StatesOK(S), NEW e, NEW F, NEW D, TermReady(e.to, S[e.to], F, e),
         e.type = "NEW_MSG", e \notin D
  PROVE  Flows(S, D, e, handle_new_msg(S[e.to], e))
<1> DEFINE s == S[e.to]
           o == handle_new_msg(s, e)
<1>1. e.to \in Terminals /\ DOMAIN s = TermFields
  BY TermDomain DEF TermReady, TermOK
<1>2. /\ NetEvents(o.sent) = {} /\ o.ns.vc_occupancy = s.vc_occupancy
      /\ o.ns.terminal_msgs = s.terminal_msgs /\ o.ns.packet_counter = s.packet_counter
  <2> HIDE DEF s
  <2>. QED
    BY <1>1 DEF handle_new_msg, sched_empty, sched_issue, Outcome, NetEvents, NetTypes,
       ArriveTypes, GenerateEvent, TermFields
<1> HIDE DEF o
<1>. QED
  BY <1>1, <1>2, FlowNone DEF o

LEMMA FlowStall ==
  ASSUME NEW S, StatesOK(S), NEW e, NEW F, NEW D, TermReady(e.to, S[e.to], F, e), e \notin D
  PROVE  Flows(S, D, e, packet_send_stall(S[e.to], e))
<1> DEFINE s == S[e.to]
           o == packet_send_stall(s, e)
<1>1. e.to \in Terminals /\ DOMAIN s = TermFields
  BY TermDomain DEF TermReady, TermOK
<1>2. /\ NetEvents(o.sent) = {} /\ o.ns.vc_occupancy = s.vc_occupancy
      /\ o.ns.terminal_msgs = s.terminal_msgs /\ o.ns.packet_counter = s.packet_counter
  <2> HIDE DEF s
  <2>. QED
    BY <1>1 DEF packet_send_stall, Outcome, NetEvents, TermFields
<1> HIDE DEF o
<1>. QED
  BY <1>1, <1>2, FlowNone DEF o

\* the tokens that events stand for
LEMMA ArriveKey ==
  ASSUME NEW type \in ArriveTypes, NEW ts, NEW to, NEW c
  PROVE  LET g == ArriveEvent(type, ts, to, c)
         IN  g.type = type /\ EventKey(g) = << <<c.from, c.port, c.chan>>, Id(c) >>
<1> DEFINE g == ArriveEvent(type, ts, to, c)
<1>1. g.type = type /\ g.chunk = c
  BY DEF ArriveEvent
<1> HIDE DEF g
<1>2. EventKey(g) = << <<c.from, c.port, c.chan>>, Id(c) >>
  BY <1>1, Zenon DEF EventKey
<1>. QED
  BY <1>1, <1>2 DEF g

LEMMA TBufferKey ==
  ASSUME NEW ts, NEW to, NEW c, NEW why
  PROVE  LET g == TBufferEvent(to, ts, By(why, c))
         IN  g.type = "T_BUFFER" /\ EventKey(g) = <<TSlot(to), Id(c)>>
<1> DEFINE g == TBufferEvent(to, ts, By(why, c))
<1>1. g.type = "T_BUFFER" /\ g.to = to /\ g.by = By(why, c)
  BY DEF TBufferEvent
<1> HIDE DEF g
<1>2. g.type \notin ArriveTypes
  BY <1>1 DEF ArriveTypes
<1>3. EventKey(g) = <<TSlot(to), Id(c)>>
  BY <1>1, <1>2 DEF EventKey, Id, By
<1>. QED
  BY <1>1, <1>3 DEF g

LEMMA RBufferKey ==
  ASSUME NEW ts, NEW to, NEW c, NEW port, NEW chan, NEW why
  PROVE  LET g == RBufferEvent(to, ts, port, chan, By(why, c))
         IN  g.type = "R_BUFFER" /\ EventKey(g) = << <<to, port, chan>>, Id(c) >>
<1> DEFINE g == RBufferEvent(to, ts, port, chan, By(why, c))
<1>1. g.type = "R_BUFFER" /\ g.to = to /\ g.by = By(why, c) /\ g.port = port /\ g.chan = chan
  BY DEF RBufferEvent
<1> HIDE DEF g
<1>2. g.type \notin ArriveTypes /\ g.type # "T_BUFFER"
  BY <1>1 DEF ArriveTypes
<1>3. EventKey(g) = << <<to, port, chan>>, Id(c) >>
  BY <1>1, <1>2 DEF EventKey, Id, By
<1>. QED
  BY <1>1, <1>3 DEF g

LEMMA FlowGenerate ==
  ASSUME NEW S, StatesOK(S), NEW e, NEW F, NEW D, TermReady(e.to, S[e.to], F, e),
         e.type = "T_GENERATE", e \notin D
  PROVE  Flows(S, D, e, packet_generate(S[e.to], e))
<1> DEFINE t == e.to
           s == S[t]
           o == packet_generate(s, e)
           m == num_chunks_for(e.pkt.size)
           new == [i \in 1 .. m |-> Chunk(t, s.packet_counter, i - 1, e.pkt)]
           T == [S EXCEPT ![t] = o.ns]
<1>1. /\ t \in Terminals /\ DOMAIN s = TermFields /\ e.pkt \in Packet /\ s.packet_counter \in Nat
  BY TermDomain, SMTT(30) DEF TermReady, TermOK, EventOK
<1>2. NetEvents(o.sent) = {}
  <2> HIDE DEF s
  <2>. QED
    BY SMTT(30) DEF packet_generate, Outcome, NetEvents, NetTypes, ArriveTypes, SchedNextEvent, TSendEvent
<1>3. /\ o.ns.vc_occupancy = s.vc_occupancy /\ o.ns.terminal_msgs = s.terminal_msgs \o new
      /\ o.ns.packet_counter = s.packet_counter + 1
  <2> HIDE DEF s
  <2>. QED
    BY <1>1 DEF packet_generate, Outcome, TermFields
<1>4. /\ SamePend(S, T) /\ SameWait(S, T) /\ SameOcc(S, T)
      /\ OnlyOwn(S, T, t, OwnAt(S, t) \o new) /\ OnlyCount(S, T, t, CountAt(S, t) + 1)
      /\ CountAt(S, t) = s.packet_counter
  <2> HIDE DEF o, new
  <2>1. /\ SamePend(S, T) /\ SameWait(S, T) /\ SameOcc(S, T)
        /\ OnlyOwn(S, T, t, o.ns.terminal_msgs) /\ OwnAt(S, t) = s.terminal_msgs
        /\ OnlyCount(S, T, t, o.ns.packet_counter) /\ CountAt(S, t) = s.packet_counter
    <3> DEFINE ns == o.ns
    <3>1. t \in Terminals /\ T = [S EXCEPT ![t] = ns] /\ ns.vc_occupancy = S[t].vc_occupancy
      BY <1>1, <1>3
    <3> HIDE DEF T, t, ns
    <3>2. /\ SamePend(S, T) /\ SameWait(S, T) /\ (ns.vc_occupancy = S[t].vc_occupancy => SameOcc(S, T))
          /\ OnlyOwn(S, T, t, ns.terminal_msgs) /\ OwnAt(S, t) = S[t].terminal_msgs
          /\ OnlyCount(S, T, t, ns.packet_counter) /\ CountAt(S, t) = S[t].packet_counter
      BY <3>1, TermAccess
    <3>. QED
      BY <3>1, <3>2, Zenon DEF ns
  <2> HIDE DEF T, s, t
  <2>. QED
    BY <1>3, <2>1
<1>5. m \in Nat /\ new \in [1 .. m -> OwnChunk(t)]
  BY <1>1, GenerateFacts, NumChunks DEF Packet
<1>6. new \in Seq({x \in ChunkType : x.src = t}) /\ Len(new) = m
  <2> HIDE DEF new, m
  <2>1. new \in [1 .. m -> {x \in ChunkType : x.src = t}]
    BY <1>5 DEF OwnChunk
  <2>. QED
    BY <1>5, <2>1
<1>7. \A j \in 1 .. Len(new) : new[j].pid = CountAt(S, t) /\ new[j].id = j - 1
  <2> SUFFICES ASSUME NEW j \in 1 .. m PROVE new[j].pid = s.packet_counter /\ new[j].id = j - 1
    BY <1>4, <1>6
  <2>1. new[j] = Chunk(t, s.packet_counter, j - 1, e.pkt)
    OBVIOUS
  <2>. QED
    BY <2>1 DEF Chunk
<1>8. ViewOK(S)
  BY StatesView
<1> HIDE DEF o, new, T
<1> SUFFICES ASSUME NEW Pl, CreditInv(S, D, Pl)
             PROVE  /\ NetEvents(o.sent) \cap D = {}
                    /\ \E Q : CreditInv(T, (D \ {e}) \cup NetEvents(o.sent), Q)
  BY Zenon DEF Flows, T, o
<1>9. CreditInv(T, D, Pl)
  BY <1>1, <1>4, <1>6, <1>7, <1>8, StepGenerate
<1>10. (D \ {e}) \cup NetEvents(o.sent) = D
  BY <1>2
<1>. QED
  BY <1>2, <1>9, <1>10

LEMMA FlowSendChunk ==
  ASSUME NEW S, StatesOK(S), NEW e, NEW F, NEW D, TermReady(e.to, S[e.to], F, e),
         ~get_next_vcg_fails(S[e.to]), e \notin D
  PROVE  Flows(S, D, e, packet_send_chunk(S[e.to], e))
<1> DEFINE t == e.to
           s == S[t]
           o == packet_send_chunk(s, e)
           c == Head(s.terminal_msgs)
           available == MaxOf(s.available_time, e.ts) + bytes_to_ns(WireSize(c), "TERMINAL")
           ts == available + PropDelay["TERMINAL"]
           g == ArriveEvent("R_ARRIVE", ts, RouterOf[t], c)
           T == [S EXCEPT ![t] = o.ns]
<1>1. t \in Terminals /\ DOMAIN s = TermFields /\ s.terminal_msgs \in Seq(OwnChunk(t))
  BY TermDomain DEF TermReady, TermOK
<1>2. s.terminal_msgs # << >>
  BY DEF get_next_vcg_fails
<1>3. c \in OwnChunk(t)
  BY <1>1, <1>2, HeadTailProperties
<1>4. c.from = t /\ c.port = InjectionPort(t) /\ c.chan = 0
  BY <1>3 DEF OwnChunk
<1>5. NetEvents(o.sent) = {g}
  <2> HIDE DEF s, available, c, get_next_vcg_fails
  <2>1. \A a : o.sent = {g} \cup a => NetEvents(o.sent) = NetEvents({g}) \cup NetEvents(a)
    BY NetNone
  <2>. QED
    BY DEF packet_send_chunk, Outcome, NetEvents, NetTypes, ArriveTypes, SchedNextEvent,
       TSendEvent, ArriveEvent, s, available, c
<1>6. /\ o.ns.vc_occupancy = s.vc_occupancy + ChunkSize /\ o.ns.terminal_msgs = Tail(s.terminal_msgs)
      /\ o.ns.packet_counter = s.packet_counter
  <2> HIDE DEF s, get_next_vcg_fails
  <2>. QED
    BY <1>1 DEF packet_send_chunk, Outcome, TermFields
<1>7. EventKey(g) = <<TSlot(t), Id(c)>>
  <2> HIDE DEF c, ts
  <2>1. EventKey(g) = << <<c.from, c.port, c.chan>>, Id(c) >>
    <3>1. "R_ARRIVE" \in ArriveTypes
      BY DEF ArriveTypes
    <3>. QED
      BY <3>1, ArriveKey
  <2>. QED
    BY <1>4, <2>1 DEF TSlot
<1> HIDE DEF o, g
<1>8. /\ SamePend(S, T) /\ SameWait(S, T)
      /\ OnlyOcc(S, T, TSlot(t), OccAt(S, TSlot(t)) + ChunkSize)
      /\ OnlyOwn(S, T, t, Tail(OwnAt(S, t))) /\ OnlyCount(S, T, t, CountAt(S, t))
      /\ OwnAt(S, t) = s.terminal_msgs
  BY <1>1, <1>6, TermAccess
<1>9. ViewOK(S)
  BY StatesView
<1> HIDE DEF T
<1> SUFFICES ASSUME NEW Pl, CreditInv(S, D, Pl)
             PROVE  /\ NetEvents(o.sent) \cap D = {}
                    /\ \E Q : CreditInv(T, (D \ {e}) \cup NetEvents(o.sent), Q)
  BY Zenon DEF Flows, T, o
<1>10. g \notin D /\ \E Q : CreditInv(T, D \cup {g}, Q)
  BY <1>1, <1>2, <1>7, <1>8, <1>9, StepInject
<1>11. (D \ {e}) \cup NetEvents(o.sent) = D \cup {g}
  BY <1>5
<1>. QED
  BY <1>5, <1>10, <1>11

LEMMA FlowArrive ==
  ASSUME NEW S, StatesOK(S), NEW e, NEW F, NEW D, TermReady(e.to, S[e.to], F, e),
         e.type = "T_ARRIVE", e \in D
  PROVE  Flows(S, D, e, packet_arrive(S[e.to], e))
<1> DEFINE t == e.to
           s == S[t]
           o == packet_arrive(s, e)
           c == e.chunk
           ts == e.ts + CreditDelay["TERMINAL"]
           g == RBufferEvent(c.from, ts, c.port, c.chan, By("ejected", c))
           T == [S EXCEPT ![t] = o.ns]
<1>1. t \in Terminals /\ DOMAIN s = TermFields
  BY TermDomain DEF TermReady, TermOK
<1>2. NetEvents(o.sent) = {g}
  <2> HIDE DEF s
  <2> DEFINE f == NotifyEvent(e.ts + Lookahead, c)
             told == Notify /\ SizeLeft(s, c) = 0 /\ ~(PacketId(c) \in s.zombies)
  <2>1. o.sent = {g} \cup (IF told THEN {f} ELSE {}) /\ f.type = "T_NOTIFY"
    <3>1. o.sent = {g} \cup (IF told THEN {f} ELSE {})
      BY Zenon DEF packet_arrive, Outcome
    <3>2. f.type = "T_NOTIFY"
      BY DEF NotifyEvent
    <3>. QED
      BY <3>1, <3>2
  <2>2. g.type = "R_BUFFER"
    BY DEF RBufferEvent
  <2> HIDE DEF g, o, f, told
  <2>. QED
    BY <2>1, <2>2 DEF NetEvents, NetTypes, ArriveTypes
<1>3. /\ o.ns.vc_occupancy = s.vc_occupancy /\ o.ns.terminal_msgs = s.terminal_msgs
      /\ o.ns.packet_counter = s.packet_counter
  <2> HIDE DEF s
  <2>. QED
    BY <1>1 DEF packet_arrive, Outcome, TermFields
<1>4. EventKey(g) = EventKey(e) /\ g.type = "R_BUFFER"
  <2> HIDE DEF c, ts
  <2>1. EventKey(g) = << <<c.from, c.port, c.chan>>, Id(c) >> /\ g.type = "R_BUFFER"
    BY RBufferKey
  <2>2. EventKey(e) = << <<c.from, c.port, c.chan>>, Id(c) >>
    BY DEF EventKey, ArriveTypes, c
  <2>. QED
    BY <2>1, <2>2
<1> HIDE DEF o, g
<1>5. SamePend(S, T) /\ SameWait(S, T) /\ SameOcc(S, T) /\ SameOwn(S, T)
  BY <1>1, <1>3, TermAccess
<1>6. ViewOK(S)
  BY StatesView
<1>7. g # e /\ (g.type \in ArriveTypes => e.type \in ArriveTypes)
  BY <1>4 DEF ArriveTypes
<1> HIDE DEF T
<1> SUFFICES ASSUME NEW Pl, CreditInv(S, D, Pl)
             PROVE  /\ NetEvents(o.sent) \cap D = {}
                    /\ \E Q : CreditInv(T, (D \ {e}) \cup NetEvents(o.sent), Q)
  BY Zenon DEF Flows, T, o
<1>8. g \notin D /\ \E Q : CreditInv(T, (D \ {e}) \cup {g}, Q)
  BY <1>4, <1>5, <1>6, <1>7, StepEvent
<1>. QED
  BY <1>2, <1>8

LEMMA FlowBuffer ==
  ASSUME NEW S, StatesOK(S), NEW e, NEW F, NEW D, TermReady(e.to, S[e.to], F, e),
         e.type = "T_BUFFER", e \in D
  PROVE  Flows(S, D, e, terminal_buf_update(S[e.to], e))
<1> DEFINE t == e.to
           s == S[t]
           o == terminal_buf_update(s, e)
           T == [S EXCEPT ![t] = o.ns]
<1>1. t \in Terminals /\ DOMAIN s = TermFields
  BY TermDomain DEF TermReady, TermOK
<1>2. NetEvents(o.sent) = {}
  <2> HIDE DEF s
  <2>. QED
    BY DEF terminal_buf_update, Outcome, NetEvents, NetTypes, ArriveTypes, TSendEvent
<1>3. /\ o.ns.vc_occupancy = s.vc_occupancy - ChunkSize /\ o.ns.terminal_msgs = s.terminal_msgs
      /\ o.ns.packet_counter = s.packet_counter
  <2> HIDE DEF s
  <2>. QED
    BY <1>1 DEF terminal_buf_update, Outcome, TermFields
<1> HIDE DEF o
<1>4. /\ SamePend(S, T) /\ SameWait(S, T) /\ SameOwn(S, T)
      /\ OnlyOcc(S, T, TSlot(t), OccAt(S, TSlot(t)) - ChunkSize)
  BY <1>1, <1>3, TermAccess
<1>5. TSlot(t) = EventKey(e)[1]
  BY DEF EventKey, ArriveTypes
<1>6. ViewOK(S)
  BY StatesView
<1> HIDE DEF T
<1> SUFFICES ASSUME NEW Pl, CreditInv(S, D, Pl)
             PROVE  /\ NetEvents(o.sent) \cap D = {}
                    /\ \E Q : CreditInv(T, (D \ {e}) \cup NetEvents(o.sent), Q)
  BY Zenon DEF Flows, T, o
<1>7. \E Q : CreditInv(T, D \ {e}, Q)
  BY <1>4, <1>5, <1>6, StepFree
<1>8. (D \ {e}) \cup NetEvents(o.sent) = D \ {e}
  BY <1>2
<1>. QED
  BY <1>2, <1>7, <1>8

\* of what a router sends, one event may carry a chunk or a credit
LEMMA NetOne ==
  ASSUME NEW sent, NEW g, NEW f, NEW wake, sent = {g} \cup (IF wake THEN {f} ELSE {}),
         g.type \in NetTypes, f.type = "R_SEND"
  PROVE  NetEvents(sent) = {g}
  BY DEF NetEvents, NetTypes, ArriveTypes

LEMMA CreditKey ==
  ASSUME NEW k, NEW port, NEW chan, Upstream(k, port, chan), NEW now
  PROVE  LET g == router_credit_send(now, k, port, chan)
         IN  /\ g.type \in {"T_BUFFER", "R_BUFFER"} /\ g.type \in NetTypes /\ g.type \notin ArriveTypes
             /\ EventKey(g) = << <<k.from, port, chan>>, Id(k) >>
<1> DEFINE g == router_credit_send(now, k, port, chan)
<1>1. CASE k.rt.last_hop = "TERMINAL"
  <2> DEFINE ts == now + CreditDelay["TERMINAL"]
  <2>1. g = TBufferEvent(k.from, ts, By("injected", k))
    BY <1>1 DEF router_credit_send
  <2>2. port = InjectionPort(k.from) /\ chan = 0
    BY <1>1 DEF Upstream
  <2> HIDE DEF ts, g
  <2>3. g.type = "T_BUFFER" /\ EventKey(g) = <<TSlot(k.from), Id(k)>>
    BY <2>1, TBufferKey
  <2>4. EventKey(g) = << <<k.from, port, chan>>, Id(k) >>
    BY <2>2, <2>3 DEF TSlot
  <2>. QED
    BY <2>3, <2>4 DEF g, NetTypes, ArriveTypes
<1>2. CASE k.rt.last_hop # "TERMINAL"
  <2> DEFINE ts == now + CreditDelay[k.rt.last_hop]
  <2>1. g = RBufferEvent(k.from, ts, port, chan, By("moved", k))
    BY <1>2 DEF router_credit_send
  <2> HIDE DEF ts, g
  <2>2. g.type = "R_BUFFER" /\ EventKey(g) = << <<k.from, port, chan>>, Id(k) >>
    BY <2>1, RBufferKey
  <2>. QED
    BY <2>2 DEF g, NetTypes, ArriveTypes
<1>. QED
  BY <1>1, <1>2

LEMMA RoutedIds ==
  ASSUME NEW c \in ChunkType, NEW n
  PROVE  /\ Id(Routed(c, n)) = Id(c) /\ Id(Waiting(c, n)) = Id(c)
         /\ Waiting(c, n).from = c.from /\ Waiting(c, n).saved_port = c.port
         /\ Waiting(c, n).saved_chan = c.chan
<1>1. DOMAIN c = {"src", "pid", "id", "msg", "size", "last", "rt", "from", "port", "chan",
                  "saved_port", "saved_chan"}
  BY DEF ChunkType
<1>. QED
  BY <1>1, Zenon DEF Routed, Waiting, Id

LEMMA FlowReceiveFits ==
  ASSUME NEW S, StatesOK(S), NEW e, NEW F, NEW D, RouterReady(e.to, S[e.to], F, e),
         e.type = "R_ARRIVE", e \in D, NEW n \in NextHops(Algorithm, e.to, e.chunk.rt),
         S[e.to][n.conn].vc_occupancy[n.chan] + ChunkSize <= VcSize[n.conn.kind]
  PROVE  Flows(S, D, e, router_packet_receive(S[e.to], e, n))
<1> DEFINE r == e.to
           s == S[r]
           o == router_packet_receive(s, e, n)
           c == e.chunk
           P == n.conn
           ch == n.chan
           p == s[P]
           d == <<r, P, ch>>
           new == Routed(c, n)
           wake == ~p.in_send_loop
           pend == [p.pending EXCEPT ![ch] = Append(p.pending[ch], new)]
           occ == [p.vc_occupancy EXCEPT ![ch] = p.vc_occupancy[ch] + ChunkSize]
           q == [p EXCEPT !.pending = pend, !.vc_occupancy = occ, !.in_send_loop = TRUE]
           g == router_credit_send(e.ts, c, c.port, c.chan)
           f == RSendEvent(e.to, MaxOf(p.next_available, e.ts), n.conn, By("receive", c))
           T == [S EXCEPT ![r] = o.ns]
<1>1. /\ r \in Routers /\ c \in ChunkType /\ OnWay(r, c.rt, c.port, c.chan)
      /\ Upstream(c, c.port, c.chan)
  BY DEF RouterReady, EventOK
<1>2. P \in Ports(r) /\ ch \in Chans /\ ChannelRank(c.port, c.chan) < ChannelRank(P, ch)
  BY <1>1, HopFacts
<1>3. DOMAIN p = PortFields
  BY <1>2, PortLoopFacts
<1>4. o.ns = [s EXCEPT ![P] = q]
  <2>1. (s[n.conn].vc_occupancy[n.chan] + ChunkSize <= VcSize[n.conn.kind]) = TRUE
    OBVIOUS
  <2>. QED
    BY <2>1, Zenon DEF router_packet_receive, Outcome, Routed
<1>5. o.sent = {g} \cup (IF wake THEN {f} ELSE {})
  BY DEF router_packet_receive, Outcome
<1>6. f.type = "R_SEND"
  BY DEF RSendEvent
<1>7. /\ g.type \in NetTypes /\ g.type \notin ArriveTypes
      /\ EventKey(g) = << <<c.from, c.port, c.chan>>, Id(c) >>
  <2> HIDE DEF c
  <2>. QED
    BY <1>1, CreditKey
<1>8. new \in ChunkType /\ Id(new) = Id(c)
  <2>1. new \in LeavingChunk(r, P, ch)
    BY <1>1, RoutedChunk
  <2>. QED
    BY <1>1, <2>1, RoutedIds DEF LeavingChunk
<1> HIDE DEF o, g, f, new
<1>9. NetEvents(o.sent) = {g}
  <2> HIDE DEF wake
  <2>. QED
    BY <1>5, <1>6, <1>7, NetOne
<1>10. q.pending = pend /\ q.vc_occupancy = occ /\ q.queued = p.queued
  <2> HIDE DEF pend, occ, p
  <2>. QED
    BY <1>3, Zenon DEF PortFields
<1>11. EventKey(e) = << <<c.from, c.port, c.chan>>, Id(c) >> /\ e.type \in ArriveTypes
  BY DEF EventKey, ArriveTypes
<1> HIDE DEF q, c
<1>12. EventKey(g) = EventKey(e) /\ Id(new) = EventKey(e)[2] /\ g # e
  BY <1>7, <1>8, <1>11
<1>13. SlotRank(EventKey(e)[1]) < SlotRank(d)
  BY <1>2, <1>11 DEF SlotRank
<1>14. PortChange(S, T, r, P, q)
  BY <1>1, <1>2, <1>4, Zenon DEF PortChange
<1> HIDE DEF T
<1>15. /\ d \in RSlots /\ SameOwn(S, T) /\ SameWait(S, T)
       /\ PendAt(S, d) = p.pending[ch] /\ OccAt(S, d) = p.vc_occupancy[ch]
       /\ OnlyPend(S, T, d, Append(p.pending[ch], new))
       /\ OnlyOcc(S, T, d, p.vc_occupancy[ch] + ChunkSize)
  <2> HIDE DEF r, P, ch, p
  <2>1. SameOwn(S, T) /\ SameWait(S, T) /\ ChannelChange(S, T, p, q, ch, d)
    <3>1. /\ SameOwn(S, T) /\ (q.queued = S[r][P].queued => SameWait(S, T))
          /\ \A i \in Chans : ChannelChange(S, T, S[r][P], q, i, <<r, P, i>>)
      BY <1>14, RouterAccess, Zenon
    <3>. QED
      BY <1>2, <1>10, <3>1 DEF p, s
  <2> HIDE DEF d
  <2>2. /\ d \in RSlots /\ PendAt(S, d) = p.pending[ch] /\ OccAt(S, d) = p.vc_occupancy[ch]
        /\ OnlyPend(S, T, d, Append(p.pending[ch], new))
        /\ OnlyOcc(S, T, d, p.vc_occupancy[ch] + ChunkSize)
    BY <1>10, <2>1, Zenon DEF ChannelChange
  <2>. QED
    BY <2>1, <2>2
<1>16. ViewOK(S)
  BY StatesView
<1> SUFFICES ASSUME NEW Pl, CreditInv(S, D, Pl)
             PROVE  /\ NetEvents(o.sent) \cap D = {}
                    /\ \E Q : CreditInv(T, (D \ {e}) \cup NetEvents(o.sent), Q)
  BY Zenon DEF Flows, T, o
<1> HIDE DEF d, r, P, ch, s, p
<1>17. g \notin D /\ \E Q : CreditInv(T, (D \ {e}) \cup {g}, Q)
  BY <1>7, <1>8, <1>11, <1>12, <1>13, <1>15, <1>16, StepEnter
<1>. QED
  BY <1>9, <1>17

LEMMA FlowReceiveWaits ==
  ASSUME NEW S, StatesOK(S), NEW e, NEW F, NEW D, RouterReady(e.to, S[e.to], F, e),
         e.type = "R_ARRIVE", e \in D, NEW n \in NextHops(Algorithm, e.to, e.chunk.rt),
         ~(S[e.to][n.conn].vc_occupancy[n.chan] + ChunkSize <= VcSize[n.conn.kind])
  PROVE  Flows(S, D, e, router_packet_receive(S[e.to], e, n))
<1> DEFINE r == e.to
           s == S[r]
           o == router_packet_receive(s, e, n)
           c == e.chunk
           P == n.conn
           ch == n.chan
           p == s[P]
           d == <<r, P, ch>>
           new == Waiting(c, n)
           wait == [p.queued EXCEPT ![ch] = Append(p.queued[ch], new)]
           since == IF p.last_buf_full = 0 THEN e.ts ELSE p.last_buf_full
           q == [p EXCEPT !.queued = wait, !.queued_count = p.queued_count + ChunkSize,
                          !.last_buf_full = since]
           T == [S EXCEPT ![r] = o.ns]
<1>1. /\ r \in Routers /\ c \in ChunkType /\ OnWay(r, c.rt, c.port, c.chan)
      /\ Upstream(c, c.port, c.chan)
  BY DEF RouterReady, EventOK
<1>2. P \in Ports(r) /\ ch \in Chans
  BY <1>1, HopFacts
<1>3. DOMAIN p = PortFields
  BY <1>2, PortLoopFacts
<1>4. o.ns = [s EXCEPT ![P] = q]
  <2>1. (s[n.conn].vc_occupancy[n.chan] + ChunkSize <= VcSize[n.conn.kind]) = FALSE
    OBVIOUS
  <2>. QED
    BY <2>1, Zenon DEF router_packet_receive, Outcome, Routed, Waiting
<1>5. NetEvents(o.sent) = {}
  <2>1. o.sent = {}
    BY DEF router_packet_receive, Outcome
  <2>. QED
    BY <2>1, NetNone
<1>6. /\ new \in ChunkType /\ Id(new) = Id(c) /\ new.from = c.from
      /\ new.saved_port = c.port /\ new.saved_chan = c.chan
  <2>1. new \in WaitingChunk(r, P, ch)
    BY <1>1, RoutedChunk
  <2>. QED
    BY <1>1, <2>1, RoutedIds DEF WaitingChunk, LeavingChunk
<1> HIDE DEF o, new
<1>7. q.pending = p.pending /\ q.vc_occupancy = p.vc_occupancy /\ q.queued = wait
  <2> HIDE DEF wait, since, p
  <2>. QED
    BY <1>3, Zenon DEF PortFields
<1>8. EventKey(e) = << <<c.from, c.port, c.chan>>, Id(c) >> /\ e.type \in ArriveTypes
  BY DEF EventKey, ArriveTypes
<1> HIDE DEF q, c
<1>9. KeyOf("wait", d, new) = EventKey(e)
  BY <1>6, <1>8 DEF KeyOf
<1>10. PortChange(S, T, r, P, q)
  BY <1>1, <1>2, <1>4, Zenon DEF PortChange
<1> HIDE DEF T
<1>11. /\ d \in RSlots /\ SameOwn(S, T) /\ SamePend(S, T) /\ SameOcc(S, T)
       /\ WaitAt(S, d) = p.queued[ch] /\ OnlyWait(S, T, d, Append(p.queued[ch], new))
  <2> HIDE DEF r, P, ch, p
  <2>1. /\ SameOwn(S, T) /\ SamePend(S, T) /\ SameOcc(S, T)
        /\ ChannelChange(S, T, p, q, ch, d)
    <3>1. /\ SameOwn(S, T) /\ (q.pending = S[r][P].pending => SamePend(S, T))
          /\ (q.vc_occupancy = S[r][P].vc_occupancy => SameOcc(S, T))
          /\ \A i \in Chans : ChannelChange(S, T, S[r][P], q, i, <<r, P, i>>)
      BY <1>10, RouterAccess, Zenon
    <3>. QED
      BY <1>2, <1>7, <3>1 DEF p, s
  <2> HIDE DEF d
  <2>2. /\ d \in RSlots /\ WaitAt(S, d) = p.queued[ch]
        /\ OnlyWait(S, T, d, Append(p.queued[ch], new))
    BY <1>7, <2>1, Zenon DEF ChannelChange
  <2>. QED
    BY <2>1, <2>2
<1>12. ViewOK(S)
  BY StatesView
<1> SUFFICES ASSUME NEW Pl, CreditInv(S, D, Pl)
             PROVE  /\ NetEvents(o.sent) \cap D = {}
                    /\ \E Q : CreditInv(T, (D \ {e}) \cup NetEvents(o.sent), Q)
  BY Zenon DEF Flows, T, o
<1> HIDE DEF d, r, P, ch, s, p
<1>13. \E Q : CreditInv(T, D \ {e}, Q)
  BY <1>6, <1>8, <1>9, <1>11, <1>12, StepWait
<1>14. (D \ {e}) \cup NetEvents(o.sent) = D \ {e}
  BY <1>5
<1>. QED
  BY <1>5, <1>13, <1>14

LEMMA FlowSendNone ==
  ASSUME NEW S, StatesOK(S), NEW e, NEW F, NEW D, RouterReady(e.to, S[e.to], F, e),
         e.type = "R_SEND", e \notin D
  PROVE  Flows(S, D, e, router_send_none(S[e.to], e))
<1> DEFINE r == e.to
           s == S[r]
           o == router_send_none(s, e)
           P == e.port
           p == s[P]
           c2 == p.queued_count > 0 /\ p.last_buf_full = 0
           since == IF c2 THEN e.ts ELSE p.last_buf_full
           q == [p EXCEPT !.in_send_loop = FALSE, !.last_buf_full = since]
           T == [S EXCEPT ![r] = o.ns]
<1>1. r \in Routers /\ P \in Ports(r)
  BY DEF RouterReady, EventOK
<1>2. DOMAIN p = PortFields
  BY <1>1, PortLoopFacts
<1>3. o.ns = [s EXCEPT ![P] = q] /\ o.sent = {}
  BY Zenon DEF router_send_none, Outcome
<1>4. NetEvents(o.sent) = {}
  BY <1>3, NetNone
<1>5. q.pending = p.pending /\ q.vc_occupancy = p.vc_occupancy /\ q.queued = p.queued
  <2> HIDE DEF since, p
  <2>. QED
    BY <1>2, Zenon DEF PortFields
<1> HIDE DEF o, q
<1>6. PortChange(S, T, r, P, q)
  BY <1>1, <1>3, Zenon DEF PortChange
<1> HIDE DEF T
<1>7. SamePend(S, T) /\ SameWait(S, T) /\ SameOcc(S, T) /\ SameOwn(S, T)
  BY <1>5, <1>6, RouterAccess, Zenon
<1> SUFFICES ASSUME NEW Pl, CreditInv(S, D, Pl)
             PROVE  /\ NetEvents(o.sent) \cap D = {}
                    /\ \E Q : CreditInv(T, (D \ {e}) \cup NetEvents(o.sent), Q)
  BY Zenon DEF Flows, T, o
<1>8. (D \ {e}) \cup NetEvents(o.sent) = D
  BY <1>4
<1>9. CreditInv(T, D, Pl)
  BY <1>7, StepSame
<1>. QED
  BY <1>4, <1>8, <1>9

LEMMA FlowSendPort ==
  ASSUME NEW S, StatesOK(S), NEW e, NEW F, NEW D, RouterReady(e.to, S[e.to], F, e),
         e.type = "R_SEND", e \notin D, HasPending(S[e.to][e.port])
  PROVE  Flows(S, D, e, router_send_chunk(S[e.to], e))
<1> DEFINE r == e.to
           s == S[r]
           o == router_send_chunk(s, e)
           P == e.port
           p == s[P]
           kind == e.port.kind
           ch == get_next_router_vcg(p)
           d == <<r, P, ch>>
           c == Head(p.pending[ch])
           leaves == MaxOf(p.next_available, e.ts) + injection_delay(c, kind)
           free == leaves - RouterDelay
           busy == p.last_buf_full # 0
           pend == [p.pending EXCEPT ![ch] = Tail(p.pending[ch])]
           q1 == [p EXCEPT !.pending[ch] = Tail(@), !.last_qos_lvl = ch, !.next_available = free,
                           !.busy_time = IF busy THEN @ + (e.ts - p.last_buf_full) ELSE @,
                           !.last_buf_full = 0, !.link_traffic = @ + TrafficSize(c)]
           more == HasPending(q1)
           loop == IF more THEN q1.in_send_loop ELSE FALSE
           q == [q1 EXCEPT !.in_send_loop = loop]
           hop == IF kind = "GLOBAL" THEN "GLOBAL" ELSE "LOCAL"
           out == [c EXCEPT !.rt = Hop(c.rt, hop), !.from = e.to]
           type == IF kind = "TERMINAL" THEN "T_ARRIVE" ELSE "R_ARRIVE"
           ts == leaves + PropDelay[kind]
           g == ArriveEvent(type, ts, e.port.to, out)
           f == RSendEvent(e.to, free, e.port, By("send", c))
           T == [S EXCEPT ![r] = o.ns]
<1>1. r \in Routers /\ P \in Ports(r)
  BY DEF RouterReady, EventOK
<1>2. DOMAIN p = PortFields /\ PortOK(r, P, p)
  BY <1>1, PortLoopFacts
<1>3. p.pending \in Pendings(r, P) /\ p.last_qos_lvl \in Int
  BY <1>2, Zenon DEF PortOK
<1>4. o.ns = [s EXCEPT ![P] = q]
  BY Zenon DEF router_send_chunk, Outcome
<1>5. o.sent = {g} \cup (IF more THEN {f} ELSE {})
  BY Zenon DEF router_send_chunk, Outcome
<1> HIDE DEF o
<1>6. ch \in Chans /\ p.pending[ch] # << >>
  BY <1>3, NextChannel
<1> HIDE DEF ch
<1>7. p.pending[ch] \in Seq(LeavingChunk(r, P, ch)) /\ p.pending \in [Chans -> Seq(ChunkType)]
  BY <1>3, <1>6 DEF Pendings
<1>8. c \in LeavingChunk(r, P, ch)
  BY <1>6, <1>7, FrontOfQueue
<1>9. /\ out.from = r /\ out.port = P /\ out.chan = ch /\ Id(out) = Id(c)
  <2> HIDE DEF c
  <2>1. c \in ChunkType /\ c.port = P /\ c.chan = ch
    BY <1>8 DEF LeavingChunk
  <2>2. DOMAIN c = {"src", "pid", "id", "msg", "size", "last", "rt", "from", "port", "chan",
                    "saved_port", "saved_chan"}
    BY <2>1 DEF ChunkType
  <2> HIDE DEF P
  <2>. QED
    BY <2>1, <2>2, Zenon DEF Id
<1>10. type \in ArriveTypes /\ type \in NetTypes
  BY DEF ArriveTypes, NetTypes
<1>11. f.type = "R_SEND"
  BY DEF RSendEvent
<1>12. q.pending = pend /\ q.vc_occupancy = p.vc_occupancy /\ q.queued = p.queued
  <2> HIDE DEF p, free, c, busy
  <2>1. /\ DOMAIN q1 = PortFields /\ q1.pending = pend /\ q1.vc_occupancy = p.vc_occupancy
        /\ q1.queued = p.queued
    BY <1>2, Zenon DEF PortFields
  <2> HIDE DEF q1, loop
  <2>. QED
    BY <2>1, Zenon DEF PortFields
<1> HIDE DEF out, ts, type, f, q, more
<1>13. /\ g.type = type /\ EventKey(g) = << <<out.from, out.port, out.chan>>, Id(out) >>
  BY <1>10, ArriveKey
<1>14. EventKey(g) = <<d, Id(c)>>
  BY <1>9, <1>13
<1> HIDE DEF g
<1>15. NetEvents(o.sent) = {g}
  BY <1>5, <1>10, <1>11, <1>13, NetOne
<1>16. PortChange(S, T, r, P, q)
  BY <1>1, <1>4, Zenon DEF PortChange
<1> HIDE DEF T
<1>17. /\ d \in RSlots /\ SameOwn(S, T) /\ SameWait(S, T) /\ SameOcc(S, T)
       /\ PendAt(S, d) = p.pending[ch] /\ OnlyPend(S, T, d, Tail(p.pending[ch]))
  <2> HIDE DEF r, P, p
  <2>1. SameOwn(S, T) /\ SameWait(S, T) /\ SameOcc(S, T) /\ ChannelChange(S, T, p, q, ch, d)
    <3>1. /\ SameOwn(S, T) /\ (q.queued = S[r][P].queued => SameWait(S, T))
          /\ (q.vc_occupancy = S[r][P].vc_occupancy => SameOcc(S, T))
          /\ \A i \in Chans : ChannelChange(S, T, S[r][P], q, i, <<r, P, i>>)
      BY <1>16, RouterAccess, Zenon
    <3>. QED
      BY <1>6, <1>12, <3>1 DEF p, s
  <2> HIDE DEF d
  <2>2. /\ d \in RSlots /\ PendAt(S, d) = p.pending[ch] /\ OnlyPend(S, T, d, Tail(p.pending[ch]))
    BY <1>12, <2>1, Zenon DEF ChannelChange
  <2>. QED
    BY <2>1, <2>2
<1>18. ViewOK(S)
  BY StatesView
<1> SUFFICES ASSUME NEW Pl, CreditInv(S, D, Pl)
             PROVE  /\ NetEvents(o.sent) \cap D = {}
                    /\ \E Q : CreditInv(T, (D \ {e}) \cup NetEvents(o.sent), Q)
  BY Zenon DEF Flows, T, o
<1> HIDE DEF d, r, P, s, p
<1>19. g \notin D /\ \E Q : CreditInv(T, D \cup {g}, Q)
  <2>1. PendAt(S, d) # << >> /\ EventKey(g) = <<d, Id(Head(PendAt(S, d)))>>
    BY <1>6, <1>14, <1>17
  <2>2. OnlyPend(S, T, d, Tail(PendAt(S, d)))
    BY <1>17
  <2>. QED
    BY <1>17, <1>18, <2>1, <2>2, StepLeave
<1>20. (D \ {e}) \cup NetEvents(o.sent) = D \cup {g}
  BY <1>15
<1>. QED
  BY <1>15, <1>19, <1>20

LEMMA FlowCreditFrees ==
  ASSUME NEW S, StatesOK(S), NEW e, NEW F, NEW D, RouterReady(e.to, S[e.to], F, e),
         e.type = "R_BUFFER", e \in D, S[e.to][e.port].queued[e.chan] = << >>
  PROVE  Flows(S, D, e, router_buf_update(S[e.to], e))
<1> DEFINE r == e.to
           s == S[r]
           o == router_buf_update(s, e)
           P == e.port
           p == s[P]
           ch == e.chan
           d == <<r, P, ch>>
           c3 == p.last_buf_full > 0
           freed == [p EXCEPT !.vc_occupancy[ch] = @ - ChunkSize,
                              !.busy_time = IF c3 THEN @ + (e.ts - p.last_buf_full) ELSE @,
                              !.last_buf_full = 0]
           less == [p.vc_occupancy EXCEPT ![ch] = p.vc_occupancy[ch] - ChunkSize]
           c2 == ~p.in_send_loop /\ freed.pending[ch] # << >>
           loop == freed.in_send_loop \/ c2
           q == [freed EXCEPT !.in_send_loop = loop]
           f == RSendEvent(e.to, MaxOf(p.next_available, e.ts), e.port,
                           <<"credit", e.by[2], e.by[3], e.by[4]>>)
           T == [S EXCEPT ![r] = o.ns]
<1>1. r \in Routers /\ P \in Ports(r) /\ ch \in Chans
  BY DEF RouterReady, EventOK
<1>2. DOMAIN p = PortFields
  BY <1>1, PortLoopFacts
<1>3. o.ns = [s EXCEPT ![P] = q]
  BY Zenon DEF router_buf_update, Outcome
<1>4. o.sent = {} \cup (IF c2 THEN {f} ELSE {})
  BY Zenon DEF router_buf_update, Outcome
<1>5. NetEvents(o.sent) = {}
  <2>1. f.type = "R_SEND"
    BY DEF RSendEvent
  <2> HIDE DEF o, c2, f
  <2>. QED
    BY <1>4, <2>1 DEF NetEvents, NetTypes, ArriveTypes
<1> HIDE DEF o
<1>6. q.pending = p.pending /\ q.vc_occupancy = less /\ q.queued = p.queued
  <2> HIDE DEF p, c3, ch
  <2>1. /\ DOMAIN freed = PortFields /\ freed.pending = p.pending /\ freed.vc_occupancy = less
        /\ freed.queued = p.queued
    BY <1>2, Zenon DEF PortFields
  <2> HIDE DEF freed, loop
  <2>. QED
    BY <2>1, Zenon DEF PortFields
<1>7. d = EventKey(e)[1]
  BY DEF EventKey, ArriveTypes
<1> HIDE DEF q
<1>8. PortChange(S, T, r, P, q)
  BY <1>1, <1>3, Zenon DEF PortChange
<1> HIDE DEF T
<1>9. /\ SameOwn(S, T) /\ SameWait(S, T) /\ SamePend(S, T)
      /\ OccAt(S, d) = p.vc_occupancy[ch] /\ OnlyOcc(S, T, d, p.vc_occupancy[ch] - ChunkSize)
  <2> HIDE DEF r, P, p, ch
  <2>1. SameOwn(S, T) /\ SameWait(S, T) /\ SamePend(S, T) /\ ChannelChange(S, T, p, q, ch, d)
    <3>1. /\ SameOwn(S, T) /\ (q.queued = S[r][P].queued => SameWait(S, T))
          /\ (q.pending = S[r][P].pending => SamePend(S, T))
          /\ \A i \in Chans : ChannelChange(S, T, S[r][P], q, i, <<r, P, i>>)
      BY <1>8, RouterAccess, Zenon
    <3>. QED
      BY <1>1, <1>6, <3>1 DEF p, s
  <2> HIDE DEF d
  <2>2. OccAt(S, d) = p.vc_occupancy[ch] /\ OnlyOcc(S, T, d, p.vc_occupancy[ch] - ChunkSize)
    BY <1>6, <2>1, Zenon DEF ChannelChange
  <2>. QED
    BY <2>1, <2>2
<1>10. ViewOK(S)
  BY StatesView
<1> SUFFICES ASSUME NEW Pl, CreditInv(S, D, Pl)
             PROVE  /\ NetEvents(o.sent) \cap D = {}
                    /\ \E Q : CreditInv(T, (D \ {e}) \cup NetEvents(o.sent), Q)
  BY Zenon DEF Flows, T, o
<1> HIDE DEF d, r, P, s, p, ch
<1>11. \E Q : CreditInv(T, D \ {e}, Q)
  BY <1>7, <1>9, <1>10, StepFree
<1>12. (D \ {e}) \cup NetEvents(o.sent) = D \ {e}
  BY <1>5
<1>. QED
  BY <1>5, <1>11, <1>12

\* a credit arrives and a waiting chunk takes the place: v1 is the view between
LEMMA StepFreeMove ==
  ASSUME NEW v, NEW v1, NEW v2, NEW D, NEW Pl, ViewOK(v), CreditInv(v, D, Pl), NEW e \in D,
         NEW d \in RSlots, d = EventKey(e)[1], OccAt(v, d) \in Int,
         SamePend(v, v1), SameWait(v, v1), OnlyOcc(v, v1, d, OccAt(v, d) - ChunkSize), SameOwn(v, v1),
         WaitAt(v, d) # << >>, NEW k, k = Head(WaitAt(v, d)), k \in ChunkType,
         NEW g, g.type \notin ArriveTypes, EventKey(g) = KeyOf("wait", d, k),
         SlotRank(EventKey(g)[1]) < SlotRank(d),
         OnlyPend(v, v2, d, Append(PendAt(v, d), k)), OnlyWait(v, v2, d, Tail(WaitAt(v, d))),
         SameOcc(v, v2), SameOwn(v, v2)
  PROVE  g \notin D /\ \E Q : CreditInv(v2, (D \ {e}) \cup {g}, Q)
<1>1. PICK Q1 : CreditInv(v1, D \ {e}, Q1)
  BY StepFree
<1>2. d \in Slots
  BY SlotFacts, Zenon
<1>3. ViewOK(v1)
  <2>1. \A z \in RSlots : PendAt(v1, z) \in Seq(ChunkType) /\ WaitAt(v1, z) \in Seq(ChunkType)
    BY Zenon DEF ViewOK, SamePend, SameWait
  <2>2. \A t \in Terminals : OwnAt(v1, t) \in Seq({x \in ChunkType : x.src = t})
    BY Zenon DEF ViewOK, SameOwn
  <2>. QED
    BY <2>1, <2>2, Zenon DEF ViewOK
<1>4. WaitAt(v1, d) = WaitAt(v, d) /\ PendAt(v1, d) = PendAt(v, d)
  BY Zenon DEF SamePend, SameWait
<1>5. OnlyPend(v1, v2, d, Append(PendAt(v1, d), k))
  BY <1>4, Zenon DEF OnlyPend, SamePend
<1>6. OnlyWait(v1, v2, d, Tail(WaitAt(v1, d)))
  BY <1>4, Zenon DEF OnlyWait, SameWait
<1>7. OccAt(v1, d) = OccAt(v, d) - ChunkSize
  BY <1>2, Zenon DEF OnlyOcc
<1>8. OccAt(v1, d) + ChunkSize = OccAt(v, d)
  BY <1>7, SizeFacts
<1>9. OnlyOcc(v1, v2, d, OccAt(v1, d) + ChunkSize)
  BY <1>8, Zenon DEF OnlyOcc, SameOcc
<1>10. SameOwn(v1, v2)
  BY Zenon DEF SameOwn
<1>11. WaitAt(v1, d) # << >> /\ k = Head(WaitAt(v1, d))
  BY <1>4
<1>12. g \notin D \ {e} /\ \E Q : CreditInv(v2, (D \ {e}) \cup {g}, Q)
  BY <1>1, <1>3, <1>5, <1>6, <1>9, <1>10, <1>11, StepMove
<1>13. g # e
  <2>1. SlotRank(d) \in Int
    BY <1>2, SlotFacts, Zenon
  <2>. QED
    BY <2>1
<1>. QED
  BY <1>12, <1>13

LEMMA FlowCreditMoves ==
  ASSUME NEW S, StatesOK(S), NEW e, NEW F, NEW D, RouterReady(e.to, S[e.to], F, e),
         e.type = "R_BUFFER", e \in D, S[e.to][e.port].queued[e.chan] # << >>
  PROVE  Flows(S, D, e, router_buf_update(S[e.to], e))
<1> DEFINE r == e.to
           s == S[r]
           o == router_buf_update(s, e)
           P == e.port
           p == s[P]
           ch == e.chan
           d == <<r, P, ch>>
           c3 == p.last_buf_full > 0
           freed == [p EXCEPT !.vc_occupancy[ch] = @ - ChunkSize,
                              !.busy_time = IF c3 THEN @ + (e.ts - p.last_buf_full) ELSE @,
                              !.last_buf_full = 0]
           less == [p.vc_occupancy EXCEPT ![ch] = p.vc_occupancy[ch] - ChunkSize]
           head == Head(p.queued[ch])
           pend == [p.pending EXCEPT ![ch] = Append(p.pending[ch], head)]
           wait == [p.queued EXCEPT ![ch] = Tail(p.queued[ch])]
           q0 == [freed EXCEPT !.queued[ch] = Tail(@),
                               !.pending[ch] = Append(@, head),
                               !.vc_occupancy[ch] = @ + ChunkSize,
                               !.queued_count = @ - ChunkSize]
           g == router_credit_send(e.ts, head, head.saved_port, head.saved_chan)
           c2 == ~p.in_send_loop /\ q0.pending[ch] # << >>
           loop == q0.in_send_loop \/ c2
           q == [q0 EXCEPT !.in_send_loop = loop]
           f == RSendEvent(e.to, MaxOf(p.next_available, e.ts), e.port,
                           <<"credit", e.by[2], e.by[3], e.by[4]>>)
           U == [S EXCEPT ![r] = [S[r] EXCEPT ![P] = freed]]
           T == [S EXCEPT ![r] = o.ns]
<1>1. r \in Routers /\ P \in Ports(r) /\ ch \in Chans
  BY DEF RouterReady, EventOK
<1>2. DOMAIN p = PortFields /\ PortOK(r, P, p)
  BY <1>1, PortLoopFacts
<1>3. p.queued \in Queueds(r, P) /\ p.vc_occupancy \in [Chans -> Int]
  BY <1>2, Zenon DEF PortOK
<1>4. o.ns = [s EXCEPT ![P] = q]
  BY Zenon DEF router_buf_update, Outcome
<1>5. o.sent = {g} \cup (IF c2 THEN {f} ELSE {})
  BY Zenon DEF router_buf_update, Outcome
<1> HIDE DEF o
<1>6. f.type = "R_SEND"
  BY DEF RSendEvent
<1>7. p.queued[ch] \in Seq(WaitingChunk(r, P, ch)) /\ p.vc_occupancy[ch] \in Int
  BY <1>1, <1>3 DEF Queueds
<1>8. head \in WaitingChunk(r, P, ch)
  BY <1>7, FrontOfQueue
<1>9. /\ head \in ChunkType /\ Upstream(head, head.saved_port, head.saved_chan)
      /\ ChannelRank(head.saved_port, head.saved_chan) < ChannelRank(P, ch)
  <2> HIDE DEF head
  <2>. QED
    BY <1>8 DEF WaitingChunk, LeavingChunk
<1>10. /\ g.type \in NetTypes /\ g.type \notin ArriveTypes
       /\ EventKey(g) = << <<head.from, head.saved_port, head.saved_chan>>, Id(head) >>
  <2> HIDE DEF head
  <2>. QED
    BY <1>9, CreditKey
<1>11. NetEvents(o.sent) = {g}
  <2> HIDE DEF c2, f, g
  <2>. QED
    BY <1>5, <1>6, <1>10, NetOne
<1> HIDE DEF f, g
<1>12. /\ DOMAIN freed = PortFields /\ freed.pending = p.pending /\ freed.vc_occupancy = less
       /\ freed.queued = p.queued
  <2> HIDE DEF p, c3, ch
  <2>. QED
    BY <1>2, Zenon DEF PortFields
<1> HIDE DEF freed
<1>13. q.pending = pend /\ q.queued = wait /\ q.vc_occupancy = p.vc_occupancy
  <2>1. /\ DOMAIN q0 = PortFields /\ q0.pending = pend /\ q0.queued = wait
        /\ q0.vc_occupancy = [less EXCEPT ![ch] = less[ch] + ChunkSize]
    <3> HIDE DEF p, ch, head, less
    <3>. QED
      BY <1>12, Zenon DEF PortFields
  <2>2. [less EXCEPT ![ch] = less[ch] + ChunkSize] = p.vc_occupancy
    <3>1. ChunkSize \in Nat
      BY SizeFacts
    <3> HIDE DEF p, ch
    <3>. QED
      BY <1>1, <1>3, <3>1
  <2> HIDE DEF q0, loop, pend, wait
  <2>. QED
    BY <2>1, <2>2, Zenon DEF PortFields
<1>14. d = EventKey(e)[1]
  BY DEF EventKey, ArriveTypes
<1> HIDE DEF q
<1>15. PortChange(S, T, r, P, q) /\ PortChange(S, U, r, P, freed)
  BY <1>1, <1>4, Zenon DEF PortChange
<1> HIDE DEF T, U
<1>16. /\ SameOwn(S, U) /\ SameWait(S, U) /\ SamePend(S, U)
       /\ OnlyOcc(S, U, d, p.vc_occupancy[ch] - ChunkSize)
  <2> HIDE DEF r, P, p, ch
  <2>1. SameOwn(S, U) /\ SameWait(S, U) /\ SamePend(S, U) /\ ChannelChange(S, U, p, freed, ch, d)
    <3>1. /\ SameOwn(S, U) /\ (freed.queued = S[r][P].queued => SameWait(S, U))
          /\ (freed.pending = S[r][P].pending => SamePend(S, U))
          /\ \A i \in Chans : ChannelChange(S, U, S[r][P], freed, i, <<r, P, i>>)
      BY <1>15, RouterAccess, Zenon
    <3>. QED
      BY <1>1, <1>12, <3>1 DEF p, s
  <2> HIDE DEF d
  <2>2. OnlyOcc(S, U, d, p.vc_occupancy[ch] - ChunkSize)
    BY <1>12, <2>1, Zenon DEF ChannelChange
  <2>. QED
    BY <2>1, <2>2
<1>17. /\ d \in RSlots /\ SameOwn(S, T) /\ SameOcc(S, T)
       /\ OccAt(S, d) = p.vc_occupancy[ch] /\ PendAt(S, d) = p.pending[ch]
       /\ WaitAt(S, d) = p.queued[ch]
       /\ OnlyPend(S, T, d, Append(p.pending[ch], head)) /\ OnlyWait(S, T, d, Tail(p.queued[ch]))
  <2> HIDE DEF r, P, p, ch, head
  <2>1. SameOwn(S, T) /\ SameOcc(S, T) /\ ChannelChange(S, T, p, q, ch, d)
    <3>1. /\ SameOwn(S, T) /\ (q.vc_occupancy = S[r][P].vc_occupancy => SameOcc(S, T))
          /\ \A i \in Chans : ChannelChange(S, T, S[r][P], q, i, <<r, P, i>>)
      BY <1>15, RouterAccess, Zenon
    <3>. QED
      BY <1>1, <1>13, <3>1 DEF p, s
  <2> HIDE DEF d
  <2>2. /\ d \in RSlots /\ OccAt(S, d) = p.vc_occupancy[ch] /\ PendAt(S, d) = p.pending[ch]
        /\ WaitAt(S, d) = p.queued[ch]
        /\ OnlyPend(S, T, d, Append(p.pending[ch], head)) /\ OnlyWait(S, T, d, Tail(p.queued[ch]))
    BY <1>13, <2>1, Zenon DEF ChannelChange
  <2>. QED
    BY <2>1, <2>2
<1>18. ViewOK(S)
  BY StatesView
<1>19. EventKey(g) = KeyOf("wait", d, head) /\ SlotRank(EventKey(g)[1]) < SlotRank(d)
  <2>1. SlotRank(d) = ChannelRank(P, ch)
    BY DEF SlotRank
  <2> HIDE DEF head, d
  <2>. QED
    BY <1>9, <1>10, <2>1 DEF KeyOf, SlotRank
<1>20. p.queued[ch] # << >>
  OBVIOUS
<1>23. head = Head(p.queued[ch])
  OBVIOUS
<1> SUFFICES ASSUME NEW Pl, CreditInv(S, D, Pl)
             PROVE  /\ NetEvents(o.sent) \cap D = {}
                    /\ \E Q : CreditInv(T, (D \ {e}) \cup NetEvents(o.sent), Q)
  BY Zenon DEF Flows, T, o
<1> HIDE DEF d, r, P, s, p, ch, head
<1>21. /\ OnlyOcc(S, U, d, OccAt(S, d) - ChunkSize) /\ OccAt(S, d) \in Int
       /\ WaitAt(S, d) # << >> /\ head = Head(WaitAt(S, d))
       /\ OnlyPend(S, T, d, Append(PendAt(S, d), head)) /\ OnlyWait(S, T, d, Tail(WaitAt(S, d)))
  BY <1>7, <1>16, <1>17, <1>20, <1>23
<1>22. g \notin D /\ \E Q : CreditInv(T, (D \ {e}) \cup {g}, Q)
  BY <1>9, <1>10, <1>14, <1>16, <1>17, <1>18, <1>19, <1>21, StepFreeMove
<1>. QED
  BY <1>11, <1>22

-----------------------------------------------------------------------------
(* The history of chunks and credits: for each entry of the log the events  *)
(* D that carried one before it, with a place for each token.              *)

NetHistory(E, g, V, D) ==
  /\ \A i \in 1 .. Len(g) + 1 : \E Pl : CreditInv(V[i], D[i], Pl)
  /\ \A i \in 1 .. Len(g) : D[i] = (D[i + 1] \ g[i].sent) \cup NetEvents({g[i].ev})
  /\ D[Len(g) + 1] = NetEvents(E)

CreditIndInv ==
  \E V, L, D : World(lps, events, log, V, L) /\ NetHistory(events, log, V, D)

\* what the invariant needs of states is in their views
SeenAs(S, v) == \A x \in Lps : v[x] = InChunks(x, S[x])

LEMMA CreditsInView ==
  ASSUME NEW S, StatesOK(S), NEW v, SeenAs(S, v), NEW D, NEW Pl
  PROVE  CreditInv(S, D, Pl) <=> CreditInv(v, D, Pl)
<1>1. ASSUME NEW t \in Terminals
      PROVE  /\ v[t].terminal_msgs = S[t].terminal_msgs /\ v[t].packet_counter = S[t].packet_counter
             /\ v[t].vc_occupancy = S[t].vc_occupancy
  <2>1. t \in Lps
    BY DEF Lps
  <2>2. v[t] = InChunks(t, S[t]) /\ StateOK(t, S[t])
    BY <2>1, Zenon DEF SeenAs, StatesOK
  <2>3. SameButLeft(InChunks(t, S[t]), S[t])
    BY <2>2, ViewShape, Zenon DEF StateOK, TermOK
  <2>4. SameButLeft(v[t], S[t])
    BY <2>2, <2>3, Zenon
  <2>. QED
    BY <2>4, Zenon DEF SameButLeft
<1>2. \A r \in Routers : v[r] = S[r]
  <2> SUFFICES ASSUME NEW r \in Routers PROVE v[r] = S[r]
    OBVIOUS
  <2>1. r \in Lps /\ r \notin Terminals
    BY RouteAssumption DEF Lps
  <2>. QED
    BY <2>1, Zenon DEF SeenAs, InChunks
<1>3. \A z \in RSlots : z[1] \in Routers /\ z[1] \notin Terminals
  BY SlotFacts, Zenon
<1>4. SamePend(S, v) /\ SameWait(S, v) /\ SamePend(v, S) /\ SameWait(v, S)
  BY <1>2, <1>3, Zenon DEF SamePend, SameWait, PendAt, WaitAt
<1>5. SameOwn(S, v) /\ SameOwn(v, S)
  BY <1>1, Zenon DEF SameOwn, OwnAt, CountAt
<1>6. ASSUME NEW z \in Slots PROVE OccAt(v, z) = OccAt(S, z)
  <2>1. CASE z \in RSlots
    BY <1>2, <1>3, <2>1, Zenon DEF OccAt
  <2>2. CASE z \notin RSlots
    <3>1. PICK t \in Terminals : z = TSlot(t)
      BY <2>2, Zenon DEF Slots
    <3>2. z[1] = t
      BY <3>1, SlotFacts, Zenon
    <3>. QED
      BY <1>1, <3>2 DEF OccAt
  <2>. QED
    BY <2>1, <2>2
<1>7. SameOcc(S, v) /\ SameOcc(v, S)
  BY <1>6, Zenon DEF SameOcc
<1>8. CreditInv(S, D, Pl) => CreditInv(v, D, Pl)
  BY <1>4, <1>5, <1>7, StepSame
<1>9. CreditInv(v, D, Pl) => CreditInv(S, D, Pl)
  BY <1>4, <1>5, <1>7, StepSame
<1>. QED
  BY <1>8, <1>9

LEMMA WorldSeen ==
  ASSUME NEW S, NEW E, NEW g, NEW V, NEW L, World(S, E, g, V, L)
  PROVE  StatesOK(S) /\ SeenAs(S, V[Len(g) + 1]) /\ Len(g) \in Nat
<1>1. PICK U : g \in Seq(U)
  BY Zenon DEF World, IsSeq
<1>2. Len(g) \in Nat
  BY <1>1
<1>. QED
  BY <1>2, Zenon DEF World, StatesOK, SeenAs

LEMMA ProcessFlow ==
  ASSUME NEW S, NEW E, NEW g, NEW V, NEW L, NEW D, World(S, E, g, V, L), NetHistory(E, g, V, D),
         NEW e \in E, NEW o, HandlerOK(e.to, S[e.to], LoopEvents(E, e.to), e, o),
         Flows(S, NetEvents(E), e, o),
         NEW en, en.ev = e, en.rc = o.rc, en.sent = o.sent, en.before = S[e.to]
  PROVE  \E V2, L2, D2 :
           /\ World([S EXCEPT ![e.to] = o.ns], (E \ {e}) \cup o.sent, Append(g, en), V2, L2)
           /\ NetHistory((E \ {e}) \cup o.sent, Append(g, en), V2, D2)
<1> DEFINE T == [S EXCEPT ![e.to] = o.ns]
           E2 == (E \ {e}) \cup o.sent
           h == Append(g, en)
           n == Len(g)
           D2 == [i \in 1 .. n + 2 |-> IF i = n + 2 THEN NetEvents(E2) ELSE D[i]]
<1>1. PICK V2, L2 : World(T, E2, h, V2, L2) /\ SameViews(g, V, V2)
  BY ProcessStep
<1>2. /\ n \in Nat /\ Len(h) = n + 1
      /\ (\A i \in 1 .. n : h[i] = g[i]) /\ h[n + 1] = en
  <2>1. IsSeq(g)
    BY Zenon DEF World
  <2>. QED
    BY <2>1, LongLogFacts
<1>3. StatesOK(S) /\ SeenAs(S, V[n + 1])
  BY WorldSeen, Zenon
<1>4. StatesOK(T) /\ SeenAs(T, V2[Len(h) + 1])
  <2> HIDE DEF T, E2, h
  <2>. QED
    BY <1>1, WorldSeen, Zenon
<1>5. /\ (\A i \in 1 .. n + 1 : D2[i] = D[i]) /\ D2[n + 2] = NetEvents(E2)
  <2> HIDE DEF n, E2
  <2>. QED
    BY <1>2
<1>6. Len(h) + 1 = n + 2 /\ n + 1 \in 1 .. n + 1
  <2> HIDE DEF n, h
  <2>. QED
    BY <1>2
<1>7. D[n + 1] = NetEvents(E)
  BY Zenon DEF NetHistory
<1>8. PICK Pl : CreditInv(V[n + 1], D[n + 1], Pl)
  BY <1>6, Zenon DEF NetHistory
<1>9. CreditInv(S, NetEvents(E), Pl)
  BY <1>3, <1>7, <1>8, CreditsInView
<1>10. /\ NetEvents(o.sent) \cap NetEvents(E) = {}
       /\ \E Q : CreditInv(T, (NetEvents(E) \ {e}) \cup NetEvents(o.sent), Q)
  BY <1>9, Zenon DEF Flows
<1>11. (NetEvents(E) \ {e}) \cup NetEvents(o.sent) = NetEvents(E2)
  BY Zenon DEF NetEvents
<1>12. PICK Q : CreditInv(T, NetEvents(E2), Q)
  BY <1>10, <1>11
<1> HIDE DEF T, E2, h, D2
<1>13. CreditInv(V2[n + 2], NetEvents(E2), Q)
  BY <1>4, <1>6, <1>12, CreditsInView
<1>14. NetEvents(E) = (NetEvents(E2) \ o.sent) \cup NetEvents({e})
  <2>1. NetEvents(E) \cap o.sent = {}
    BY <1>10 DEF NetEvents
  <2>. QED
    BY <2>1, Zenon DEF NetEvents, E2
<1>15. ASSUME NEW i \in 1 .. Len(h) + 1 PROVE \E P : CreditInv(V2[i], D2[i], P)
  <2>1. CASE i \in 1 .. n + 1
    BY <1>1, <1>5, <2>1, Zenon DEF NetHistory, SameViews
  <2>2. CASE i = n + 2
    BY <1>5, <1>13, <2>2, Zenon
  <2>3. i \in 1 .. n + 1 \/ i = n + 2
    <3> HIDE DEF n
    <3>. QED
      BY <1>2, <1>6
  <2>. QED
    BY <2>1, <2>2, <2>3
<1>16. ASSUME NEW i \in 1 .. Len(h)
       PROVE  D2[i] = (D2[i + 1] \ h[i].sent) \cup NetEvents({h[i].ev})
  <2>1. CASE i \in 1 .. n
    <3>1. i \in 1 .. n + 1 /\ i + 1 \in 1 .. n + 1
      <4> HIDE DEF n
      <4>. QED
        BY <1>2, <2>1
    <3>2. D2[i] = D[i] /\ D2[i + 1] = D[i + 1] /\ h[i] = g[i]
      BY <1>2, <1>5, <2>1, <3>1, Zenon
    <3>3. D[i] = (D[i + 1] \ g[i].sent) \cup NetEvents({g[i].ev})
      BY <2>1, Zenon DEF NetHistory
    <3>. QED
      BY <3>2, <3>3, Zenon
  <2>2. CASE i = n + 1
    <3>1. i + 1 = n + 2
      <4> HIDE DEF n
      <4>. QED
        BY <1>2, <2>2
    <3>2. D2[i] = NetEvents(E) /\ D2[i + 1] = NetEvents(E2) /\ h[i] = en
      BY <1>2, <1>5, <1>6, <1>7, <2>2, <3>1, Zenon
    <3>. QED
      BY <1>14, <3>2
  <2>3. i \in 1 .. n \/ i = n + 1
    <3> HIDE DEF n
    <3>. QED
      BY <1>2
  <2>. QED
    BY <2>1, <2>2, <2>3
<1>17. NetHistory(E2, h, V2, D2)
  BY <1>5, <1>6, <1>15, <1>16, Zenon DEF NetHistory
<1>. QED
  BY <1>1, <1>17, Zenon DEF T, E2, h

LEMMA UndoFlow ==
  ASSUME NEW S, NEW E, NEW g, NEW V, NEW L, NEW D, World(S, E, g, V, L), NetHistory(E, g, V, D),
         g # << >>, NEW en, en = g[Len(g)]
  PROVE  NetHistory((E \ en.sent) \cup {en.ev}, SubSeq(g, 1, Len(g) - 1), V, D)
<1> DEFINE n == Len(g)
           h == SubSeq(g, 1, Len(g) - 1)
<1>1. IsSeq(g)
  BY Zenon DEF World
<1>2. /\ n \in Nat \ {0} /\ Len(h) = n - 1
      /\ \A i \in 1 .. n - 1 : h[i] = g[i]
  BY <1>1, ShortLogFacts
<1> HIDE DEF h, n
<1>3. /\ Len(h) + 1 = n /\ n \in 1 .. n /\ 1 .. Len(h) = 1 .. n - 1
      /\ \A i \in 1 .. Len(h) + 1 : i \in 1 .. n + 1
      /\ \A i \in 1 .. Len(h) : i \in 1 .. n /\ i \in 1 .. n - 1
  BY <1>2
<1>4. /\ \A i \in 1 .. n + 1 : \E Pl : CreditInv(V[i], D[i], Pl)
      /\ \A i \in 1 .. n : D[i] = (D[i + 1] \ g[i].sent) \cup NetEvents({g[i].ev})
      /\ D[n + 1] = NetEvents(E)
  BY Zenon DEF NetHistory, n
<1>5. D[n] = (NetEvents(E) \ en.sent) \cup NetEvents({en.ev})
  BY <1>3, <1>4 DEF n
<1>6. D[n] = NetEvents((E \ en.sent) \cup {en.ev})
  BY <1>5, Zenon DEF NetEvents
<1>7. \A i \in 1 .. Len(h) + 1 : \E Pl : CreditInv(V[i], D[i], Pl)
  BY <1>3, <1>4, Zenon
<1>8. \A i \in 1 .. Len(h) : D[i] = (D[i + 1] \ h[i].sent) \cup NetEvents({h[i].ev})
  <2> SUFFICES ASSUME NEW i \in 1 .. Len(h)
               PROVE  D[i] = (D[i + 1] \ h[i].sent) \cup NetEvents({h[i].ev})
    OBVIOUS
  <2>1. h[i] = g[i] /\ i \in 1 .. n
    BY <1>2, <1>3, Zenon
  <2>. QED
    BY <1>4, <2>1, Zenon
<1>9. D[Len(h) + 1] = NetEvents((E \ en.sent) \cup {en.ev})
  BY <1>3, <1>6
<1>10. NetHistory((E \ en.sent) \cup {en.ev}, h, V, D)
  BY <1>7, <1>8, <1>9, Zenon DEF NetHistory
<1>. QED
  BY <1>10 DEF h

LEMMA CommitFlow ==
  ASSUME NEW S, NEW E, NEW g, NEW V, NEW L, NEW D, World(S, E, g, V, L), NetHistory(E, g, V, D),
         g # << >>
  PROVE  \E V2, L2, D2 : World(S, E, Tail(g), V2, L2) /\ NetHistory(E, Tail(g), V2, D2)
<1> DEFINE n == Len(g)
           h == Tail(g)
           D2 == [i \in 1 .. n |-> D[i + 1]]
<1>1. IsSeq(g)
  BY Zenon DEF World
<1>2. /\ n \in Nat \ {0} /\ Len(h) = n - 1
      /\ \A i \in 1 .. n - 1 : h[i] = g[i + 1]
  BY <1>1, ShortLogFacts
<1>3. PICK V2, L2 : World(S, E, h, V2, L2) /\ LaterViews(g, V, V2)
  BY CommitStep
<1>4. \A i \in 1 .. n : V2[i] = V[i + 1] /\ D2[i] = D[i + 1]
  BY <1>3, Zenon DEF LaterViews
<1> HIDE DEF h, n, D2
<1>5. /\ Len(h) + 1 = n /\ n \in 1 .. n
      /\ \A i \in 1 .. Len(h) + 1 : i \in 1 .. n /\ i + 1 \in 1 .. n + 1
      /\ \A i \in 1 .. Len(h) : i + 1 \in 1 .. n /\ i \in 1 .. n - 1 /\ i \in 1 .. n
  BY <1>2
<1>6. /\ \A i \in 1 .. n + 1 : \E Pl : CreditInv(V[i], D[i], Pl)
      /\ \A i \in 1 .. n : D[i] = (D[i + 1] \ g[i].sent) \cup NetEvents({g[i].ev})
      /\ D[n + 1] = NetEvents(E)
  BY Zenon DEF NetHistory, n
<1>7. \A i \in 1 .. Len(h) + 1 : \E Pl : CreditInv(V2[i], D2[i], Pl)
  <2> SUFFICES ASSUME NEW i \in 1 .. Len(h) + 1 PROVE \E Pl : CreditInv(V2[i], D2[i], Pl)
    OBVIOUS
  <2>1. \E Pl : CreditInv(V[i + 1], D[i + 1], Pl)
    BY <1>5, <1>6, Zenon
  <2>. QED
    BY <1>4, <1>5, <2>1, Zenon
<1>8. \A i \in 1 .. Len(h) : D2[i] = (D2[i + 1] \ h[i].sent) \cup NetEvents({h[i].ev})
  <2> SUFFICES ASSUME NEW i \in 1 .. Len(h)
               PROVE  D2[i] = (D2[i + 1] \ h[i].sent) \cup NetEvents({h[i].ev})
    OBVIOUS
  <2>1. h[i] = g[i + 1] /\ D2[i] = D[i + 1] /\ D2[i + 1] = D[(i + 1) + 1]
    BY <1>2, <1>4, <1>5, Zenon
  <2>2. D[i + 1] = (D[(i + 1) + 1] \ g[i + 1].sent) \cup NetEvents({g[i + 1].ev})
    BY <1>5, <1>6, Zenon
  <2>. QED
    BY <2>1, <2>2, Zenon
<1>9. D2[Len(h) + 1] = NetEvents(E)
  BY <1>4, <1>5, <1>6
<1>10. NetHistory(E, h, V2, D2)
  BY <1>7, <1>8, <1>9, Zenon DEF NetHistory
<1>. QED
  BY <1>3, <1>10, Zenon DEF h

LEMMA StartEmpty ==
  ASSUME Init
  PROVE  /\ \A z \in RSlots : PendAt(lps, z) = << >> /\ WaitAt(lps, z) = << >>
         /\ \A z \in Slots : OccAt(lps, z) = 0
         /\ \A t \in Terminals : OwnAt(lps, t) = << >> /\ CountAt(lps, t) = 0
<1>1. \A x \in Lps : lps[x] = IF x \in Terminals THEN TerminalInit ELSE RouterInit(x)
  BY Zenon DEF Init, Lps
<1>2. ASSUME NEW t \in Terminals
      PROVE  /\ lps[t].terminal_msgs = << >> /\ lps[t].packet_counter = 0
             /\ lps[t].vc_occupancy = 0
  <2>1. lps[t] = TerminalInit
    BY <1>1, Zenon DEF Lps
  <2>. QED
    BY <2>1 DEF TerminalInit
<1>3. ASSUME NEW r \in Routers, NEW p \in Ports(r), NEW c \in Chans
      PROVE  /\ lps[r][p].pending[c] = << >> /\ lps[r][p].queued[c] = << >>
             /\ lps[r][p].vc_occupancy[c] = 0
  <2>1. r \in Lps /\ r \notin Terminals
    BY RouteAssumption DEF Lps
  <2>2. lps[r] = RouterInit(r)
    BY <1>1, <2>1, Zenon
  <2>3. lps[r][p] = PortInit
    BY <2>2, Zenon DEF RouterInit
  <2>. QED
    BY <2>3 DEF PortInit
<1>4. \A z \in RSlots : z[1] \in Routers /\ z[1] \notin Terminals /\ z[2] \in Ports(z[1]) /\ z[3] \in Chans
  BY SlotFacts, Zenon
<1>5. \A z \in RSlots : PendAt(lps, z) = << >> /\ WaitAt(lps, z) = << >> /\ OccAt(lps, z) = 0
  BY <1>3, <1>4, Zenon DEF PendAt, WaitAt, OccAt
<1>6. \A t \in Terminals : OccAt(lps, TSlot(t)) = 0
  <2> SUFFICES ASSUME NEW t \in Terminals PROVE OccAt(lps, TSlot(t)) = 0
    OBVIOUS
  <2>1. TSlot(t)[1] = t
    BY DEF TSlot
  <2>. QED
    BY <1>2, <2>1 DEF OccAt
<1>7. \A z \in Slots : OccAt(lps, z) = 0
  BY <1>5, <1>6, Zenon DEF Slots
<1>. QED
  BY <1>2, <1>5, <1>7, Zenon DEF OwnAt, CountAt

LEMMA EmptyCredits ==
  ASSUME NEW v, \A z \in RSlots : PendAt(v, z) = << >> /\ WaitAt(v, z) = << >>,
         \A z \in Slots : OccAt(v, z) = 0,
         \A t \in Terminals : OwnAt(v, t) = << >> /\ CountAt(v, t) = 0
  PROVE  \E Pl : CreditInv(v, {}, Pl)
<1> DEFINE Pl == [z \in Tokens |-> Nowhere]
<1>1. \A z \in Tokens : Pl[z] = Nowhere
  BY Zenon
<1> HIDE DEF Pl
<1>2. \A y \in Slots, k \in Ids : <<y, k>> \in Tokens
  BY DEF Tokens
<1>3. \A y \in Slots, k \in Ids : Pl[<<y, k>>] = Nowhere
  BY <1>1, <1>2, Zenon
<1>4. \A how, y : Keys(how, y, << >>) = {} /\ NoTwice(how, y, << >>)
  BY DEF Keys, NoTwice
<1>5. ASSUME NEW y, IsPlace(y) PROVE Holds(v, {}, y) = {}
  <2>1. CASE \E z \in RSlots : y = Pends(z)
    <3>1. PICK z \in RSlots : y = Pends(z)
      BY <2>1
    <3>2. y.in = "pend" /\ y.what = z
      BY <3>1, PlaceFacts, Zenon
    <3>3. Keys("pend", y.what, PendAt(v, y.what)) = {}
      BY <1>4, <3>2, Zenon
    <3>. QED
      BY <3>2, <3>3 DEF Holds
  <2>2. CASE \E z \in RSlots : y = Waits(z)
    <3>1. PICK z \in RSlots : y = Waits(z)
      BY <2>2
    <3>2. y.in = "wait" /\ y.what = z
      BY <3>1, PlaceFacts, Zenon
    <3>3. Keys("wait", y.what, WaitAt(v, y.what)) = {}
      BY <1>4, <3>2, Zenon
    <3>. QED
      BY <3>2, <3>3 DEF Holds
  <2>3. CASE \E e : y = On(e)
    <3>1. PICK e : y = On(e)
      BY <2>3
    <3>2. y.in = "event"
      BY <3>1, PlaceFacts, Zenon
    <3>. QED
      BY <3>2 DEF Holds
  <2>. QED
    BY <2>1, <2>2, <2>3, <1>5, Zenon DEF IsPlace
<1>6. PlaceType(Pl)
  BY <1>1, Zenon DEF PlaceType
<1>7. PlacesOK(v, {}, Pl)
  <2> SUFFICES ASSUME NEW y, IsPlace(y)
               PROVE  /\ Holds(v, {}, y) \subseteq Tokens
                      /\ \A z \in Tokens : Pl[z] = y <=> z \in Holds(v, {}, y)
    BY Zenon DEF PlacesOK
  <2>1. y # Nowhere
    BY PlaceFacts, Zenon
  <2>2. Holds(v, {}, y) = {}
    BY <1>5
  <2>. QED
    BY <1>1, <2>1, <2>2, Zenon
<1>8. QueuesOK(v)
  BY <1>4, Zenon DEF QueuesOK
<1>9. CountsOK(v, Pl)
  <2> SUFFICES ASSUME NEW z \in Slots
               PROVE  /\ IsFiniteSet(Used(Pl, z))
                      /\ OccAt(v, z) = ChunkSize * Cardinality(Used(Pl, z))
    BY Zenon DEF CountsOK
  <2>1. Used(Pl, z) = {}
    BY <1>3, Zenon DEF Used
  <2>2. IsFiniteSet(Used(Pl, z)) /\ Cardinality(Used(Pl, z)) = 0
    BY <2>1, FS_EmptySet, Zenon
  <2>3. ChunkSize \in Nat
    BY NetAssumption
  <2>4. OccAt(v, z) = 0
    OBVIOUS
  <2>. QED
    BY <2>2, <2>3, <2>4
<1>10. RanksOK(Pl)
  BY <1>3, Zenon DEF RanksOK
<1>11. OwnOK(v, Pl)
  <2>1. ASSUME NEW t \in Terminals
        PROVE  /\ CountAt(v, t) \in Nat /\ NoTwice("own", t, OwnAt(v, t))
               /\ \A i \in 1 .. Len(OwnAt(v, t)) :
                    /\ OwnAt(v, t)[i].pid < CountAt(v, t)
                    /\ \A z \in Slots : Pl[<<z, Id(OwnAt(v, t)[i])>>] = Nowhere
    <3>1. OwnAt(v, t) = << >> /\ CountAt(v, t) = 0
      OBVIOUS
    <3>2. NoTwice("own", t, OwnAt(v, t))
      BY <1>4, <3>1
    <3>3. 1 .. Len(OwnAt(v, t)) = {}
      BY <3>1
    <3>4. CountAt(v, t) \in Nat
      BY <3>1
    <3>. QED
      BY <3>2, <3>3, <3>4, Zenon
  <2>. QED
    BY <1>3, <2>1, Zenon DEF OwnOK
<1>. QED
  BY <1>6, <1>7, <1>8, <1>9, <1>10, <1>11, Zenon DEF CreditInv

LEMMA StartCredits == Init => CreditIndInv
<1> SUFFICES ASSUME Init PROVE CreditIndInv
  OBVIOUS
<1>1. PICK V, L : World(lps, events, log, V, L)
  BY StartInv, Zenon DEF IndInv
<1>2. StatesOK(lps) /\ SeenAs(lps, V[Len(log) + 1])
  BY <1>1, WorldSeen, Zenon
<1>3. Len(log) = 0
  BY DEF Init
<1>4. 1 .. Len(log) + 1 = {1} /\ Len(log) + 1 = 1 /\ 1 .. Len(log) = {}
  BY <1>3
<1>5. NetEvents(events) = {}
  <2>1. PICK ts \in [Msgs -> Times] : events = {NewMsgEvent(m, ts[m]) : m \in Msgs}
    BY Zenon DEF Init
  <2>2. \A m \in Msgs : NewMsgEvent(m, ts[m]).type = "NEW_MSG"
    BY DEF NewMsgEvent
  <2>3. \A e \in events : e.type = "NEW_MSG"
    BY <2>1, <2>2, Zenon
  <2>. QED
    BY <2>3, Zenon DEF NetEvents, NetTypes, ArriveTypes
<1>6. PICK Pl : CreditInv(lps, {}, Pl)
  BY StartEmpty, EmptyCredits
<1>7. CreditInv(V[1], {}, Pl)
  BY <1>2, <1>4, <1>6, CreditsInView
<1> DEFINE D == [i \in {1} |-> {}]
<1>8. D[1] = {}
  BY Zenon
<1> HIDE DEF D
<1>9. \A i \in 1 .. Len(log) + 1 : \E P : CreditInv(V[i], D[i], P)
  BY <1>4, <1>7, <1>8, Zenon
<1>10. NetHistory(events, log, V, D)
  BY <1>4, <1>5, <1>8, <1>9, Zenon DEF NetHistory
<1>. QED
  BY <1>1, <1>10, Zenon DEF CreditIndInv

-----------------------------------------------------------------------------
(* Every step keeps the history of chunks and credits.                     *)

LEMMA FlowKeeps ==
  ASSUME NEW V, NEW L, NEW D, World(lps, events, log, V, L), NetHistory(events, log, V, D),
         NEW e \in events, NEW o,
         HandlerOK(e.to, lps[e.to], LoopEvents(events, e.to), e, o),
         Flows(lps, NetEvents(events), e, o), Process(e, o)
  PROVE  CreditIndInv'
<1> DEFINE en == [ev |-> e, rc |-> o.rc, sent |-> o.sent, before |-> lps[e.to], mark |-> Len(trace)]
<1>1. en.ev = e /\ en.rc = o.rc /\ en.sent = o.sent /\ en.before = lps[e.to]
  OBVIOUS
<1>2. /\ lps' = [lps EXCEPT ![e.to] = o.ns]
      /\ events' = (events \ {e}) \cup o.sent
      /\ log' = Append(log, en)
  BY Zenon DEF Process
<1> HIDE DEF en
<1>3. \E V2, L2, D2 :
        /\ World([lps EXCEPT ![e.to] = o.ns], (events \ {e}) \cup o.sent, Append(log, en), V2, L2)
        /\ NetHistory((events \ {e}) \cup o.sent, Append(log, en), V2, D2)
  BY <1>1, ProcessFlow
<1>4. \E V2, L2, D2 : World(lps', events', log', V2, L2) /\ NetHistory(events', log', V2, D2)
  BY <1>2, <1>3, Zenon
<1>. QED
  BY <1>4, Zenon DEF CreditIndInv

LEMMA HandleEventFlows == CreditIndInv /\ HandleEvent => CreditIndInv'
<1> SUFFICES ASSUME CreditIndInv, NEW e \in events,
                    \/ NewMsg(e) \/ SchedNext(e)
                    \/ TGenerate(e) \/ TSend(e) \/ TArrive(e) \/ TBuffer(e)
                    \/ RArrive(e) \/ RSend(e) \/ RBuffer(e)
             PROVE  CreditIndInv'
  BY Zenon DEF HandleEvent
<1> DEFINE x == e.to
           s == lps[x]
           F == LoopEvents(events, x)
           N == NetEvents(events)
<1>1. PICK V, L, D : World(lps, events, log, V, L) /\ NetHistory(events, log, V, D)
  BY Zenon DEF CreditIndInv
<1>2. e.type \in TermEvents => TermReady(x, s, F, e)
  BY <1>1, TermIsReady, Zenon
<1>3. e.type \in RouterEvents => RouterReady(x, s, F, e)
  BY <1>1, RouterIsReady, Zenon
<1>4. StatesOK(lps)
  BY <1>1, WorldSeen, Zenon
<1>5. e \in N <=> e.type \in NetTypes
  BY Zenon DEF NetEvents
<1> HIDE DEF F, N
<1>6. ASSUME NEW o, HandlerOK(x, s, F, e, o), Flows(lps, N, e, o), Process(e, o)
      PROVE  CreditIndInv'
  BY <1>1, <1>6, FlowKeeps DEF F, N
<1>7. CASE NewMsg(e)
  <2>1. e.type = "NEW_MSG" /\ Process(e, handle_new_msg(s, e))
    BY <1>7, Zenon DEF NewMsg, Ready
  <2>2. TermReady(x, s, F, e)
    BY <1>2, <2>1, Zenon DEF TermEvents
  <2>3. e \notin N
    BY <1>5, <2>1 DEF NetTypes, ArriveTypes
  <2>4. HandlerOK(x, s, F, e, handle_new_msg(s, e))
    BY <2>1, <2>2, NewMsgHandler
  <2>5. Flows(lps, N, e, handle_new_msg(s, e))
    BY <1>4, <2>1, <2>2, <2>3, FlowNewMsg
  <2>. QED
    BY <1>6, <2>1, <2>4, <2>5, Zenon
<1>8. CASE SchedNext(e)
  <2>1. e.type = "SCHED_NEXT" /\ Process(e, handle_sched_next(s, e))
    BY <1>8, Zenon DEF SchedNext, Ready
  <2>2. TermReady(x, s, F, e)
    BY <1>2, <2>1, Zenon DEF TermEvents
  <2>3. e \notin N
    BY <1>5, <2>1 DEF NetTypes, ArriveTypes
  <2>4. HandlerOK(x, s, F, e, handle_sched_next(s, e))
    BY <2>1, <2>2, SchedNextHandler
  <2>5. Flows(lps, N, e, handle_sched_next(s, e))
    BY <1>4, <2>1, <2>2, <2>3, FlowSchedNext
  <2>. QED
    BY <1>6, <2>1, <2>4, <2>5, Zenon
<1>9. CASE TGenerate(e)
  <2>1. e.type = "T_GENERATE" /\ Process(e, packet_generate(s, e))
    BY <1>9, Zenon DEF TGenerate, Ready
  <2>2. TermReady(x, s, F, e)
    BY <1>2, <2>1, Zenon DEF TermEvents
  <2>3. e \notin N
    BY <1>5, <2>1 DEF NetTypes, ArriveTypes
  <2>4. HandlerOK(x, s, F, e, packet_generate(s, e))
    BY <2>1, <2>2, GenerateHandler
  <2>5. Flows(lps, N, e, packet_generate(s, e))
    BY <1>4, <2>1, <2>2, <2>3, FlowGenerate
  <2>. QED
    BY <1>6, <2>1, <2>4, <2>5, Zenon
<1>10. CASE TSend(e)
  <2>1. e.type = "T_SEND" /\ Process(e, packet_send(s, e))
    BY <1>10, Zenon DEF TSend, Ready
  <2>2. TermReady(x, s, F, e)
    BY <1>2, <2>1, Zenon DEF TermEvents
  <2>3. e \notin N
    BY <1>5, <2>1 DEF NetTypes, ArriveTypes
  <2>4. HandlerOK(x, s, F, e, packet_send(s, e))
    BY <2>1, <2>2, SendHandler
  <2>5. Flows(lps, N, e, packet_send(s, e))
    <3>1. CASE get_next_vcg_fails(s)
      <4>1. Flows(lps, N, e, packet_send_stall(s, e))
        BY <1>4, <2>2, <2>3, FlowStall
      <4>. QED
        BY <3>1, <4>1, Zenon DEF packet_send
    <3>2. CASE ~get_next_vcg_fails(s)
      <4>1. Flows(lps, N, e, packet_send_chunk(s, e))
        BY <1>4, <2>2, <2>3, <3>2, FlowSendChunk
      <4>. QED
        BY <3>2, <4>1, Zenon DEF packet_send
    <3>. QED
      BY <3>1, <3>2
  <2>. QED
    BY <1>6, <2>1, <2>4, <2>5, Zenon
<1>11. CASE TArrive(e)
  <2>1. e.type = "T_ARRIVE" /\ Process(e, packet_arrive(s, e))
    BY <1>11, Zenon DEF TArrive, Ready
  <2>2. TermReady(x, s, F, e)
    BY <1>2, <2>1, Zenon DEF TermEvents
  <2>3. e \in N
    BY <1>5, <2>1 DEF NetTypes, ArriveTypes
  <2>4. HandlerOK(x, s, F, e, packet_arrive(s, e))
    BY <2>1, <2>2, ArriveHandler
  <2>5. Flows(lps, N, e, packet_arrive(s, e))
    BY <1>4, <2>1, <2>2, <2>3, FlowArrive
  <2>. QED
    BY <1>6, <2>1, <2>4, <2>5, Zenon
<1>12. CASE TBuffer(e)
  <2>1. e.type = "T_BUFFER" /\ Process(e, terminal_buf_update(s, e))
    BY <1>12, Zenon DEF TBuffer, Ready
  <2>2. TermReady(x, s, F, e)
    BY <1>2, <2>1, Zenon DEF TermEvents
  <2>3. e \in N
    BY <1>5, <2>1 DEF NetTypes, ArriveTypes
  <2>4. HandlerOK(x, s, F, e, terminal_buf_update(s, e))
    BY <2>1, <2>2, BufUpdate
  <2>5. Flows(lps, N, e, terminal_buf_update(s, e))
    BY <1>4, <2>1, <2>2, <2>3, FlowBuffer
  <2>. QED
    BY <1>6, <2>1, <2>4, <2>5, Zenon
<1>13. CASE RArrive(e)
  <2>0. PICK n \in NextHops(Algorithm, e.to, e.chunk.rt) : Process(e, router_packet_receive(s, e, n))
    BY <1>13, Zenon DEF RArrive
  <2>1. e.type = "R_ARRIVE" /\ Process(e, router_packet_receive(s, e, n))
    BY <1>13, <2>0, Zenon DEF RArrive, Ready
  <2>2. RouterReady(x, s, F, e)
    BY <1>3, <2>1, Zenon DEF RouterEvents
  <2>3. e \in N
    BY <1>5, <2>1 DEF NetTypes, ArriveTypes
  <2>4. HandlerOK(x, s, F, e, router_packet_receive(s, e, n))
    BY <2>1, <2>2, ReceiveHandler
  <2>5. Flows(lps, N, e, router_packet_receive(s, e, n))
    <3>1. CASE s[n.conn].vc_occupancy[n.chan] + ChunkSize <= VcSize[n.conn.kind]
      BY <1>4, <2>1, <2>2, <2>3, <3>1, FlowReceiveFits
    <3>2. CASE ~(s[n.conn].vc_occupancy[n.chan] + ChunkSize <= VcSize[n.conn.kind])
      BY <1>4, <2>1, <2>2, <2>3, <3>2, FlowReceiveWaits
    <3>. QED
      BY <3>1, <3>2
  <2>. QED
    BY <1>6, <2>1, <2>4, <2>5, Zenon
<1>14. CASE RSend(e)
  <2>1. e.type = "R_SEND" /\ Process(e, router_packet_send(s, e))
    BY <1>14, Zenon DEF RSend, Ready
  <2>2. RouterReady(x, s, F, e)
    BY <1>3, <2>1, Zenon DEF RouterEvents
  <2>3. e \notin N
    BY <1>5, <2>1 DEF NetTypes, ArriveTypes
  <2>4. HandlerOK(x, s, F, e, router_packet_send(s, e))
    BY <2>1, <2>2, PortSendHandler
  <2>5. Flows(lps, N, e, router_packet_send(s, e))
    <3>1. CASE HasPending(s[e.port])
      <4>1. Flows(lps, N, e, router_send_chunk(s, e))
        BY <1>4, <2>1, <2>2, <2>3, <3>1, FlowSendPort
      <4>. QED
        BY <3>1, <4>1, Zenon DEF router_packet_send
    <3>2. CASE ~HasPending(s[e.port])
      <4>1. Flows(lps, N, e, router_send_none(s, e))
        BY <1>4, <2>1, <2>2, <2>3, FlowSendNone
      <4>. QED
        BY <3>2, <4>1, Zenon DEF router_packet_send
    <3>. QED
      BY <3>1, <3>2
  <2>. QED
    BY <1>6, <2>1, <2>4, <2>5, Zenon
<1>15. CASE RBuffer(e)
  <2>1. e.type = "R_BUFFER" /\ Process(e, router_buf_update(s, e))
    BY <1>15, Zenon DEF RBuffer, Ready
  <2>2. RouterReady(x, s, F, e)
    BY <1>3, <2>1, Zenon DEF RouterEvents
  <2>3. e \in N
    BY <1>5, <2>1 DEF NetTypes, ArriveTypes
  <2>4. HandlerOK(x, s, F, e, router_buf_update(s, e))
    BY <2>1, <2>2, CreditHandler
  <2>5. Flows(lps, N, e, router_buf_update(s, e))
    <3>1. CASE s[e.port].queued[e.chan] = << >>
      BY <1>4, <2>1, <2>2, <2>3, <3>1, FlowCreditFrees
    <3>2. CASE s[e.port].queued[e.chan] # << >>
      BY <1>4, <2>1, <2>2, <2>3, <3>2, FlowCreditMoves
    <3>. QED
      BY <3>1, <3>2
  <2>. QED
    BY <1>6, <2>1, <2>4, <2>5, Zenon
<1>. QED
  BY <1>7, <1>8, <1>9, <1>10, <1>11, <1>12, <1>13, <1>14, <1>15

LEMMA UndoFlows == CreditIndInv /\ Undo(reverse) => CreditIndInv'
<1> SUFFICES ASSUME CreditIndInv, Undo(reverse) PROVE CreditIndInv'
  OBVIOUS
<1>1. PICK V, L, D : World(lps, events, log, V, L) /\ NetHistory(events, log, V, D)
  BY Zenon DEF CreditIndInv
<1> DEFINE en == log[Len(log)]
           x == en.ev.to
<1>2. /\ log # << >>
      /\ lps' = [lps EXCEPT ![x] = reverse(lps[x], en)]
      /\ events' = (events \ en.sent) \cup {en.ev}
      /\ log' = SubSeq(log, 1, Len(log) - 1)
  BY Zenon DEF Undo, LastEntry, Reversed
<1>3. World([lps EXCEPT ![x] = reverse(lps[x], en)], (events \ en.sent) \cup {en.ev},
            SubSeq(log, 1, Len(log) - 1), V, L)
  BY <1>1, <1>2, UndoStep, Zenon
<1>4. NetHistory((events \ en.sent) \cup {en.ev}, SubSeq(log, 1, Len(log) - 1), V, D)
  BY <1>1, <1>2, UndoFlow
<1>5. World(lps', events', log', V, L) /\ NetHistory(events', log', V, D)
  BY <1>2, <1>3, <1>4, Zenon
<1>. QED
  BY <1>5, Zenon DEF CreditIndInv

LEMMA CommitFlows == CreditIndInv /\ Commit => CreditIndInv'
<1> SUFFICES ASSUME CreditIndInv, Commit PROVE CreditIndInv'
  OBVIOUS
<1>1. PICK V, L, D : World(lps, events, log, V, L) /\ NetHistory(events, log, V, D)
  BY Zenon DEF CreditIndInv
<1>2. log # << >> /\ lps' = lps /\ events' = events /\ log' = Tail(log)
  BY Zenon DEF Commit
<1>3. \E V2, L2, D2 : World(lps, events, Tail(log), V2, L2) /\ NetHistory(events, Tail(log), V2, D2)
  BY <1>1, <1>2, CommitFlow
<1>4. \E V2, L2, D2 : World(lps', events', log', V2, L2) /\ NetHistory(events', log', V2, D2)
  BY <1>2, <1>3, Zenon
<1>. QED
  BY <1>4, Zenon DEF CreditIndInv

LEMMA NextFlows == CreditIndInv /\ [Next]_rossVars => CreditIndInv'
<1> SUFFICES ASSUME CreditIndInv, [Next]_rossVars PROVE CreditIndInv'
  OBVIOUS
<1>1. Terminated => UNCHANGED rossVars
  BY Zenon DEF Terminated
<1>2. UNCHANGED rossVars => CreditIndInv'
  BY Zenon DEF CreditIndInv, rossVars
<1>. QED
  BY <1>1, <1>2, HandleEventFlows, UndoFlows, CommitFlows, Zenon DEF Next

LEMMA CreditInductive == Spec => []CreditIndInv
  BY StartCredits, NextFlows, PTL DEF Spec

-----------------------------------------------------------------------------
(* From tokens to the sets that the property counts.                       *)

Kind(y) ==
  IF y.in # "event" THEN y.in ELSE IF y.what.type \in ArriveTypes THEN "arrive" ELSE "credit"
PartIn(Pl, z, K) == {k \in Ids : Kind(Pl[<<z, k>>]) = K}

ArrivingOf(z) == {k \in ArrivingChunks : <<k.from, k.port, k.chan>> = z}
WaitingOf(z) == {k \in QueuedChunks : <<k.from, k.saved_port, k.saved_chan>> = z}
CreditsOf(z) == {e \in events : e.type \in {"T_BUFFER", "R_BUFFER"} /\ EventKey(e)[1] = z}

LEMMA CountNamed ==
  ASSUME NEW A, NEW B, IsFiniteSet(B), NEW f \in [A -> B],
         \A x, y \in A : f[x] = f[y] => x = y,
         \A b \in B : \E x \in A : f[x] = b
  PROVE  IsFiniteSet(A) /\ Cardinality(A) = Cardinality(B)
<1>1. f \in Injection(A, B) /\ f \in Surjection(A, B)
  BY Zenon DEF Injection, Surjection, IsInjective
<1>. QED
  BY <1>1, FS_Injection, Zenon

Splits(U, A, B, C, D) ==
  /\ U = A \cup B \cup C \cup D
  /\ A \cap B = {} /\ A \cap C = {} /\ A \cap D = {}
  /\ B \cap C = {} /\ B \cap D = {} /\ C \cap D = {}

LEMMA CountParts ==
  ASSUME NEW U, IsFiniteSet(U), NEW A, NEW B, NEW C, NEW D, Splits(U, A, B, C, D)
  PROVE  /\ IsFiniteSet(A) /\ IsFiniteSet(B) /\ IsFiniteSet(C) /\ IsFiniteSet(D)
         /\ Cardinality(A) \in Nat /\ Cardinality(B) \in Nat
         /\ Cardinality(C) \in Nat /\ Cardinality(D) \in Nat
         /\ Cardinality(U) = Cardinality(A) + Cardinality(B) + Cardinality(C) + Cardinality(D)
<1>0. /\ U = A \cup B \cup C \cup D
      /\ A \cap B = {} /\ A \cap C = {} /\ A \cap D = {}
      /\ B \cap C = {} /\ B \cap D = {} /\ C \cap D = {}
  BY Zenon DEF Splits
<1>1. A \subseteq U /\ B \subseteq U /\ C \subseteq U /\ D \subseteq U
  BY <1>0, Zenon
<1>2. IsFiniteSet(A) /\ IsFiniteSet(B) /\ IsFiniteSet(C) /\ IsFiniteSet(D)
  BY <1>1, FS_Subset, Zenon
<1>3. /\ Cardinality(A) \in Nat /\ Cardinality(B) \in Nat
      /\ Cardinality(C) \in Nat /\ Cardinality(D) \in Nat
  BY <1>2, FS_CardinalityType
<1>4. ASSUME NEW X, NEW Y, IsFiniteSet(X), IsFiniteSet(Y), X \cap Y = {}
      PROVE  IsFiniteSet(X \cup Y) /\ Cardinality(X \cup Y) = Cardinality(X) + Cardinality(Y)
  <2>1. /\ IsFiniteSet(X \cup Y)
        /\ Cardinality(X \cup Y) = Cardinality(X) + Cardinality(Y) - Cardinality(X \cap Y)
    BY <1>4, FS_Union, Zenon
  <2>2. Cardinality(X \cap Y) = 0
    BY <1>4, FS_EmptySet, Zenon
  <2>3. Cardinality(X) \in Nat /\ Cardinality(Y) \in Nat
    BY <1>4, FS_CardinalityType
  <2>. QED
    BY <2>1, <2>2, <2>3
<1>5. IsFiniteSet(A \cup B) /\ Cardinality(A \cup B) = Cardinality(A) + Cardinality(B)
  BY <1>0, <1>2, <1>4, Zenon
<1>6. (A \cup B) \cap C = {} /\ (A \cup B \cup C) \cap D = {}
  BY <1>0, Zenon
<1>7. IsFiniteSet(A \cup B \cup C) /\ Cardinality(A \cup B \cup C) = Cardinality(A \cup B) + Cardinality(C)
  BY <1>2, <1>4, <1>5, <1>6, Zenon
<1>8. Cardinality(A \cup B \cup C \cup D) = Cardinality(A \cup B \cup C) + Cardinality(D)
  BY <1>2, <1>4, <1>6, <1>7, Zenon
<1>. QED
  BY <1>0, <1>2, <1>3, <1>5, <1>7, <1>8

LEMMA PresentCredits ==
  ASSUME CreditIndInv
  PROVE  /\ StatesOK(lps) /\ \A e \in events : EventOK(e)
         /\ \E Pl : CreditInv(lps, NetEvents(events), Pl)
<1>1. PICK V, L, D : World(lps, events, log, V, L) /\ NetHistory(events, log, V, D)
  BY Zenon DEF CreditIndInv
<1>2. StatesOK(lps) /\ SeenAs(lps, V[Len(log) + 1]) /\ Len(log) \in Nat
  BY <1>1, WorldSeen, Zenon
<1>3. \A e \in events : EventOK(e)
  BY <1>1, Zenon DEF World
<1>4. Len(log) + 1 \in 1 .. Len(log) + 1
  BY <1>2
<1>5. D[Len(log) + 1] = NetEvents(events)
  BY <1>1, Zenon DEF NetHistory
<1>6. PICK Pl : CreditInv(V[Len(log) + 1], D[Len(log) + 1], Pl)
  BY <1>1, <1>4, Zenon DEF NetHistory
<1>7. CreditInv(lps, NetEvents(events), Pl)
  BY <1>2, <1>5, <1>6, CreditsInView
<1>. QED
  BY <1>2, <1>3, <1>7

LEMMA KindFacts ==
  /\ Kind(Nowhere) = "none"
  /\ \A z : Kind(Pends(z)) = "pend" /\ Kind(Waits(z)) = "wait"
  /\ \A e : Kind(On(e)) = IF e.type \in ArriveTypes THEN "arrive" ELSE "credit"
<1>1. /\ Nowhere.in = "none"
      /\ \A x : Pends(x).in = "pend" /\ Waits(x).in = "wait" /\ On(x).in = "event" /\ On(x).what = x
  BY PlaceFacts, Zenon
<1>2. Kind(Nowhere) = "none"
  BY <1>1 DEF Kind
<1>3. \A z : Kind(Pends(z)) = "pend" /\ Kind(Waits(z)) = "wait"
  BY <1>1 DEF Kind
<1>4. \A e : Kind(On(e)) = IF e.type \in ArriveTypes THEN "arrive" ELSE "credit"
  BY <1>1 DEF Kind
<1>. QED
  BY <1>2, <1>3, <1>4

\* where a token of each kind is
LEMMA KindPlace ==
  ASSUME NEW v, NEW D, NEW Pl, CreditInv(v, D, Pl), NEW w \in Tokens
  PROVE  /\ Kind(Pl[w]) \in {"none", "pend", "wait", "arrive", "credit"}
         /\ Kind(Pl[w]) = "none" => Pl[w] = Nowhere
         /\ Kind(Pl[w]) = "pend" => \E z \in RSlots : w \in Keys("pend", z, PendAt(v, z))
         /\ Kind(Pl[w]) = "wait" => \E z \in RSlots : w \in Keys("wait", z, WaitAt(v, z))
         /\ Kind(Pl[w]) = "arrive" =>
              \E e \in D : w = EventKey(e) /\ e.type \in ArriveTypes /\ Pl[w] = On(e)
         /\ Kind(Pl[w]) = "credit" =>
              \E e \in D : w = EventKey(e) /\ e.type \notin ArriveTypes /\ Pl[w] = On(e)
<1>1. PlacesOK(v, D, Pl) /\ (Pl[w] = Nowhere \/ IsPlace(Pl[w]))
  BY Zenon DEF CreditInv, PlaceType
<1>2. CASE Pl[w] = Nowhere
  BY <1>2, KindFacts
<1>3. CASE \E z \in RSlots : Pl[w] = Pends(z)
  <2>1. PICK z \in RSlots : Pl[w] = Pends(z)
    BY <1>3
  <2>2. Kind(Pl[w]) = "pend"
    BY <2>1, KindFacts, Zenon
  <2>3. w \in Keys("pend", z, PendAt(v, z))
    BY <1>1, <2>1, TokenFacts, Zenon
  <2>. QED
    BY <2>2, <2>3
<1>4. CASE \E z \in RSlots : Pl[w] = Waits(z)
  <2>1. PICK z \in RSlots : Pl[w] = Waits(z)
    BY <1>4
  <2>2. Kind(Pl[w]) = "wait"
    BY <2>1, KindFacts, Zenon
  <2>3. w \in Keys("wait", z, WaitAt(v, z))
    BY <1>1, <2>1, TokenFacts, Zenon
  <2>. QED
    BY <2>2, <2>3
<1>5. CASE \E e : Pl[w] = On(e)
  <2>1. PICK e : Pl[w] = On(e)
    BY <1>5
  <2>0. \A f, x : x \in Tokens /\ Pl[x] = On(f) => f \in D /\ x = EventKey(f)
    BY <1>1, TokenFacts
  <2>2. e \in D /\ w = EventKey(e)
    BY <2>0, <2>1, Zenon
  <2>3. Kind(Pl[w]) = IF e.type \in ArriveTypes THEN "arrive" ELSE "credit"
    BY <2>1, KindFacts, Zenon
  <2>. QED
    BY <2>1, <2>2, <2>3
<1>. QED
  BY <1>1, <1>2, <1>3, <1>4, <1>5, Zenon DEF IsPlace

\* the four parts of a slot's tokens
LEMMA UsedParts ==
  ASSUME NEW v, NEW D, NEW Pl, CreditInv(v, D, Pl), NEW z \in Slots
  PROVE  /\ \A K \in {"pend", "wait", "arrive", "credit"} :
              IsFiniteSet(PartIn(Pl, z, K)) /\ Cardinality(PartIn(Pl, z, K)) \in Nat
         /\ OccAt(v, z) = ChunkSize *
              (Cardinality(PartIn(Pl, z, "pend")) + Cardinality(PartIn(Pl, z, "wait"))
               + Cardinality(PartIn(Pl, z, "arrive")) + Cardinality(PartIn(Pl, z, "credit")))
<1> DEFINE U == Used(Pl, z)
           A == PartIn(Pl, z, "pend")
           B == PartIn(Pl, z, "wait")
           C == PartIn(Pl, z, "arrive")
           G == PartIn(Pl, z, "credit")
<1>1. IsFiniteSet(U) /\ OccAt(v, z) = ChunkSize * Cardinality(U)
  BY Zenon DEF CreditInv, CountsOK
<1>2. \A k \in Ids : /\ Kind(Pl[<<z, k>>]) \in {"none", "pend", "wait", "arrive", "credit"}
                     /\ Kind(Pl[<<z, k>>]) = "none" <=> Pl[<<z, k>>] = Nowhere
  <2> SUFFICES ASSUME NEW k \in Ids
               PROVE  /\ Kind(Pl[<<z, k>>]) \in {"none", "pend", "wait", "arrive", "credit"}
                      /\ Kind(Pl[<<z, k>>]) = "none" <=> Pl[<<z, k>>] = Nowhere
    OBVIOUS
  <2>1. <<z, k>> \in Tokens
    BY TokenPair
  <2>2. /\ Kind(Pl[<<z, k>>]) \in {"none", "pend", "wait", "arrive", "credit"}
        /\ Kind(Pl[<<z, k>>]) = "none" => Pl[<<z, k>>] = Nowhere
    BY <2>1, KindPlace, Zenon
  <2>. QED
    BY <2>2, KindFacts, Zenon
<1>3. U = A \cup B \cup C \cup G
  BY <1>2 DEF Used, PartIn
<1>4. A \cap B = {} /\ A \cap C = {} /\ A \cap G = {} /\ B \cap C = {} /\ B \cap G = {} /\ C \cap G = {}
  BY DEF PartIn
<1> HIDE DEF U, A, B, C, G
<1>5. /\ IsFiniteSet(A) /\ IsFiniteSet(B) /\ IsFiniteSet(C) /\ IsFiniteSet(G)
      /\ Cardinality(A) \in Nat /\ Cardinality(B) \in Nat
      /\ Cardinality(C) \in Nat /\ Cardinality(G) \in Nat
      /\ Cardinality(U) = Cardinality(A) + Cardinality(B) + Cardinality(C) + Cardinality(G)
  <2>1. Splits(U, A, B, C, G)
    BY <1>3, <1>4, Zenon DEF Splits
  <2>. QED
    BY <1>1, <2>1, CountParts
<1>6. OccAt(v, z) = ChunkSize * (Cardinality(A) + Cardinality(B) + Cardinality(C) + Cardinality(G))
  BY <1>1, <1>5, Zenon
<1>7. \A K \in {"pend", "wait", "arrive", "credit"} :
        IsFiniteSet(PartIn(Pl, z, K)) /\ Cardinality(PartIn(Pl, z, K)) \in Nat
  BY <1>5, Zenon DEF A, B, C, G
<1>. QED
  BY <1>6, <1>7 DEF A, B, C, G

LEMMA KeyParts ==
  ASSUME NEW z \in Slots, NEW i, <<z, i>> \in Tokens
  PROVE  i \in Ids
  BY DEF Tokens

\* chunks on their way from a slot
LEMMA ArrivingCount ==
  ASSUME NEW Pl, CreditInv(lps, NetEvents(events), Pl), NEW z \in Slots
  PROVE  /\ IsFiniteSet(ArrivingOf(z))
         /\ Cardinality(ArrivingOf(z)) = Cardinality(PartIn(Pl, z, "arrive"))
         /\ \A k \in ArrivingOf(z) : <<z, Id(k)>> \in Tokens /\ Kind(Pl[<<z, Id(k)>>]) = "arrive"
<1> DEFINE N == NetEvents(events)
           A == ArrivingOf(z)
           B == PartIn(Pl, z, "arrive")
           f == [k \in A |-> Id(k)]
<1>0. PlacesOK(lps, N, Pl)
  BY Zenon DEF CreditInv
<1>1. \A e : e \in N => EventKey(e) \in Tokens /\ Pl[EventKey(e)] = On(e)
  BY <1>0, TokenFacts
<1>2. \A e : e.type \in ArriveTypes =>
               EventKey(e) = << <<e.chunk.from, e.chunk.port, e.chunk.chan>>, Id(e.chunk) >>
  BY Zenon DEF EventKey
<1>3. ASSUME NEW k \in A
      PROVE  \E e \in N : /\ k = e.chunk /\ e.type \in ArriveTypes /\ EventKey(e) = <<z, Id(k)>>
  <2>1. PICK e \in events : k = e.chunk /\ e.type \in ArriveTypes
    BY Zenon DEF ArrivingOf, ArrivingChunks, ArriveTypes
  <2>2. <<k.from, k.port, k.chan>> = z
    BY Zenon DEF ArrivingOf
  <2>3. e \in N
    BY <2>1, Zenon DEF NetEvents, NetTypes
  <2>. QED
    BY <1>2, <2>1, <2>2, <2>3, Zenon
<1>4. ASSUME NEW k \in A
      PROVE  /\ <<z, Id(k)>> \in Tokens /\ Id(k) \in Ids /\ Kind(Pl[<<z, Id(k)>>]) = "arrive"
             /\ \E e \in N : k = e.chunk /\ Pl[<<z, Id(k)>>] = On(e)
  <2>1. PICK e \in N : k = e.chunk /\ e.type \in ArriveTypes /\ EventKey(e) = <<z, Id(k)>>
    BY <1>3
  <2>2. <<z, Id(k)>> \in Tokens /\ Pl[<<z, Id(k)>>] = On(e)
    BY <1>1, <2>1, Zenon
  <2>3. Kind(On(e)) = "arrive"
    BY <2>1, KindFacts, Zenon
  <2>4. Id(k) \in Ids
    BY <2>2, KeyParts
  <2>. QED
    BY <2>1, <2>2, <2>3, <2>4, Zenon
<1>5. f \in [A -> B] /\ \A k \in A : f[k] = Id(k)
  <2>1. \A k \in A : Id(k) \in B
    BY <1>4, Zenon DEF PartIn
  <2>. QED
    BY <2>1, Zenon
<1> HIDE DEF f
<1>6. ASSUME NEW j \in A, NEW k \in A, f[j] = f[k] PROVE j = k
  <2>1. Id(j) = Id(k)
    BY <1>5, <1>6
  <2>2. PICK d \in N : j = d.chunk /\ Pl[<<z, Id(j)>>] = On(d)
    BY <1>4
  <2>3. PICK e \in N : k = e.chunk /\ Pl[<<z, Id(k)>>] = On(e)
    BY <1>4
  <2>4. On(d) = On(e)
    BY <2>1, <2>2, <2>3, Zenon
  <2>5. d = e
    BY <2>4, PlaceFacts, Zenon
  <2>. QED
    BY <2>2, <2>3, <2>5, Zenon
<1>7. ASSUME NEW i \in B PROVE \E k \in A : f[k] = i
  <2>1. i \in Ids /\ Kind(Pl[<<z, i>>]) = "arrive"
    BY Zenon DEF PartIn
  <2>2. <<z, i>> \in Tokens
    BY <2>1, TokenPair
  <2>3. PICK e \in N : <<z, i>> = EventKey(e) /\ e.type \in ArriveTypes
    BY <2>1, <2>2, KindPlace, Zenon
  <2>4. <<z, i>> = << <<e.chunk.from, e.chunk.port, e.chunk.chan>>, Id(e.chunk) >>
    BY <1>2, <2>3, Zenon
  <2>5. <<e.chunk.from, e.chunk.port, e.chunk.chan>> = z /\ Id(e.chunk) = i
    BY <2>4
  <2>6. e.chunk \in A
    BY <2>3, <2>5, Zenon DEF ArrivingOf, ArrivingChunks, ArriveTypes, NetEvents
  <2>. QED
    BY <1>5, <2>5, <2>6, Zenon
<1>8. IsFiniteSet(B)
  BY UsedParts, Zenon
<1>9. \A k \in A : <<z, Id(k)>> \in Tokens /\ Kind(Pl[<<z, Id(k)>>]) = "arrive"
  BY <1>4, Zenon
<1> HIDE DEF A, B, N
<1>10. IsFiniteSet(A) /\ Cardinality(A) = Cardinality(B)
  BY <1>5, <1>6, <1>7, <1>8, CountNamed
<1>. QED
  BY <1>9, <1>10 DEF A, B

\* credits on their way to a slot
LEMMA CreditCount ==
  ASSUME NEW Pl, CreditInv(lps, NetEvents(events), Pl), NEW z \in Slots
  PROVE  Cardinality(CreditsOf(z)) = Cardinality(PartIn(Pl, z, "credit"))
<1> DEFINE N == NetEvents(events)
           A == CreditsOf(z)
           B == PartIn(Pl, z, "credit")
           f == [e \in A |-> EventKey(e)[2]]
<1>0. PlacesOK(lps, N, Pl)
  BY Zenon DEF CreditInv
<1>1. \A e : e \in N => EventKey(e) \in Tokens /\ Pl[EventKey(e)] = On(e)
  BY <1>0, TokenFacts
<1>2. ASSUME NEW e \in A
      PROVE  /\ e.type \notin ArriveTypes /\ EventKey(e)[1] = z /\ EventKey(e)[2] \in Ids
             /\ Pl[<<z, EventKey(e)[2]>>] = On(e)
  <2>1. e \in events /\ e.type \in {"T_BUFFER", "R_BUFFER"} /\ EventKey(e)[1] = z
    BY Zenon DEF CreditsOf
  <2>2. e \in N /\ e.type \notin ArriveTypes
    BY <2>1 DEF NetEvents, NetTypes, ArriveTypes
  <2>3. EventKey(e) \in Tokens /\ Pl[EventKey(e)] = On(e)
    BY <1>1, <2>2, Zenon
  <2>4. EventKey(e) = <<z, EventKey(e)[2]>> /\ EventKey(e)[2] \in Ids
    BY <2>1, <2>3 DEF Tokens
  <2>. QED
    BY <2>1, <2>2, <2>3, <2>4, Zenon
<1>3. f \in [A -> B] /\ \A e \in A : f[e] = EventKey(e)[2]
  <2>1. ASSUME NEW e \in A PROVE EventKey(e)[2] \in B
    <3>1. Kind(On(e)) = "credit"
      BY <1>2, KindFacts, Zenon
    <3>. QED
      BY <1>2, <3>1, Zenon DEF PartIn
  <2>. QED
    BY <2>1, Zenon
<1> HIDE DEF f
<1>4. ASSUME NEW d \in A, NEW e \in A, f[d] = f[e] PROVE d = e
  <2>1. EventKey(d)[2] = EventKey(e)[2]
    BY <1>3, <1>4, Zenon
  <2>2. On(d) = On(e)
    BY <1>2, <2>1, Zenon
  <2>. QED
    BY <2>2, PlaceFacts, Zenon
<1>5. ASSUME NEW i \in B PROVE \E e \in A : f[e] = i
  <2>1. i \in Ids /\ Kind(Pl[<<z, i>>]) = "credit"
    BY Zenon DEF PartIn
  <2>2. <<z, i>> \in Tokens
    BY <2>1, TokenPair
  <2>3. PICK e \in N : <<z, i>> = EventKey(e) /\ e.type \notin ArriveTypes
    <3> DEFINE w == <<z, i>>
    <3>1. w \in Tokens /\ Kind(Pl[w]) = "credit"
      BY <2>1, <2>2
    <3> HIDE DEF w, N
    <3>2. CreditInv(lps, N, Pl)
      BY DEF N
    <3>3. \E e \in N : w = EventKey(e) /\ e.type \notin ArriveTypes /\ Pl[w] = On(e)
      BY <3>1, <3>2, KindPlace
    <3>. QED
      BY <3>3, Zenon DEF w
  <2>4. EventKey(e)[1] = z /\ EventKey(e)[2] = i
    <3>1. <<z, i>>[1] = z /\ <<z, i>>[2] = i
      OBVIOUS
    <3>. QED
      BY <2>3, <3>1, Zenon
  <2>5. e \in events /\ e.type \in {"T_BUFFER", "R_BUFFER"}
    BY <2>3 DEF NetEvents, NetTypes
  <2>6. e \in A
    BY <2>4, <2>5, Zenon DEF CreditsOf
  <2>. QED
    BY <1>3, <2>4, <2>6, Zenon
<1>6. IsFiniteSet(B)
  BY UsedParts, Zenon
<1> HIDE DEF A, B, N
<1>7. IsFiniteSet(A) /\ Cardinality(A) = Cardinality(B)
  BY <1>3, <1>4, <1>5, <1>6, CountNamed
<1>. QED
  BY <1>7 DEF A, B

LEMMA InQueue ==
  ASSUME StatesOK(lps), NEW k
  PROVE  k \in QueuedChunks <=> \E y \in RSlots : \E i \in 1 .. Len(WaitAt(lps, y)) : k = WaitAt(lps, y)[i]
<1>1. ASSUME NEW r \in Routers PROVE DOMAIN lps[r] = Ports(r)
  <2>1. r \in Lps /\ r \notin Terminals
    BY RouteAssumption DEF Lps
  <2>2. RouterOK(r, lps[r])
    BY <2>1, Zenon DEF StatesOK, StateOK
  <2>. QED
    BY <2>2, Zenon DEF RouterOK
<1>2. ASSUME NEW y \in RSlots PROVE DOMAIN WaitAt(lps, y) = 1 .. Len(WaitAt(lps, y))
  <2>1. WaitAt(lps, y) \in Seq(ChunkType)
    BY StatesView, Zenon DEF ViewOK
  <2>. QED
    BY <2>1
<1>3. ASSUME k \in QueuedChunks
      PROVE  \E y \in RSlots : \E i \in 1 .. Len(WaitAt(lps, y)) : k = WaitAt(lps, y)[i]
  <2>1. PICK r \in Routers : k \in UNION {ChunksIn(lps[r][p].queued) : p \in DOMAIN lps[r]}
    BY <1>3, Zenon DEF QueuedChunks
  <2>2. PICK p \in DOMAIN lps[r] : k \in ChunksIn(lps[r][p].queued)
    BY <2>1, Zenon
  <2>3. PICK c \in Chans : k \in Range(lps[r][p].queued[c])
    BY <2>2, Zenon DEF ChunksIn
  <2>4. p \in Ports(r)
    BY <1>1, <2>2
  <2> DEFINE y == <<r, p, c>>
  <2>5. y \in RSlots /\ y[1] = r /\ y[2] = p /\ y[3] = c
    BY <2>4, SlotFacts
  <2>6. WaitAt(lps, y) = lps[r][p].queued[c]
    BY <2>5, Zenon DEF WaitAt
  <2> HIDE DEF y
  <2>7. k \in Range(WaitAt(lps, y))
    BY <2>3, <2>6
  <2>8. PICK i \in DOMAIN WaitAt(lps, y) : k = WaitAt(lps, y)[i]
    BY <2>7, Zenon DEF Range
  <2>. QED
    BY <1>2, <2>5, <2>8, Zenon
<1>4. ASSUME NEW y \in RSlots, NEW i \in 1 .. Len(WaitAt(lps, y)), k = WaitAt(lps, y)[i]
      PROVE  k \in QueuedChunks
  <2>1. y[1] \in Routers /\ y[2] \in Ports(y[1]) /\ y[3] \in Chans
    BY SlotFacts, Zenon
  <2>2. y[2] \in DOMAIN lps[y[1]]
    BY <1>1, <2>1, Zenon
  <2>3. i \in DOMAIN WaitAt(lps, y)
    BY <1>2, Zenon
  <2>4. k \in Range(lps[y[1]][y[2]].queued[y[3]])
    BY <1>4, <2>3, Zenon DEF Range, WaitAt
  <2>5. k \in ChunksIn(lps[y[1]][y[2]].queued)
    BY <2>1, <2>4, Zenon DEF ChunksIn
  <2>6. k \in UNION {ChunksIn(lps[y[1]][p].queued) : p \in DOMAIN lps[y[1]]}
    BY <2>2, <2>5, Zenon
  <2>. QED
    BY <2>1, <2>6, Zenon DEF QueuedChunks
<1>. QED
  BY <1>3, <1>4, Zenon

\* chunks that wait at the next router, and hold a slot meanwhile
LEMMA WaitingCount ==
  ASSUME StatesOK(lps), NEW Pl, CreditInv(lps, NetEvents(events), Pl), NEW z \in Slots
  PROVE  /\ IsFiniteSet(WaitingOf(z))
         /\ Cardinality(WaitingOf(z)) = Cardinality(PartIn(Pl, z, "wait"))
         /\ \A k \in WaitingOf(z) : <<z, Id(k)>> \in Tokens /\ Kind(Pl[<<z, Id(k)>>]) = "wait"
<1> DEFINE N == NetEvents(events)
           A == WaitingOf(z)
           B == PartIn(Pl, z, "wait")
           f == [k \in A |-> Id(k)]
<1>0. PlacesOK(lps, N, Pl) /\ QueuesOK(lps)
  BY Zenon DEF CreditInv
<1>1. \A y \in RSlots : Keys("wait", y, WaitAt(lps, y)) \subseteq Tokens
  BY <1>0, TokenFacts
<1>2. \A y \in RSlots, x \in Tokens : Pl[x] = Waits(y) <=> x \in Keys("wait", y, WaitAt(lps, y))
  BY <1>0, TokenFacts
<1>3. \A y, k : KeyOf("wait", y, k) = << <<k.from, k.saved_port, k.saved_chan>>, Id(k) >>
  BY Zenon DEF KeyOf
<1>4. ASSUME NEW k \in A
      PROVE  \E y \in RSlots : \E i \in 1 .. Len(WaitAt(lps, y)) :
               k = WaitAt(lps, y)[i] /\ KeyOf("wait", y, WaitAt(lps, y)[i]) = <<z, Id(k)>>
  <2>1. k \in QueuedChunks /\ <<k.from, k.saved_port, k.saved_chan>> = z
    BY Zenon DEF WaitingOf
  <2>2. PICK y \in RSlots : \E i \in 1 .. Len(WaitAt(lps, y)) : k = WaitAt(lps, y)[i]
    BY <2>1, InQueue, Zenon
  <2>3. PICK i \in 1 .. Len(WaitAt(lps, y)) : k = WaitAt(lps, y)[i]
    BY <2>2
  <2>4. KeyOf("wait", y, WaitAt(lps, y)[i]) = <<z, Id(k)>>
    BY <1>3, <2>1, <2>3, Zenon
  <2>. QED
    BY <2>3, <2>4, Zenon
<1>5. ASSUME NEW k \in A
      PROVE  /\ <<z, Id(k)>> \in Tokens /\ Id(k) \in Ids /\ Kind(Pl[<<z, Id(k)>>]) = "wait"
             /\ \E y \in RSlots : \E i \in 1 .. Len(WaitAt(lps, y)) :
                  /\ k = WaitAt(lps, y)[i] /\ KeyOf("wait", y, WaitAt(lps, y)[i]) = <<z, Id(k)>>
                  /\ Pl[<<z, Id(k)>>] = Waits(y)
  <2>1. PICK y \in RSlots : \E i \in 1 .. Len(WaitAt(lps, y)) :
          k = WaitAt(lps, y)[i] /\ KeyOf("wait", y, WaitAt(lps, y)[i]) = <<z, Id(k)>>
    BY <1>4
  <2>2. PICK i \in 1 .. Len(WaitAt(lps, y)) :
          k = WaitAt(lps, y)[i] /\ KeyOf("wait", y, WaitAt(lps, y)[i]) = <<z, Id(k)>>
    BY <2>1
  <2>3. <<z, Id(k)>> \in Keys("wait", y, WaitAt(lps, y))
    BY <2>2, Zenon DEF Keys
  <2>4. <<z, Id(k)>> \in Tokens /\ Pl[<<z, Id(k)>>] = Waits(y)
    BY <1>1, <1>2, <2>3, Zenon
  <2>5. Kind(Waits(y)) = "wait"
    BY KindFacts, Zenon
  <2>6. Id(k) \in Ids
    BY <2>4, KeyParts
  <2>. QED
    BY <2>2, <2>4, <2>5, <2>6, Zenon
<1>6. f \in [A -> B] /\ \A k \in A : f[k] = Id(k)
  <2>1. \A k \in A : Id(k) \in B
    BY <1>5, Zenon DEF PartIn
  <2>. QED
    BY <2>1, Zenon
<1> HIDE DEF f
<1>7. ASSUME NEW j \in A, NEW k \in A, f[j] = f[k] PROVE j = k
  <2>1. Id(j) = Id(k)
    BY <1>6, <1>7
  <2>2. PICK x \in RSlots : \E i \in 1 .. Len(WaitAt(lps, x)) :
                  /\ j = WaitAt(lps, x)[i] /\ KeyOf("wait", x, WaitAt(lps, x)[i]) = <<z, Id(j)>>
                  /\ Pl[<<z, Id(j)>>] = Waits(x)
    BY <1>5
  <2>3. PICK y \in RSlots : \E i \in 1 .. Len(WaitAt(lps, y)) :
                  /\ k = WaitAt(lps, y)[i] /\ KeyOf("wait", y, WaitAt(lps, y)[i]) = <<z, Id(k)>>
                  /\ Pl[<<z, Id(k)>>] = Waits(y)
    BY <1>5
  <2>4. Waits(x) = Waits(y)
    BY <2>1, <2>2, <2>3, Zenon
  <2>5. x = y
    BY <2>4, PlaceFacts, Zenon
  <2>6. NoTwice("wait", y, WaitAt(lps, y))
    BY <1>0, Zenon DEF QueuesOK
  <2>7. PICK i \in 1 .. Len(WaitAt(lps, y)) :
          j = WaitAt(lps, y)[i] /\ KeyOf("wait", y, WaitAt(lps, y)[i]) = <<z, Id(j)>>
    BY <2>2, <2>5, Zenon
  <2>8. PICK h \in 1 .. Len(WaitAt(lps, y)) :
          k = WaitAt(lps, y)[h] /\ KeyOf("wait", y, WaitAt(lps, y)[h]) = <<z, Id(k)>>
    BY <2>3, Zenon
  <2>9. i = h
    BY <2>1, <2>6, <2>7, <2>8, Zenon DEF NoTwice
  <2>. QED
    BY <2>7, <2>8, <2>9, Zenon
<1>8. ASSUME NEW n \in B PROVE \E k \in A : f[k] = n
  <2>1. n \in Ids /\ Kind(Pl[<<z, n>>]) = "wait"
    BY Zenon DEF PartIn
  <2>2. <<z, n>> \in Tokens
    BY <2>1, TokenPair
  <2>3. PICK y \in RSlots : <<z, n>> \in Keys("wait", y, WaitAt(lps, y))
    BY <2>1, <2>2, KindPlace, Zenon
  <2>4. PICK i \in 1 .. Len(WaitAt(lps, y)) : <<z, n>> = KeyOf("wait", y, WaitAt(lps, y)[i])
    BY <2>3, Zenon DEF Keys
  <2> DEFINE k == WaitAt(lps, y)[i]
  <2>5. <<z, n>> = << <<k.from, k.saved_port, k.saved_chan>>, Id(k) >>
    BY <1>3, <2>4, Zenon
  <2>6. k \in QueuedChunks
    BY InQueue, Zenon
  <2> HIDE DEF k
  <2>7. <<k.from, k.saved_port, k.saved_chan>> = z /\ Id(k) = n
    BY <2>5
  <2>8. k \in A
    BY <2>6, <2>7, Zenon DEF WaitingOf
  <2>. QED
    BY <1>6, <2>7, <2>8, Zenon
<1>9. IsFiniteSet(B)
  BY UsedParts, Zenon
<1>10. \A k \in A : <<z, Id(k)>> \in Tokens /\ Kind(Pl[<<z, Id(k)>>]) = "wait"
  BY <1>5, Zenon
<1> HIDE DEF A, B, N
<1>11. IsFiniteSet(A) /\ Cardinality(A) = Cardinality(B)
  BY <1>6, <1>7, <1>8, <1>9, CountNamed
<1>. QED
  BY <1>10, <1>11 DEF A, B

\* chunks in the buffer of a slot
LEMMA PendingCount ==
  ASSUME StatesOK(lps), NEW Pl, CreditInv(lps, NetEvents(events), Pl), NEW z \in Slots
  PROVE  Cardinality(PartIn(Pl, z, "pend")) = IF z \in RSlots THEN Len(PendAt(lps, z)) ELSE 0
<1> DEFINE N == NetEvents(events)
           q == PendAt(lps, z)
           A == 1 .. Len(q)
           B == PartIn(Pl, z, "pend")
           f == [i \in A |-> Id(q[i])]
<1>0. PlacesOK(lps, N, Pl) /\ QueuesOK(lps)
  BY Zenon DEF CreditInv
<1>1. \A y \in RSlots : Keys("pend", y, PendAt(lps, y)) \subseteq Tokens
  BY <1>0, TokenFacts
<1>2. \A y \in RSlots, x \in Tokens : Pl[x] = Pends(y) <=> x \in Keys("pend", y, PendAt(lps, y))
  BY <1>0, TokenFacts
<1>3. \A y, k : KeyOf("pend", y, k) = <<y, Id(k)>>
  BY DEF KeyOf
<1>4. ASSUME NEW n \in B PROVE z \in RSlots /\ \E i \in A : Id(q[i]) = n
  <2>1. n \in Ids /\ Kind(Pl[<<z, n>>]) = "pend"
    BY Zenon DEF PartIn
  <2>2. <<z, n>> \in Tokens
    BY <2>1, TokenPair
  <2>3. PICK y \in RSlots : <<z, n>> \in Keys("pend", y, PendAt(lps, y))
    BY <2>1, <2>2, KindPlace, Zenon
  <2>4. PICK i \in 1 .. Len(PendAt(lps, y)) : <<z, n>> = KeyOf("pend", y, PendAt(lps, y)[i])
    BY <2>3, Zenon DEF Keys
  <2>5. <<z, n>> = <<y, Id(PendAt(lps, y)[i])>>
    BY <1>3, <2>4, Zenon
  <2>6. z = y /\ n = Id(PendAt(lps, y)[i])
    BY <2>5
  <2>. QED
    BY <2>4, <2>6, Zenon
<1>5. CASE z \notin RSlots
  <2>1. B = {}
    BY <1>4, <1>5, Zenon
  <2>2. Cardinality(B) = 0
    BY <2>1, FS_EmptySet, Zenon
  <2>. QED
    BY <1>5, <2>2, Zenon
<1>6. CASE z \in RSlots
  <2>1. Len(q) \in Nat
    <3>1. q \in Seq(ChunkType)
      BY <1>6, StatesView, Zenon DEF ViewOK
    <3>. QED
      BY <3>1
  <2>2. ASSUME NEW i \in A PROVE Id(q[i]) \in B
    <3>1. <<z, Id(q[i])>> \in Keys("pend", z, q)
      BY <1>3, Zenon DEF Keys
    <3>2. <<z, Id(q[i])>> \in Tokens /\ Pl[<<z, Id(q[i])>>] = Pends(z)
      BY <1>1, <1>2, <1>6, <3>1, Zenon
    <3>3. Kind(Pends(z)) = "pend"
      BY KindFacts, Zenon
    <3>4. Id(q[i]) \in Ids
      BY <3>2, KeyParts
    <3>. QED
      BY <3>2, <3>3, <3>4, Zenon DEF PartIn
  <2>3. f \in [A -> B] /\ \A i \in A : f[i] = Id(q[i])
    BY <2>2, Zenon
  <2> HIDE DEF f
  <2>4. ASSUME NEW i \in A, NEW j \in A, f[i] = f[j] PROVE i = j
    <3>1. KeyOf("pend", z, q[i]) = KeyOf("pend", z, q[j])
      BY <1>3, <2>3, <2>4, Zenon
    <3>2. NoTwice("pend", z, q)
      BY <1>0, <1>6, Zenon DEF QueuesOK
    <3>. QED
      BY <3>1, <3>2, Zenon DEF NoTwice
  <2>5. ASSUME NEW n \in B PROVE \E i \in A : f[i] = n
    BY <1>4, <2>3, Zenon
  <2>6. IsFiniteSet(B)
    BY UsedParts, Zenon
  <2>7. Cardinality(A) = Len(q)
    <3> HIDE DEF q
    <3>1. 1 .. Len(q) = A /\ Cardinality(1 .. Len(q)) = IF 1 > Len(q) THEN 0 ELSE Len(q) - 1 + 1
      BY <2>1, FS_Interval
    <3>. QED
      BY <2>1, <3>1
  <2> HIDE DEF A, B, q
  <2>8. Cardinality(A) = Cardinality(B)
    BY <2>3, <2>4, <2>5, <2>6, CountNamed
  <2>9. Cardinality(B) = Len(q)
    BY <2>7, <2>8
  <2>. QED
    BY <1>6, <2>9 DEF B, q
<1>. QED
  BY <1>5, <1>6, Zenon

\* the slots that chunks hold
LEMMA HeldSlots ==
  ASSUME StatesOK(lps), NEW Pl, CreditInv(lps, NetEvents(events), Pl)
  PROVE  /\ \A k \in ArrivingChunks : <<k.from, k.port, k.chan>> \in Slots
         /\ \A k \in QueuedChunks : <<k.from, k.saved_port, k.saved_chan>> \in Slots
<1> DEFINE N == NetEvents(events)
<1>0. PlacesOK(lps, N, Pl)
  BY Zenon DEF CreditInv
<1>1. \A e : e \in N => EventKey(e) \in Tokens
  BY <1>0, TokenFacts
<1>2. \A y \in RSlots : Keys("wait", y, WaitAt(lps, y)) \subseteq Tokens
  BY <1>0, TokenFacts
<1>3. \A z, i : <<z, i>> \in Tokens => z \in Slots
  BY DEF Tokens
<1>4. ASSUME NEW k \in ArrivingChunks PROVE <<k.from, k.port, k.chan>> \in Slots
  <2>1. PICK e \in events : k = e.chunk /\ e.type \in ArriveTypes
    BY Zenon DEF ArrivingChunks, ArriveTypes
  <2>2. EventKey(e) \in Tokens
    BY <1>1, <2>1, Zenon DEF NetEvents, NetTypes
  <2>3. EventKey(e) = << <<k.from, k.port, k.chan>>, Id(k) >>
    BY <2>1, Zenon DEF EventKey
  <2>. QED
    BY <1>3, <2>2, <2>3, Zenon
<1>5. ASSUME NEW k \in QueuedChunks PROVE <<k.from, k.saved_port, k.saved_chan>> \in Slots
  <2>1. PICK y \in RSlots : \E i \in 1 .. Len(WaitAt(lps, y)) : k = WaitAt(lps, y)[i]
    BY InQueue, Zenon
  <2>2. PICK i \in 1 .. Len(WaitAt(lps, y)) : k = WaitAt(lps, y)[i]
    BY <2>1
  <2>3. KeyOf("wait", y, WaitAt(lps, y)[i]) \in Tokens
    BY <1>2, Zenon DEF Keys
  <2>4. KeyOf("wait", y, WaitAt(lps, y)[i]) = << <<k.from, k.saved_port, k.saved_chan>>, Id(k) >>
    BY <2>2, Zenon DEF KeyOf
  <2>. QED
    BY <1>3, <2>3, <2>4, Zenon
<1>. QED
  BY <1>4, <1>5, Zenon

LEMMA TerminalCredits ==
  ASSUME StatesOK(lps), NEW Pl, CreditInv(lps, NetEvents(events), Pl),
         \A e \in events : EventOK(e), NEW t \in Terminals
  PROVE  lps[t].vc_occupancy = ChunkSize *
           (Cardinality({k \in ArrivingChunks \cup QueuedChunks : k.from = t})
            + Cardinality(EventsOf("T_BUFFER", t)))
<1> DEFINE z == TSlot(t)
           A == ArrivingOf(z)
           W == WaitingOf(z)
           C == CreditsOf(z)
<1>1. z \in Slots /\ z \notin RSlots /\ z[1] = t
  BY SlotFacts, Zenon
<1> HIDE DEF z
<1>2. OccAt(lps, z) = lps[t].vc_occupancy
  BY <1>1, Zenon DEF OccAt
<1>3. ASSUME NEW x, NEW p, NEW c, <<x, p, c>> \in Slots PROVE x = t <=> <<x, p, c>> = z
  <2>1. <<x, p, c>>[1] = x
    OBVIOUS
  <2>2. ASSUME x = t PROVE <<x, p, c>> = z
    <3>1. <<x, p, c>> \notin RSlots
      BY <2>1, <2>2, SlotFacts, Zenon
    <3>2. PICK u \in Terminals : <<x, p, c>> = TSlot(u)
      BY <1>3, <3>1, Zenon DEF Slots
    <3>3. u = x
      BY <2>1, <3>2, SlotFacts, Zenon
    <3>. QED
      BY <2>2, <3>2, <3>3, Zenon DEF z
  <2>3. ASSUME <<x, p, c>> = z PROVE x = t
    BY <1>1, <2>1, <2>3, Zenon
  <2>. QED
    BY <2>2, <2>3
<1>4. {k \in ArrivingChunks \cup QueuedChunks : k.from = t} = A \cup W
  <2>1. \A k \in ArrivingChunks : k.from = t <=> <<k.from, k.port, k.chan>> = z
    BY <1>3, HeldSlots, Zenon
  <2>2. \A k \in QueuedChunks : k.from = t <=> <<k.from, k.saved_port, k.saved_chan>> = z
    BY <1>3, HeldSlots, Zenon
  <2>. QED
    BY <2>1, <2>2, Zenon DEF ArrivingOf, WaitingOf
<1>5. EventsOf("T_BUFFER", t) = C
  <2>1. ASSUME NEW e, e.type = "T_BUFFER" PROVE EventKey(e)[1] = TSlot(e.to)
    <3>1. e.type \notin ArriveTypes
      BY <2>1 DEF ArriveTypes
    <3>2. EventKey(e) = <<TSlot(e.to), <<e.by[2], e.by[3], e.by[4]>> >>
      BY <2>1, <3>1, Zenon DEF EventKey
    <3>. QED
      BY <3>2
  <2>2. ASSUME NEW e \in events, e.type = "R_BUFFER" PROVE EventKey(e)[1] # z
    <3>1. e.type \notin ArriveTypes /\ e.type # "T_BUFFER"
      BY <2>2 DEF ArriveTypes
    <3>2. EventKey(e) = << <<e.to, e.port, e.chan>>, <<e.by[2], e.by[3], e.by[4]>> >>
      BY <3>1, Zenon DEF EventKey
    <3>3. EventKey(e)[1][1] = e.to
      BY <3>2
    <3>4. e.to \in Routers
      BY <2>2, Zenon DEF EventOK, RouterEvents
    <3>5. e.to # t
      BY <3>4, RouteAssumption
    <3>. QED
      BY <1>1, <3>3, <3>5, Zenon
  <2>3. \A e : TSlot(e.to) = z <=> e.to = t
    BY SlotFacts, Zenon DEF z
  <2>4. ASSUME NEW e \in events
        PROVE  e.type = "T_BUFFER" /\ e.to = t
                 <=> e.type \in {"T_BUFFER", "R_BUFFER"} /\ EventKey(e)[1] = z
    BY <2>1, <2>2, <2>3, Zenon
  <2>. QED
    BY <2>4, Zenon DEF EventsOf, CreditsOf
<1>6. A \cap W = {}
  <2> SUFFICES ASSUME NEW k, k \in A, k \in W PROVE FALSE
    BY Zenon
  <2>1. Kind(Pl[<<z, Id(k)>>]) = "arrive"
    BY <1>1, ArrivingCount, Zenon
  <2>2. Kind(Pl[<<z, Id(k)>>]) = "wait"
    BY <1>1, WaitingCount, Zenon
  <2>. QED
    BY <2>1, <2>2
<1>7. IsFiniteSet(A) /\ Cardinality(A) = Cardinality(PartIn(Pl, z, "arrive"))
  BY <1>1, ArrivingCount, Zenon
<1>8. IsFiniteSet(W) /\ Cardinality(W) = Cardinality(PartIn(Pl, z, "wait"))
  BY <1>1, WaitingCount, Zenon
<1>9. Cardinality(C) = Cardinality(PartIn(Pl, z, "credit"))
  BY <1>1, CreditCount, Zenon
<1>10. Cardinality(PartIn(Pl, z, "pend")) = 0
  BY <1>1, PendingCount, Zenon
<1>11. /\ Cardinality(PartIn(Pl, z, "wait")) \in Nat /\ Cardinality(PartIn(Pl, z, "arrive")) \in Nat
       /\ Cardinality(PartIn(Pl, z, "credit")) \in Nat
       /\ OccAt(lps, z) = ChunkSize *
            (Cardinality(PartIn(Pl, z, "pend")) + Cardinality(PartIn(Pl, z, "wait"))
             + Cardinality(PartIn(Pl, z, "arrive")) + Cardinality(PartIn(Pl, z, "credit")))
  BY <1>1, UsedParts, Zenon
<1> HIDE DEF A, W, C
<1>12. Cardinality(A \cup W) = Cardinality(A) + Cardinality(W)
  <2>1. Cardinality(A \cup W) = Cardinality(A) + Cardinality(W) - Cardinality(A \cap W)
    BY <1>7, <1>8, FS_Union, Zenon
  <2>2. Cardinality(A \cap W) = 0
    BY <1>6, FS_EmptySet, Zenon
  <2>. QED
    BY <1>7, <1>8, <1>11, <2>1, <2>2
<1>13. OccAt(lps, z) = ChunkSize * (Cardinality(A \cup W) + Cardinality(C))
  <2>1. 0 + Cardinality(W) + Cardinality(A) + Cardinality(C) = Cardinality(A \cup W) + Cardinality(C)
    BY <1>7, <1>8, <1>9, <1>11, <1>12
  <2>. QED
    BY <1>7, <1>8, <1>9, <1>10, <1>11, <2>1, Zenon
<1>. QED
  BY <1>2, <1>4, <1>5, <1>13, Zenon

LEMMA RouterCredits ==
  ASSUME StatesOK(lps), NEW Pl, CreditInv(lps, NetEvents(events), Pl),
         \A e \in events : EventOK(e), NEW r \in Routers, NEW p \in Ports(r), NEW c \in Chans
  PROVE  lps[r][p].vc_occupancy[c] = ChunkSize *
           (Len(lps[r][p].pending[c])
            + Cardinality({k \in ArrivingChunks : k.from = r /\ k.port = p /\ k.chan = c})
            + Cardinality({k \in QueuedChunks : k.from = r /\ k.saved_port = p /\ k.saved_chan = c})
            + Cardinality({e \in EventsOf("R_BUFFER", r) : e.port = p /\ e.chan = c}))
<1> DEFINE z == <<r, p, c>>
           A == ArrivingOf(z)
           W == WaitingOf(z)
           C == CreditsOf(z)
<1>1. z \in RSlots /\ z \in Slots /\ z[1] = r /\ z[2] = p /\ z[3] = c
  BY SlotFacts
<1>2. \A i, j, k : <<i, j, k>> = z <=> i = r /\ j = p /\ k = c
  OBVIOUS
<1> HIDE DEF z
<1>3. OccAt(lps, z) = lps[r][p].vc_occupancy[c] /\ PendAt(lps, z) = lps[r][p].pending[c]
  <2>1. z[1] \notin Terminals
    BY <1>1, SlotFacts, Zenon
  <2>. QED
    BY <1>1, <2>1, Zenon DEF OccAt, PendAt
<1>4. /\ {k \in ArrivingChunks : k.from = r /\ k.port = p /\ k.chan = c} = A
      /\ {k \in QueuedChunks : k.from = r /\ k.saved_port = p /\ k.saved_chan = c} = W
  BY <1>2, Zenon DEF ArrivingOf, WaitingOf
<1>5. {e \in EventsOf("R_BUFFER", r) : e.port = p /\ e.chan = c} = C
  <2>1. ASSUME NEW e, e.type = "R_BUFFER"
        PROVE  EventKey(e)[1] = <<e.to, e.port, e.chan>>
    <3>1. e.type \notin ArriveTypes /\ e.type # "T_BUFFER"
      BY <2>1 DEF ArriveTypes
    <3>2. EventKey(e) = << <<e.to, e.port, e.chan>>, <<e.by[2], e.by[3], e.by[4]>> >>
      BY <3>1, Zenon DEF EventKey
    <3>. QED
      BY <3>2
  <2>2. ASSUME NEW e \in events, e.type = "T_BUFFER" PROVE EventKey(e)[1] # z
    <3>1. e.type \notin ArriveTypes
      BY <2>2 DEF ArriveTypes
    <3>2. EventKey(e) = <<TSlot(e.to), <<e.by[2], e.by[3], e.by[4]>> >>
      BY <2>2, <3>1, Zenon DEF EventKey
    <3>3. EventKey(e)[1] = TSlot(e.to)
      BY <3>2
    <3>4. e.to \in Terminals
      BY <2>2, Zenon DEF EventOK, TermEvents
    <3>5. TSlot(e.to) \notin RSlots
      BY <3>4, SlotFacts, Zenon
    <3>. QED
      BY <1>1, <3>3, <3>5
  <2>3. ASSUME NEW e \in events
        PROVE  (e.type = "R_BUFFER" /\ e.to = r) /\ (e.port = p /\ e.chan = c)
                 <=> e.type \in {"T_BUFFER", "R_BUFFER"} /\ EventKey(e)[1] = z
    <3>1. CASE e.type = "T_BUFFER"
      BY <2>2, <3>1
    <3>2. CASE e.type = "R_BUFFER"
      <4>1. EventKey(e)[1] = <<e.to, e.port, e.chan>>
        BY <2>1, <3>2
      <4>2. <<e.to, e.port, e.chan>> = z <=> e.to = r /\ e.port = p /\ e.chan = c
        BY <1>2
      <4>. QED
        BY <3>2, <4>1, <4>2
    <3>. QED
      BY <3>1, <3>2
  <2>. QED
    BY <2>3, Zenon DEF EventsOf, CreditsOf
<1>6. Cardinality(A) = Cardinality(PartIn(Pl, z, "arrive"))
  BY <1>1, ArrivingCount, Zenon
<1>7. Cardinality(W) = Cardinality(PartIn(Pl, z, "wait"))
  BY <1>1, WaitingCount, Zenon
<1>8. Cardinality(C) = Cardinality(PartIn(Pl, z, "credit"))
  BY <1>1, CreditCount, Zenon
<1>9. Cardinality(PartIn(Pl, z, "pend")) = Len(lps[r][p].pending[c])
  BY <1>1, <1>3, PendingCount, Zenon
<1>10. /\ Cardinality(PartIn(Pl, z, "pend")) \in Nat
       /\ Cardinality(PartIn(Pl, z, "wait")) \in Nat /\ Cardinality(PartIn(Pl, z, "arrive")) \in Nat
       /\ Cardinality(PartIn(Pl, z, "credit")) \in Nat
       /\ OccAt(lps, z) = ChunkSize *
            (Cardinality(PartIn(Pl, z, "pend")) + Cardinality(PartIn(Pl, z, "wait"))
             + Cardinality(PartIn(Pl, z, "arrive")) + Cardinality(PartIn(Pl, z, "credit")))
  BY <1>1, UsedParts, Zenon
<1> HIDE DEF A, W, C
<1> DEFINE n == Len(lps[r][p].pending[c])
<1>11. OccAt(lps, z) = ChunkSize * (n + Cardinality(A) + Cardinality(W) + Cardinality(C))
  <2> HIDE DEF n
  <2>1. /\ n \in Nat /\ Cardinality(A) \in Nat /\ Cardinality(W) \in Nat /\ Cardinality(C) \in Nat
        /\ OccAt(lps, z) = ChunkSize * (n + Cardinality(W) + Cardinality(A) + Cardinality(C))
    BY <1>6, <1>7, <1>8, <1>9, <1>10, Zenon DEF n
  <2>2. n + Cardinality(W) + Cardinality(A) + Cardinality(C)
          = n + Cardinality(A) + Cardinality(W) + Cardinality(C)
    BY <2>1
  <2>. QED
    BY <2>1, <2>2, Zenon
<1>. QED
  BY <1>3, <1>4, <1>5, <1>11, Zenon

LEMMA HistoryConserves == CreditIndInv => CreditsConserved
<1> SUFFICES ASSUME CreditIndInv PROVE CreditsConserved
  OBVIOUS
<1>1. StatesOK(lps) /\ \A e \in events : EventOK(e)
  BY PresentCredits, Zenon
<1>2. PICK Pl : CreditInv(lps, NetEvents(events), Pl)
  BY PresentCredits, Zenon
<1>3. ASSUME NEW r \in Routers PROVE DOMAIN lps[r] = Ports(r)
  <2>1. r \in Lps /\ r \notin Terminals
    BY RouteAssumption DEF Lps
  <2>2. RouterOK(r, lps[r])
    BY <1>1, <2>1, Zenon DEF StatesOK, StateOK
  <2>. QED
    BY <2>2, Zenon DEF RouterOK
<1>4. ASSUME NEW t \in Terminals
      PROVE  lps[t].vc_occupancy = ChunkSize *
               (Cardinality({k \in ArrivingChunks \cup QueuedChunks : k.from = t})
                + Cardinality(EventsOf("T_BUFFER", t)))
  BY <1>1, <1>2, TerminalCredits
<1>5. ASSUME NEW r \in Routers, NEW p \in DOMAIN lps[r], NEW c \in Chans
      PROVE  lps[r][p].vc_occupancy[c] = ChunkSize *
               (Len(lps[r][p].pending[c])
                + Cardinality({k \in ArrivingChunks : k.from = r /\ k.port = p /\ k.chan = c})
                + Cardinality({k \in QueuedChunks : k.from = r /\ k.saved_port = p /\ k.saved_chan = c})
                + Cardinality({e \in EventsOf("R_BUFFER", r) : e.port = p /\ e.chan = c}))
  <2>1. p \in Ports(r)
    BY <1>3
  <2>. QED
    BY <1>1, <1>2, <2>1, RouterCredits
<1>. QED
  BY <1>4, <1>5, Zenon DEF CreditsConserved

\* Credits are neither lost nor made, for every topology, routing algorithm, size
\* of buffers and chunks, messages, window and number of rollbacks: a channel
\* counts as occupied exactly the chunks that wait in it, travel from it, wait at
\* the next router for a place there, or whose credit is on its way back
\* (packet_send, router_packet_receive, router_buf_update, packet_arrive and their
\* reverse handlers).
THEOREM CreditsAreConserved == Spec => []CreditsConserved
  BY CreditInductive, HistoryConserves, PTL


-----------------------------------------------------------------------------
(* Bounds of the state of an LP at a time.                                 *)

TermFits(s, now) ==
  /\ s.vc_occupancy <= VcSize["TERMINAL"]
  /\ s.terminal_length = ChunkSize * Len(s.terminal_msgs)
  /\ s.last_buf_full <= now /\ s.busy_time >= 0
  /\ \A m \in DOMAIN s.rank_tbl : s.rank_tbl[m].remaining_packets \in 1 .. total_packets(m)

PortFits(p, s, now) ==
  /\ \A c \in Chans : s.vc_occupancy[c] <= VcSize[p.kind]
  /\ IsFiniteSet(QueuePlaces(s.queued))
  /\ s.queued_count = ChunkSize * Cardinality(QueuePlaces(s.queued))
  /\ s.last_buf_full <= now /\ s.busy_time >= 0 /\ s.link_traffic >= 0

Fits(x, s, now) ==
  IF x \in Terminals THEN TermFits(s, now) ELSE \A p \in Ports(x) : PortFits(p, s[p], now)

\* nothing that is bounded grows, but the time
LEMMA TermFitsStill ==
  ASSUME NEW t, NEW s, TermOK(t, s), NEW now, now \in Nat, NEW ts, ts \in Nat, now <= ts, TermFits(s, now),
         NEW n, n.vc_occupancy \in Int, n.vc_occupancy <= s.vc_occupancy,
         n.terminal_length = s.terminal_length, n.terminal_msgs = s.terminal_msgs,
         n.busy_time = s.busy_time, n.rank_tbl = s.rank_tbl,
         n.last_buf_full \in {s.last_buf_full, 0, ts}
  PROVE  TermFits(n, ts)
<1>1. s.vc_occupancy \in Int /\ s.last_buf_full \in Nat /\ VcSize["TERMINAL"] \in Nat
  BY SizeFacts DEF TermOK
<1>2. n.vc_occupancy <= VcSize["TERMINAL"]
  BY <1>1 DEF TermFits
<1>3. n.last_buf_full <= ts
  BY <1>1 DEF TermFits
<1>. QED
  BY <1>2, <1>3, Zenon DEF TermFits

LEMMA FitsSchedNext ==
  ASSUME NEW t, NEW s, NEW F, NEW e, TermReady(t, s, F, e), NEW now, now \in Nat, now <= e.ts, TermFits(s, now)
  PROVE  TermFits(handle_sched_next(s, e).ns, e.ts)
<1> DEFINE n == handle_sched_next(s, e).ns
<1>1. TermOK(t, s) /\ DOMAIN s = TermFields /\ e.ts \in Nat /\ s.vc_occupancy \in Int
  BY TermDomain DEF TermReady, TermOK, EventOK
<1>2. /\ n.vc_occupancy = s.vc_occupancy /\ n.terminal_msgs = s.terminal_msgs
      /\ n.terminal_length = s.terminal_length /\ n.busy_time = s.busy_time
      /\ n.rank_tbl = s.rank_tbl /\ n.last_buf_full = s.last_buf_full
  BY <1>1 DEF handle_sched_next, sched_empty, sched_issue, Outcome, TermFields
<1> HIDE DEF n
<1>3. TermFits(n, e.ts)
  BY <1>1, <1>2, TermFitsStill
<1>. QED
  BY <1>3 DEF n

LEMMA FitsNewMsg ==
  ASSUME NEW t, NEW s, NEW F, NEW e, TermReady(t, s, F, e), NEW now, now \in Nat, now <= e.ts, TermFits(s, now)
  PROVE  TermFits(handle_new_msg(s, e).ns, e.ts)
<1> DEFINE n == handle_new_msg(s, e).ns
<1>1. TermOK(t, s) /\ DOMAIN s = TermFields /\ e.ts \in Nat /\ s.vc_occupancy \in Int
  BY TermDomain DEF TermReady, TermOK, EventOK
<1>2. /\ n.vc_occupancy = s.vc_occupancy /\ n.terminal_msgs = s.terminal_msgs
      /\ n.terminal_length = s.terminal_length /\ n.busy_time = s.busy_time
      /\ n.rank_tbl = s.rank_tbl /\ n.last_buf_full = s.last_buf_full
  BY <1>1 DEF handle_new_msg, sched_empty, sched_issue, Outcome, TermFields
<1> HIDE DEF n
<1>3. TermFits(n, e.ts)
  BY <1>1, <1>2, TermFitsStill
<1>. QED
  BY <1>3 DEF n

LEMMA FitsStall ==
  ASSUME NEW t, NEW s, NEW F, NEW e, TermReady(t, s, F, e), NEW now, now \in Nat, now <= e.ts, TermFits(s, now)
  PROVE  TermFits(packet_send_stall(s, e).ns, e.ts)
<1> DEFINE n == packet_send_stall(s, e).ns
<1>1. TermOK(t, s) /\ DOMAIN s = TermFields /\ e.ts \in Nat /\ s.vc_occupancy \in Int
  BY TermDomain DEF TermReady, TermOK, EventOK
<1>2. /\ n.vc_occupancy = s.vc_occupancy /\ n.terminal_msgs = s.terminal_msgs
      /\ n.terminal_length = s.terminal_length /\ n.busy_time = s.busy_time
      /\ n.rank_tbl = s.rank_tbl /\ n.last_buf_full \in {s.last_buf_full, e.ts}
  BY <1>1 DEF packet_send_stall, Outcome, TermFields
<1> HIDE DEF n
<1>3. TermFits(n, e.ts)
  BY <1>1, <1>2, TermFitsStill
<1>. QED
  BY <1>3 DEF n

LEMMA FitsBuffer ==
  ASSUME NEW t, NEW s, NEW F, NEW e, TermReady(t, s, F, e), NEW now, now \in Nat, now <= e.ts, TermFits(s, now)
  PROVE  TermFits(terminal_buf_update(s, e).ns, e.ts)
<1> DEFINE n == terminal_buf_update(s, e).ns
<1>1. TermOK(t, s) /\ DOMAIN s = TermFields /\ e.ts \in Nat /\ s.vc_occupancy \in Int
  BY TermDomain DEF TermReady, TermOK, EventOK
<1>2. /\ n.vc_occupancy = s.vc_occupancy - ChunkSize /\ n.terminal_msgs = s.terminal_msgs
      /\ n.terminal_length = s.terminal_length /\ n.busy_time = s.busy_time
      /\ n.rank_tbl = s.rank_tbl /\ n.last_buf_full = s.last_buf_full
  BY <1>1 DEF terminal_buf_update, Outcome, TermFields
<1> HIDE DEF n
<1>3. n.vc_occupancy \in Int /\ n.vc_occupancy <= s.vc_occupancy
  BY <1>1, <1>2, SizeFacts
<1>4. TermFits(n, e.ts)
  BY <1>1, <1>2, <1>3, TermFitsStill
<1>. QED
  BY <1>4 DEF n

LEMMA Distribute ==
  ASSUME NEW a \in Int, NEW b \in Int, NEW c \in Int
  PROVE  a * (b + c) = a * b + a * c /\ a * b \in Int /\ a * c = c * a
  OBVIOUS

LEMMA FitsGenerate ==
  ASSUME NEW t, NEW s, NEW F, NEW e, TermReady(t, s, F, e), e.type = "T_GENERATE",
         NEW now, now \in Nat, now <= e.ts, TermFits(s, now)
  PROVE  TermFits(packet_generate(s, e).ns, e.ts)
<1> DEFINE n == packet_generate(s, e).ns
           k == num_chunks_for(e.pkt.size)
           new == [i \in 1 .. k |-> Chunk(e.to, s.packet_counter, i - 1, e.pkt)]
           length == s.terminal_length + k * ChunkSize
           full == length >= VcSize["TERMINAL"]
           since == IF full /\ s.last_buf_full = 0 THEN e.ts ELSE s.last_buf_full
<1>1. /\ t \in Terminals /\ TermOK(t, s) /\ DOMAIN s = TermFields /\ e.ts \in Nat /\ e.to = t
      /\ e.pkt \in Packet
  BY TermDomain DEF TermReady, TermOK, EventOK
<1>2. /\ s.packet_counter \in Nat /\ s.terminal_msgs \in Seq(OwnChunk(t)) /\ s.last_buf_full \in Nat
  BY <1>1 DEF TermOK
<1>3. k \in Nat \ {0}
  BY <1>1, NumChunks DEF Packet
<1>4. new \in [1 .. k -> OwnChunk(t)]
  BY <1>1, <1>2, GenerateFacts
<1> HIDE DEF k, new
<1>5. /\ n.vc_occupancy = s.vc_occupancy /\ n.terminal_msgs = s.terminal_msgs \o new
      /\ n.terminal_length = length /\ n.busy_time = s.busy_time
      /\ n.rank_tbl = s.rank_tbl /\ n.last_buf_full = since
  <2> HIDE DEF length
  <2>. QED
    BY <1>1, Zenon DEF packet_generate, Outcome, TermFields, k, new, length
<1> HIDE DEF n
<1>6. Len(s.terminal_msgs \o new) = Len(s.terminal_msgs) + k /\ Len(s.terminal_msgs) \in Nat
  <2>1. new \in Seq(OwnChunk(t)) /\ Len(new) = k
    <3>1. new \in Seq(OwnChunk(t)) /\ DOMAIN new = 1 .. k
      BY <1>3, <1>4
    <3>. QED
      BY <1>3, <3>1, LenProperties
  <2>. QED
    BY <1>2, <2>1, ConcatProperties, LenProperties
<1>7. n.terminal_length = ChunkSize * Len(n.terminal_msgs)
  <2> DEFINE L == Len(s.terminal_msgs)
  <2>1. L \in Int /\ k \in Int /\ ChunkSize \in Int
    BY <1>3, <1>6, SizeFacts
  <2>2. s.terminal_length = ChunkSize * L
    BY DEF TermFits
  <2> HIDE DEF L
  <2>3. ChunkSize * (L + k) = ChunkSize * L + ChunkSize * k /\ ChunkSize * k = k * ChunkSize
    BY <2>1, Distribute
  <2>. QED
    BY <1>5, <1>6, <2>2, <2>3 DEF L
<1>8. n.last_buf_full <= e.ts
  <2> HIDE DEF full
  <2>. QED
    BY <1>1, <1>2, <1>5 DEF TermFits
<1>. QED
  BY <1>5, <1>7, <1>8, Zenon DEF TermFits, n

LEMMA FitsSendChunk ==
  ASSUME NEW t, NEW s, NEW F, NEW e, TermReady(t, s, F, e), ~get_next_vcg_fails(s),
         NEW now, now \in Nat, now <= e.ts, TermFits(s, now)
  PROVE  TermFits(packet_send_chunk(s, e).ns, e.ts)
<1> DEFINE n == packet_send_chunk(s, e).ns
<1>1. /\ t \in Terminals /\ TermOK(t, s) /\ DOMAIN s = TermFields /\ e.ts \in Nat /\ e.to = t
  BY TermDomain DEF TermReady, TermOK, EventOK
<1>2. /\ s.terminal_msgs \in Seq(OwnChunk(t)) /\ s.last_buf_full \in Nat /\ s.busy_time \in Int
      /\ s.vc_occupancy \in Int
  BY <1>1 DEF TermOK
<1>3. /\ s.terminal_msgs # << >> /\ s.vc_occupancy + ChunkSize <= VcSize["TERMINAL"]
  <2>1. VcSize["TERMINAL"] \in Nat /\ ChunkSize \in Nat
    BY SizeFacts
  <2>. QED
    BY <1>2, <2>1 DEF get_next_vcg_fails
<1>4. /\ n.vc_occupancy = s.vc_occupancy + ChunkSize /\ n.terminal_msgs = Tail(s.terminal_msgs)
      /\ n.terminal_length = s.terminal_length - ChunkSize
      /\ n.rank_tbl = s.rank_tbl
      /\ n.busy_time \in {s.busy_time, s.busy_time + (e.ts - s.last_buf_full)}
      /\ n.last_buf_full \in {0, s.last_buf_full}
  <2> HIDE DEF get_next_vcg_fails
  <2>. QED
    BY <1>1 DEF packet_send_chunk, Outcome, TermFields
<1> HIDE DEF n
<1>5. n.terminal_length = ChunkSize * Len(n.terminal_msgs)
  <2> DEFINE L == Len(s.terminal_msgs)
  <2>1. L \in Int /\ ChunkSize \in Int /\ Len(Tail(s.terminal_msgs)) = L + (-1)
    BY <1>2, <1>3, SizeFacts, HeadTailProperties, LenProperties
  <2>2. s.terminal_length = ChunkSize * L
    BY DEF TermFits
  <2> HIDE DEF L
  <2>3. ChunkSize * (L + (-1)) = ChunkSize * L - ChunkSize
    BY <2>1
  <2>. QED
    BY <1>4, <2>1, <2>2, <2>3
<1>6. n.last_buf_full <= e.ts /\ n.busy_time >= 0
  BY <1>1, <1>2, <1>4 DEF TermFits
<1>7. n.vc_occupancy <= VcSize["TERMINAL"]
  BY <1>3, <1>4
<1>. QED
  BY <1>4, <1>5, <1>6, <1>7, Zenon DEF TermFits, n

LEMMA TotalPackets ==
  ASSUME NEW m \in Msgs
  PROVE  total_packets(m) \in Nat \ {0}
<1> DEFINE x == Msg[m].size + PacketSize - 1
           q == x \div PacketSize
<1>1. PacketSize \in Nat \ {0} /\ x \in Nat
  BY NetAssumption, SizeFacts
<1> HIDE DEF x
<1>2. q \in Int /\ x % PacketSize \in 0 .. (PacketSize - 1) /\ x = PacketSize * q + (x % PacketSize)
  BY <1>1, Quotient
<1>3. q >= 0
  <2> DEFINE r == x % PacketSize
  <2> HIDE DEF q, r
  <2>1. q < 0 => PacketSize * q <= -PacketSize
    BY <1>1, <1>2
  <2>2. r \in 0 .. (PacketSize - 1) /\ x = PacketSize * q + r
    BY <1>2 DEF r
  <2>. QED
    BY <1>1, <1>2, <2>1, <2>2
<1>4. total_packets(m) = IF q = 0 THEN 1 ELSE q
  BY DEF total_packets, x
<1> HIDE DEF q
<1>. QED
  BY <1>2, <1>3, <1>4

LEMMA FitsArrive ==
  ASSUME NEW t, NEW s, NEW F, NEW e, TermReady(t, s, F, e), e.type = "T_ARRIVE",
         NEW now, now \in Nat, now <= e.ts, TermFits(s, now)
  PROVE  TermFits(packet_arrive(s, e).ns, e.ts)
<1> DEFINE n == packet_arrive(s, e).ns
           c == e.chunk
           m == c.msg
           completed == SizeLeft(s, c) = 0
           is_zombie == PacketId(c) \in s.zombies
           old == IF m \in DOMAIN s.rank_tbl THEN s.rank_tbl[m] ELSE NewEntry(m)
           d == IF completed THEN 1 ELSE 0
           entry == CountUp(old, d)
           done == ~is_zombie /\ entry.remaining_packets = 0
           counted == IF done THEN Without(s.rank_tbl, m) ELSE With(s.rank_tbl, m, entry)
           ranks == IF is_zombie THEN s.rank_tbl ELSE counted
<1>1. /\ t \in Terminals /\ TermOK(t, s) /\ DOMAIN s = TermFields /\ e.ts \in Nat /\ m \in Msgs
      /\ s.rank_tbl \in RankTable /\ s.last_buf_full \in Nat
  BY TermDomain DEF TermReady, TermOK, EventOK, RankTable, RankEntry, ChunkType
<1>2. /\ n.vc_occupancy = s.vc_occupancy /\ n.terminal_msgs = s.terminal_msgs
      /\ n.terminal_length = s.terminal_length /\ n.busy_time = s.busy_time
      /\ n.rank_tbl = ranks /\ n.last_buf_full = s.last_buf_full
  BY <1>1, Zenon DEF packet_arrive, Outcome, TermFields, CountUp
<1> HIDE DEF n, ranks, completed
<1>3. n.last_buf_full <= e.ts
  BY <1>1, <1>2 DEF TermFits
<1>4. ASSUME NEW k \in DOMAIN ranks PROVE ranks[k].remaining_packets \in 1 .. total_packets(k)
  <2>1. CASE is_zombie
    BY <1>4, <2>1, Zenon DEF TermFits, ranks
  <2>2. CASE ~is_zombie
    <3>1. ranks = counted /\ (done <=> entry.remaining_packets = 0)
      BY <2>2 DEF ranks
    <3>2. total_packets(m) \in Nat \ {0} /\ d \in 0 .. 1
      BY <1>1, TotalPackets
    <3>3. old.remaining_packets \in 1 .. total_packets(m)
      <4>1. CASE m \in DOMAIN s.rank_tbl
        BY <4>1 DEF TermFits
      <4>2. CASE m \notin DOMAIN s.rank_tbl
        BY <3>2, <4>2 DEF NewEntry
      <4>. QED
        BY <4>1, <4>2
    <3>4. entry.remaining_packets = old.remaining_packets - d
      BY DEF CountUp
    <3>5. old \in RankEntry /\ entry \in RankEntry
      <4>1. old \in RankEntry
        BY <1>1, NewEntryType, TableFacts DEF RankTable
      <4> HIDE DEF old, d
      <4>. QED
        BY <3>2, <4>1, CountBack
    <3> HIDE DEF old, d, entry
    <3>6. entry.remaining_packets # 0 => entry.remaining_packets \in 1 .. total_packets(m)
      BY <3>2, <3>3, <3>4
    <3>7. \A j \in DOMAIN s.rank_tbl : s.rank_tbl[j].remaining_packets \in 1 .. total_packets(j)
      BY DEF TermFits
    <3>8. CASE done
      <4>1. IsWithout(ranks, s.rank_tbl, m)
        BY <1>1, <3>1, <3>8, WithoutFacts DEF RankTable
      <4>. QED
        BY <1>4, <3>7, <4>1, Zenon DEF IsWithout
    <3>9. CASE ~done
      <4>1. IsWith(ranks, s.rank_tbl, m, entry)
        BY <1>1, <3>1, <3>5, <3>9, WithFacts DEF RankTable
      <4>2. CASE k = m
        BY <3>1, <3>6, <3>9, <4>1, <4>2, Zenon DEF IsWith
      <4>3. CASE k # m
        BY <1>4, <3>7, <4>1, <4>3 DEF IsWith
      <4>. QED
        BY <4>2, <4>3
    <3>. QED
      BY <3>8, <3>9
  <2>. QED
    BY <2>1, <2>2
<1>. QED
  BY <1>2, <1>3, <1>4, Zenon DEF TermFits, n

-----------------------------------------------------------------------------
(* The places of the queues of a port.                                     *)



LEMMA PlacesArePairs ==
  ASSUME NEW f, NEW z
  PROVE  z \in QueuePlaces(f) <=> \E c \in Chans : \E i \in DOMAIN f[c] : z = <<c, i>>
<1>1. z \in QueuePlaces(f) <=> \E c \in Chans : z \in {<<c, i>> : i \in DOMAIN f[c]}
  BY Zenon DEF QueuePlaces
<1>2. \A c : z \in {<<c, i>> : i \in DOMAIN f[c]} <=> \E i \in DOMAIN f[c] : z = <<c, i>>
  BY Zenon
<1>. QED
  BY <1>1, <1>2, Zenon

LEMMA PairInPlaces ==
  ASSUME NEW f, NEW c, NEW i
  PROVE  <<c, i>> \in QueuePlaces(f) <=> c \in Chans /\ i \in DOMAIN f[c]
<1> DEFINE z == <<c, i>>
<1>1. \A d, j : z = <<d, j>> => c = d /\ i = j
  OBVIOUS
<1> HIDE DEF z
<1>2. z \in QueuePlaces(f) <=> \E d \in Chans : \E j \in DOMAIN f[d] : z = <<d, j>>
  BY PlacesArePairs
<1>3. z = <<c, i>>
  BY DEF z
<1>4. z \in QueuePlaces(f) <=> c \in Chans /\ i \in DOMAIN f[c]
  BY <1>1, <1>2, <1>3, Zenon
<1>. QED
  BY <1>4 DEF z

\* one place more
LEMMA PlaceMore ==
  ASSUME NEW f, NEW h, NEW c \in Chans, NEW i, i \notin DOMAIN f[c],
         DOMAIN h[c] = DOMAIN f[c] \cup {i}, \A d \in Chans \ {c} : h[d] = f[d],
         IsFiniteSet(QueuePlaces(f))
  PROVE  /\ IsFiniteSet(QueuePlaces(h))
         /\ Cardinality(QueuePlaces(h)) = Cardinality(QueuePlaces(f)) + 1
         /\ Cardinality(QueuePlaces(f)) \in Nat
<1>1. <<c, i>> \notin QueuePlaces(f)
  BY PairInPlaces, Zenon
<1>2. ASSUME NEW d, NEW j
      PROVE  <<d, j>> \in QueuePlaces(h) <=> (<<d, j>> \in QueuePlaces(f) \/ <<d, j>> = <<c, i>>)
  <2>1. <<d, j>> = <<c, i>> <=> d = c /\ j = i
    OBVIOUS
  <2>2. CASE d = c
    BY <2>1, <2>2, PairInPlaces
  <2>3. CASE d # c
    BY <2>1, <2>3, PairInPlaces
  <2>. QED
    BY <2>2, <2>3
<1>3. ASSUME NEW z PROVE z \in QueuePlaces(h) <=> z \in QueuePlaces(f) \cup {<<c, i>>}
  <2>1. ASSUME z \in QueuePlaces(h) PROVE z \in QueuePlaces(f) \cup {<<c, i>>}
    <3>0. PICK d \in Chans : \E j \in DOMAIN h[d] : z = <<d, j>>
      BY <2>1, PlacesArePairs
    <3>1. PICK j \in DOMAIN h[d] : z = <<d, j>>
      BY <3>0, Zenon
    <3>2. <<d, j>> \in QueuePlaces(f) \/ <<d, j>> = <<c, i>>
      BY <1>2, <2>1, <3>1, Zenon
    <3>. QED
      BY <3>1, <3>2, Zenon
  <2>2. ASSUME z \in QueuePlaces(f) \cup {<<c, i>>} PROVE z \in QueuePlaces(h)
    <3>1. CASE z = <<c, i>>
      BY <1>2, <3>1, Zenon
    <3>2. CASE z \in QueuePlaces(f)
      <4>0. PICK d \in Chans : \E j \in DOMAIN f[d] : z = <<d, j>>
        BY <3>2, PlacesArePairs
      <4>1. PICK j \in DOMAIN f[d] : z = <<d, j>>
        BY <4>0, Zenon
      <4>2. <<d, j>> \in QueuePlaces(h)
        BY <1>2, <3>2, <4>1, Zenon
      <4>. QED
        BY <4>1, <4>2, Zenon
    <3>. QED
      BY <2>2, <3>1, <3>2, Zenon
  <2>. QED
    BY <2>1, <2>2
<1> DEFINE a == QueuePlaces(f)
           b == QueuePlaces(h)
           z == <<c, i>>
<1> HIDE DEF a, b, z
<1>4. b = a \cup {z} /\ z \notin a
  BY <1>1, <1>3, Zenon DEF a, b, z
<1>5. /\ IsFiniteSet(b) /\ Cardinality(b) = Cardinality(a) + 1 /\ Cardinality(a) \in Nat
  BY <1>4, FS_AddElement, FS_CardinalityType DEF a
<1>. QED
  BY <1>5 DEF a, b

\* one place less
LEMMA PlaceLess ==
  ASSUME NEW f, NEW h, NEW c \in Chans, NEW i, i \in DOMAIN f[c],
         DOMAIN h[c] = DOMAIN f[c] \ {i}, \A d \in Chans \ {c} : h[d] = f[d],
         IsFiniteSet(QueuePlaces(f))
  PROVE  /\ IsFiniteSet(QueuePlaces(h))
         /\ Cardinality(QueuePlaces(f)) = Cardinality(QueuePlaces(h)) + 1
         /\ Cardinality(QueuePlaces(h)) \in Nat
<1>1. IsFiniteSet(QueuePlaces(h))
  <2>1. QueuePlaces(h) \subseteq QueuePlaces(f)
    <3> SUFFICES ASSUME NEW z \in QueuePlaces(h) PROVE z \in QueuePlaces(f)
      BY Zenon
    <3>0. PICK d \in Chans : \E j \in DOMAIN h[d] : z = <<d, j>>
      BY PlacesArePairs
    <3>1. PICK j \in DOMAIN h[d] : z = <<d, j>>
      BY <3>0, Zenon
    <3>2. j \in DOMAIN f[d]
      <4>1. CASE d = c
        BY <3>1, <4>1
      <4>2. CASE d # c
        BY <3>1, <4>2
      <4>. QED
        BY <4>1, <4>2
    <3>. QED
      BY <3>1, <3>2, PairInPlaces, Zenon
  <2>. QED
    BY <2>1, FS_Subset
<1>2. /\ i \notin DOMAIN h[c] /\ DOMAIN f[c] = DOMAIN h[c] \cup {i}
      /\ \A d \in Chans \ {c} : f[d] = h[d]
  OBVIOUS
<1>. QED
  BY <1>1, <1>2, PlaceMore

\* n is s but for k, where it is x
OnlyAt(S, n, s, k, x) == n[k] = x /\ \A z \in S \ {k} : n[z] = s[z]

LEMMA OnlyAtSet ==
  ASSUME NEW S, NEW s, DOMAIN s = S, NEW k \in S, NEW x
  PROVE  OnlyAt(S, [s EXCEPT ![k] = x], s, k, x)
  BY DEF OnlyAt

LEMMA QueueAppended ==
  ASSUME NEW S, NEW f, f \in [Chans -> Seq(S)], NEW c \in Chans, NEW x,
         NEW h, OnlyAt(Chans, h, f, c, Append(f[c], x)), IsFiniteSet(QueuePlaces(f))
  PROVE  /\ IsFiniteSet(QueuePlaces(h))
         /\ ChunkSize * Cardinality(QueuePlaces(h)) = ChunkSize * Cardinality(QueuePlaces(f)) + ChunkSize
<1> DEFINE i == Len(f[c]) + 1
<1>1. f[c] \in Seq(S) /\ Len(f[c]) \in Nat /\ DOMAIN f[c] = 1 .. Len(f[c])
  OBVIOUS
<1>2. DOMAIN h[c] = 1 .. i
  <2>1. h[c] = Append(f[c], x)
    BY Zenon DEF OnlyAt
  <2>2. DOMAIN Append(f[c], x) = 1 .. i
    BY <1>1
  <2>. QED
    BY <2>1, <2>2, Zenon
<1>3. i \notin DOMAIN f[c] /\ DOMAIN h[c] = DOMAIN f[c] \cup {i}
  <2> DEFINE n == Len(f[c])
  <2>1. n \in Nat /\ DOMAIN f[c] = 1 .. n /\ DOMAIN h[c] = 1 .. (n + 1) /\ i = n + 1
    BY <1>1, <1>2
  <2> HIDE DEF n, i
  <2>. QED
    BY <2>1
<1>4. \A d \in Chans \ {c} : h[d] = f[d]
  BY Zenon DEF OnlyAt
<1> HIDE DEF i
<1> DEFINE a == Cardinality(QueuePlaces(f))
           b == Cardinality(QueuePlaces(h))
<1>5. IsFiniteSet(QueuePlaces(h)) /\ b = a + 1 /\ a \in Nat
  BY <1>3, <1>4, PlaceMore
<1> HIDE DEF a, b
<1>6. ChunkSize \in Nat
  BY SizeFacts
<1>7. ChunkSize * (a + 1) = ChunkSize * a + ChunkSize
  BY <1>5, <1>6
<1>. QED
  BY <1>5, <1>7 DEF a, b

LEMMA QueueServed ==
  ASSUME NEW S, NEW f, f \in [Chans -> Seq(S)], NEW c \in Chans, f[c] # << >>,
         NEW h, OnlyAt(Chans, h, f, c, Tail(f[c])), IsFiniteSet(QueuePlaces(f))
  PROVE  /\ IsFiniteSet(QueuePlaces(h))
         /\ ChunkSize * Cardinality(QueuePlaces(h)) = ChunkSize * Cardinality(QueuePlaces(f)) - ChunkSize
<1> DEFINE i == Len(f[c])
<1>1. f[c] \in Seq(S) /\ i \in Nat \ {0} /\ DOMAIN f[c] = 1 .. i
  <2>1. f[c] \in Seq(S)
    OBVIOUS
  <2>. QED
    BY <2>1, EmptySeq, LenProperties
<1>2. DOMAIN h[c] = 1 .. (i - 1)
  <2>1. h[c] = Tail(f[c])
    BY Zenon DEF OnlyAt
  <2>2. Tail(f[c]) \in Seq(S) /\ Len(Tail(f[c])) = i - 1
    BY <1>1, HeadTailProperties
  <2>. QED
    BY <2>1, <2>2, LenProperties, Zenon
<1>3. \A d \in Chans \ {c} : h[d] = f[d]
  BY Zenon DEF OnlyAt
<1> HIDE DEF i
<1>4. i \in DOMAIN f[c] /\ DOMAIN h[c] = DOMAIN f[c] \ {i}
  BY <1>1, <1>2
<1> DEFINE a == Cardinality(QueuePlaces(f))
           b == Cardinality(QueuePlaces(h))
<1> HIDE DEF a, b
<1>5. IsFiniteSet(QueuePlaces(h)) /\ a = b + 1 /\ b \in Nat
  <2>1. /\ IsFiniteSet(QueuePlaces(h))
        /\ Cardinality(QueuePlaces(f)) = Cardinality(QueuePlaces(h)) + 1
        /\ Cardinality(QueuePlaces(h)) \in Nat
    BY <1>3, <1>4, PlaceLess, Zenon
  <2>. QED
    BY <2>1 DEF a, b
<1>6. ChunkSize \in Nat
  BY SizeFacts
<1>7. ChunkSize * (b + 1) = ChunkSize * b + ChunkSize /\ ChunkSize * b \in Int
  BY <1>5, <1>6
<1>8. ChunkSize * b = ChunkSize * a - ChunkSize
  <2> DEFINE y == ChunkSize * b
             u == ChunkSize * (b + 1)
  <2>1. y \in Int /\ u = y + ChunkSize /\ u = ChunkSize * a
    BY <1>5, <1>7
  <2> HIDE DEF y, u
  <2>2. y = u - ChunkSize
    BY <1>6, <2>1
  <2>. QED
    BY <2>1, <2>2 DEF y
<1>. QED
  BY <1>5, <1>8 DEF a, b

-----------------------------------------------------------------------------
(* The handlers of routers keep the bounds of ports.                       *)

LEMMA PortFitsLater ==
  ASSUME NEW r, NEW p, NEW s, PortOK(r, p, s), NEW now \in Nat, NEW ts \in Nat, now <= ts,
         PortFits(p, s, now)
  PROVE  PortFits(p, s, ts)
<1>1. s.last_buf_full \in Nat
  BY Zenon DEF PortOK
<1>2. s.last_buf_full <= ts
  BY <1>1 DEF PortFits
<1>. QED
  BY <1>2, Zenon DEF PortFits

LEMMA RouterFits ==
  ASSUME NEW r, NEW s, RouterOK(r, s), NEW now \in Nat, NEW ts \in Nat, now <= ts,
         \A p \in Ports(r) : PortFits(p, s[p], now),
         NEW P \in Ports(r), NEW q, PortFits(P, q, ts), NEW n, OnlyAt(Ports(r), n, s, P, q)
  PROVE  \A p \in Ports(r) : PortFits(p, n[p], ts)
<1> SUFFICES ASSUME NEW p \in Ports(r) PROVE PortFits(p, n[p], ts)
  OBVIOUS
<1>1. PortOK(r, p, s[p])
  BY Zenon DEF RouterOK
<1>2. CASE p = P
  <2>1. n[p] = q
    BY <1>2, Zenon DEF OnlyAt
  <2>. QED
    BY <1>2, <2>1
<1>3. CASE p # P
  <2>1. n[p] = s[p]
    BY <1>3, Zenon DEF OnlyAt
  <2>2. PortFits(p, s[p], ts)
    BY <1>1, PortFitsLater
  <2>. QED
    BY <2>1, <2>2
<1>. QED
  BY <1>2, <1>3

\* what a handler may assume of a router with bounded ports
RouterBounded(r, s, F, e, now) ==
  /\ RouterReady(r, s, F, e) /\ now \in Nat /\ now <= e.ts
  /\ \A p \in Ports(r) : PortFits(p, s[p], now)

LEMMA BoundedPort ==
  ASSUME NEW r, NEW s, NEW F, NEW e, NEW now, RouterBounded(r, s, F, e, now), NEW p \in Ports(r)
  PROVE  /\ RouterReady(r, s, F, e) /\ RouterOK(r, s) /\ r \in Routers
         /\ now \in Nat /\ e.ts \in Nat /\ now <= e.ts
         /\ PortFits(p, s[p], now) /\ PortFits(p, s[p], e.ts)
         /\ DOMAIN s[p] = PortFields /\ PortShape(s[p])
         /\ s[p].queued \in [Chans -> Seq(ChunkType)] /\ s[p].pending \in Pendings(r, p)
         /\ s[p].vc_occupancy \in [Chans -> Int] /\ s[p].queued_count \in Int
         /\ s[p].last_buf_full \in Nat /\ s[p].busy_time \in Int /\ s[p].link_traffic \in Int
         /\ s[p].last_qos_lvl \in Int /\ VcSize[p.kind] \in Nat /\ ChunkSize \in Nat \ {0}
<1>1. /\ RouterReady(r, s, F, e) /\ now \in Nat /\ now <= e.ts /\ PortFits(p, s[p], now)
  BY Zenon DEF RouterBounded
<1>2. RouterOK(r, s) /\ r \in Routers /\ e.ts \in Nat
  BY <1>1, Zenon DEF RouterReady, EventOK
<1>3. PortOK(r, p, s[p]) /\ PortShape(s[p]) /\ DOMAIN s[p] = PortFields
  BY <1>1, PortLoopFacts, Zenon
<1>4. PortFits(p, s[p], e.ts)
  BY <1>1, <1>2, <1>3, PortFitsLater
<1>5. s[p].queued \in [Chans -> Seq(ChunkType)]
  BY <1>3, Zenon DEF PortOK, Queueds
<1>6. VcSize[p.kind] \in Nat /\ ChunkSize \in Nat \ {0}
  BY <1>2, PortFacts, SizeFacts
<1>. QED
  BY <1>1, <1>2, <1>3, <1>4, <1>5, <1>6, Zenon DEF PortOK

LEMMA BoundKept ==
  ASSUME NEW r, NEW s, NEW F, NEW e, NEW now, RouterBounded(r, s, F, e, now),
         NEW P \in Ports(r), NEW q, PortFits(P, q, e.ts), NEW n, OnlyAt(Ports(r), n, s, P, q)
  PROVE  \A p \in Ports(r) : PortFits(p, n[p], e.ts)
<1>1. RouterOK(r, s) /\ now \in Nat /\ e.ts \in Nat /\ now <= e.ts
  BY BoundedPort
<1>2. \A p \in Ports(r) : PortFits(p, s[p], now)
  BY Zenon DEF RouterBounded
<1> DEFINE ts == e.ts
<1>3. ts \in Nat /\ now <= ts /\ PortFits(P, q, ts)
  BY <1>1
<1> HIDE DEF ts
<1>4. \A p \in Ports(r) : PortFits(p, n[p], ts)
  BY <1>1, <1>2, <1>3, RouterFits
<1>. QED
  BY <1>4 DEF ts

LEMMA BoundReceiveFits ==
  ASSUME NEW r, NEW s, NEW F, NEW e, NEW now, RouterBounded(r, s, F, e, now), e.type = "R_ARRIVE",
         NEW n \in NextHops(Algorithm, e.to, e.chunk.rt),
         s[n.conn].vc_occupancy[n.chan] + ChunkSize <= VcSize[n.conn.kind]
  PROVE  \A p \in Ports(r) : PortFits(p, router_packet_receive(s, e, n).ns[p], e.ts)
<1> DEFINE o == router_packet_receive(s, e, n)
           P == n.conn
           ch == n.chan
           p == s[P]
           new == Routed(e.chunk, n)
           pend == [p.pending EXCEPT ![ch] = Append(p.pending[ch], new)]
           occ == [p.vc_occupancy EXCEPT ![ch] = p.vc_occupancy[ch] + ChunkSize]
           q == [p EXCEPT !.pending = pend, !.vc_occupancy = occ, !.in_send_loop = TRUE]
           K == {"pending", "vc_occupancy", "in_send_loop"}
<1>1. P \in Ports(r) /\ ch \in Chans
  <2>1. /\ r \in Routers /\ e.to = r
        /\ e.chunk \in ChunkType /\ OnWay(r, e.chunk.rt, e.chunk.port, e.chunk.chan)
    BY DEF RouterBounded, RouterReady, EventOK
  <2>. QED
    BY <2>1, HopFacts
<1>2. o.ns = [s EXCEPT ![P] = q]
  <2>1. (s[n.conn].vc_occupancy[n.chan] + ChunkSize <= VcSize[n.conn.kind]) = TRUE
    OBVIOUS
  <2>. QED
    BY <2>1, Zenon DEF router_packet_receive, Outcome, Routed
<1> HIDE DEF o, new
<1>3. /\ RouterOK(r, s) /\ now \in Nat /\ e.ts \in Nat /\ now <= e.ts /\ PortFits(P, p, e.ts)
      /\ DOMAIN p = PortFields /\ PortShape(p)
      /\ p.vc_occupancy \in [Chans -> Int] /\ VcSize[P.kind] \in Nat /\ ChunkSize \in Nat \ {0}
  BY <1>1, BoundedPort
<1>4. q.vc_occupancy = occ /\ PortOthers(K, q, p)
  <2> HIDE DEF pend, occ, p
  <2>. QED
    BY <1>3, Zenon DEF PortFields, PortShape, PortOthers
<1>5. /\ q.queued = p.queued /\ q.queued_count = p.queued_count
      /\ q.last_buf_full = p.last_buf_full /\ q.busy_time = p.busy_time
      /\ q.link_traffic = p.link_traffic
  BY <1>4, Zenon DEF PortOthers, PortFields
<1>6. \A d \in Chans : occ[d] <= VcSize[P.kind]
  <2>1. \A d \in Chans : p.vc_occupancy[d] <= VcSize[P.kind]
    BY <1>3, Zenon DEF PortFits
  <2>. QED
    BY <1>1, <1>3, <2>1
<1> HIDE DEF q, occ
<1>7. PortFits(P, q, e.ts)
  BY <1>3, <1>4, <1>5, <1>6, Zenon DEF PortFits
<1> HIDE DEF P
<1>8. OnlyAt(Ports(r), o.ns, s, P, q)
  <2>1. DOMAIN s = Ports(r)
    BY <1>3, Zenon DEF RouterOK
  <2>2. OnlyAt(Ports(r), [s EXCEPT ![P] = q], s, P, q)
    BY <1>1, <2>1, OnlyAtSet, Zenon
  <2>. QED
    BY <1>2, <2>2, Zenon
<1>9. \A z \in Ports(r) : PortFits(z, o.ns[z], e.ts)
  BY <1>1, <1>7, <1>8, BoundKept
<1>. QED
  BY <1>9 DEF o

LEMMA BoundReceiveWaits ==
  ASSUME NEW r, NEW s, NEW F, NEW e, NEW now, RouterBounded(r, s, F, e, now), e.type = "R_ARRIVE",
         NEW n \in NextHops(Algorithm, e.to, e.chunk.rt),
         ~(s[n.conn].vc_occupancy[n.chan] + ChunkSize <= VcSize[n.conn.kind])
  PROVE  \A p \in Ports(r) : PortFits(p, router_packet_receive(s, e, n).ns[p], e.ts)
<1> DEFINE o == router_packet_receive(s, e, n)
           P == n.conn
           ch == n.chan
           p == s[P]
           new == Waiting(e.chunk, n)
           wait == [p.queued EXCEPT ![ch] = Append(p.queued[ch], new)]
           since == IF p.last_buf_full = 0 THEN e.ts ELSE p.last_buf_full
           q == [p EXCEPT !.queued = wait, !.queued_count = p.queued_count + ChunkSize,
                          !.last_buf_full = since]
           K == {"queued", "queued_count", "last_buf_full"}
<1>1. P \in Ports(r) /\ ch \in Chans
  <2>1. /\ r \in Routers /\ e.to = r
        /\ e.chunk \in ChunkType /\ OnWay(r, e.chunk.rt, e.chunk.port, e.chunk.chan)
    BY DEF RouterBounded, RouterReady, EventOK
  <2>. QED
    BY <2>1, HopFacts
<1>2. o.ns = [s EXCEPT ![P] = q]
  <2>1. (s[n.conn].vc_occupancy[n.chan] + ChunkSize <= VcSize[n.conn.kind]) = FALSE
    OBVIOUS
  <2>. QED
    BY <2>1, Zenon DEF router_packet_receive, Outcome, Routed, Waiting
<1> HIDE DEF o, new
<1>3. /\ RouterOK(r, s) /\ now \in Nat /\ e.ts \in Nat /\ now <= e.ts /\ PortFits(P, p, e.ts)
      /\ DOMAIN p = PortFields /\ PortShape(p) /\ p.last_buf_full \in Nat
      /\ p.queued \in [Chans -> Seq(ChunkType)] /\ p.queued_count \in Int /\ ChunkSize \in Nat \ {0}
  BY <1>1, BoundedPort
<1>4. /\ q.queued = wait /\ q.queued_count = p.queued_count + ChunkSize
      /\ q.last_buf_full = since /\ PortOthers(K, q, p)
  <2> HIDE DEF wait, since, p
  <2>. QED
    BY <1>3, Zenon DEF PortFields, PortShape, PortOthers
<1>5. /\ q.vc_occupancy = p.vc_occupancy /\ q.busy_time = p.busy_time
      /\ q.link_traffic = p.link_traffic
  BY <1>4, Zenon DEF PortOthers, PortFields
<1>6. IsFiniteSet(QueuePlaces(p.queued)) /\ p.queued_count = ChunkSize * Cardinality(QueuePlaces(p.queued))
  BY <1>3, Zenon DEF PortFits
<1>7. /\ IsFiniteSet(QueuePlaces(wait))
      /\ ChunkSize * Cardinality(QueuePlaces(wait)) = ChunkSize * Cardinality(QueuePlaces(p.queued)) + ChunkSize
  <2> DEFINE f == p.queued
  <2>1. f \in [Chans -> Seq(ChunkType)] /\ IsFiniteSet(QueuePlaces(f))
    BY <1>3, <1>6
  <2>2. OnlyAt(Chans, wait, f, ch, Append(f[ch], new))
    <3>1. DOMAIN f = Chans
      BY <2>1
    <3> HIDE DEF f
    <3>. QED
      BY <1>1, <3>1, OnlyAtSet DEF f
  <2> HIDE DEF f, wait, ch
  <2>3. /\ IsFiniteSet(QueuePlaces(wait))
        /\ ChunkSize * Cardinality(QueuePlaces(wait)) = ChunkSize * Cardinality(QueuePlaces(f)) + ChunkSize
    BY <1>1, <2>1, <2>2, QueueAppended
  <2>. QED
    BY <2>3 DEF f
<1>8. p.last_buf_full <= e.ts
  BY <1>3, Zenon DEF PortFits
<1>9. since <= e.ts
  BY <1>3, <1>8
<1> HIDE DEF q, wait, since
<1>10. q.queued_count = ChunkSize * Cardinality(QueuePlaces(wait))
  BY <1>4, <1>6, <1>7, Zenon
<1>11. PortFits(P, q, e.ts)
  BY <1>3, <1>4, <1>5, <1>7, <1>9, <1>10, Zenon DEF PortFits
<1> HIDE DEF P
<1>12. OnlyAt(Ports(r), o.ns, s, P, q)
  <2>1. DOMAIN s = Ports(r)
    BY <1>3, Zenon DEF RouterOK
  <2>2. OnlyAt(Ports(r), [s EXCEPT ![P] = q], s, P, q)
    BY <1>1, <2>1, OnlyAtSet, Zenon
  <2>. QED
    BY <1>2, <2>2, Zenon
<1>13. \A z \in Ports(r) : PortFits(z, o.ns[z], e.ts)
  BY <1>1, <1>11, <1>12, BoundKept
<1>. QED
  BY <1>13 DEF o

LEMMA BoundSendNone ==
  ASSUME NEW r, NEW s, NEW F, NEW e, NEW now, RouterBounded(r, s, F, e, now), e.type = "R_SEND"
  PROVE  \A p \in Ports(r) : PortFits(p, router_send_none(s, e).ns[p], e.ts)
<1> DEFINE o == router_send_none(s, e)
           P == e.port
           p == s[P]
           since == IF p.queued_count > 0 /\ p.last_buf_full = 0 THEN e.ts ELSE p.last_buf_full
           q == [p EXCEPT !.in_send_loop = FALSE, !.last_buf_full = since]
           K == {"in_send_loop", "last_buf_full"}
<1>1. P \in Ports(r)
  BY DEF RouterBounded, RouterReady, EventOK
<1>2. o.ns = [s EXCEPT ![P] = q]
  BY Zenon DEF router_send_none, Outcome
<1> HIDE DEF o
<1>3. /\ RouterOK(r, s) /\ now \in Nat /\ e.ts \in Nat /\ now <= e.ts /\ PortFits(P, p, e.ts)
      /\ DOMAIN p = PortFields /\ PortShape(p) /\ p.last_buf_full \in Nat
  BY <1>1, BoundedPort
<1>4. q.last_buf_full = since /\ PortOthers(K, q, p)
  <2> HIDE DEF since, p
  <2>. QED
    BY <1>3, Zenon DEF PortFields, PortShape, PortOthers
<1>5. /\ q.vc_occupancy = p.vc_occupancy /\ q.queued = p.queued
      /\ q.queued_count = p.queued_count /\ q.busy_time = p.busy_time
      /\ q.link_traffic = p.link_traffic
  BY <1>4, Zenon DEF PortOthers, PortFields
<1>6. p.last_buf_full <= e.ts
  BY <1>3, Zenon DEF PortFits
<1>7. since <= e.ts
  BY <1>3, <1>6
<1> HIDE DEF q, since
<1>8. PortFits(P, q, e.ts)
  BY <1>3, <1>4, <1>5, <1>7, Zenon DEF PortFits
<1> HIDE DEF P
<1>9. OnlyAt(Ports(r), o.ns, s, P, q)
  <2>1. DOMAIN s = Ports(r)
    BY <1>3, Zenon DEF RouterOK
  <2>2. OnlyAt(Ports(r), [s EXCEPT ![P] = q], s, P, q)
    BY <1>1, <2>1, OnlyAtSet, Zenon
  <2>. QED
    BY <1>2, <2>2, Zenon
<1>10. \A z \in Ports(r) : PortFits(z, o.ns[z], e.ts)
  BY <1>1, <1>8, <1>9, BoundKept
<1>. QED
  BY <1>10 DEF o

LEMMA TrafficIsNat ==
  ASSUME NEW c \in ChunkType PROVE TrafficSize(c) \in Nat
<1>1. ChunkSize \in Nat \ {0} /\ c.size \in Int
  BY SizeFacts DEF ChunkType
<1>2. c.size % ChunkSize \in 0 .. ChunkSize - 1
  BY <1>1, Quotient
<1>3. c.size % ChunkSize \in Nat
  BY <1>1, <1>2
<1>. QED
  BY <1>1, <1>3 DEF TrafficSize

\* time spent with a full buffer
LEMMA TimeSpent ==
  ASSUME NEW busy \in BOOLEAN, NEW a \in Int, NEW ts \in Nat, NEW since \in Nat, since <= ts, a >= 0
  PROVE  (IF busy THEN a + (ts - since) ELSE a) >= 0
  OBVIOUS

LEMMA BoundSendChunk ==
  ASSUME NEW r, NEW s, NEW F, NEW e, NEW now, RouterBounded(r, s, F, e, now), e.type = "R_SEND",
         HasPending(s[e.port])
  PROVE  \A p \in Ports(r) : PortFits(p, router_send_chunk(s, e).ns[p], e.ts)
<1> DEFINE o == router_send_chunk(s, e)
           P == e.port
           p == s[P]
           ch == get_next_router_vcg(p)
           c == Head(p.pending[ch])
           free == (MaxOf(p.next_available, e.ts) + injection_delay(c, e.port.kind)) - RouterDelay
           busy == p.last_buf_full # 0
           worked == IF busy THEN p.busy_time + (e.ts - p.last_buf_full) ELSE p.busy_time
           traffic == p.link_traffic + TrafficSize(c)
           q1 == [p EXCEPT !.pending[ch] = Tail(@), !.last_qos_lvl = ch, !.next_available = free,
                           !.busy_time = IF busy THEN @ + (e.ts - p.last_buf_full) ELSE @,
                           !.last_buf_full = 0, !.link_traffic = @ + TrafficSize(c)]
           loop == IF HasPending(q1) THEN q1.in_send_loop ELSE FALSE
           q == [q1 EXCEPT !.in_send_loop = loop]
           K1 == {"pending", "last_qos_lvl", "next_available", "busy_time", "last_buf_full",
                  "link_traffic"}
<1>1. P \in Ports(r)
  BY DEF RouterBounded, RouterReady, EventOK
<1>2. o.ns = [s EXCEPT ![P] = q]
  BY Zenon DEF router_send_chunk, Outcome
<1> HIDE DEF o
<1>3. /\ RouterOK(r, s) /\ now \in Nat /\ e.ts \in Nat /\ now <= e.ts /\ PortFits(P, p, e.ts)
      /\ DOMAIN p = PortFields /\ PortShape(p) /\ p.last_buf_full \in Nat /\ p.busy_time \in Int
      /\ p.link_traffic \in Int /\ p.last_qos_lvl \in Int /\ p.pending \in Pendings(r, P)
  BY <1>1, BoundedPort
<1>4. TrafficSize(c) \in Nat
  <2>1. ch \in Chans /\ p.pending[ch] # << >>
    BY <1>3, NextChannel
  <2> HIDE DEF ch
  <2>2. p.pending[ch] \in Seq(ChunkType)
    BY <1>3, <2>1 DEF Pendings
  <2>3. c \in ChunkType
    BY <2>1, <2>2, FrontOfQueue
  <2> HIDE DEF c
  <2>. QED
    BY <2>3, TrafficIsNat
<1> HIDE DEF ch, c
<1>5. /\ DOMAIN q1 = PortFields /\ PortShape(q1)
      /\ q1.busy_time = worked /\ q1.last_buf_full = 0
      /\ q1.link_traffic = traffic /\ PortOthers(K1, q1, p)
  <2> HIDE DEF p, free, busy
  <2>. QED
    BY <1>3, Zenon DEF PortFields, PortShape, PortOthers
<1> HIDE DEF q1
<1>6. PortOthers({"in_send_loop"}, q, q1)
  <2> HIDE DEF loop
  <2>. QED
    BY <1>5, Zenon DEF PortFields, PortShape, PortOthers
<1>7. /\ q.vc_occupancy = p.vc_occupancy /\ q.queued = p.queued
      /\ q.queued_count = p.queued_count /\ q.busy_time = worked
      /\ q.last_buf_full = 0 /\ q.link_traffic = traffic
  BY <1>5, <1>6, Zenon DEF PortOthers, PortFields
<1>8. p.last_buf_full <= e.ts /\ p.busy_time >= 0 /\ p.link_traffic >= 0
  BY <1>3, Zenon DEF PortFits
<1>9. worked >= 0 /\ traffic >= 0 /\ 0 <= e.ts
  <2> HIDE DEF p, c, busy
  <2>1. worked >= 0
    BY <1>3, <1>8
  <2>2. traffic >= 0 /\ 0 <= e.ts
    BY <1>3, <1>4, <1>8
  <2>. QED
    BY <2>1, <2>2
<1> HIDE DEF q, worked, traffic
<1>10. PortFits(P, q, e.ts)
  BY <1>3, <1>7, <1>9, Zenon DEF PortFits
<1> HIDE DEF P
<1>11. OnlyAt(Ports(r), o.ns, s, P, q)
  <2>1. DOMAIN s = Ports(r)
    BY <1>3, Zenon DEF RouterOK
  <2>2. OnlyAt(Ports(r), [s EXCEPT ![P] = q], s, P, q)
    BY <1>1, <2>1, OnlyAtSet, Zenon
  <2>. QED
    BY <1>2, <2>2, Zenon
<1>12. \A z \in Ports(r) : PortFits(z, o.ns[z], e.ts)
  BY <1>1, <1>10, <1>11, BoundKept
<1>. QED
  BY <1>12 DEF o

LEMMA BoundCreditMoves ==
  ASSUME NEW r, NEW s, NEW F, NEW e, NEW now, RouterBounded(r, s, F, e, now), e.type = "R_BUFFER",
         s[e.port].queued[e.chan] # << >>
  PROVE  \A p \in Ports(r) : PortFits(p, router_buf_update(s, e).ns[p], e.ts)
<1> DEFINE o == router_buf_update(s, e)
           P == e.port
           p == s[P]
           ch == e.chan
           c3 == p.last_buf_full > 0
           worked == IF c3 THEN p.busy_time + (e.ts - p.last_buf_full) ELSE p.busy_time
           freed == [p EXCEPT !.vc_occupancy[ch] = @ - ChunkSize,
                              !.busy_time = IF c3 THEN @ + (e.ts - p.last_buf_full) ELSE @,
                              !.last_buf_full = 0]
           head == Head(p.queued[ch])
           wait == [p.queued EXCEPT ![ch] = Tail(p.queued[ch])]
           q0 == [freed EXCEPT !.queued[ch] = Tail(@),
                               !.pending[ch] = Append(@, head),
                               !.vc_occupancy[ch] = @ + ChunkSize,
                               !.queued_count = @ - ChunkSize]
           c2 == ~p.in_send_loop /\ q0.pending[ch] # << >>
           loop == q0.in_send_loop \/ c2
           q == [q0 EXCEPT !.in_send_loop = loop]
           less == [p.vc_occupancy EXCEPT ![ch] = p.vc_occupancy[ch] - ChunkSize]
           K3 == {"vc_occupancy", "busy_time", "last_buf_full"}
           K0 == {"queued", "pending", "vc_occupancy", "queued_count"}
<1>1. P \in Ports(r) /\ ch \in Chans
  BY DEF RouterBounded, RouterReady, EventOK
<1>2. o.ns = [s EXCEPT ![P] = q]
  BY Zenon DEF router_buf_update, Outcome
<1> HIDE DEF o
<1>3. /\ RouterOK(r, s) /\ now \in Nat /\ e.ts \in Nat /\ now <= e.ts /\ PortFits(P, p, e.ts)
      /\ DOMAIN p = PortFields /\ PortShape(p) /\ p.last_buf_full \in Nat /\ p.busy_time \in Int
      /\ p.queued \in [Chans -> Seq(ChunkType)] /\ p.queued_count \in Int
      /\ p.vc_occupancy \in [Chans -> Int] /\ ChunkSize \in Nat \ {0} /\ VcSize[P.kind] \in Nat
  BY <1>1, BoundedPort
<1>4. /\ PortShape(freed) /\ DOMAIN freed = PortFields
      /\ freed.vc_occupancy = less
      /\ freed.busy_time = worked /\ freed.last_buf_full = 0
      /\ PortOthers(K3, freed, p)
  <2> HIDE DEF p, ch, c3
  <2>. QED
    BY <1>3, Zenon DEF PortFields, PortShape, PortOthers
<1>5. /\ freed.queued = p.queued /\ freed.queued_count = p.queued_count
      /\ freed.link_traffic = p.link_traffic
  BY <1>4, Zenon DEF PortOthers, PortFields
<1> HIDE DEF freed
<1>6. /\ PortShape(q0) /\ DOMAIN q0 = PortFields
      /\ q0.vc_occupancy = [freed.vc_occupancy EXCEPT ![ch] = freed.vc_occupancy[ch] + ChunkSize]
      /\ q0.queued = [freed.queued EXCEPT ![ch] = Tail(freed.queued[ch])]
      /\ q0.queued_count = freed.queued_count - ChunkSize
      /\ PortOthers(K0, q0, freed)
  <2> HIDE DEF p, ch, head
  <2>. QED
    BY <1>4, Zenon DEF PortFields, PortShape, PortOthers
<1>7. /\ q0.queued = wait /\ q0.queued_count = p.queued_count - ChunkSize
      /\ q0.busy_time = worked /\ q0.last_buf_full = 0 /\ q0.link_traffic = p.link_traffic
      /\ q0.vc_occupancy = [less EXCEPT ![ch] = less[ch] + ChunkSize]
  BY <1>4, <1>5, <1>6, Zenon DEF PortOthers, PortFields
<1> HIDE DEF q0
<1>8. PortOthers({"in_send_loop"}, q, q0)
  <2> HIDE DEF loop
  <2>. QED
    BY <1>6, Zenon DEF PortFields, PortShape, PortOthers
<1>9. /\ q.queued = wait /\ q.queued_count = p.queued_count - ChunkSize
      /\ q.busy_time = worked /\ q.last_buf_full = 0 /\ q.link_traffic = p.link_traffic
      /\ q.vc_occupancy = [less EXCEPT ![ch] = less[ch] + ChunkSize]
  BY <1>7, <1>8, Zenon DEF PortOthers, PortFields
<1> HIDE DEF q
<1>10. /\ p.last_buf_full <= e.ts /\ p.busy_time >= 0
       /\ \A d \in Chans : p.vc_occupancy[d] <= VcSize[P.kind]
       /\ IsFiniteSet(QueuePlaces(p.queued))
       /\ p.queued_count = ChunkSize * Cardinality(QueuePlaces(p.queued))
  BY <1>3, Zenon DEF PortFits
<1>11. worked >= 0 /\ 0 <= e.ts
  <2> HIDE DEF p
  <2>. QED
    BY <1>3, <1>10
<1>12. ASSUME NEW d \in Chans PROVE q.vc_occupancy[d] <= VcSize[P.kind]
  <2> DEFINE occ == p.vc_occupancy
             size == VcSize[P.kind]
  <2>1. occ \in [Chans -> Int] /\ occ[d] <= size /\ less = [occ EXCEPT ![ch] = occ[ch] - ChunkSize]
    BY <1>3, <1>10
  <2> HIDE DEF occ, less, p, size
  <2>2. [less EXCEPT ![ch] = less[ch] + ChunkSize][d] = occ[d]
    BY <1>1, <1>3, <2>1
  <2>. QED
    BY <1>9, <2>1, <2>2 DEF size
<1>13. /\ IsFiniteSet(QueuePlaces(wait))
       /\ ChunkSize * Cardinality(QueuePlaces(wait)) = ChunkSize * Cardinality(QueuePlaces(p.queued)) - ChunkSize
  <2> DEFINE f == p.queued
  <2>1. f \in [Chans -> Seq(ChunkType)] /\ IsFiniteSet(QueuePlaces(f)) /\ f[ch] # << >>
    BY <1>3, <1>10
  <2>2. OnlyAt(Chans, wait, f, ch, Tail(f[ch]))
    <3>1. DOMAIN f = Chans
      BY <2>1
    <3> HIDE DEF f
    <3>. QED
      BY <1>1, <3>1, OnlyAtSet DEF f
  <2> HIDE DEF f, wait, ch
  <2>3. /\ IsFiniteSet(QueuePlaces(wait))
        /\ ChunkSize * Cardinality(QueuePlaces(wait)) = ChunkSize * Cardinality(QueuePlaces(f)) - ChunkSize
    BY <1>1, <2>1, <2>2, QueueServed
  <2>. QED
    BY <2>3 DEF f
<1> HIDE DEF wait, worked, less
<1>14. q.queued_count = ChunkSize * Cardinality(QueuePlaces(wait))
  BY <1>9, <1>10, <1>13, Zenon
<1>15. PortFits(P, q, e.ts)
  BY <1>3, <1>9, <1>11, <1>12, <1>13, <1>14, Zenon DEF PortFits
<1> HIDE DEF P
<1>16. OnlyAt(Ports(r), o.ns, s, P, q)
  <2>1. DOMAIN s = Ports(r)
    BY <1>3, Zenon DEF RouterOK
  <2>2. OnlyAt(Ports(r), [s EXCEPT ![P] = q], s, P, q)
    BY <1>1, <2>1, OnlyAtSet, Zenon
  <2>. QED
    BY <1>2, <2>2, Zenon
<1>17. \A z \in Ports(r) : PortFits(z, o.ns[z], e.ts)
  BY <1>1, <1>15, <1>16, BoundKept
<1>. QED
  BY <1>17 DEF o

LEMMA BoundCreditFrees ==
  ASSUME NEW r, NEW s, NEW F, NEW e, NEW now, RouterBounded(r, s, F, e, now), e.type = "R_BUFFER",
         s[e.port].queued[e.chan] = << >>
  PROVE  \A p \in Ports(r) : PortFits(p, router_buf_update(s, e).ns[p], e.ts)
<1> DEFINE o == router_buf_update(s, e)
           P == e.port
           p == s[P]
           ch == e.chan
           c3 == p.last_buf_full > 0
           worked == IF c3 THEN p.busy_time + (e.ts - p.last_buf_full) ELSE p.busy_time
           freed == [p EXCEPT !.vc_occupancy[ch] = @ - ChunkSize,
                              !.busy_time = IF c3 THEN @ + (e.ts - p.last_buf_full) ELSE @,
                              !.last_buf_full = 0]
           less == [p.vc_occupancy EXCEPT ![ch] = p.vc_occupancy[ch] - ChunkSize]
           c2 == ~p.in_send_loop /\ freed.pending[ch] # << >>
           loop == freed.in_send_loop \/ c2
           q == [freed EXCEPT !.in_send_loop = loop]
           K3 == {"vc_occupancy", "busy_time", "last_buf_full"}
<1>1. P \in Ports(r) /\ ch \in Chans
  BY DEF RouterBounded, RouterReady, EventOK
<1>2. o.ns = [s EXCEPT ![P] = q]
  BY Zenon DEF router_buf_update, Outcome
<1> HIDE DEF o
<1>3. /\ RouterOK(r, s) /\ now \in Nat /\ e.ts \in Nat /\ now <= e.ts /\ PortFits(P, p, e.ts)
      /\ DOMAIN p = PortFields /\ PortShape(p) /\ p.last_buf_full \in Nat /\ p.busy_time \in Int
      /\ p.vc_occupancy \in [Chans -> Int] /\ ChunkSize \in Nat \ {0} /\ VcSize[P.kind] \in Nat
  BY <1>1, BoundedPort
<1>4. /\ PortShape(freed) /\ DOMAIN freed = PortFields
      /\ freed.vc_occupancy = less
      /\ freed.busy_time = worked /\ freed.last_buf_full = 0
      /\ PortOthers(K3, freed, p)
  <2> HIDE DEF p, ch, c3
  <2>. QED
    BY <1>3, Zenon DEF PortFields, PortShape, PortOthers
<1> HIDE DEF freed
<1>5. PortOthers({"in_send_loop"}, q, freed)
  <2> HIDE DEF loop
  <2>. QED
    BY <1>4, Zenon DEF PortFields, PortShape, PortOthers
<1>6. /\ q.queued = p.queued /\ q.queued_count = p.queued_count /\ q.vc_occupancy = less
      /\ q.busy_time = worked /\ q.last_buf_full = 0 /\ q.link_traffic = p.link_traffic
  BY <1>4, <1>5, Zenon DEF PortOthers, PortFields
<1> HIDE DEF q
<1>7. /\ p.last_buf_full <= e.ts /\ p.busy_time >= 0
      /\ \A d \in Chans : p.vc_occupancy[d] <= VcSize[P.kind]
  BY <1>3, Zenon DEF PortFits
<1>8. worked >= 0 /\ 0 <= e.ts
  <2> HIDE DEF p
  <2>. QED
    BY <1>3, <1>7
<1>9. ASSUME NEW d \in Chans PROVE less[d] <= VcSize[P.kind]
  <2> DEFINE occ == p.vc_occupancy
             size == VcSize[P.kind]
  <2>1. /\ occ \in [Chans -> Int] /\ occ[d] <= size /\ less = [occ EXCEPT ![ch] = occ[ch] - ChunkSize]
        /\ size \in Nat
    BY <1>3, <1>7
  <2> HIDE DEF occ, less, p, size
  <2>2. less[d] <= size
    BY <1>1, <1>3, <2>1
  <2>. QED
    BY <2>2 DEF size
<1> HIDE DEF worked, less
<1>10. PortFits(P, q, e.ts)
  BY <1>3, <1>6, <1>8, <1>9, Zenon DEF PortFits
<1> HIDE DEF P
<1>11. OnlyAt(Ports(r), o.ns, s, P, q)
  <2>1. DOMAIN s = Ports(r)
    BY <1>3, Zenon DEF RouterOK
  <2>2. OnlyAt(Ports(r), [s EXCEPT ![P] = q], s, P, q)
    BY <1>1, <2>1, OnlyAtSet, Zenon
  <2>. QED
    BY <1>2, <2>2, Zenon
<1>12. \A z \in Ports(r) : PortFits(z, o.ns[z], e.ts)
  BY <1>1, <1>10, <1>11, BoundKept
<1>. QED
  BY <1>12 DEF o

-----------------------------------------------------------------------------
(* The history of the bounds: the states before each entry of the log were  *)
(* within theirs, at the time A of the entry before.                       *)

AllFit(v, now) == \A x \in Lps : Fits(x, v[x], now)

BoundHistory(g, t0, V, A) ==
  /\ A[1] = t0
  /\ \A i \in 1 .. Len(g) : A[i + 1] = g[i].ev.ts
  /\ \A i \in 1 .. Len(g) + 1 : A[i] \in Nat /\ AllFit(V[i], A[i])

BoundIndInv ==
  \E V, L, A : World(lps, events, log, V, L) /\ BoundHistory(log, gvt, V, A)

LEMMA FitsInView ==
  ASSUME NEW x \in Lps, NEW s, StateOK(x, s), NEW now
  PROVE  Fits(x, InChunks(x, s), now) <=> Fits(x, s, now)
<1>1. CASE x \in Terminals
  <2> DEFINE w == InChunks(x, s)
  <2>1. SameButLeft(w, s)
    BY <1>1, ViewShape, Zenon DEF StateOK, TermOK
  <2> HIDE DEF w
  <2>2. /\ w.vc_occupancy = s.vc_occupancy /\ w.terminal_length = s.terminal_length
        /\ w.terminal_msgs = s.terminal_msgs /\ w.last_buf_full = s.last_buf_full
        /\ w.busy_time = s.busy_time /\ w.rank_tbl = s.rank_tbl
    BY <2>1, Zenon DEF SameButLeft
  <2>3. TermFits(w, now) <=> TermFits(s, now)
    BY <2>2, Zenon DEF TermFits
  <2>. QED
    BY <1>1, <2>3, Zenon DEF Fits, w
<1>2. CASE x \notin Terminals
  BY <1>2, Zenon DEF InChunks
<1>. QED
  BY <1>1, <1>2

LEMMA AllFitInView ==
  ASSUME NEW S, StatesOK(S), NEW v, SeenAs(S, v), NEW now
  PROVE  AllFit(S, now) <=> AllFit(v, now)
<1>1. ASSUME NEW x \in Lps PROVE Fits(x, v[x], now) <=> Fits(x, S[x], now)
  <2>1. v[x] = InChunks(x, S[x]) /\ StateOK(x, S[x])
    BY Zenon DEF SeenAs, StatesOK
  <2>2. Fits(x, InChunks(x, S[x]), now) <=> Fits(x, S[x], now)
    BY <2>1, FitsInView
  <2>. QED
    BY <2>1, <2>2, Zenon
<1>. QED
  BY <1>1, Zenon DEF AllFit

LEMMA FitsLater ==
  ASSUME NEW x \in Lps, NEW s, StateOK(x, s), NEW now \in Nat, NEW ts \in Nat, now <= ts,
         Fits(x, s, now)
  PROVE  Fits(x, s, ts)
<1>1. CASE x \in Terminals
  <2>1. TermOK(x, s) /\ TermFits(s, now)
    BY <1>1, Zenon DEF StateOK, Fits
  <2>2. s.last_buf_full \in Nat /\ s.last_buf_full <= now
    BY <2>1, Zenon DEF TermOK, TermFits
  <2>3. s.last_buf_full <= ts
    BY <2>2
  <2>4. TermFits(s, ts)
    BY <2>1, <2>3, Zenon DEF TermFits
  <2>. QED
    BY <1>1, <2>4, Zenon DEF Fits
<1>2. CASE x \notin Terminals
  <2>1. \A p \in Ports(x) : PortOK(x, p, s[p]) /\ PortFits(p, s[p], now)
    BY <1>2, Zenon DEF StateOK, RouterOK, Fits
  <2>2. \A p \in Ports(x) : PortFits(p, s[p], ts)
    BY <2>1, PortFitsLater
  <2>. QED
    BY <1>2, <2>2, Zenon DEF Fits
<1>. QED
  BY <1>1, <1>2

LEMMA BoundsProcess ==
  ASSUME NEW S, NEW E, NEW g, NEW V, NEW L, NEW A, NEW t0,
         World(S, E, g, V, L), BoundHistory(g, t0, V, A),
         NEW e \in E, NEW o, HandlerOK(e.to, S[e.to], LoopEvents(E, e.to), e, o),
         e.ts \in Nat, A[Len(g) + 1] <= e.ts, Fits(e.to, o.ns, e.ts),
         NEW en, en.ev = e, en.rc = o.rc, en.sent = o.sent, en.before = S[e.to]
  PROVE  \E V2, L2, A2 :
           /\ World([S EXCEPT ![e.to] = o.ns], (E \ {e}) \cup o.sent, Append(g, en), V2, L2)
           /\ BoundHistory(Append(g, en), t0, V2, A2)
<1> DEFINE T == [S EXCEPT ![e.to] = o.ns]
           E2 == (E \ {e}) \cup o.sent
           h == Append(g, en)
           n == Len(g)
           A2 == [i \in 1 .. n + 2 |-> IF i = n + 2 THEN e.ts ELSE A[i]]
<1>1. PICK V2, L2 : World(T, E2, h, V2, L2) /\ SameViews(g, V, V2)
  BY ProcessStep
<1>2. /\ n \in Nat /\ Len(h) = n + 1
      /\ (\A i \in 1 .. n : h[i] = g[i]) /\ h[n + 1] = en
  <2>1. IsSeq(g)
    BY Zenon DEF World
  <2>. QED
    BY <2>1, LongLogFacts
<1>3. StatesOK(S) /\ SeenAs(S, V[n + 1])
  BY WorldSeen, Zenon
<1>4. StatesOK(T) /\ SeenAs(T, V2[Len(h) + 1])
  <2> HIDE DEF T, E2, h
  <2>. QED
    BY <1>1, WorldSeen, Zenon
<1>5. (\A i \in 1 .. n + 1 : A2[i] = A[i]) /\ A2[n + 2] = e.ts
  <2> HIDE DEF n
  <2>. QED
    BY <1>2
<1>6. Len(h) + 1 = n + 2 /\ n + 1 \in 1 .. n + 1 /\ 1 \in 1 .. n + 1
  <2> HIDE DEF n, h
  <2>. QED
    BY <1>2
<1>7. A[n + 1] \in Nat /\ AllFit(S, A[n + 1])
  <2>1. A[n + 1] \in Nat /\ AllFit(V[n + 1], A[n + 1])
    BY <1>6, Zenon DEF BoundHistory
  <2>. QED
    BY <1>3, <2>1, AllFitInView
<1>8. AllFit(T, e.ts)
  <2> SUFFICES ASSUME NEW x \in Lps PROVE Fits(x, T[x], e.ts)
    BY Zenon DEF AllFit
  <2>1. CASE x = e.to
    <3>1. T[x] = o.ns
      BY <1>3, <2>1, Zenon DEF StatesOK
    <3>. QED
      BY <2>1, <3>1, Zenon
  <2>2. CASE x # e.to
    <3>1. T[x] = S[x]
      BY <1>3, <2>2, Zenon DEF StatesOK
    <3>2. StateOK(x, S[x]) /\ Fits(x, S[x], A[n + 1])
      BY <1>3, <1>7, Zenon DEF StatesOK, AllFit
    <3> DEFINE now == A[n + 1]
               ts == e.ts
    <3>3. now \in Nat /\ ts \in Nat /\ now <= ts
      BY <1>7
    <3> HIDE DEF now, ts, T
    <3>4. Fits(x, S[x], ts)
      BY <3>2, <3>3, FitsLater DEF now
    <3>. QED
      BY <3>1, <3>4 DEF ts
  <2>. QED
    BY <2>1, <2>2
<1> HIDE DEF T, E2, h, A2
<1>9. AllFit(V2[n + 2], e.ts)
  BY <1>4, <1>6, <1>8, AllFitInView
<1>10. ASSUME NEW i \in 1 .. Len(h) + 1 PROVE A2[i] \in Nat /\ AllFit(V2[i], A2[i])
  <2>1. CASE i \in 1 .. n + 1
    BY <1>1, <1>5, <2>1, Zenon DEF BoundHistory, SameViews
  <2>2. CASE i = n + 2
    BY <1>5, <1>9, <2>2, Zenon
  <2>3. i \in 1 .. n + 1 \/ i = n + 2
    <3> HIDE DEF n
    <3>. QED
      BY <1>2, <1>6
  <2>. QED
    BY <2>1, <2>2, <2>3
<1>11. ASSUME NEW i \in 1 .. Len(h) PROVE A2[i + 1] = h[i].ev.ts
  <2>1. CASE i \in 1 .. n
    <3>1. i + 1 \in 1 .. n + 1
      <4> HIDE DEF n
      <4>. QED
        BY <1>2, <2>1
    <3>2. A2[i + 1] = A[i + 1] /\ h[i] = g[i] /\ A[i + 1] = g[i].ev.ts
      BY <1>2, <1>5, <2>1, <3>1, Zenon DEF BoundHistory
    <3>. QED
      BY <3>2, Zenon
  <2>2. CASE i = n + 1
    <3>1. i + 1 = n + 2
      <4> HIDE DEF n
      <4>. QED
        BY <1>2, <2>2
    <3>. QED
      BY <1>2, <1>5, <2>2, <3>1, Zenon
  <2>3. i \in 1 .. n \/ i = n + 1
    <3> HIDE DEF n
    <3>. QED
      BY <1>2
  <2>. QED
    BY <2>1, <2>2, <2>3
<1>12. A2[1] = t0
  BY <1>5, <1>6, Zenon DEF BoundHistory
<1>13. BoundHistory(h, t0, V2, A2)
  BY <1>10, <1>11, <1>12, Zenon DEF BoundHistory
<1>. QED
  BY <1>1, <1>13, Zenon DEF T, E2, h

LEMMA BoundsUndo ==
  ASSUME NEW g, IsSeq(g), NEW V, NEW A, NEW t0, BoundHistory(g, t0, V, A), g # << >>
  PROVE  BoundHistory(SubSeq(g, 1, Len(g) - 1), t0, V, A)
<1> DEFINE n == Len(g)
           h == SubSeq(g, 1, Len(g) - 1)
<1>1. /\ n \in Nat \ {0} /\ Len(h) = n - 1
      /\ \A i \in 1 .. n - 1 : h[i] = g[i]
  BY ShortLogFacts
<1> HIDE DEF h, n
<1>2. /\ \A i \in 1 .. Len(h) + 1 : i \in 1 .. n + 1
      /\ \A i \in 1 .. Len(h) : i \in 1 .. n /\ i \in 1 .. n - 1
  BY <1>1
<1>3. /\ A[1] = t0
      /\ \A i \in 1 .. n : A[i + 1] = g[i].ev.ts
      /\ \A i \in 1 .. n + 1 : A[i] \in Nat /\ AllFit(V[i], A[i])
  BY Zenon DEF BoundHistory, n
<1>4. BoundHistory(h, t0, V, A)
  BY <1>1, <1>2, <1>3, Zenon DEF BoundHistory
<1>. QED
  BY <1>4 DEF h

LEMMA BoundsCommit ==
  ASSUME NEW S, NEW E, NEW g, NEW V, NEW L, NEW A, NEW t0,
         World(S, E, g, V, L), BoundHistory(g, t0, V, A), g # << >>
  PROVE  \E V2, L2, A2 : World(S, E, Tail(g), V2, L2) /\ BoundHistory(Tail(g), Head(g).ev.ts, V2, A2)
<1> DEFINE n == Len(g)
           h == Tail(g)
           A2 == [i \in 1 .. n |-> A[i + 1]]
<1>1. IsSeq(g)
  BY Zenon DEF World
<1>2. /\ n \in Nat \ {0} /\ Len(h) = n - 1
      /\ \A i \in 1 .. n - 1 : h[i] = g[i + 1]
  BY <1>1, ShortLogFacts
<1>3. PICK V2, L2 : World(S, E, h, V2, L2) /\ LaterViews(g, V, V2)
  BY CommitStep
<1>4. \A i \in 1 .. n : V2[i] = V[i + 1] /\ A2[i] = A[i + 1]
  BY <1>3, Zenon DEF LaterViews
<1>5. Head(g) = g[1]
  <2>1. PICK U : g \in Seq(U)
    BY <1>1, Zenon DEF IsSeq
  <2>. QED
    BY <2>1, HeadTailProperties
<1> HIDE DEF h, n, A2
<1>6. /\ Len(h) + 1 = n /\ 1 \in 1 .. n /\ 1 + 1 \in 1 .. n + 1
      /\ \A i \in 1 .. Len(h) + 1 : i \in 1 .. n /\ i + 1 \in 1 .. n + 1
      /\ \A i \in 1 .. Len(h) : i + 1 \in 1 .. n /\ i \in 1 .. n - 1
  BY <1>2
<1>7. /\ \A i \in 1 .. n : A[i + 1] = g[i].ev.ts
      /\ \A i \in 1 .. n + 1 : A[i] \in Nat /\ AllFit(V[i], A[i])
  BY Zenon DEF BoundHistory, n
<1>8. A2[1] = Head(g).ev.ts
  BY <1>4, <1>5, <1>6, <1>7, Zenon
<1>9. \A i \in 1 .. Len(h) + 1 : A2[i] \in Nat /\ AllFit(V2[i], A2[i])
  BY <1>4, <1>6, <1>7, Zenon
<1>10. \A i \in 1 .. Len(h) : A2[i + 1] = h[i].ev.ts
  <2> SUFFICES ASSUME NEW i \in 1 .. Len(h) PROVE A2[i + 1] = h[i].ev.ts
    OBVIOUS
  <2>1. h[i] = g[i + 1] /\ A2[i + 1] = A[(i + 1) + 1]
    BY <1>2, <1>4, <1>6, Zenon
  <2>2. A[(i + 1) + 1] = g[i + 1].ev.ts
    BY <1>6, <1>7, Zenon
  <2>. QED
    BY <2>1, <2>2, Zenon
<1>11. BoundHistory(h, Head(g).ev.ts, V2, A2)
  BY <1>8, <1>9, <1>10, Zenon DEF BoundHistory
<1>. QED
  BY <1>3, <1>11, Zenon DEF h

LEMMA NowIsLast ==
  ASSUME NEW V, NEW A, IsSeq(log), BoundHistory(log, gvt, V, A)
  PROVE  Now = A[Len(log) + 1]
<1>1. CASE log = << >>
  <2>1. Len(log) + 1 = 1
    BY <1>1
  <2>. QED
    BY <1>1, <2>1, Zenon DEF Now, BoundHistory
<1>2. CASE log # << >>
  <2>1. Len(log) \in Nat \ {0}
    BY <1>2, ShortLogFacts, Zenon
  <2>2. Len(log) \in 1 .. Len(log)
    BY <2>1
  <2>. QED
    BY <1>2, <2>2, Zenon DEF Now, BoundHistory, LastEntry
<1>. QED
  BY <1>1, <1>2

-----------------------------------------------------------------------------
(* Every step keeps the history of the bounds.                             *)

LEMMA NoPlaces ==
  ASSUME NEW f, \A c \in Chans : f[c] = << >>
  PROVE  IsFiniteSet(QueuePlaces(f)) /\ 0 = ChunkSize * Cardinality(QueuePlaces(f))
<1>1. \A c \in Chans : DOMAIN f[c] = {}
  <2>1. DOMAIN << >> = {}
    OBVIOUS
  <2>. QED
    BY <2>1, Zenon
<1>2. ASSUME NEW z PROVE z \notin QueuePlaces(f)
  BY <1>1, PlacesArePairs, Zenon
<1>3. QueuePlaces(f) = {}
  BY <1>2, Zenon
<1>4. IsFiniteSet(QueuePlaces(f)) /\ Cardinality(QueuePlaces(f)) = 0
  BY <1>3, FS_EmptySet, Zenon
<1>5. ChunkSize \in Nat
  BY SizeFacts
<1>. QED
  BY <1>4, <1>5

LEMMA StartFits ==
  ASSUME Init PROVE AllFit(lps, 0)
<1>1. \A x \in Lps : lps[x] = IF x \in Terminals THEN TerminalInit ELSE RouterInit(x)
  BY Zenon DEF Init, Lps
<1>2. TermFits(TerminalInit, 0)
  <2>1. VcSize["TERMINAL"] \in Nat /\ ChunkSize \in Nat
    BY SizeFacts
  <2>2. /\ TerminalInit.vc_occupancy = 0 /\ TerminalInit.terminal_length = 0
        /\ TerminalInit.terminal_msgs = << >> /\ TerminalInit.last_buf_full = 0
        /\ TerminalInit.busy_time = 0 /\ TerminalInit.rank_tbl = << >>
    BY DEF TerminalInit
  <2>3. DOMAIN TerminalInit.rank_tbl = {} /\ Len(TerminalInit.terminal_msgs) = 0
    BY <2>2
  <2>. QED
    BY <2>1, <2>2, <2>3 DEF TermFits
<1>3. ASSUME NEW r \in Routers, NEW p \in Ports(r) PROVE PortFits(p, PortInit, 0)
  <2>1. VcSize[p.kind] \in Nat
    BY <1>3, PortFacts, SizeFacts
  <2>2. /\ \A c \in Chans : PortInit.vc_occupancy[c] = 0 /\ PortInit.queued[c] = << >>
        /\ PortInit.queued_count = 0 /\ PortInit.last_buf_full = 0
        /\ PortInit.busy_time = 0 /\ PortInit.link_traffic = 0
    BY DEF PortInit
  <2>3. /\ IsFiniteSet(QueuePlaces(PortInit.queued))
        /\ 0 = ChunkSize * Cardinality(QueuePlaces(PortInit.queued))
    BY <2>2, NoPlaces
  <2>4. \A c \in Chans : PortInit.vc_occupancy[c] <= VcSize[p.kind]
    BY <2>1, <2>2
  <2>5. 0 <= 0 /\ 0 >= 0
    OBVIOUS
  <2>. QED
    BY <2>2, <2>3, <2>4, <2>5, Zenon DEF PortFits
<1> SUFFICES ASSUME NEW x \in Lps PROVE Fits(x, lps[x], 0)
  BY Zenon DEF AllFit
<1>4. CASE x \in Terminals
  BY <1>1, <1>2, <1>4, Zenon DEF Fits
<1>5. CASE x \notin Terminals
  <2>1. x \in Routers /\ lps[x] = RouterInit(x)
    BY <1>1, <1>5, Zenon DEF Lps
  <2>2. \A p \in Ports(x) : lps[x][p] = PortInit
    BY <2>1, Zenon DEF RouterInit
  <2>. QED
    BY <1>3, <1>5, <2>1, <2>2, Zenon DEF Fits
<1>. QED
  BY <1>4, <1>5

LEMMA StartBounds == Init => BoundIndInv
<1> SUFFICES ASSUME Init PROVE BoundIndInv
  OBVIOUS
<1>1. PICK V, L : World(lps, events, log, V, L)
  BY StartInv, Zenon DEF IndInv
<1>2. StatesOK(lps) /\ SeenAs(lps, V[Len(log) + 1])
  BY <1>1, WorldSeen, Zenon
<1>3. Len(log) = 0 /\ gvt = 0
  BY DEF Init
<1>4. 1 .. Len(log) + 1 = {1} /\ Len(log) + 1 = 1 /\ 1 .. Len(log) = {}
  BY <1>3
<1>5. AllFit(lps, 0)
  BY StartFits
<1>6. AllFit(V[1], 0)
  BY <1>2, <1>4, <1>5, AllFitInView
<1> DEFINE A == [i \in {1} |-> 0]
<1>7. A[1] = 0 /\ 0 \in Nat
  OBVIOUS
<1> HIDE DEF A
<1>8. BoundHistory(log, gvt, V, A)
  BY <1>3, <1>4, <1>6, <1>7, Zenon DEF BoundHistory
<1>. QED
  BY <1>1, <1>8, Zenon DEF BoundIndInv

LEMMA FitKeeps ==
  ASSUME NEW V, NEW L, NEW A, World(lps, events, log, V, L), BoundHistory(log, gvt, V, A),
         NEW e \in events, NEW o,
         HandlerOK(e.to, lps[e.to], LoopEvents(events, e.to), e, o),
         e.ts \in Nat, A[Len(log) + 1] <= e.ts, Fits(e.to, o.ns, e.ts), Process(e, o)
  PROVE  BoundIndInv'
<1> DEFINE en == [ev |-> e, rc |-> o.rc, sent |-> o.sent, before |-> lps[e.to], mark |-> Len(trace)]
<1>1. en.ev = e /\ en.rc = o.rc /\ en.sent = o.sent /\ en.before = lps[e.to]
  OBVIOUS
<1>2. /\ lps' = [lps EXCEPT ![e.to] = o.ns]
      /\ events' = (events \ {e}) \cup o.sent
      /\ log' = Append(log, en) /\ gvt' = gvt
  BY Zenon DEF Process
<1> HIDE DEF en
<1>3. \E V2, L2, A2 :
        /\ World([lps EXCEPT ![e.to] = o.ns], (events \ {e}) \cup o.sent, Append(log, en), V2, L2)
        /\ BoundHistory(Append(log, en), gvt, V2, A2)
  BY <1>1, BoundsProcess
<1>4. \E V2, L2, A2 : World(lps', events', log', V2, L2) /\ BoundHistory(log', gvt', V2, A2)
  BY <1>2, <1>3, Zenon
<1>. QED
  BY <1>4, Zenon DEF BoundIndInv

LEMMA TermStepFits ==
  ASSUME NEW t \in Terminals, NEW s, NEW ts, TermFits(s, ts)
  PROVE  Fits(t, s, ts)
  BY DEF Fits

LEMMA RouterStepFits ==
  ASSUME NEW r \in Routers, NEW s, NEW ts, \A p \in Ports(r) : PortFits(p, s[p], ts)
  PROVE  Fits(r, s, ts)
<1>1. r \notin Terminals
  BY RouteAssumption
<1>. QED
  BY <1>1, Zenon DEF Fits

LEMMA HandleEventFits == BoundIndInv /\ HandleEvent => BoundIndInv'
<1> SUFFICES ASSUME BoundIndInv, NEW e \in events,
                    \/ NewMsg(e) \/ SchedNext(e)
                    \/ TGenerate(e) \/ TSend(e) \/ TArrive(e) \/ TBuffer(e)
                    \/ RArrive(e) \/ RSend(e) \/ RBuffer(e)
             PROVE  BoundIndInv'
  BY Zenon DEF HandleEvent
<1> DEFINE x == e.to
           s == lps[x]
           F == LoopEvents(events, x)
<1>1. PICK V, L, A : World(lps, events, log, V, L) /\ BoundHistory(log, gvt, V, A)
  BY Zenon DEF BoundIndInv
<1> DEFINE now == A[Len(log) + 1]
<1>2. e.type \in TermEvents => TermReady(x, s, F, e)
  BY <1>1, TermIsReady, Zenon
<1>3. e.type \in RouterEvents => RouterReady(x, s, F, e)
  BY <1>1, RouterIsReady, Zenon
<1>4. StatesOK(lps) /\ SeenAs(lps, V[Len(log) + 1]) /\ Len(log) \in Nat
  BY <1>1, WorldSeen, Zenon
<1>5. now \in Nat /\ AllFit(lps, now)
  <2>1. Len(log) + 1 \in 1 .. Len(log) + 1
    BY <1>4
  <2>2. now \in Nat /\ AllFit(V[Len(log) + 1], now)
    BY <1>1, <2>1, Zenon DEF BoundHistory
  <2>. QED
    BY <1>4, <2>2, AllFitInView
<1>6. EventOK(e) /\ x \in Lps /\ e.ts \in Nat
  <2>1. EventOK(e)
    BY <1>1, Zenon DEF World
  <2>. QED
    BY <2>1, EventTo, Zenon DEF EventOK
<1>7. Fits(x, s, now)
  BY <1>5, <1>6, Zenon DEF AllFit
<1>8. now <= e.ts
  <2>1. e.ts >= Now
    BY Zenon DEF NewMsg, SchedNext, TGenerate, TSend, TArrive, TBuffer, RArrive, RSend, RBuffer, Ready
  <2>2. IsSeq(log)
    BY <1>1, Zenon DEF World
  <2>3. Now = now
    BY <1>1, <2>2, NowIsLast
  <2> HIDE DEF now
  <2>. QED
    BY <1>5, <1>6, <2>1, <2>3
<1>9. ASSUME NEW o, HandlerOK(x, s, F, e, o), Fits(x, o.ns, e.ts), Process(e, o)
      PROVE  BoundIndInv'
  BY <1>1, <1>6, <1>8, <1>9, FitKeeps
<1> HIDE DEF F, now
<1>10. ASSUME e.type \in TermEvents
       PROVE  x \in Terminals /\ TermReady(x, s, F, e) /\ TermFits(s, now)
  <2>1. TermReady(x, s, F, e) /\ x \in Terminals
    BY <1>2, <1>10, Zenon DEF TermReady
  <2>. QED
    BY <1>7, <2>1, Zenon DEF Fits
<1>11. ASSUME e.type \in RouterEvents
       PROVE  x \in Routers /\ RouterReady(x, s, F, e) /\ RouterBounded(x, s, F, e, now)
  <2>1. RouterReady(x, s, F, e) /\ x \in Routers
    BY <1>3, <1>11, Zenon DEF RouterReady
  <2>2. x \notin Terminals
    BY <2>1, RouteAssumption
  <2>. QED
    BY <1>5, <1>7, <1>8, <2>1, <2>2, Zenon DEF Fits, RouterBounded
<1>12. CASE NewMsg(e)
  <2>1. e.type = "NEW_MSG" /\ Process(e, handle_new_msg(s, e))
    BY <1>12, Zenon DEF NewMsg, Ready
  <2>2. x \in Terminals /\ TermReady(x, s, F, e) /\ TermFits(s, now)
    BY <1>10, <2>1, Zenon DEF TermEvents
  <2>3. HandlerOK(x, s, F, e, handle_new_msg(s, e))
    BY <2>1, <2>2, NewMsgHandler
  <2>4. TermFits(handle_new_msg(s, e).ns, e.ts)
    BY <1>5, <1>8, <2>1, <2>2, FitsNewMsg
  <2>5. Fits(x, handle_new_msg(s, e).ns, e.ts)
    BY <2>2, <2>4, TermStepFits
  <2>. QED
    BY <1>9, <2>1, <2>3, <2>5, Zenon
<1>13. CASE SchedNext(e)
  <2>1. e.type = "SCHED_NEXT" /\ Process(e, handle_sched_next(s, e))
    BY <1>13, Zenon DEF SchedNext, Ready
  <2>2. x \in Terminals /\ TermReady(x, s, F, e) /\ TermFits(s, now)
    BY <1>10, <2>1, Zenon DEF TermEvents
  <2>3. HandlerOK(x, s, F, e, handle_sched_next(s, e))
    BY <2>1, <2>2, SchedNextHandler
  <2>4. TermFits(handle_sched_next(s, e).ns, e.ts)
    BY <1>5, <1>8, <2>1, <2>2, FitsSchedNext
  <2>5. Fits(x, handle_sched_next(s, e).ns, e.ts)
    BY <2>2, <2>4, TermStepFits
  <2>. QED
    BY <1>9, <2>1, <2>3, <2>5, Zenon
<1>14. CASE TGenerate(e)
  <2>1. e.type = "T_GENERATE" /\ Process(e, packet_generate(s, e))
    BY <1>14, Zenon DEF TGenerate, Ready
  <2>2. x \in Terminals /\ TermReady(x, s, F, e) /\ TermFits(s, now)
    BY <1>10, <2>1, Zenon DEF TermEvents
  <2>3. HandlerOK(x, s, F, e, packet_generate(s, e))
    BY <2>1, <2>2, GenerateHandler
  <2>4. TermFits(packet_generate(s, e).ns, e.ts)
    BY <1>5, <1>8, <2>1, <2>2, FitsGenerate
  <2>5. Fits(x, packet_generate(s, e).ns, e.ts)
    BY <2>2, <2>4, TermStepFits
  <2>. QED
    BY <1>9, <2>1, <2>3, <2>5, Zenon
<1>15. CASE TSend(e)
  <2>1. e.type = "T_SEND" /\ Process(e, packet_send(s, e))
    BY <1>15, Zenon DEF TSend, Ready
  <2>2. x \in Terminals /\ TermReady(x, s, F, e) /\ TermFits(s, now)
    BY <1>10, <2>1, Zenon DEF TermEvents
  <2>3. HandlerOK(x, s, F, e, packet_send(s, e))
    BY <2>1, <2>2, SendHandler
  <2>4. TermFits(packet_send(s, e).ns, e.ts)
    <3>1. CASE get_next_vcg_fails(s)
      <4>1. TermFits(packet_send_stall(s, e).ns, e.ts)
        BY <1>5, <1>8, <2>2, FitsStall
      <4>. QED
        BY <3>1, <4>1, Zenon DEF packet_send
    <3>2. CASE ~get_next_vcg_fails(s)
      <4>1. TermFits(packet_send_chunk(s, e).ns, e.ts)
        BY <1>5, <1>8, <2>2, <3>2, FitsSendChunk
      <4>. QED
        BY <3>2, <4>1, Zenon DEF packet_send
    <3>. QED
      BY <3>1, <3>2
  <2>5. Fits(x, packet_send(s, e).ns, e.ts)
    BY <2>2, <2>4, TermStepFits
  <2>. QED
    BY <1>9, <2>1, <2>3, <2>5, Zenon
<1>16. CASE TArrive(e)
  <2>1. e.type = "T_ARRIVE" /\ Process(e, packet_arrive(s, e))
    BY <1>16, Zenon DEF TArrive, Ready
  <2>2. x \in Terminals /\ TermReady(x, s, F, e) /\ TermFits(s, now)
    BY <1>10, <2>1, Zenon DEF TermEvents
  <2>3. HandlerOK(x, s, F, e, packet_arrive(s, e))
    BY <2>1, <2>2, ArriveHandler
  <2>4. TermFits(packet_arrive(s, e).ns, e.ts)
    BY <1>5, <1>8, <2>1, <2>2, FitsArrive
  <2>5. Fits(x, packet_arrive(s, e).ns, e.ts)
    BY <2>2, <2>4, TermStepFits
  <2>. QED
    BY <1>9, <2>1, <2>3, <2>5, Zenon
<1>17. CASE TBuffer(e)
  <2>1. e.type = "T_BUFFER" /\ Process(e, terminal_buf_update(s, e))
    BY <1>17, Zenon DEF TBuffer, Ready
  <2>2. x \in Terminals /\ TermReady(x, s, F, e) /\ TermFits(s, now)
    BY <1>10, <2>1, Zenon DEF TermEvents
  <2>3. HandlerOK(x, s, F, e, terminal_buf_update(s, e))
    BY <2>1, <2>2, BufUpdate
  <2>4. TermFits(terminal_buf_update(s, e).ns, e.ts)
    BY <1>5, <1>8, <2>1, <2>2, FitsBuffer
  <2>5. Fits(x, terminal_buf_update(s, e).ns, e.ts)
    BY <2>2, <2>4, TermStepFits
  <2>. QED
    BY <1>9, <2>1, <2>3, <2>5, Zenon
<1>18. CASE RArrive(e)
  <2>1. e.type = "R_ARRIVE"
    BY <1>18, Zenon DEF RArrive, Ready
  <2>2. PICK n \in NextHops(Algorithm, x, e.chunk.rt) : Process(e, router_packet_receive(s, e, n))
    BY <1>18, Zenon DEF RArrive
  <2>3. x \in Routers /\ RouterReady(x, s, F, e) /\ RouterBounded(x, s, F, e, now)
    BY <1>11, <2>1, Zenon DEF RouterEvents
  <2>4. HandlerOK(x, s, F, e, router_packet_receive(s, e, n))
    BY <2>1, <2>3, ReceiveHandler
  <2>5. \A p \in Ports(x) : PortFits(p, router_packet_receive(s, e, n).ns[p], e.ts)
    BY <2>1, <2>3, BoundReceiveFits, BoundReceiveWaits, Zenon
  <2>6. Fits(x, router_packet_receive(s, e, n).ns, e.ts)
    BY <2>3, <2>5, RouterStepFits
  <2>. QED
    BY <1>9, <2>2, <2>4, <2>6, Zenon
<1>19. CASE RSend(e)
  <2>1. e.type = "R_SEND" /\ Process(e, router_packet_send(s, e))
    BY <1>19, Zenon DEF RSend, Ready
  <2>2. x \in Routers /\ RouterReady(x, s, F, e) /\ RouterBounded(x, s, F, e, now)
    BY <1>11, <2>1, Zenon DEF RouterEvents
  <2>3. HandlerOK(x, s, F, e, router_packet_send(s, e))
    BY <2>1, <2>2, PortSendHandler
  <2>4. \A p \in Ports(x) : PortFits(p, router_packet_send(s, e).ns[p], e.ts)
    <3>1. CASE HasPending(s[e.port])
      <4>1. \A p \in Ports(x) : PortFits(p, router_send_chunk(s, e).ns[p], e.ts)
        BY <2>1, <2>2, <3>1, BoundSendChunk
      <4>. QED
        BY <3>1, <4>1, Zenon DEF router_packet_send
    <3>2. CASE ~HasPending(s[e.port])
      <4>1. \A p \in Ports(x) : PortFits(p, router_send_none(s, e).ns[p], e.ts)
        BY <2>1, <2>2, BoundSendNone
      <4>. QED
        BY <3>2, <4>1, Zenon DEF router_packet_send
    <3>. QED
      BY <3>1, <3>2
  <2>5. Fits(x, router_packet_send(s, e).ns, e.ts)
    BY <2>2, <2>4, RouterStepFits
  <2>. QED
    BY <1>9, <2>1, <2>3, <2>5, Zenon
<1>20. CASE RBuffer(e)
  <2>1. e.type = "R_BUFFER" /\ Process(e, router_buf_update(s, e))
    BY <1>20, Zenon DEF RBuffer, Ready
  <2>2. x \in Routers /\ RouterReady(x, s, F, e) /\ RouterBounded(x, s, F, e, now)
    BY <1>11, <2>1, Zenon DEF RouterEvents
  <2>3. HandlerOK(x, s, F, e, router_buf_update(s, e))
    BY <2>1, <2>2, CreditHandler
  <2>4. \A p \in Ports(x) : PortFits(p, router_buf_update(s, e).ns[p], e.ts)
    BY <2>1, <2>2, BoundCreditMoves, BoundCreditFrees, Zenon
  <2>5. Fits(x, router_buf_update(s, e).ns, e.ts)
    BY <2>2, <2>4, RouterStepFits
  <2>. QED
    BY <1>9, <2>1, <2>3, <2>5, Zenon
<1>. QED
  BY <1>12, <1>13, <1>14, <1>15, <1>16, <1>17, <1>18, <1>19, <1>20

LEMMA UndoFits == BoundIndInv /\ Undo(reverse) => BoundIndInv'
<1> SUFFICES ASSUME BoundIndInv, Undo(reverse) PROVE BoundIndInv'
  OBVIOUS
<1> DEFINE en == log[Len(log)]
           x == en.ev.to
<1>1. PICK V, L, A : World(lps, events, log, V, L) /\ BoundHistory(log, gvt, V, A)
  BY Zenon DEF BoundIndInv
<1>2. /\ log # << >>
      /\ lps' = [lps EXCEPT ![x] = reverse(lps[x], en)]
      /\ events' = (events \ en.sent) \cup {en.ev}
      /\ log' = SubSeq(log, 1, Len(log) - 1) /\ gvt' = gvt
  BY Zenon DEF Undo, LastEntry, Reversed
<1>3. World([lps EXCEPT ![x] = reverse(lps[x], en)], (events \ en.sent) \cup {en.ev},
            SubSeq(log, 1, Len(log) - 1), V, L)
  BY <1>1, <1>2, UndoStep, Zenon
<1>4. BoundHistory(SubSeq(log, 1, Len(log) - 1), gvt, V, A)
  <2>1. IsSeq(log)
    BY <1>1, Zenon DEF World
  <2>. QED
    BY <1>1, <1>2, <2>1, BoundsUndo
<1>5. World(lps', events', log', V, L) /\ BoundHistory(log', gvt', V, A)
  BY <1>2, <1>3, <1>4, Zenon
<1>. QED
  BY <1>5, Zenon DEF BoundIndInv

LEMMA CommitFits == BoundIndInv /\ Commit => BoundIndInv'
<1> SUFFICES ASSUME BoundIndInv, Commit PROVE BoundIndInv'
  OBVIOUS
<1>1. PICK V, L, A : World(lps, events, log, V, L) /\ BoundHistory(log, gvt, V, A)
  BY Zenon DEF BoundIndInv
<1>2. /\ log # << >> /\ lps' = lps /\ events' = events /\ log' = Tail(log)
      /\ gvt' = Head(log).ev.ts
  BY Zenon DEF Commit
<1>3. \E V2, L2, A2 : /\ World(lps, events, Tail(log), V2, L2)
                      /\ BoundHistory(Tail(log), Head(log).ev.ts, V2, A2)
  BY <1>1, <1>2, BoundsCommit
<1>4. \E V2, L2, A2 : World(lps', events', log', V2, L2) /\ BoundHistory(log', gvt', V2, A2)
  BY <1>2, <1>3, Zenon
<1>. QED
  BY <1>4, Zenon DEF BoundIndInv

LEMMA NextFits == BoundIndInv /\ [Next]_rossVars => BoundIndInv'
<1> SUFFICES ASSUME BoundIndInv, [Next]_rossVars PROVE BoundIndInv'
  OBVIOUS
<1>1. Terminated => UNCHANGED rossVars
  BY Zenon DEF Terminated
<1>2. UNCHANGED rossVars => BoundIndInv'
  BY Zenon DEF BoundIndInv, rossVars
<1>. QED
  BY <1>1, <1>2, HandleEventFits, UndoFits, CommitFits, Zenon DEF Next

LEMMA BoundInductive == Spec => []BoundIndInv
  BY StartBounds, NextFits, PTL DEF Spec

-----------------------------------------------------------------------------
(* The bounds of the state the network is in.                              *)

LEMMA OccupancyNotNegative ==
  ASSUME CreditIndInv
  PROVE  \A z \in Slots : OccAt(lps, z) >= 0
<1>1. PICK Pl : CreditInv(lps, NetEvents(events), Pl)
  BY PresentCredits, Zenon
<1> SUFFICES ASSUME NEW z \in Slots PROVE OccAt(lps, z) >= 0
  OBVIOUS
<1>2. IsFiniteSet(Used(Pl, z)) /\ OccAt(lps, z) = ChunkSize * Cardinality(Used(Pl, z))
  BY <1>1, Zenon DEF CreditInv, CountsOK
<1> DEFINE k == Cardinality(Used(Pl, z))
<1>3. k \in Nat /\ ChunkSize \in Nat
  BY <1>2, FS_CardinalityType, SizeFacts
<1> HIDE DEF k
<1>4. ChunkSize * k >= 0
  BY <1>3
<1>. QED
  BY <1>2, <1>4 DEF k

LEMMA PresentBounds ==
  ASSUME BoundIndInv
  PROVE  StatesOK(lps) /\ \E now \in Nat : AllFit(lps, now)
<1>1. PICK V, L, A : World(lps, events, log, V, L) /\ BoundHistory(log, gvt, V, A)
  BY Zenon DEF BoundIndInv
<1>2. StatesOK(lps) /\ SeenAs(lps, V[Len(log) + 1]) /\ Len(log) \in Nat
  BY <1>1, WorldSeen, Zenon
<1>3. Len(log) + 1 \in 1 .. Len(log) + 1
  BY <1>2
<1>4. A[Len(log) + 1] \in Nat /\ AllFit(V[Len(log) + 1], A[Len(log) + 1])
  BY <1>1, <1>3, Zenon DEF BoundHistory
<1>5. AllFit(lps, A[Len(log) + 1])
  BY <1>2, <1>4, AllFitInView
<1>. QED
  BY <1>2, <1>4, <1>5, Zenon

LEMMA BoundsGiveTypes == BoundIndInv /\ CreditIndInv => TypeOK
<1> SUFFICES ASSUME BoundIndInv, CreditIndInv PROVE TypeOK
  OBVIOUS
<1>1. PICK now \in Nat : AllFit(lps, now)
  BY PresentBounds, Zenon
<1>2. StatesOK(lps)
  BY PresentBounds, Zenon
<1>3. ASSUME NEW t \in Terminals
      PROVE  /\ lps[t].vc_occupancy \in 0..VcSize["TERMINAL"]
             /\ lps[t].terminal_length = ChunkSize * Len(lps[t].terminal_msgs)
             /\ {lps[t].busy_time, lps[t].available_time, lps[t].packet_counter,
                 lps[t].last_in_queue_time} \subseteq Nat
             /\ \A k \in DOMAIN lps[t].remaining_sz : lps[t].remaining_sz[k] > 0
             /\ \A m \in DOMAIN lps[t].rank_tbl :
                  lps[t].rank_tbl[m].remaining_packets \in 1..total_packets(m)
  <2>1. t \in Lps
    BY DEF Lps
  <2>2. TermOK(t, lps[t]) /\ TermFits(lps[t], now)
    BY <1>1, <1>2, <2>1, Zenon DEF StatesOK, StateOK, AllFit, Fits
  <2>3. /\ lps[t].vc_occupancy \in Int /\ lps[t].busy_time \in Int
        /\ lps[t].available_time \in Nat /\ lps[t].packet_counter \in Nat
        /\ lps[t].last_in_queue_time \in Nat
        /\ lps[t].remaining_sz \in Tables(PacketKeys, Nat \ {0})
    BY <2>2, Zenon DEF TermOK
  <2>4. lps[t].vc_occupancy <= VcSize["TERMINAL"] /\ lps[t].busy_time >= 0
    BY <2>2, Zenon DEF TermFits
  <2>5. lps[t].vc_occupancy >= 0
    <3>1. TSlot(t) \in Slots /\ TSlot(t) \notin RSlots /\ TSlot(t)[1] = t
      BY SlotFacts, Zenon DEF Slots
    <3>2. OccAt(lps, TSlot(t)) = lps[t].vc_occupancy
      BY <3>1, Zenon DEF OccAt
    <3>. QED
      BY <3>1, <3>2, OccupancyNotNegative
  <2>6. VcSize["TERMINAL"] \in Nat
    BY SizeFacts
  <2>7. lps[t].vc_occupancy \in 0..VcSize["TERMINAL"]
    BY <2>3, <2>4, <2>5, <2>6
  <2>8. {lps[t].busy_time, lps[t].available_time, lps[t].packet_counter,
         lps[t].last_in_queue_time} \subseteq Nat
    BY <2>3, <2>4
  <2>9. \A k \in DOMAIN lps[t].remaining_sz : lps[t].remaining_sz[k] > 0
    <3> DEFINE f == lps[t].remaining_sz
    <3> HIDE DEF f
    <3>1. \A k \in DOMAIN f : f[k] \in Nat \ {0}
      BY <2>3, TableFacts DEF f
    <3>2. \A k \in DOMAIN lps[t].remaining_sz : lps[t].remaining_sz[k] \in Nat \ {0}
      BY <3>1 DEF f
    <3>. QED
      BY <3>2
  <2>. QED
    BY <2>2, <2>7, <2>8, <2>9, Zenon DEF TermFits
<1>4. ASSUME NEW r \in Routers, NEW p \in DOMAIN lps[r]
      PROVE  /\ \A c \in Chans : lps[r][p].vc_occupancy[c] \in 0..VcSize[p.kind]
             /\ lps[r][p].queued_count = ChunkSize * Cardinality(QueuePlaces(lps[r][p].queued))
             /\ {lps[r][p].busy_time, lps[r][p].next_available, lps[r][p].link_traffic} \subseteq Nat
  <2>1. r \in Lps /\ r \notin Terminals
    BY RouteAssumption DEF Lps
  <2>2. RouterOK(r, lps[r]) /\ \A z \in Ports(r) : PortFits(z, lps[r][z], now)
    BY <1>1, <1>2, <2>1, Zenon DEF StatesOK, StateOK, AllFit, Fits
  <2>3. p \in Ports(r)
    BY <1>4, <2>2, Zenon DEF RouterOK
  <2>4. PortOK(r, p, lps[r][p]) /\ PortFits(p, lps[r][p], now)
    BY <2>2, <2>3, Zenon DEF RouterOK
  <2>5. /\ lps[r][p].vc_occupancy \in [Chans -> Int] /\ lps[r][p].busy_time \in Int
        /\ lps[r][p].next_available \in Nat /\ lps[r][p].link_traffic \in Int
    BY <2>4, Zenon DEF PortOK
  <2>6. /\ \A c \in Chans : lps[r][p].vc_occupancy[c] <= VcSize[p.kind]
        /\ lps[r][p].busy_time >= 0 /\ lps[r][p].link_traffic >= 0
    BY <2>4, Zenon DEF PortFits
  <2>7. VcSize[p.kind] \in Nat
    BY <1>4, <2>3, PortFacts, SizeFacts
  <2>8. ASSUME NEW c \in Chans PROVE lps[r][p].vc_occupancy[c] \in 0..VcSize[p.kind]
    <3>1. lps[r][p].vc_occupancy[c] >= 0
      <4> DEFINE z == <<r, p, c>>
      <4>1. z[1] = r /\ z[2] = p /\ z[3] = c
        OBVIOUS
      <4>2. z \in RSlots /\ z \in Slots
        BY <2>3, SlotFacts, Zenon
      <4> HIDE DEF z
      <4>3. OccAt(lps, z) = lps[r][p].vc_occupancy[c]
        BY <2>1, <4>1, <4>2, Zenon DEF OccAt
      <4>. QED
        BY <4>2, <4>3, OccupancyNotNegative
    <3> DEFINE occ == lps[r][p].vc_occupancy
               size == VcSize[p.kind]
    <3>2. occ \in [Chans -> Int] /\ occ[c] <= size /\ size \in Nat /\ occ[c] >= 0
      BY <2>5, <2>6, <2>7, <3>1
    <3> HIDE DEF occ, size
    <3>3. occ[c] \in 0 .. size
      BY <3>2
    <3>. QED
      BY <3>3 DEF occ, size
  <2>9. {lps[r][p].busy_time, lps[r][p].next_available, lps[r][p].link_traffic} \subseteq Nat
    BY <2>5, <2>6
  <2>. QED
    BY <2>4, <2>8, <2>9, Zenon DEF PortFits
<1>. QED
  BY <1>3, <1>4, Zenon DEF TypeOK

\* The bounds the credit protocol is there for, for every topology, routing
\* algorithm, size of buffers and chunks, messages, window and number of
\* rollbacks: no channel of a terminal or a router port ever counts more chunks
\* than its buffer holds or fewer than none, forward or in a rollback; the byte
\* counts kept beside the queues (terminal_length, queued_count) are those of the
\* queues; no time or traffic counter goes below zero, and a message in the rank
\* table still expects at least one packet and at most all of them.
THEOREM BuffersStayBounded == Spec => []TypeOK
  BY BoundInductive, CreditInductive, BoundsGiveTypes, PTL
=============================================================================
