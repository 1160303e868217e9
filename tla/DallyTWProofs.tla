----------------------------- MODULE DallyTWProofs -----------------------------
(***************************************************************************)
(* Proofs about DallyTW.                                                   *)
(***************************************************************************)
EXTENDS DallyTW, FiniteSetTheorems, SequenceTheorems, TLAPS

\* what is proved of routing and of the schedulers
Walk == INSTANCE DallyWalkProofs WITH routing <- Algorithm, at <- gvt, msg <- gvt, hop <- gvt
SchedP ==
  INSTANCE ModelNetSchedProofs WITH
    NoMsg <- -1, SchedType <- "fcfs", SubType <- "fcfs", NumPrios <- 1,
    Req <- [m \in Msgs |-> [msg_size |-> Msg[m].size, prio |-> -1, offset |-> 0,
                            is_from_remote |-> FALSE, loopback |-> FALSE]]

-----------------------------------------------------------------------------
(* The instances.                                                          *)

LEMMA WalkAssumptions == Walk!RouteAssumption /\ Walk!VcsAssumption
<1>1. Walk!Groups = Groups
  BY DEF Walk!Groups, Groups
<1>. QED
  BY <1>1, RouteAssumption, NetAssumption DEF Walk!RouteAssumption, Walk!VcsAssumption

LEMMA SameHops ==
  ASSUME NEW a, NEW r, NEW m PROVE Walk!NextHops(a, r, m) = NextHops(a, r, m)
  BY ZenonT(60)
  DEF NextHops, do_dfdally_routing, minimal_routing, nonminimal_routing, prog_adaptive_routing,
      legal_minimal_stops, legal_nonminimal_stops, select_intermediate_group, Visit,
      get_connections_to_group, get_routed_connections_to_group, local_conns, Conn, DestRouter,
      SrcGroup, DestGroup, Groups, FirstRouter, output_chan, GoOn,
      Walk!NextHops, Walk!do_dfdally_routing, Walk!minimal_routing, Walk!nonminimal_routing,
      Walk!prog_adaptive_routing, Walk!legal_minimal_stops, Walk!legal_nonminimal_stops,
      Walk!select_intermediate_group, Walk!Visit, Walk!get_connections_to_group,
      Walk!get_routed_connections_to_group, Walk!local_conns, Walk!Conn, Walk!DestRouter,
      Walk!SrcGroup, Walk!DestGroup, Walk!Groups, Walk!FirstRouter, Walk!output_chan, Walk!GoOn

LEMMA SchedAssumptions == SchedP!MsgAssumption /\ SchedP!SchedAssumption
  BY NetAssumption DEF SchedP!MsgAssumption, SchedP!SchedAssumption, SchedP!ReqType

LEMMA SameSched ==
  ASSUME NEW q, NEW m, NEW rc
  PROVE  /\ Sched!fcfs_init = SchedP!fcfs_init
         /\ Sched!fcfs_add(m, q) = SchedP!fcfs_add(m, q)
         /\ Sched!fcfs_add_rc(q) = SchedP!fcfs_add_rc(q)
         /\ Sched!fcfs_next(q) = SchedP!fcfs_next(q)
         /\ Sched!fcfs_next_rc(q, rc) = SchedP!fcfs_next_rc(q, rc)
         /\ Sched!NextPacket(q) = SchedP!NextPacket(q)
         /\ Sched!is_last_packet(q) = SchedP!is_last_packet(q)
  BY Zenon
  DEF Sched!fcfs_init, SchedP!fcfs_init, Sched!fcfs_add, SchedP!fcfs_add, Sched!fcfs_add_rc,
      SchedP!fcfs_add_rc, Sched!fcfs_next, SchedP!fcfs_next, Sched!fcfs_next_rc,
      SchedP!fcfs_next_rc, Sched!NextPacket, SchedP!NextPacket, Sched!is_last_packet,
      SchedP!is_last_packet, Sched!AllButLast, SchedP!AllButLast, Sched!LastRem, SchedP!LastRem

-----------------------------------------------------------------------------
(* Chunks, states of LPs and events.                                       *)

Lps == Terminals \cup Routers

\* a channel of a port as the hop it is, and its place in the order of channels
HopAt(port, chan) == [kind |-> port.kind, chan |-> chan]
ChannelRank(port, chan) == Walk!Rank(HopAt(port, chan))

\* routing fields a packet may have when it arrives at router r through a channel
OnWay(r, m, port, chan) ==
  /\ m \in Walk!Route
  /\ HopAt(port, chan) \in Walk!HopType
  /\ Walk!Stage(Algorithm, r, m, HopAt(port, chan))

\* the port terminal t sends through
InjectionPort(t) == Conn("INJECTION", RouterOf[t])

PortType == [kind: Kinds \cup {"INJECTION"}, to: Lps]

ChunkType ==
  [src: Terminals, pid: Nat, id: Nat, msg: Msgs, size: Nat, last: BOOLEAN, rt: Walk!Route,
   from: Lps, port: PortType, chan: Nat, saved_port: PortType, saved_chan: Nat]

\* chunks of terminal t that wait for its router
OwnChunk(t) ==
  {k \in ChunkType : k.src = t /\ k.from = t /\ k.rt.last_hop = "TERMINAL"
                     /\ k.port = InjectionPort(t) /\ k.chan = 0
                     /\ OnWay(RouterOf[t], k.rt, k.port, k.chan)}

\* the buffer that gets a credit when chunk k has moved on
Upstream(k, port, chan) ==
  IF k.rt.last_hop = "TERMINAL"
  THEN k.from \in Terminals /\ port = InjectionPort(k.from) /\ chan = 0
  ELSE k.from \in Routers /\ port \in Ports(k.from) /\ chan \in Chans
       /\ port.kind = k.rt.last_hop

\* chunks that leave router r through channel c of port p, and those that wait for
\* a place there
LeavingChunk(r, p, c) ==
  {k \in ChunkType : k.port = p /\ k.chan = c /\ (p.to \in Routers => OnWay(p.to, Hop(k.rt, p.kind), p, c))}
WaitingChunk(r, p, c) ==
  {k \in LeavingChunk(r, p, c) :
     /\ Upstream(k, k.saved_port, k.saved_chan)
     /\ ChannelRank(k.saved_port, k.saved_chan) < ChannelRank(p, c)}

Tables(K, V) == UNION {[D -> V] : D \in SUBSET K}

PacketKeys == Terminals \X Nat

\* the queue of a base LP
QueueOf(t) ==
  {q \in SchedP!Queue : /\ SchedP!QueueOK(q)
                        /\ \A i \in 1 .. Len(q.reqs) : Msg[q.reqs[i].req].src = t}

TermFields ==
  {"sched", "in_sched_loop", "packet_counter", "terminal_msgs", "terminal_length",
   "vc_occupancy", "in_send_loop", "issueIdle", "last_buf_full", "busy_time",
   "available_time", "last_in_queue_time", "rank_tbl", "remaining_sz", "zombies"}
TermShape(s) == s = [k \in TermFields |-> s[k]]

TermOK(t, s) ==
  /\ TermShape(s)
  /\ s.sched \in QueueOf(t) /\ s.in_sched_loop \in BOOLEAN /\ s.packet_counter \in Nat
  /\ s.terminal_msgs \in Seq(OwnChunk(t)) /\ s.terminal_length \in Int
  /\ s.vc_occupancy \in Int /\ s.in_send_loop \in BOOLEAN /\ s.issueIdle \in BOOLEAN
  /\ s.last_buf_full \in Nat /\ s.busy_time \in Int /\ s.available_time \in Nat
  /\ s.last_in_queue_time \in Nat
  /\ s.rank_tbl \in Tables(Msgs, [num_chunks: Int, remaining_packets: Int])
  /\ s.remaining_sz \in Tables(PacketKeys, Nat \ {0}) /\ s.zombies \in SUBSET PacketKeys

Pendings(r, p) ==
  {f \in [Chans -> Seq(ChunkType)] : \A c \in Chans : f[c] \in Seq(LeavingChunk(r, p, c))}
Queueds(r, p) ==
  {f \in [Chans -> Seq(ChunkType)] : \A c \in Chans : f[c] \in Seq(WaitingChunk(r, p, c))}

PortFields ==
  {"pending", "queued", "vc_occupancy", "queued_count", "in_send_loop", "last_buf_full",
   "busy_time", "next_available", "last_qos_lvl", "link_traffic"}
PortShape(s) == s = [k \in PortFields |-> s[k]]

PortOK(r, p, s) ==
  /\ PortShape(s)
  /\ s.pending \in Pendings(r, p) /\ s.queued \in Queueds(r, p)
  /\ s.vc_occupancy \in [Chans -> Int] /\ s.queued_count \in Int
  /\ s.in_send_loop \in BOOLEAN /\ s.last_buf_full \in Nat /\ s.busy_time \in Int
  /\ s.next_available \in Nat /\ s.last_qos_lvl \in Int /\ s.link_traffic \in Int

RouterOK(r, s) ==
  /\ s = [p \in Ports(r) |-> s[p]]
  /\ \A p \in Ports(r) : PortOK(r, p, s[p])

StateOK(x, s) == IF x \in Terminals THEN TermOK(x, s) ELSE RouterOK(x, s)

Packet == [msg: Msgs, offset: Int, size: Nat, last: BOOLEAN]

TermEvents == {"NEW_MSG", "SCHED_NEXT", "T_GENERATE", "T_SEND", "T_ARRIVE", "T_BUFFER", "T_NOTIFY"}
RouterEvents == {"R_ARRIVE", "R_SEND", "R_BUFFER"}

EventOK(e) ==
  /\ e.ts \in Nat
  /\ e.type \in TermEvents \cup RouterEvents
  /\ e.type \in TermEvents => e.to \in Terminals
  /\ e.type \in RouterEvents => e.to \in Routers
  /\ e.type = "NEW_MSG" => e.msg \in Msgs /\ Msg[e.msg].src = e.to
  /\ e.type = "T_GENERATE" => e.pkt \in Packet
  /\ e.type = "T_ARRIVE" =>
       /\ e.chunk \in ChunkType /\ e.chunk.from \in Routers
       /\ e.chunk.port \in Ports(e.chunk.from) /\ e.chunk.chan \in Chans
       /\ e.chunk.port.kind = "TERMINAL"
  /\ e.type = "R_ARRIVE" =>
       /\ e.chunk \in ChunkType /\ OnWay(e.to, e.chunk.rt, e.chunk.port, e.chunk.chan)
       /\ Upstream(e.chunk, e.chunk.port, e.chunk.chan)
  /\ e.type = "R_SEND" => e.port \in Ports(e.to)
  /\ e.type = "R_BUFFER" => e.port \in Ports(e.to) /\ e.chan \in Chans

-----------------------------------------------------------------------------
(* The loops of an LP, from its state s and the events F of its loops.     *)

LoopTypes == {"SCHED_NEXT", "T_GENERATE", "T_SEND", "R_SEND"}
LoopEvents(E, x) == {e \in E : e.type \in LoopTypes /\ e.to = x}

\* at most one of F satisfies what the caller selects: none when idle
NoneOrOne(F, running) ==
  IF running THEN \E e \in F : F = {e} ELSE F = {}

IdleTokens(F) == {e \in F : e.type \in {"SCHED_NEXT", "T_GENERATE"}}
SendEvents(F) == {e \in F : e.type = "T_SEND"}
PortEvents(F, p) == {e \in F : e.type = "R_SEND" /\ e.port = p}

TermLoops(s, F) ==
  /\ NoneOrOne(SendEvents(F), s.in_send_loop)
  /\ s.in_send_loop \/ get_next_vcg_fails(s)
  /\ NoneOrOne(IdleTokens(F), s.in_sched_loop /\ ~s.issueIdle)
  /\ s.issueIdle => s.in_sched_loop
  /\ s.in_sched_loop \/ s.sched.reqs = << >>

PortLoops(p, s, F) ==
  /\ NoneOrOne(PortEvents(F, p), s.in_send_loop)
  /\ s.in_send_loop \/ ~HasPending(s)
  /\ \A c \in Chans : s.queued[c] # << >> => s.vc_occupancy[c] + ChunkSize > VcSize[p.kind]

LoopsOK(x, s, F) ==
  IF x \in Terminals THEN TermLoops(s, F) ELSE \A p \in Ports(x) : PortLoops(p, s[p], F)

-----------------------------------------------------------------------------
(* What a handler must do: leave its LP in order, send events in order, keep *)
(* the loops running, and save enough for its reversal.                    *)

HandlerOK(x, s, F, e, o) ==
  LET G == (F \ {e}) \cup LoopEvents(o.sent, x)
  IN  /\ StateOK(x, o.ns)
      /\ \A f \in o.sent : EventOK(f) /\ (f.type \in LoopTypes => f.to = x)
      /\ LoopsOK(x, o.ns, G)
      /\ F = (G \ o.sent) \cup LoopEvents({e}, x)
      /\ \A en, z :
           en.ev = e /\ en.rc = o.rc /\ StateOK(x, z) /\ InChunks(x, z) = InChunks(x, o.ns) =>
             StateOK(x, reverse(z, en)) /\ InChunks(x, reverse(z, en)) = InChunks(x, s)

\* a terminal, its loop events and an event it is about to process
TermReady(t, s, F, e) ==
  /\ t \in Terminals /\ TermOK(t, s)
  /\ TermLoops(s, F)
  /\ \A f \in F : f.type \in LoopTypes \ {"R_SEND"} /\ f.to = t
  /\ EventOK(e) /\ e.to = t
  /\ e.type \in LoopTypes => e \in F

-----------------------------------------------------------------------------
(* Terminals: states compared field by field.                              *)

ChunksLeft(r) == [k \in DOMAIN r |-> num_chunks_for(r[k])]

\* the fields but remaining_sz
SameButLeft(a, b) ==
  /\ a.sched = b.sched /\ a.in_sched_loop = b.in_sched_loop
  /\ a.packet_counter = b.packet_counter /\ a.terminal_msgs = b.terminal_msgs
  /\ a.terminal_length = b.terminal_length /\ a.vc_occupancy = b.vc_occupancy
  /\ a.in_send_loop = b.in_send_loop /\ a.issueIdle = b.issueIdle
  /\ a.last_buf_full = b.last_buf_full /\ a.busy_time = b.busy_time
  /\ a.available_time = b.available_time /\ a.last_in_queue_time = b.last_in_queue_time
  /\ a.rank_tbl = b.rank_tbl
  /\ a.zombies = b.zombies

SameTerm(a, b) ==
  SameButLeft(a, b) /\ ChunksLeft(a.remaining_sz) = ChunksLeft(b.remaining_sz)

LEMMA SameIsEquivalence ==
  /\ \A a : SameButLeft(a, a)
  /\ \A a, b : SameButLeft(a, b) => SameButLeft(b, a)
  /\ \A a, b, c : SameButLeft(a, b) /\ SameButLeft(b, c) => SameButLeft(a, c)
<1>1. ASSUME NEW a PROVE SameButLeft(a, a)
  BY Zenon DEF SameButLeft
<1>2. ASSUME NEW a, NEW b, SameButLeft(a, b) PROVE SameButLeft(b, a)
  BY <1>2, Zenon DEF SameButLeft
<1>3. ASSUME NEW a, NEW b, NEW c, SameButLeft(a, b), SameButLeft(b, c) PROVE SameButLeft(a, c)
  BY <1>3, Zenon DEF SameButLeft
<1>. QED
  BY <1>1, <1>2, <1>3

LEMMA TermDomain ==
  ASSUME NEW s, TermShape(s)
  PROVE  DOMAIN s = TermFields
<1>1. DOMAIN s = DOMAIN [k \in TermFields |-> s[k]]
  BY Zenon DEF TermShape
<1>. QED
  BY <1>1, Zenon

LEMMA TermEqual ==
  ASSUME NEW a, NEW b, TermShape(a), TermShape(b), SameButLeft(a, b), a.remaining_sz = b.remaining_sz
  PROVE  a = b
<1>1. \A k \in TermFields : a[k] = b[k]
  BY DEF SameButLeft, TermFields
<1>2. [k \in TermFields |-> a[k]] = [k \in TermFields |-> b[k]]
  BY <1>1, Zenon
<1>. QED
  BY <1>2, Zenon DEF TermShape

\* a state with other bytes to come
LEMMA TermWithLeft ==
  ASSUME NEW s, TermShape(s), NEW x
  PROVE  LET v == [s EXCEPT !.remaining_sz = x]
         IN  TermShape(v) /\ SameButLeft(v, s) /\ v.remaining_sz = x
<1>1. DOMAIN s = TermFields
  BY TermDomain
<1>. QED
  BY <1>1, Zenon DEF TermShape, SameButLeft, TermFields

LEMMA TermInChunks ==
  ASSUME NEW t \in Terminals, NEW a, NEW b, TermShape(a), TermShape(b)
  PROVE  InChunks(t, a) = InChunks(t, b) <=> SameTerm(a, b)
<1> DEFINE V(s) == [s EXCEPT !.remaining_sz = ChunksLeft(s.remaining_sz)]
<1>1. ASSUME NEW s, TermShape(s)
      PROVE  InChunks(t, s) = V(s)
  <2>1. InChunks(t, s)
          = [s EXCEPT !.remaining_sz = [k \in DOMAIN s.remaining_sz |-> num_chunks_for(s.remaining_sz[k])]]
    BY Zenon DEF InChunks
  <2>. QED
    BY <2>1, Zenon DEF ChunksLeft
<1>2. ASSUME NEW s, TermShape(s)
      PROVE  TermShape(V(s)) /\ SameButLeft(V(s), s) /\ V(s).remaining_sz = ChunksLeft(s.remaining_sz)
  BY <1>2, TermWithLeft, Zenon
<1> HIDE DEF V
<1>5. /\ SameButLeft(V(a), a) /\ V(a).remaining_sz = ChunksLeft(a.remaining_sz)
      /\ SameButLeft(V(b), b) /\ V(b).remaining_sz = ChunksLeft(b.remaining_sz)
  BY <1>2, Zenon
<1>3. V(a) = V(b) => SameTerm(a, b)
  BY <1>5, SameIsEquivalence, Zenon DEF SameTerm
<1>4. ASSUME SameTerm(a, b) PROVE V(a) = V(b)
  <2>1. SameButLeft(V(a), V(b)) /\ V(a).remaining_sz = V(b).remaining_sz
    BY <1>5, <1>4, SameIsEquivalence, Zenon DEF SameTerm
  <2>. QED
    BY <1>2, <2>1, TermEqual
<1>. QED
  BY <1>1, <1>3, <1>4

\* all fields but those of K
Others(K, a, b) == \A k \in TermFields \ K : a[k] = b[k]

LEMMA SameOthers ==
  ASSUME NEW a, NEW b
  PROVE  SameButLeft(a, b) <=> Others({"remaining_sz"}, a, b)
<1>1. SameButLeft(a, b) => Others({"remaining_sz"}, a, b)
  BY Zenon DEF SameButLeft, Others, TermFields
<1>2. Others({"remaining_sz"}, a, b) => SameButLeft(a, b)
  BY Zenon DEF SameButLeft, Others, TermFields
<1>. QED
  BY <1>1, <1>2

\* a state that is s again, but for the bytes to come of z
LEMMA TermBack ==
  ASSUME NEW t, NEW s, NEW z, NEW r, TermOK(t, s), TermOK(t, z), TermShape(r),
         Others({"remaining_sz"}, r, s), r.remaining_sz = z.remaining_sz,
         ChunksLeft(z.remaining_sz) = ChunksLeft(s.remaining_sz)
  PROVE  TermOK(t, r) /\ SameTerm(r, s)
<1>1. SameButLeft(r, s)
  BY Zenon DEF Others, SameButLeft, TermFields
<1>. QED
  BY <1>1 DEF TermOK, SameTerm, SameButLeft

\* events of the loops of terminal t, and what a terminal may send
TermLoopSet(t, F) == \A f \in F : f.type \in LoopTypes \ {"R_SEND"} /\ f.to = t
TermSends(t, sent) == \A f \in sent : f.type \in LoopTypes => f.type # "R_SEND" /\ f.to = t

\* a terminal's handler does what a handler must do
LEMMA TermHandler ==
  ASSUME NEW t, NEW s, NEW F, NEW e, TermReady(t, s, F, e), NEW o,
         TermOK(t, o.ns),
         \A f \in o.sent : EventOK(f) /\ (f.type \in LoopTypes => f.type # "R_SEND" /\ f.to = t),
         SendEvents(o.sent) \cap SendEvents(F) \subseteq {e},
         IdleTokens(o.sent) \cap IdleTokens(F) \subseteq {e},
         \A G : /\ SendEvents(G) = (SendEvents(F) \ {e}) \cup SendEvents(o.sent)
                /\ IdleTokens(G) = (IdleTokens(F) \ {e}) \cup IdleTokens(o.sent)
                => TermLoops(o.ns, G),
         \A en, z : en.ev = e /\ en.rc = o.rc /\ TermOK(t, z) /\ SameTerm(z, o.ns) =>
                      TermOK(t, reverse(z, en)) /\ SameTerm(reverse(z, en), s)
  PROVE  HandlerOK(t, s, F, e, o)
<1> DEFINE G == (F \ {e}) \cup LoopEvents(o.sent, t)
<1>1. t \in Terminals /\ TermOK(t, s)
  BY DEF TermReady
<1>2. /\ SendEvents(G) = (SendEvents(F) \ {e}) \cup SendEvents(o.sent)
      /\ IdleTokens(G) = (IdleTokens(F) \ {e}) \cup IdleTokens(o.sent)
      /\ F = (G \ o.sent) \cup LoopEvents({e}, t)
  <2>1. TermLoopSet(t, F)
    BY Zenon DEF TermReady, TermLoopSet
  <2>2. e.to = t /\ (e.type \in LoopTypes => e \in F)
    BY DEF TermReady
  <2>3. TermSends(t, o.sent)
    BY Zenon DEF TermSends
  <2>4. /\ SendEvents(o.sent) \cap SendEvents(F) \subseteq {e}
        /\ IdleTokens(o.sent) \cap IdleTokens(F) \subseteq {e}
    OBVIOUS
  <2>5. G = (F \ {e}) \cup LoopEvents(o.sent, t)
    OBVIOUS
  <2> HIDE DEF G
  <2>. QED
    BY ONLY <2>1, <2>2, <2>3, <2>4, <2>5
       DEF SendEvents, IdleTokens, LoopEvents, LoopTypes, TermLoopSet, TermSends
<1> HIDE DEF G
<1>3. TermLoops(o.ns, G)
  BY <1>2, Zenon
<1>4. ASSUME NEW en, NEW z, en.ev = e, en.rc = o.rc, StateOK(t, z),
             InChunks(t, z) = InChunks(t, o.ns)
      PROVE  StateOK(t, reverse(z, en)) /\ InChunks(t, reverse(z, en)) = InChunks(t, s)
  <2>1. TermOK(t, z) /\ TermShape(z) /\ TermShape(o.ns) /\ TermShape(s)
    BY <1>1, <1>4, Zenon DEF StateOK, TermOK
  <2>2. SameTerm(z, o.ns)
    BY <1>1, <1>4, <2>1, TermInChunks
  <2>3. TermOK(t, reverse(z, en)) /\ SameTerm(reverse(z, en), s)
    BY <1>4, <2>1, <2>2, Zenon
  <2>4. TermShape(reverse(z, en))
    BY <2>3, Zenon DEF TermOK
  <2>. QED
    BY <1>1, <2>1, <2>3, <2>4, TermInChunks DEF StateOK
<1>5. StateOK(t, o.ns) /\ LoopsOK(t, o.ns, G)
  BY <1>1, <1>3, Zenon DEF StateOK, LoopsOK
<1>. QED
  BY <1>2, <1>4, <1>5, Zenon DEF HandlerOK, G

-----------------------------------------------------------------------------
(* terminal_buf_update.                                                    *)

LEMMA SizeFacts ==
  /\ ChunkSize \in Nat \ {0} /\ PacketSize \in Nat \ {0} /\ RouterDelay \in Nat \ {0}
  /\ Lookahead \in Nat \ {0}
  /\ \A k \in Kinds : /\ VcSize[k] \in Nat \ {0} /\ NsPerByte[k] \in Nat \ {0}
                      /\ PropDelay[k] \in Nat \ {0} /\ CreditDelay[k] \in Nat \ {0}
  /\ "TERMINAL" \in Kinds /\ "LOCAL" \in Kinds /\ "GLOBAL" \in Kinds
  BY NetAssumption DEF Kinds

LEMMA TSendOK ==
  ASSUME NEW t \in Terminals, NEW ts \in Nat, NEW by
  PROVE  LET f == TSendEvent(t, ts, by)
         IN  EventOK(f) /\ f.type = "T_SEND" /\ f.to = t
  BY DEF TSendEvent, EventOK, TermEvents, RouterEvents

LEMMA BufUpdate ==
  ASSUME NEW t, NEW s, NEW F, NEW e, TermReady(t, s, F, e), e.type = "T_BUFFER"
  PROVE  HandlerOK(t, s, F, e, terminal_buf_update(s, e))
<1> DEFINE o == terminal_buf_update(s, e)
           wake == ~s.in_send_loop /\ s.terminal_msgs # << >>
           f == TSendEvent(e.to, e.ts, <<"credit", e.by[2], e.by[3], e.by[4]>>)
           n == [s EXCEPT !.vc_occupancy = @ - ChunkSize, !.in_send_loop = @ \/ wake]
<1>1. /\ t \in Terminals /\ TermOK(t, s) /\ TermShape(s) /\ TermLoops(s, F)
      /\ e.to = t /\ e.ts \in Nat
      /\ s.in_send_loop \in BOOLEAN /\ s.vc_occupancy \in Int
  BY DEF TermReady, EventOK, TermOK
<1>2. /\ o.ns = n /\ o.rc = [c1 |-> wake]
      /\ o.sent = IF wake THEN {f} ELSE {}
  BY Zenon DEF terminal_buf_update, Outcome
<1>3. DOMAIN s = TermFields
  BY <1>1, TermDomain
<1>4. /\ TermShape(n) /\ n.vc_occupancy = s.vc_occupancy - ChunkSize
      /\ n.in_send_loop = (s.in_send_loop \/ wake)
      /\ Others({"vc_occupancy", "in_send_loop"}, n, s)
  <2> HIDE DEF wake
  <2>. QED
    BY <1>3, Zenon DEF TermFields, TermShape, Others
<1>5. EventOK(f) /\ f.type = "T_SEND" /\ f.to = t
  BY <1>1, TSendOK
<1> HIDE DEF n, f
<1>6. /\ n.sched = s.sched /\ n.in_sched_loop = s.in_sched_loop
      /\ n.packet_counter = s.packet_counter /\ n.terminal_msgs = s.terminal_msgs
      /\ n.terminal_length = s.terminal_length /\ n.issueIdle = s.issueIdle
      /\ n.last_buf_full = s.last_buf_full /\ n.busy_time = s.busy_time
      /\ n.available_time = s.available_time /\ n.last_in_queue_time = s.last_in_queue_time
      /\ n.rank_tbl = s.rank_tbl
      /\ n.remaining_sz = s.remaining_sz /\ n.zombies = s.zombies
  BY <1>4, Zenon DEF Others, TermFields
<1>7. ChunkSize \in Nat
  BY SizeFacts
<1>8. n.in_send_loop \in BOOLEAN /\ n.vc_occupancy \in Int
  BY <1>1, <1>4, <1>7
<1>9. TermOK(t, n)
  BY <1>1, <1>4, <1>6, <1>8, Zenon DEF TermOK
<1>10. SendEvents(o.sent) = o.sent /\ IdleTokens(o.sent) = {}
  BY <1>2, <1>5 DEF SendEvents, IdleTokens
<1>11. e \notin SendEvents(F) /\ e \notin IdleTokens(F)
  BY DEF SendEvents, IdleTokens
<1>12. wake => SendEvents(F) = {}
  BY <1>1, Zenon DEF TermLoops, NoneOrOne
<1>13. ASSUME NEW G, SendEvents(G) = (SendEvents(F) \ {e}) \cup SendEvents(o.sent),
              IdleTokens(G) = (IdleTokens(F) \ {e}) \cup IdleTokens(o.sent)
       PROVE  TermLoops(n, G)
  <2>1. IdleTokens(G) = IdleTokens(F)
    BY <1>10, <1>11, <1>13
  <2>2. SendEvents(G) = IF wake THEN {f} ELSE SendEvents(F)
    BY <1>2, <1>10, <1>11, <1>12, <1>13
  <2>3. NoneOrOne(SendEvents(G), n.in_send_loop)
    BY <1>1, <1>4, <2>2, Zenon DEF TermLoops, NoneOrOne
  <2>4. n.in_send_loop \/ get_next_vcg_fails(n)
    BY <1>4, <1>6, Zenon DEF get_next_vcg_fails
  <2>. QED
    BY <1>1, <1>6, <2>1, <2>3, <2>4, Zenon DEF TermLoops
<1>14. ASSUME NEW en, NEW z, en.ev = e, en.rc = o.rc, TermOK(t, z), SameTerm(z, n)
       PROVE  TermOK(t, reverse(z, en)) /\ SameTerm(reverse(z, en), s)
  <2> DEFINE r == [z EXCEPT !.vc_occupancy = @ + ChunkSize,
                            !.in_send_loop = IF en.rc.c1 THEN FALSE ELSE @]
  <2>1. reverse(z, en) = terminal_buf_update_rc(z, en)
    BY <1>14, Zenon DEF reverse
  <2>2. reverse(z, en) = r
    BY <2>1, Zenon DEF terminal_buf_update_rc
  <2>3. TermShape(z) /\ DOMAIN z = TermFields
    BY <1>14, TermDomain, Zenon DEF TermOK
  <2>4. /\ TermShape(r) /\ r.vc_occupancy = z.vc_occupancy + ChunkSize
        /\ r.in_send_loop = (IF en.rc.c1 THEN FALSE ELSE z.in_send_loop)
        /\ Others({"vc_occupancy", "in_send_loop"}, r, z)
    BY <2>3, Zenon DEF TermFields, TermShape, Others
  <2> HIDE DEF r
  <2>5. z.vc_occupancy = n.vc_occupancy /\ z.in_send_loop = n.in_send_loop
    BY <1>14, Zenon DEF SameTerm, SameButLeft
  <2>6. r.vc_occupancy = s.vc_occupancy
    BY <1>1, <1>4, <1>7, <2>4, <2>5
  <2>7. en.rc.c1 = wake
    BY <1>2, <1>14
  <2>8. r.in_send_loop = s.in_send_loop
    <3>1. CASE wake
      BY <1>1, <2>4, <2>7, <3>1
    <3>2. CASE ~wake
      <4>1. n.in_send_loop = s.in_send_loop
        BY <1>1, <1>4, <3>2
      <4>. QED
        BY <2>4, <2>5, <2>7, <3>2, <4>1, Zenon
    <3>. QED
      BY <3>1, <3>2
  <2>9. Others({"remaining_sz"}, r, s)
    <3>1. Others({"remaining_sz"}, z, n)
      BY <1>14, SameOthers, Zenon DEF SameTerm
    <3>. QED
      BY <3>1, <1>4, <2>4, <2>6, <2>8, Zenon DEF Others
  <2>10. r.remaining_sz = z.remaining_sz /\ ChunksLeft(z.remaining_sz) = ChunksLeft(s.remaining_sz)
    BY <1>6, <1>14, <2>4, Zenon DEF Others, TermFields, SameTerm
  <2>. QED
    BY <1>1, <1>14, <2>2, <2>4, <2>9, <2>10, TermBack
<1>15. \A g \in o.sent : EventOK(g) /\ (g.type \in LoopTypes => g.type # "R_SEND" /\ g.to = t)
  BY <1>2, <1>5
<1>16. /\ SendEvents(o.sent) \cap SendEvents(F) \subseteq {e}
       /\ IdleTokens(o.sent) \cap IdleTokens(F) \subseteq {e}
  BY <1>2, <1>10, <1>12
<1> HIDE DEF o
<1>. QED
  BY <1>2, <1>9, <1>13, <1>14, <1>15, <1>16, TermHandler DEF o

-----------------------------------------------------------------------------
(* The queue of a base LP.                                                 *)

LEMMA QueueFacts ==
  ASSUME NEW t, NEW q \in QueueOf(t)
  PROVE  /\ q \in SchedP!Queue /\ SchedP!QueueOK(q)
         /\ q.reqs \in Seq(SchedP!QItem)
         /\ \A i \in 1 .. Len(q.reqs) : Msg[q.reqs[i].req].src = t
  BY DEF QueueOf, SchedP!Queue

LEMMA EmptyQueue ==
  ASSUME NEW t
  PROVE  Sched!fcfs_init \in QueueOf(t)
<1>1. SchedP!fcfs_init = [reqs |-> << >>, queue_len |-> 0]
  BY DEF SchedP!fcfs_init
<1>2. << >> \in Seq(SchedP!QItem) /\ Len(<< >>) = 0
  OBVIOUS
<1> DEFINE q == SchedP!fcfs_init
<1>3. q.reqs = << >> /\ q.queue_len = 0 /\ q \in SchedP!Queue
  BY <1>1, <1>2 DEF SchedP!Queue
<1> HIDE DEF q
<1>4. \A i \in 1 .. Len(q.reqs) : FALSE
  BY <1>2, <1>3
<1>5. SchedP!QueueOK(q)
  BY <1>2, <1>3, <1>4 DEF SchedP!QueueOK
<1>6. Sched!fcfs_init = q
  BY SameSched, Zenon DEF q
<1>. QED
  BY <1>3, <1>4, <1>5, <1>6 DEF QueueOf

LEMMA QueueAdd ==
  ASSUME NEW t, NEW q \in QueueOf(t), NEW m \in Msgs, Msg[m].src = t
  PROVE  /\ Sched!fcfs_add(m, q) \in QueueOf(t)
         /\ Sched!fcfs_add(m, q).reqs # << >>
         /\ Sched!fcfs_add_rc(Sched!fcfs_add(m, q)) = q
<1> DEFINE a == SchedP!fcfs_add(m, q)
<1>1. Sched!fcfs_add(m, q) = a /\ Sched!fcfs_add_rc(a) = SchedP!fcfs_add_rc(a)
  BY SameSched, Zenon
<1>2. /\ a \in SchedP!Queue /\ SchedP!QueueOK(a) /\ a.reqs # << >>
      /\ SchedP!fcfs_add_rc(a) = q
  BY QueueFacts, SchedP!FcfsAdd, SchedAssumptions
<1>3. \A i \in 1 .. Len(a.reqs) : Msg[a.reqs[i].req].src = t
  <2> DEFINE R == [mm \in Msgs |-> [msg_size |-> Msg[mm].size, prio |-> -1, offset |-> 0,
                            is_from_remote |-> FALSE, loopback |-> FALSE]]
             it == [req |-> m, rem |-> R[m].msg_size]
  <2>1. a.reqs = Append(q.reqs, it) /\ it.req = m
    BY DEF SchedP!fcfs_add
  <2> HIDE DEF it, a
  <2>2. q.reqs \in Seq(SchedP!QItem) /\ Len(q.reqs) \in Nat
    BY QueueFacts, LenProperties
  <2>3. /\ Len(Append(q.reqs, it)) = Len(q.reqs) + 1
        /\ \A i \in 1 .. Len(q.reqs) : Append(q.reqs, it)[i] = q.reqs[i]
        /\ Append(q.reqs, it)[Len(q.reqs) + 1] = it
    BY <2>2
  <2>. QED
    BY <2>1, <2>2, <2>3, QueueFacts
<1> HIDE DEF a
<1>. QED
  BY <1>1, <1>2, <1>3 DEF QueueOf

\* what sched_issue saves
IssueRc(q) ==
  [rtn |-> IF Sched!NextPacket(q).last THEN 1 ELSE 0, prio |-> 0,
   req |-> Sched!NextPacket(q).req]

LEMMA QueueNext ==
  ASSUME NEW t, NEW q \in QueueOf(t), q.reqs # << >>
  PROVE  /\ Sched!fcfs_next(q) \in QueueOf(t)
         /\ Sched!NextPacket(q).req \in Msgs /\ Msg[Sched!NextPacket(q).req].src = t
         /\ Sched!NextPacket(q).offset \in Int /\ Sched!NextPacket(q).size \in Nat
         /\ Sched!NextPacket(q).last \in BOOLEAN
         /\ Sched!fcfs_next_rc(Sched!fcfs_next(q), IssueRc(q)) = q
<1> DEFINE p == SchedP!NextPacket(q)
           n == SchedP!fcfs_next(q)
           h == Head(q.reqs)
           rc == IssueRc(q)
<1>1. /\ Sched!NextPacket(q) = p /\ Sched!fcfs_next(q) = n
      /\ Sched!fcfs_next_rc(n, rc) = SchedP!fcfs_next_rc(n, rc)
  BY SameSched, Zenon
<1>2. /\ q \in SchedP!Queue /\ SchedP!QueueOK(q) /\ q.reqs \in Seq(SchedP!QItem)
      /\ \A i \in 1 .. Len(q.reqs) : Msg[q.reqs[i].req].src = t
  BY QueueFacts
<1>3. p \in SchedP!Packet
  BY <1>2, SchedP!NextPacketType, SchedAssumptions
<1>4. p.req = h.req /\ p.last = SchedP!is_last_packet(h)
  BY DEF SchedP!NextPacket
<1>5. h = q.reqs[1] /\ h \in SchedP!QItem /\ Len(q.reqs) \in Nat \ {0}
  BY <1>2, SchedP!HeadFacts, SchedAssumptions
<1>6. Msg[h.req].src = t /\ h.req \in Msgs
  BY <1>2, <1>5 DEF SchedP!QItem
<1> HIDE DEF p
<1>7. rc \in SchedP!Rc /\ rc.req = h.req /\ rc.rtn = (IF p.last THEN 1 ELSE 0)
  BY <1>1, <1>4, <1>6 DEF IssueRc, SchedP!Rc
<1>8. p.last \in BOOLEAN /\ p.offset \in Int /\ p.size \in Nat
  BY <1>3 DEF SchedP!Packet
<1>9. CASE p.last
  <2>1. SchedP!is_last_packet(h)
    BY <1>4, <1>9
  <2>2. /\ n \in SchedP!Queue /\ SchedP!QueueOK(n) /\ SchedP!fcfs_next_rc(n, rc) = q
    BY <1>2, <1>7, <1>9, <2>1, SchedP!FcfsNextLast, SchedAssumptions
  <2>3. n.reqs = Tail(q.reqs)
    BY <2>1 DEF SchedP!fcfs_next
  <2>4. /\ Len(Tail(q.reqs)) = Len(q.reqs) - 1
        /\ \A i \in 1 .. Len(Tail(q.reqs)) : Tail(q.reqs)[i] = q.reqs[i + 1]
    BY <1>2, HeadTailProperties
  <2> HIDE DEF n
  <2>5. \A i \in 1 .. Len(n.reqs) : Msg[n.reqs[i].req].src = t
    BY <1>2, <1>5, <2>3, <2>4
  <2>. QED
    BY <1>1, <1>4, <1>6, <1>8, <2>2, <2>5 DEF QueueOf
<1>10. CASE ~p.last
  <2>1. ~SchedP!is_last_packet(h)
    BY <1>4, <1>10
  <2>2. /\ n \in SchedP!Queue /\ SchedP!QueueOK(n) /\ SchedP!fcfs_next_rc(n, rc) = q
        /\ Len(n.reqs) = Len(q.reqs)
    BY <1>2, <1>7, <1>10, <2>1, SchedP!FcfsNextMore, SchedAssumptions
  <2>3. n = [q EXCEPT !.reqs[1].rem = @ - PacketSize]
    BY <2>1 DEF SchedP!fcfs_next
  <2>4. q = [reqs |-> q.reqs, queue_len |-> q.queue_len]
    BY <1>2 DEF SchedP!Queue
  <2>5. n.reqs = [q.reqs EXCEPT ![1] = [q.reqs[1] EXCEPT !.rem = @ - PacketSize]]
    BY <2>3, <2>4, Zenon
  <2> HIDE DEF n
  <2>6. [q.reqs[1] EXCEPT !.rem = @ - PacketSize].req = q.reqs[1].req
    BY <1>5 DEF SchedP!QItem
  <2>7. \A i \in 1 .. Len(q.reqs) : n.reqs[i].req = q.reqs[i].req
    BY <1>2, <2>5, <2>6
  <2>8. \A i \in 1 .. Len(n.reqs) : Msg[n.reqs[i].req].src = t
    BY <1>2, <2>2, <2>7
  <2>. QED
    BY <1>1, <1>4, <1>6, <1>8, <2>2, <2>8 DEF QueueOf
<1>. QED
  BY <1>8, <1>9, <1>10

EmptyRc == [rtn |-> -1, prio |-> 0, req |-> -1]

LEMMA QueueNothing ==
  ASSUME NEW q
  PROVE  Sched!fcfs_next_rc(q, EmptyRc) = q
  BY DEF EmptyRc, Sched!fcfs_next_rc

\* the packet sched_issue makes
IssuePacket(q) ==
  [msg |-> Sched!NextPacket(q).req, offset |-> Sched!NextPacket(q).offset,
   size |-> Sched!NextPacket(q).size, last |-> Sched!NextPacket(q).last]

LEMMA IssueFacts ==
  ASSUME NEW s, NEW now
  PROVE  /\ sched_issue(s, now).ns = [s EXCEPT !.sched = Sched!fcfs_next(s.sched)]
         /\ sched_issue(s, now).rc = IssueRc(s.sched)
         /\ sched_issue(s, now).sent
              = {GenerateEvent(Msg[Sched!NextPacket(s.sched).req].src, now, IssuePacket(s.sched))}
  BY Zenon DEF sched_issue, IssueRc, IssuePacket

LEMMA EmptyFacts ==
  ASSUME NEW s
  PROVE  sched_empty(s).ns = s /\ sched_empty(s).rc = EmptyRc /\ sched_empty(s).sent = {}
  BY Zenon DEF sched_empty, EmptyRc

LEMMA GenerateOK ==
  ASSUME NEW t \in Terminals, NEW q \in QueueOf(t), q.reqs # << >>, NEW now \in Nat
  PROVE  LET f == GenerateEvent(Msg[Sched!NextPacket(q).req].src, now, IssuePacket(q))
         IN  EventOK(f) /\ f.type = "T_GENERATE" /\ f.to = t
<1> DEFINE k == IssuePacket(q)
           f == GenerateEvent(t, now, k)
<1>1. k \in Packet /\ Msg[Sched!NextPacket(q).req].src = t
  BY QueueNext DEF IssuePacket, Packet
<1> HIDE DEF k
<1>2. f.ts = now /\ f.type = "T_GENERATE" /\ f.to = t /\ f.pkt = k
  BY DEF GenerateEvent
<1> HIDE DEF f
<1>3. EventOK(f)
  BY <1>1, <1>2 DEF EventOK, TermEvents, RouterEvents
<1>. QED
  BY <1>1, <1>2, <1>3, Zenon DEF f, k

\* an idle token being processed is the only one
LEMMA TheIdleToken ==
  ASSUME NEW s, NEW F, NEW e \in F, TermLoops(s, F), e.type \in {"SCHED_NEXT", "T_GENERATE"},
         s.in_sched_loop \in BOOLEAN, s.issueIdle \in BOOLEAN
  PROVE  /\ IdleTokens(F) = {e} /\ e \notin SendEvents(F)
         /\ s.in_sched_loop = TRUE /\ s.issueIdle = FALSE
<1>1. e \in IdleTokens(F) /\ e \notin SendEvents(F)
  BY DEF IdleTokens, SendEvents
<1>2. NoneOrOne(IdleTokens(F), s.in_sched_loop /\ ~s.issueIdle)
  BY DEF TermLoops
<1>3. s.in_sched_loop /\ ~s.issueIdle
  BY <1>1, <1>2 DEF NoneOrOne
<1>4. PICK g \in IdleTokens(F) : IdleTokens(F) = {g}
  BY <1>2, <1>3 DEF NoneOrOne
<1>. QED
  BY <1>1, <1>3, <1>4

LEMMA SchedNextHandler ==
  ASSUME NEW t, NEW s, NEW F, NEW e, TermReady(t, s, F, e), e.type = "SCHED_NEXT"
  PROVE  HandlerOK(t, s, F, e, handle_sched_next(s, e))
<1> DEFINE o == handle_sched_next(s, e)
           empty == s.sched.reqs = << >>
           f == GenerateEvent(Msg[Sched!NextPacket(s.sched).req].src, e.ts, IssuePacket(s.sched))
           n == IF empty THEN [s EXCEPT !.in_sched_loop = FALSE]
                ELSE [s EXCEPT !.sched = Sched!fcfs_next(s.sched)]
<1>1. /\ t \in Terminals /\ TermOK(t, s) /\ TermShape(s) /\ TermLoops(s, F)
      /\ e.to = t /\ e.ts \in Nat /\ e \in F
      /\ s.in_sched_loop \in BOOLEAN /\ s.issueIdle \in BOOLEAN /\ s.sched \in QueueOf(t)
  BY DEF TermReady, EventOK, TermOK, LoopTypes
<1>2. /\ o.ns = n
      /\ o.rc = IF empty THEN EmptyRc ELSE IssueRc(s.sched)
      /\ o.sent = IF empty THEN {} ELSE {f}
  BY IssueFacts, EmptyFacts, Zenon DEF handle_sched_next, Outcome
<1>3. DOMAIN s = TermFields
  BY <1>1, TermDomain
<1>4. /\ IdleTokens(F) = {e} /\ e \notin SendEvents(F)
      /\ s.in_sched_loop = TRUE /\ s.issueIdle = FALSE
  BY <1>1, TheIdleToken
<1>5. /\ TermShape(n) /\ Others({"sched", "in_sched_loop"}, n, s)
      /\ n.in_sched_loop = ~empty
      /\ n.sched = IF empty THEN s.sched ELSE Sched!fcfs_next(s.sched)
  <2>1. CASE empty
    <3>1. n = [s EXCEPT !.in_sched_loop = FALSE]
      BY <2>1, Zenon
    <3> HIDE DEF n, empty
    <3>. QED
      BY <1>3, <2>1, <3>1, Zenon DEF TermFields, TermShape, Others
  <2>2. CASE ~empty
    <3>1. n = [s EXCEPT !.sched = Sched!fcfs_next(s.sched)]
      BY <2>2, Zenon
    <3> HIDE DEF n, empty
    <3>2. n.in_sched_loop = s.in_sched_loop
      BY <1>3, <3>1, Zenon DEF TermFields
    <3>3. /\ TermShape(n) /\ Others({"sched", "in_sched_loop"}, n, s)
          /\ n.sched = Sched!fcfs_next(s.sched)
      BY <1>3, <3>1, Zenon DEF TermFields, TermShape, Others
    <3>4. n.in_sched_loop = ~empty
      BY <1>4, <3>2, <2>2
    <3>. QED
      BY <2>2, <3>3, <3>4, Zenon
  <2>. QED
    BY <2>1, <2>2
<1>6. ~empty => EventOK(f) /\ f.type = "T_GENERATE" /\ f.to = t
  BY <1>1, GenerateOK
<1> HIDE DEF n, f
<1>7. n.sched \in QueueOf(t) /\ n.in_sched_loop \in BOOLEAN
  BY <1>1, <1>5, QueueNext
<1>8. /\ n.packet_counter = s.packet_counter /\ n.terminal_msgs = s.terminal_msgs
      /\ n.terminal_length = s.terminal_length /\ n.issueIdle = s.issueIdle
      /\ n.in_send_loop = s.in_send_loop /\ n.vc_occupancy = s.vc_occupancy
      /\ n.last_buf_full = s.last_buf_full /\ n.busy_time = s.busy_time
      /\ n.available_time = s.available_time /\ n.last_in_queue_time = s.last_in_queue_time
      /\ n.rank_tbl = s.rank_tbl
      /\ n.remaining_sz = s.remaining_sz /\ n.zombies = s.zombies
  BY <1>5, Zenon DEF Others, TermFields
<1>9. TermOK(t, n)
  BY <1>1, <1>5, <1>7, <1>8, Zenon DEF TermOK
<1>10. SendEvents(o.sent) = {} /\ IdleTokens(o.sent) = o.sent
  BY <1>2, <1>6 DEF SendEvents, IdleTokens
<1>13. ASSUME NEW G, SendEvents(G) = (SendEvents(F) \ {e}) \cup SendEvents(o.sent),
              IdleTokens(G) = (IdleTokens(F) \ {e}) \cup IdleTokens(o.sent)
       PROVE  TermLoops(n, G)
  <2>1. SendEvents(G) = SendEvents(F)
    BY <1>4, <1>10, <1>13
  <2>2. IdleTokens(G) = IF empty THEN {} ELSE {f}
    BY <1>2, <1>4, <1>10, <1>13
  <2>3. NoneOrOne(IdleTokens(G), n.in_sched_loop /\ ~n.issueIdle)
    BY <1>4, <1>5, <1>8, <2>2 DEF NoneOrOne
  <2>4. n.in_sched_loop \/ n.sched.reqs = << >>
    BY <1>5
  <2>5. NoneOrOne(SendEvents(G), n.in_send_loop) /\ (n.in_send_loop \/ get_next_vcg_fails(n))
    BY <1>1, <1>8, <2>1, Zenon DEF TermLoops, get_next_vcg_fails
  <2>6. n.issueIdle => n.in_sched_loop
    BY <1>4, <1>8
  <2>. QED
    BY <2>3, <2>4, <2>5, <2>6, Zenon DEF TermLoops
<1>14. ASSUME NEW en, NEW z, en.ev = e, en.rc = o.rc, TermOK(t, z), SameTerm(z, n)
       PROVE  TermOK(t, reverse(z, en)) /\ SameTerm(reverse(z, en), s)
  <2> DEFINE r == [z EXCEPT !.sched = Sched!fcfs_next_rc(z.sched, en.rc), !.in_sched_loop = TRUE]
  <2>1. reverse(z, en) = handle_sched_next_rc(z, en)
    BY <1>14, Zenon DEF reverse
  <2>2. reverse(z, en) = r
    BY <2>1, Zenon DEF handle_sched_next_rc
  <2>3. TermShape(z) /\ DOMAIN z = TermFields
    BY <1>14, TermDomain, Zenon DEF TermOK
  <2>4. /\ TermShape(r) /\ r.sched = Sched!fcfs_next_rc(z.sched, en.rc)
        /\ r.in_sched_loop = TRUE
        /\ Others({"sched", "in_sched_loop"}, r, z)
    BY <2>3, Zenon DEF TermFields, TermShape, Others
  <2> HIDE DEF r
  <2>5. z.sched = n.sched /\ Others({"remaining_sz"}, z, n)
    BY <1>14, SameOthers, Zenon DEF SameTerm, SameButLeft
  <2>6. r.sched = s.sched
    <3>1. CASE empty
      BY <1>2, <1>5, <1>14, <2>4, <2>5, <3>1, QueueNothing, Zenon
    <3>2. CASE ~empty
      <4>1. Sched!fcfs_next_rc(Sched!fcfs_next(s.sched), IssueRc(s.sched)) = s.sched
        BY <1>1, <3>2, QueueNext
      <4>. QED
        BY <1>2, <1>5, <1>14, <2>4, <2>5, <3>2, <4>1, Zenon
    <3>. QED
      BY <3>1, <3>2
  <2>9. Others({"remaining_sz"}, r, s)
    BY <1>4, <1>5, <2>4, <2>5, <2>6, Zenon DEF Others
  <2>10. r.remaining_sz = z.remaining_sz /\ ChunksLeft(z.remaining_sz) = ChunksLeft(s.remaining_sz)
    BY <1>8, <1>14, <2>4, Zenon DEF Others, TermFields, SameTerm
  <2>. QED
    BY <1>1, <1>14, <2>2, <2>4, <2>9, <2>10, TermBack
<1>15. \A g \in o.sent : EventOK(g) /\ (g.type \in LoopTypes => g.type # "R_SEND" /\ g.to = t)
  BY <1>2, <1>6
<1>16. /\ SendEvents(o.sent) \cap SendEvents(F) \subseteq {e}
       /\ IdleTokens(o.sent) \cap IdleTokens(F) \subseteq {e}
  BY <1>4, <1>10
<1> HIDE DEF o
<1>. QED
  BY <1>2, <1>9, <1>13, <1>14, <1>15, <1>16, TermHandler DEF o

LEMMA NewMsgHandler ==
  ASSUME NEW t, NEW s, NEW F, NEW e, TermReady(t, s, F, e), e.type = "NEW_MSG"
  PROVE  HandlerOK(t, s, F, e, handle_new_msg(s, e))
<1> DEFINE o == handle_new_msg(s, e)
           loop == s.in_sched_loop
           q == Sched!fcfs_add(e.msg, s.sched)
           f == GenerateEvent(Msg[Sched!NextPacket(q).req].src, e.ts, IssuePacket(q))
           a == [s EXCEPT !.sched = q]
           b == [a EXCEPT !.in_sched_loop = TRUE]
           n == IF loop THEN a ELSE [b EXCEPT !.sched = Sched!fcfs_next(b.sched)]
<1>1. /\ t \in Terminals /\ TermOK(t, s) /\ TermShape(s) /\ TermLoops(s, F)
      /\ e.to = t /\ e.ts \in Nat /\ e.msg \in Msgs /\ Msg[e.msg].src = t
      /\ s.in_sched_loop \in BOOLEAN /\ s.issueIdle \in BOOLEAN /\ s.sched \in QueueOf(t)
  BY DEF TermReady, EventOK, TermOK
<1>2. e \notin SendEvents(F) /\ e \notin IdleTokens(F)
  BY DEF SendEvents, IdleTokens
<1>3. DOMAIN s = TermFields
  BY <1>1, TermDomain
<1>4. /\ TermShape(a) /\ a.sched = q /\ Others({"sched"}, a, s) /\ DOMAIN a = TermFields
  <2> HIDE DEF q
  <2>. QED
    BY <1>3, Zenon DEF TermFields, TermShape, Others
<1> HIDE DEF a
<1>5. /\ TermShape(b) /\ b.sched = q /\ b.in_sched_loop = TRUE
      /\ Others({"sched", "in_sched_loop"}, b, s) /\ DOMAIN b = TermFields
  <2> HIDE DEF q
  <2>. QED
    BY <1>4, Zenon DEF TermFields, TermShape, Others
<1> HIDE DEF b
<1>6. /\ o.ns = n
      /\ o.rc = [started |-> ~loop, next |-> IF loop THEN EmptyRc ELSE IssueRc(q)]
      /\ o.sent = IF loop THEN {} ELSE {f}
  <2>1. CASE loop
    <3>1. o = Outcome(sched_empty(a).ns, [started |-> ~loop, next |-> sched_empty(a).rc],
                      sched_empty(a).sent, << >>)
      BY <2>1, Zenon DEF handle_new_msg, a
    <3>. QED
      BY <2>1, <3>1, EmptyFacts, SMT DEF Outcome
  <2>2. CASE ~loop
    <3>1. o = Outcome(sched_issue(b, e.ts).ns, [started |-> ~loop, next |-> sched_issue(b, e.ts).rc],
                      sched_issue(b, e.ts).sent, << >>)
      BY <2>2, Zenon DEF handle_new_msg, a, b
    <3>. QED
      BY <1>5, <2>2, <3>1, IssueFacts, SMT DEF Outcome
  <2>. QED
    BY <2>1, <2>2
<1>7. /\ q \in QueueOf(t) /\ q.reqs # << >> /\ Sched!fcfs_add_rc(q) = s.sched
  BY <1>1, QueueAdd
<1> HIDE DEF q
<1>8. /\ Sched!fcfs_next(q) \in QueueOf(t)
      /\ Sched!fcfs_next_rc(Sched!fcfs_next(q), IssueRc(q)) = q
  BY <1>7, QueueNext
<1>9. EventOK(f) /\ f.type = "T_GENERATE" /\ f.to = t
  BY <1>1, <1>7, GenerateOK
<1> HIDE DEF f
<1>10. /\ TermShape(n) /\ Others({"sched", "in_sched_loop"}, n, s)
       /\ n.in_sched_loop = TRUE
       /\ n.sched = IF loop THEN q ELSE Sched!fcfs_next(q)
  <2>1. CASE loop
    <3>1. n = a
      BY <2>1
    <3>2. n.in_sched_loop = s.in_sched_loop
      BY <3>1, <1>4, Zenon DEF Others, TermFields
    <3>3. n.in_sched_loop = TRUE
      BY <3>2, <2>1, <1>1
    <3>. QED
      BY <2>1, <3>1, <3>3, <1>4, Zenon DEF Others
  <2>2. CASE ~loop
    <3>1. n = [b EXCEPT !.sched = Sched!fcfs_next(q)]
      BY <2>2, <1>5, Zenon
    <3> HIDE DEF n, loop
    <3>2. /\ TermShape(n) /\ Others({"sched"}, n, b) /\ n.sched = Sched!fcfs_next(q)
          /\ n.in_sched_loop = TRUE
      BY <1>5, <3>1, Zenon DEF TermFields, TermShape, Others
    <3>. QED
      BY <1>5, <3>2, <2>2, Zenon DEF Others
  <2>. QED
    BY <2>1, <2>2
<1> HIDE DEF n
<1>11. /\ n.packet_counter = s.packet_counter /\ n.terminal_msgs = s.terminal_msgs
       /\ n.terminal_length = s.terminal_length /\ n.issueIdle = s.issueIdle
       /\ n.in_send_loop = s.in_send_loop /\ n.vc_occupancy = s.vc_occupancy
       /\ n.last_buf_full = s.last_buf_full /\ n.busy_time = s.busy_time
       /\ n.available_time = s.available_time /\ n.last_in_queue_time = s.last_in_queue_time
      /\ n.rank_tbl = s.rank_tbl
       /\ n.remaining_sz = s.remaining_sz /\ n.zombies = s.zombies
  BY <1>10, Zenon DEF Others, TermFields
<1>12. TermOK(t, n)
  <2>1. n.sched \in QueueOf(t) /\ n.in_sched_loop \in BOOLEAN
    BY <1>7, <1>8, <1>10
  <2>. QED
    BY <1>1, <1>10, <2>1, <1>11, Zenon DEF TermOK
<1>13. SendEvents(o.sent) = {} /\ IdleTokens(o.sent) = o.sent
  BY <1>6, <1>9 DEF SendEvents, IdleTokens
<1>14. ~loop => IdleTokens(F) = {} /\ s.issueIdle = FALSE
  BY <1>1 DEF TermLoops, NoneOrOne
<1>15. ASSUME NEW G, SendEvents(G) = (SendEvents(F) \ {e}) \cup SendEvents(o.sent),
              IdleTokens(G) = (IdleTokens(F) \ {e}) \cup IdleTokens(o.sent)
       PROVE  TermLoops(n, G)
  <2>1. SendEvents(G) = SendEvents(F)
    BY <1>2, <1>13, <1>15
  <2>2. IdleTokens(G) = IF loop THEN IdleTokens(F) ELSE {f}
    BY <1>2, <1>6, <1>13, <1>14, <1>15
  <2>3. NoneOrOne(IdleTokens(G), n.in_sched_loop /\ ~n.issueIdle)
    <3>1. CASE loop
      BY <1>1, <1>10, <1>11, <2>2, <3>1, Zenon DEF TermLoops, NoneOrOne
    <3>2. CASE ~loop
      BY <1>10, <1>11, <1>14, <2>2, <3>2, Zenon DEF NoneOrOne
    <3>. QED
      BY <3>1, <3>2
  <2>5. NoneOrOne(SendEvents(G), n.in_send_loop) /\ (n.in_send_loop \/ get_next_vcg_fails(n))
    BY <1>1, <1>11, <2>1, Zenon DEF TermLoops, get_next_vcg_fails
  <2>. QED
    BY <1>10, <2>3, <2>5, Zenon DEF TermLoops
<1>16. ASSUME NEW en, NEW z, en.ev = e, en.rc = o.rc, TermOK(t, z), SameTerm(z, n)
       PROVE  TermOK(t, reverse(z, en)) /\ SameTerm(reverse(z, en), s)
  <2> DEFINE y == IF loop THEN z
                  ELSE [z EXCEPT !.sched = Sched!fcfs_next_rc(z.sched, en.rc.next),
                                 !.in_sched_loop = FALSE]
             r == [y EXCEPT !.sched = Sched!fcfs_add_rc(y.sched)]
  <2>1. reverse(z, en) = handle_new_msg_rc(z, en)
    BY <1>16, Zenon DEF reverse
  <2>2. en.rc.started = ~loop /\ en.rc.next = (IF loop THEN EmptyRc ELSE IssueRc(q))
    BY <1>6, <1>16
  <2>3. reverse(z, en) = r
    BY <2>1, <2>2, Zenon DEF handle_new_msg_rc
  <2>4. TermShape(z) /\ DOMAIN z = TermFields
    BY <1>16, TermDomain, Zenon DEF TermOK
  <2>5. z.sched = n.sched /\ Others({"remaining_sz"}, z, n)
    BY <1>16, SameOthers, Zenon DEF SameTerm, SameButLeft
  <2>6. /\ TermShape(y) /\ y.sched = q /\ y.in_sched_loop = s.in_sched_loop
        /\ Others({"sched", "in_sched_loop"}, y, z) /\ DOMAIN y = TermFields
    <3>1. CASE loop
      <4>1. y = z
        BY <3>1
      <4>2. z.in_sched_loop = TRUE
        BY <1>10, <1>16, Zenon DEF SameTerm, SameButLeft
      <4>. QED
        BY <1>1, <1>10, <2>4, <2>5, <3>1, <4>1, <4>2, Zenon DEF Others
    <3>2. CASE ~loop
      <4>1. y = [z EXCEPT !.sched = Sched!fcfs_next_rc(z.sched, en.rc.next),
                          !.in_sched_loop = FALSE]
        BY <3>2, Zenon
      <4> HIDE DEF y
      <4>2. /\ TermShape(y) /\ y.sched = Sched!fcfs_next_rc(z.sched, en.rc.next)
            /\ y.in_sched_loop = FALSE /\ Others({"sched", "in_sched_loop"}, y, z)
            /\ DOMAIN y = TermFields
        BY <2>4, <4>1, Zenon DEF TermFields, TermShape, Others
      <4>3. y.sched = q
        BY <1>8, <1>10, <2>2, <2>5, <3>2, <4>2, Zenon
      <4>4. s.in_sched_loop = FALSE
        BY <1>1, <3>2
      <4>. QED
        BY <4>2, <4>3, <4>4, Zenon
    <3>. QED
      BY <3>1, <3>2
  <2> HIDE DEF y
  <2>7. /\ TermShape(r) /\ r.sched = Sched!fcfs_add_rc(y.sched)
        /\ Others({"sched"}, r, y)
    BY <2>6, Zenon DEF TermFields, TermShape, Others
  <2> HIDE DEF r
  <2>8. r.sched = s.sched
    BY <1>7, <2>6, <2>7, Zenon
  <2>9. Others({"remaining_sz"}, r, s)
    BY <1>10, <2>5, <2>6, <2>7, <2>8, ZenonT(30) DEF Others
  <2>10. r.remaining_sz = z.remaining_sz /\ ChunksLeft(z.remaining_sz) = ChunksLeft(s.remaining_sz)
    BY <1>11, <1>16, <2>6, <2>7, Zenon DEF Others, TermFields, SameTerm
  <2>. QED
    BY <1>1, <1>16, <2>3, <2>7, <2>9, <2>10, TermBack
<1>17. \A g \in o.sent : EventOK(g) /\ (g.type \in LoopTypes => g.type # "R_SEND" /\ g.to = t)
  BY <1>6, <1>9
<1>18. /\ SendEvents(o.sent) \cap SendEvents(F) \subseteq {e}
       /\ IdleTokens(o.sent) \cap IdleTokens(F) \subseteq {e}
  BY <1>6, <1>13, <1>14
<1> HIDE DEF o
<1>. QED
  BY <1>6, <1>12, <1>15, <1>16, <1>17, <1>18, TermHandler DEF o

-----------------------------------------------------------------------------
(* Chunks of a packet.                                                     *)

LEMMA QuotientUnique ==
  ASSUME NEW P \in Nat \ {0}, NEW k \in Int, NEW r \in 0 .. (P - 1)
  PROVE  (P * k + r) \div P = k
<1> DEFINE x == P * k + r
           q == x \div P
           s == x % P
<1>0. x \in Int /\ P * k \in Int
  OBVIOUS
<1>1. x = P * q + s /\ q \in Int /\ s \in 0 .. (P - 1)
  BY <1>0
<1> HIDE DEF q, s
<1>2. P * (k - q) = s - r /\ k - q \in Int
  BY <1>1, <1>0
<1> DEFINE d == k - q
<1>5. d \in Int /\ P * d = s - r
  BY <1>2
<1> HIDE DEF d
<1>3. ~(d >= 1)
  <2>1. d >= 1 => P * d >= P
    BY <1>5
  <2>. QED
    BY <1>5, <1>1, <2>1
<1>4. ~(d <= -1)
  <2>1. d <= -1 => P * d <= -P
    BY <1>5
  <2>. QED
    BY <1>5, <1>1, <2>1
<1>6. d = 0
  BY <1>3, <1>4, <1>5
<1>7. q = k
  BY <1>1, <1>6 DEF d
<1>. QED
  BY <1>7 DEF q

LEMMA Quotient ==
  ASSUME NEW P \in Nat \ {0}, NEW x \in Int
  PROVE  /\ x \div P \in Int /\ x % P \in 0 .. (P - 1)
         /\ x = P * (x \div P) + (x % P)
         /\ (x + P) \div P = (x \div P) + 1
         /\ x >= P => x \div P >= 1
<1> DEFINE q == x \div P
           r == x % P
<1>1. x = P * q + r /\ q \in Int /\ r \in 0 .. (P - 1)
  OBVIOUS
<1> HIDE DEF q, r
<1>2. x + P = P * (q + 1) + r
  BY <1>1
<1>3. (P * (q + 1) + r) \div P = q + 1
  <2>1. q + 1 \in Int
    BY <1>1
  <2>. QED
    BY <1>1, <2>1, QuotientUnique
<1>4. x >= P => q >= 1
  <2>1. q <= 0 => P * q <= 0
    BY <1>1
  <2>. QED
    BY <1>1, <2>1
<1>5. (x + P) \div P = q + 1
  BY <1>2, <1>3
<1>. QED
  BY <1>1, <1>4, <1>5 DEF q, r

LEMMA NumChunks ==
  /\ \A n \in Nat : num_chunks_for(n) \in Nat \ {0}
  /\ \A n \in Nat \ {0} : num_chunks_for(n + ChunkSize) = num_chunks_for(n) + 1
  /\ \A n \in Nat \ {0} : n <= ChunkSize => num_chunks_for(n) = 1
  /\ num_chunks_for(0) = 1
<1>1. ChunkSize \in Nat \ {0}
  BY SizeFacts
<1>2. ASSUME NEW n \in Nat PROVE num_chunks_for(n) \in Nat \ {0}
  <2>1. CASE n = 0
    BY <2>1 DEF num_chunks_for
  <2>2. CASE n # 0
    <3> DEFINE x == n + ChunkSize - 1
    <3>1. x \in Int /\ x >= ChunkSize
      BY <1>1, <2>2
    <3> HIDE DEF x
    <3>2. x \div ChunkSize \in Int /\ x \div ChunkSize >= 1
      BY <1>1, <3>1, Quotient
    <3>3. num_chunks_for(n) = x \div ChunkSize
      BY <2>2 DEF num_chunks_for, x
    <3>. QED
      BY <3>2, <3>3
  <2>. QED
    BY <2>1, <2>2
<1>3. ASSUME NEW n \in Nat \ {0}
      PROVE  num_chunks_for(n + ChunkSize) = num_chunks_for(n) + 1
  <2> DEFINE x == n + ChunkSize - 1
             y == n + ChunkSize
  <2>1. x \in Int /\ y \in Int /\ y # 0 /\ y + ChunkSize - 1 = x + ChunkSize
    BY <1>1
  <2>2. num_chunks_for(n) = x \div ChunkSize
    BY DEF num_chunks_for
  <2>3. num_chunks_for(y) = (y + ChunkSize - 1) \div ChunkSize
    BY <2>1 DEF num_chunks_for
  <2> HIDE DEF x, y
  <2>4. (x + ChunkSize) \div ChunkSize = (x \div ChunkSize) + 1
    BY <1>1, <2>1, Quotient
  <2>5. num_chunks_for(y) = (x \div ChunkSize) + 1
    BY <2>1, <2>3, <2>4
  <2>. QED
    BY <2>2, <2>5 DEF y
<1>4. ASSUME NEW n \in Nat \ {0}, n <= ChunkSize
      PROVE  num_chunks_for(n) = 1
  <2>1. n + ChunkSize - 1 = ChunkSize * 1 + (n - 1) /\ n - 1 \in 0 .. (ChunkSize - 1)
    BY <1>1, <1>4
  <2>2. (ChunkSize * 1 + (n - 1)) \div ChunkSize = 1
    BY <1>1, <2>1, QuotientUnique
  <2>. QED
    BY <2>1, <2>2 DEF num_chunks_for
<1>. QED
  BY <1>2, <1>3, <1>4 DEF num_chunks_for

LEMMA Product ==
  ASSUME NEW a \in Nat, NEW b \in Nat
  PROVE  a * b \in Nat
  OBVIOUS

\* a packet starts at the router of its terminal
LEMMA NewRouteFacts ==
  ASSUME NEW t \in Terminals, NEW d \in Terminals
  PROVE  /\ NewRoute(t, d) \in Walk!Route /\ NewRoute(t, d).last_hop = "TERMINAL"
         /\ OnWay(RouterOf[t], NewRoute(t, d), InjectionPort(t), 0)
<1> DEFINE m == NewRoute(t, d)
           h == HopAt(InjectionPort(t), 0)
<1>0. h = Walk!NoHop
  BY DEF HopAt, InjectionPort, Conn, Walk!NoHop
<1>1. RouterOf[t] \in Routers
  BY RouteAssumption
<1>2. m \in Walk!Route
  BY <1>1 DEF NewRoute, Walk!Route
<1> HIDE DEF h
<1>3. h \in Walk!HopType
  BY <1>0, NetAssumption DEF Walk!NoHop, Walk!HopType
<1>4. Walk!AtOrigin(RouterOf[t], m, h)
  BY <1>0 DEF Walk!AtOrigin, NewRoute
<1>5. Walk!Stage(Algorithm, RouterOf[t], m, h)
  BY <1>4, Zenon DEF Walk!Stage
<1>. QED
  BY <1>2, <1>3, <1>5 DEF OnWay, NewRoute, h

LEMMA ChunkFacts ==
  ASSUME NEW t \in Terminals, NEW pid \in Nat, NEW i \in Nat, NEW pkt \in Packet
  PROVE  Chunk(t, pid, i, pkt) \in OwnChunk(t)
<1> DEFINE m == NewRoute(t, Msg[pkt.msg].dest)
           c == Chunk(t, pid, i, pkt)
           port == InjectionPort(t)
<1>1. Msg[pkt.msg].dest \in Terminals /\ pkt.msg \in Msgs /\ pkt.size \in Nat /\ pkt.last \in BOOLEAN
  BY NetAssumption DEF Packet
<1>2. m \in Walk!Route /\ m.last_hop = "TERMINAL" /\ OnWay(RouterOf[t], m, port, 0)
  BY <1>1, NewRouteFacts
<1>3. port \in PortType
  BY RouteAssumption DEF PortType, Conn, Lps, InjectionPort
<1>4. c = [src |-> t, pid |-> pid, id |-> i, msg |-> pkt.msg, size |-> pkt.size, last |-> pkt.last,
           rt |-> m, from |-> t, port |-> port, chan |-> 0, saved_port |-> port, saved_chan |-> 0]
  BY DEF Chunk, InjectionPort
<1> HIDE DEF m, port
<1>5. c \in ChunkType
  BY <1>1, <1>2, <1>3, <1>4 DEF ChunkType, Lps
<1>6. c.src = t /\ c.from = t /\ c.rt = m /\ c.port = port /\ c.chan = 0
  BY <1>4
<1>. QED
  BY <1>2, <1>5, <1>6 DEF OwnChunk, port

\* taking back what was appended
LEMMA TakeBack ==
  ASSUME NEW S, NEW a \in Seq(S), NEW n \in Nat, NEW b \in [1 .. n -> S]
  PROVE  /\ b \in Seq(S) /\ a \o b \in Seq(S)
         /\ SubSeq(a \o b, 1, Len(a \o b) - n) = a
<1>1. b \in Seq(S) /\ Len(b) = n
  <2>1. b \in Seq(S)
    OBVIOUS
  <2>2. DOMAIN b = 1 .. n
    OBVIOUS
  <2>. QED
    BY <2>1, <2>2, LenProperties
<1>2. /\ a \o b \in Seq(S) /\ Len(a \o b) = Len(a) + n /\ Len(a) \in Nat
      /\ \A i \in 1 .. Len(a) : (a \o b)[i] = a[i]
  BY <1>1, ConcatProperties, LenProperties
<1>3. Len(a \o b) - n = Len(a)
  BY <1>2
<1> DEFINE c == a \o b
<1> HIDE DEF c
<1>4. /\ SubSeq(c, 1, Len(a)) \in Seq(S) /\ Len(SubSeq(c, 1, Len(a))) = Len(a)
      /\ \A i \in 1 .. Len(a) : SubSeq(c, 1, Len(a))[i] = c[i]
  <2>1. \A i \in 1 .. Len(a) : c[i] \in S
    BY <1>2, ElementOfSeq DEF c
  <2>. QED
    BY <2>1, <1>2, SubSeqProperties
<1>5. SubSeq(c, 1, Len(a)) = a
  BY <1>2, <1>4, SeqEqual DEF c
<1>. QED
  BY <1>1, <1>2, <1>3, <1>5 DEF c

LEMMA GenerateFacts ==
  ASSUME NEW t \in Terminals, NEW pid \in Nat, NEW pkt \in Packet
  PROVE  [i \in 1 .. num_chunks_for(pkt.size) |-> Chunk(t, pid, i - 1, pkt)]
           \in [1 .. num_chunks_for(pkt.size) -> OwnChunk(t)]
<1>1. num_chunks_for(pkt.size) \in Nat
  BY NumChunks DEF Packet
<1>2. \A i \in 1 .. num_chunks_for(pkt.size) : Chunk(t, pid, i - 1, pkt) \in OwnChunk(t)
  BY <1>1, ChunkFacts
<1>. QED
  BY <1>2

LEMMA GenerateHandler ==
  ASSUME NEW t, NEW s, NEW F, NEW e, TermReady(t, s, F, e), e.type = "T_GENERATE"
  PROVE  HandlerOK(t, s, F, e, packet_generate(s, e))
<1> DEFINE o == packet_generate(s, e)
           k == num_chunks_for(e.pkt.size)
           new == [i \in 1 .. k |-> Chunk(e.to, s.packet_counter, i - 1, e.pkt)]
           length == s.terminal_length + k * ChunkSize
           full == length >= VcSize["TERMINAL"]
           f == SchedNextEvent(e.to, e.ts + bytes_to_ns(e.pkt.size, "TERMINAL"), By("idle", new[1]), FALSE)
           g == TSendEvent(e.to, e.ts, By("generate", new[1]))
           idle == s.issueIdle \/ full
           since == IF full /\ s.last_buf_full = 0 THEN e.ts ELSE s.last_buf_full
           n == [s EXCEPT !.packet_counter = @ + 1,
                          !.last_in_queue_time = e.ts,
                          !.terminal_msgs = @ \o new,
                          !.terminal_length = length,
                          !.issueIdle = idle,
                          !.last_buf_full = since,
                          !.in_send_loop = TRUE]
           K == {"packet_counter", "terminal_msgs", "terminal_length", "issueIdle",
                 "last_buf_full", "in_send_loop", "last_in_queue_time"}
<1>1. /\ t \in Terminals /\ TermOK(t, s) /\ TermShape(s) /\ TermLoops(s, F)
      /\ e.to = t /\ e.ts \in Nat /\ e \in F /\ e.pkt \in Packet
  BY DEF TermReady, EventOK, TermOK, LoopTypes
<1>2. /\ s.in_sched_loop \in BOOLEAN /\ s.issueIdle \in BOOLEAN /\ s.in_send_loop \in BOOLEAN
      /\ s.packet_counter \in Nat /\ s.terminal_msgs \in Seq(OwnChunk(t))
      /\ s.terminal_length \in Int /\ s.last_buf_full \in Nat
  BY <1>1 DEF TermOK
<1>3. DOMAIN s = TermFields
  BY <1>1, TermDomain
<1>4. /\ IdleTokens(F) = {e} /\ e \notin SendEvents(F)
      /\ s.in_sched_loop = TRUE /\ s.issueIdle = FALSE
  BY <1>1, <1>2, TheIdleToken
<1>5. /\ o.ns = n
      /\ o.rc = [c5 |-> ~s.in_send_loop, c11 |-> full, c8 |-> full /\ s.last_buf_full = 0,
                 saved_busy_time |-> s.last_buf_full,
                 saved_last_in_queue_time |-> s.last_in_queue_time]
      /\ o.sent = (IF full THEN {} ELSE {f}) \cup (IF s.in_send_loop THEN {} ELSE {g})
  BY DEF packet_generate, Outcome
<1>6. k \in Nat \ {0} /\ e.pkt.size \in Nat
  BY <1>1, NumChunks DEF Packet
<1>7. new \in [1 .. k -> OwnChunk(t)]
  BY <1>1, <1>2, GenerateFacts
<1>8. /\ k * ChunkSize \in Nat /\ e.ts + bytes_to_ns(e.pkt.size, "TERMINAL") \in Nat
      /\ VcSize["TERMINAL"] \in Nat
  <2>1. ChunkSize \in Nat /\ NsPerByte["TERMINAL"] \in Nat /\ VcSize["TERMINAL"] \in Nat
    BY SizeFacts
  <2> HIDE DEF k
  <2>2. k * ChunkSize \in Nat /\ e.pkt.size * NsPerByte["TERMINAL"] \in Nat
    BY <2>1, <1>6, Product
  <2>. QED
    BY <1>1, <2>1, <2>2 DEF bytes_to_ns
<1>9. EventOK(f) /\ f.type = "SCHED_NEXT" /\ f.to = t
  <2> DEFINE ts == e.ts + bytes_to_ns(e.pkt.size, "TERMINAL")
             by == By("idle", new[1])
  <2>1. ts \in Nat /\ f = SchedNextEvent(t, ts, by, FALSE)
    BY <1>1, <1>8
  <2> HIDE DEF ts, by, f
  <2>. QED
    BY <1>1, <2>1 DEF SchedNextEvent, EventOK, TermEvents, RouterEvents
<1>10. EventOK(g) /\ g.type = "T_SEND" /\ g.to = t
  BY <1>1, TSendOK
<1> HIDE DEF k, new, f, g
<1>11. length \in Int /\ full \in BOOLEAN
  BY <1>2, <1>8
<1> HIDE DEF full, length
<1>12. /\ TermShape(n) /\ Others(K, n, s)
       /\ n.packet_counter = s.packet_counter + 1 /\ n.terminal_msgs = s.terminal_msgs \o new
       /\ n.terminal_length = length /\ n.issueIdle = idle /\ n.last_buf_full = since
       /\ n.in_send_loop = TRUE /\ n.last_in_queue_time = e.ts
  <2> HIDE DEF idle, since
  <2>. QED
    BY <1>3, Zenon DEF TermFields, TermShape, Others
<1> HIDE DEF n
<1>13. /\ n.sched = s.sched /\ n.in_sched_loop = s.in_sched_loop /\ n.vc_occupancy = s.vc_occupancy
       /\ n.busy_time = s.busy_time /\ n.available_time = s.available_time
       /\ n.rank_tbl = s.rank_tbl /\ n.remaining_sz = s.remaining_sz /\ n.zombies = s.zombies
  BY <1>12, Zenon DEF Others, TermFields
<1>14. TermOK(t, n)
  <2>1. n.terminal_msgs \in Seq(OwnChunk(t))
    BY <1>2, <1>6, <1>7, <1>12, TakeBack
  <2>2. /\ n.packet_counter \in Nat /\ n.terminal_length \in Int /\ n.issueIdle \in BOOLEAN
        /\ n.last_buf_full \in Nat /\ n.in_send_loop \in BOOLEAN /\ n.last_in_queue_time \in Nat
    <3>1. idle \in BOOLEAN /\ since \in Nat
      BY <1>1, <1>2, <1>11
    <3> HIDE DEF idle, since
    <3>2. n.packet_counter \in Nat /\ n.terminal_length \in Int /\ n.last_buf_full \in Nat
      BY <1>2, <1>11, <1>12, <3>1
    <3>. QED
      BY <1>1, <1>12, <3>1, <3>2, Zenon
  <2>. QED
    BY <1>1, <1>12, <1>13, <2>1, <2>2, Zenon DEF TermOK
<1>15. /\ SendEvents(o.sent) = IF s.in_send_loop THEN {} ELSE {g}
       /\ IdleTokens(o.sent) = IF full THEN {} ELSE {f}
  BY <1>5, <1>9, <1>10 DEF SendEvents, IdleTokens
<1>16. s.in_send_loop = FALSE => SendEvents(F) = {}
  BY <1>1 DEF TermLoops, NoneOrOne
<1>17. ASSUME NEW G, SendEvents(G) = (SendEvents(F) \ {e}) \cup SendEvents(o.sent),
              IdleTokens(G) = (IdleTokens(F) \ {e}) \cup IdleTokens(o.sent)
       PROVE  TermLoops(n, G)
  <2>1. SendEvents(G) = IF s.in_send_loop THEN SendEvents(F) ELSE {g}
    BY <1>2, <1>4, <1>15, <1>16, <1>17
  <2>2. IdleTokens(G) = IF full THEN {} ELSE {f}
    BY <1>4, <1>15, <1>17
  <2>3. NoneOrOne(IdleTokens(G), n.in_sched_loop /\ ~n.issueIdle)
    <3>1. n.issueIdle = full /\ n.in_sched_loop = TRUE
      BY <1>4, <1>11, <1>12, <1>13
    <3>2. CASE full
      BY <2>2, <3>1, <3>2, Zenon DEF NoneOrOne
    <3>3. CASE ~full
      BY <2>2, <3>1, <3>3, Zenon DEF NoneOrOne
    <3>. QED
      BY <3>2, <3>3
  <2>4. NoneOrOne(SendEvents(G), n.in_send_loop)
    <3>1. CASE s.in_send_loop
      BY <1>1, <1>12, <2>1, <3>1, Zenon DEF TermLoops, NoneOrOne
    <3>2. CASE ~s.in_send_loop
      BY <1>12, <2>1, <3>2, Zenon DEF NoneOrOne
    <3>. QED
      BY <3>1, <3>2
  <2>5. n.in_sched_loop
    BY <1>4, <1>13
  <2>. QED
    BY <1>12, <2>3, <2>4, <2>5, Zenon DEF TermLoops
<1>18. ASSUME NEW en, NEW z, en.ev = e, en.rc = o.rc, TermOK(t, z), SameTerm(z, n)
       PROVE  TermOK(t, reverse(z, en)) /\ SameTerm(reverse(z, en), s)
  <2> DEFINE rc == en.rc
             r == [z EXCEPT !.packet_counter = @ - 1,
                            !.last_in_queue_time = rc.saved_last_in_queue_time,
                            !.terminal_msgs = SubSeq(@, 1, Len(@) - k),
                            !.terminal_length = @ - k * ChunkSize,
                            !.in_send_loop = IF rc.c5 THEN FALSE ELSE @,
                            !.issueIdle = IF rc.c11 THEN FALSE ELSE @,
                            !.last_buf_full = IF rc.c11 /\ rc.c8 THEN rc.saved_busy_time ELSE @]
  <2>1. reverse(z, en) = packet_generate_rc(z, en)
    BY <1>18, Zenon DEF reverse
  <2>2. reverse(z, en) = r
    BY <1>18, <2>1 DEF packet_generate_rc, k
  <2>3. TermShape(z) /\ DOMAIN z = TermFields
    BY <1>18, TermDomain, Zenon DEF TermOK
  <2>4. /\ TermShape(r) /\ Others(K, r, z)
        /\ r.packet_counter = z.packet_counter - 1
        /\ r.terminal_msgs = SubSeq(z.terminal_msgs, 1, Len(z.terminal_msgs) - k)
        /\ r.terminal_length = z.terminal_length - k * ChunkSize
        /\ r.in_send_loop = (IF rc.c5 THEN FALSE ELSE z.in_send_loop)
        /\ r.issueIdle = (IF rc.c11 THEN FALSE ELSE z.issueIdle)
        /\ r.last_buf_full = (IF rc.c11 /\ rc.c8 THEN rc.saved_busy_time ELSE z.last_buf_full)
        /\ r.last_in_queue_time = rc.saved_last_in_queue_time
    <3> HIDE DEF rc
    <3>. QED
      BY <2>3, Zenon DEF TermFields, TermShape, Others
  <2> HIDE DEF r
  <2>5. Others({"remaining_sz"}, z, n)
    BY <1>18, SameOthers, Zenon DEF SameTerm
  <2>6. /\ z.packet_counter = n.packet_counter /\ z.terminal_msgs = n.terminal_msgs
        /\ z.terminal_length = n.terminal_length /\ z.in_send_loop = n.in_send_loop
        /\ z.issueIdle = n.issueIdle /\ z.last_buf_full = n.last_buf_full
    BY <1>18, Zenon DEF SameTerm, SameButLeft
  <2>7. /\ rc.c5 = ~s.in_send_loop /\ rc.c11 = full
        /\ rc.c8 = (full /\ s.last_buf_full = 0) /\ rc.saved_busy_time = s.last_buf_full
        /\ rc.saved_last_in_queue_time = s.last_in_queue_time
    BY <1>5, <1>18
  <2> HIDE DEF rc
  <2>8. r.packet_counter = s.packet_counter /\ r.terminal_length = s.terminal_length
    BY <1>2, <1>8, <1>12, <2>4, <2>6 DEF length
  <2>9. r.terminal_msgs = s.terminal_msgs
    BY <1>2, <1>6, <1>7, <1>12, <2>4, <2>6, TakeBack
  <2>10. r.in_send_loop = s.in_send_loop
    BY <1>2, <1>12, <2>4, <2>6, <2>7
  <2>11. r.issueIdle = s.issueIdle
    BY <1>4, <1>11, <1>12, <2>4, <2>6, <2>7
  <2>12. r.last_buf_full = s.last_buf_full
    BY <1>2, <1>11, <1>12, <2>4, <2>6, <2>7
  <2>13. Others({"remaining_sz"}, r, s)
    BY <1>12, <2>4, <2>5, <2>7, <2>8, <2>9, <2>10, <2>11, <2>12, Zenon DEF Others
  <2>14. r.remaining_sz = z.remaining_sz /\ ChunksLeft(z.remaining_sz) = ChunksLeft(s.remaining_sz)
    BY <1>13, <1>18, <2>4, Zenon DEF Others, TermFields, SameTerm
  <2>. QED
    BY <1>1, <1>18, <2>2, <2>4, <2>13, <2>14, TermBack
<1>19. \A h \in o.sent : EventOK(h) /\ (h.type \in LoopTypes => h.type # "R_SEND" /\ h.to = t)
  BY <1>5, <1>9, <1>10
<1>20. /\ SendEvents(o.sent) \cap SendEvents(F) \subseteq {e}
       /\ IdleTokens(o.sent) \cap IdleTokens(F) \subseteq {e}
  BY <1>2, <1>4, <1>15, <1>16
<1> HIDE DEF o
<1>. QED
  BY <1>5, <1>14, <1>17, <1>18, <1>19, <1>20, TermHandler DEF o

-----------------------------------------------------------------------------
(* packet_send.                                                            *)

\* a send event being processed is the only one
LEMMA TheSendEvent ==
  ASSUME NEW s, NEW F, NEW e \in F, TermLoops(s, F), e.type = "T_SEND",
         s.in_send_loop \in BOOLEAN
  PROVE  /\ SendEvents(F) = {e} /\ e \notin IdleTokens(F)
         /\ s.in_send_loop = TRUE
<1>1. e \in SendEvents(F) /\ e \notin IdleTokens(F)
  BY DEF IdleTokens, SendEvents
<1>2. NoneOrOne(SendEvents(F), s.in_send_loop)
  BY DEF TermLoops
<1>3. s.in_send_loop
  BY <1>1, <1>2 DEF NoneOrOne
<1>4. PICK g \in SendEvents(F) : SendEvents(F) = {g}
  BY <1>2, <1>3 DEF NoneOrOne
<1>. QED
  BY <1>1, <1>3, <1>4

LEMMA StallHandler ==
  ASSUME NEW t, NEW s, NEW F, NEW e, TermReady(t, s, F, e), e.type = "T_SEND",
         get_next_vcg_fails(s)
  PROVE  HandlerOK(t, s, F, e, packet_send_stall(s, e))
<1> DEFINE o == packet_send_stall(s, e)
           since == IF s.last_buf_full = 0 THEN e.ts ELSE s.last_buf_full
           n == [s EXCEPT !.in_send_loop = FALSE, !.last_buf_full = since]
           K == {"in_send_loop", "last_buf_full"}
<1>1. /\ t \in Terminals /\ TermOK(t, s) /\ TermShape(s) /\ TermLoops(s, F)
      /\ e.to = t /\ e.ts \in Nat /\ e \in F
      /\ s.in_send_loop \in BOOLEAN /\ s.last_buf_full \in Nat
  BY DEF TermReady, EventOK, TermOK, LoopTypes
<1>2. /\ o.ns = n /\ o.sent = {}
      /\ o.rc = [c1 |-> TRUE, c3 |-> s.last_buf_full = 0, saved_send_loop |-> s.in_send_loop,
                 saved_busy_time |-> s.last_buf_full]
  BY Zenon DEF packet_send_stall, Outcome
<1>3. DOMAIN s = TermFields
  BY <1>1, TermDomain
<1>4. SendEvents(F) = {e} /\ e \notin IdleTokens(F) /\ s.in_send_loop = TRUE
  BY <1>1, TheSendEvent
<1>5. /\ TermShape(n) /\ Others(K, n, s) /\ n.in_send_loop = FALSE /\ n.last_buf_full = since
  <2> HIDE DEF since
  <2>. QED
    BY <1>3, Zenon DEF TermFields, TermShape, Others
<1> HIDE DEF n
<1>6. since \in Nat
  BY <1>1
<1>7. /\ n.sched = s.sched /\ n.in_sched_loop = s.in_sched_loop
      /\ n.packet_counter = s.packet_counter /\ n.terminal_msgs = s.terminal_msgs
      /\ n.terminal_length = s.terminal_length /\ n.vc_occupancy = s.vc_occupancy
      /\ n.issueIdle = s.issueIdle /\ n.busy_time = s.busy_time
      /\ n.available_time = s.available_time /\ n.last_in_queue_time = s.last_in_queue_time
      /\ n.rank_tbl = s.rank_tbl
      /\ n.remaining_sz = s.remaining_sz /\ n.zombies = s.zombies
  BY <1>5, Zenon DEF Others, TermFields
<1>8. TermOK(t, n)
  <2>1. n.last_buf_full \in Nat /\ n.in_send_loop \in BOOLEAN
    BY <1>5, <1>6
  <2>. QED
    BY <1>1, <1>5, <1>7, <2>1, Zenon DEF TermOK
<1>9. SendEvents(o.sent) = {} /\ IdleTokens(o.sent) = {}
  BY <1>2 DEF SendEvents, IdleTokens
<1>10. ASSUME NEW G, SendEvents(G) = (SendEvents(F) \ {e}) \cup SendEvents(o.sent),
              IdleTokens(G) = (IdleTokens(F) \ {e}) \cup IdleTokens(o.sent)
       PROVE  TermLoops(n, G)
  <2>1. SendEvents(G) = {} /\ IdleTokens(G) = IdleTokens(F)
    BY <1>4, <1>9, <1>10
  <2>2. get_next_vcg_fails(n)
    BY <1>7, Zenon DEF get_next_vcg_fails
  <2>3. NoneOrOne(SendEvents(G), n.in_send_loop)
    BY <1>5, <2>1, Zenon DEF NoneOrOne
  <2>. QED
    BY <1>1, <1>7, <2>1, <2>2, <2>3, Zenon DEF TermLoops
<1>11. ASSUME NEW en, NEW z, en.ev = e, en.rc = o.rc, TermOK(t, z), SameTerm(z, n)
       PROVE  TermOK(t, reverse(z, en)) /\ SameTerm(reverse(z, en), s)
  <2> DEFINE r == [z EXCEPT !.in_send_loop = en.rc.saved_send_loop,
                            !.last_buf_full = IF en.rc.c3 THEN en.rc.saved_busy_time ELSE @]
  <2>1. reverse(z, en) = packet_send_rc(z, en)
    BY <1>11, Zenon DEF reverse
  <2>2. /\ en.rc.c1 = TRUE /\ en.rc.c3 = (s.last_buf_full = 0)
        /\ en.rc.saved_send_loop = TRUE /\ en.rc.saved_busy_time = s.last_buf_full
    BY <1>2, <1>4, <1>11
  <2>3. reverse(z, en) = r
    BY <2>1, <2>2, Zenon DEF packet_send_rc
  <2>4. TermShape(z) /\ DOMAIN z = TermFields
    BY <1>11, TermDomain, Zenon DEF TermOK
  <2>5. /\ TermShape(r) /\ Others(K, r, z) /\ r.in_send_loop = en.rc.saved_send_loop
        /\ r.last_buf_full = (IF en.rc.c3 THEN en.rc.saved_busy_time ELSE z.last_buf_full)
    BY <2>4, Zenon DEF TermFields, TermShape, Others
  <2> HIDE DEF r
  <2>6. Others({"remaining_sz"}, z, n) /\ z.last_buf_full = n.last_buf_full
    BY <1>11, SameOthers, Zenon DEF SameTerm, SameButLeft
  <2>7. r.in_send_loop = s.in_send_loop
    BY <1>4, <2>2, <2>5, Zenon
  <2>8. r.last_buf_full = s.last_buf_full
    BY <1>5, <2>2, <2>5, <2>6
  <2>9. Others({"remaining_sz"}, r, s)
    BY <1>5, <2>5, <2>6, <2>7, <2>8, Zenon DEF Others
  <2>10. r.remaining_sz = z.remaining_sz /\ ChunksLeft(z.remaining_sz) = ChunksLeft(s.remaining_sz)
    BY <1>7, <1>11, <2>5, Zenon DEF Others, TermFields, SameTerm
  <2>. QED
    BY <1>1, <1>11, <2>3, <2>5, <2>9, <2>10, TermBack
<1>12. \A h \in o.sent : EventOK(h) /\ (h.type \in LoopTypes => h.type # "R_SEND" /\ h.to = t)
  BY <1>2
<1>13. /\ SendEvents(o.sent) \cap SendEvents(F) \subseteq {e}
       /\ IdleTokens(o.sent) \cap IdleTokens(F) \subseteq {e}
  BY <1>9
<1> HIDE DEF o
<1>. QED
  BY <1>2, <1>8, <1>10, <1>11, <1>12, <1>13, TermHandler DEF o

LEMMA WireFacts ==
  ASSUME NEW c \in ChunkType, NEW kind \in Kinds, NEW a \in Nat, NEW b \in Nat
  PROVE  /\ MaxOf(a, b) + bytes_to_ns(WireSize(c), kind) \in Nat
         /\ MaxOf(a, b) + bytes_to_ns(WireSize(c), kind) >= a
         /\ MaxOf(a, b) + bytes_to_ns(WireSize(c), kind) >= b
<1>1. WireSize(c) \in Nat
  BY SizeFacts DEF WireSize, ChunkType
<1>2. NsPerByte[kind] \in Nat
  BY SizeFacts
<1>3. bytes_to_ns(WireSize(c), kind) \in Nat
  BY <1>1, <1>2, Product DEF bytes_to_ns
<1>. QED
  BY <1>3 DEF MaxOf

LEMMA SendChunkHandler ==
  ASSUME NEW t, NEW s, NEW F, NEW e, TermReady(t, s, F, e), e.type = "T_SEND",
         ~get_next_vcg_fails(s)
  PROVE  HandlerOK(t, s, F, e, packet_send_chunk(s, e))
<1> DEFINE o == packet_send_chunk(s, e)
           c == Head(s.terminal_msgs)
           available == MaxOf(s.available_time, e.ts) + bytes_to_ns(WireSize(c), "TERMINAL")
           sent1 == [s EXCEPT !.available_time = available,
                              !.terminal_msgs = Tail(@),
                              !.terminal_length = @ - ChunkSize,
                              !.vc_occupancy = @ + ChunkSize]
           more == ~get_next_vcg_fails(sent1)
           idle == s.issueIdle /\ sent1.terminal_length < VcSize["TERMINAL"]
           c6 == idle /\ s.last_buf_full > 0
           local == c.last /\ c.id = num_chunks_for(c.size) - 1
           loop == IF more THEN sent1.in_send_loop ELSE FALSE
           issue == IF idle THEN FALSE ELSE sent1.issueIdle
           busy == IF c6 THEN sent1.busy_time + (e.ts - s.last_buf_full) ELSE sent1.busy_time
           since == IF c6 THEN 0 ELSE sent1.last_buf_full
           n == [sent1 EXCEPT !.in_send_loop = loop, !.issueIdle = issue,
                              !.busy_time = busy, !.last_buf_full = since]
           arrive == ArriveEvent("R_ARRIVE", available + PropDelay["TERMINAL"], RouterOf[e.to], c)
           f == TSendEvent(e.to, available, By("send", c))
           g == SchedNextEvent(e.to, available, By("resume", c), FALSE)
           K1 == {"available_time", "terminal_msgs", "terminal_length", "vc_occupancy"}
           K == {"available_time", "terminal_msgs", "terminal_length", "vc_occupancy",
                 "in_send_loop", "issueIdle", "busy_time", "last_buf_full"}
<1>1. /\ t \in Terminals /\ TermOK(t, s) /\ TermShape(s) /\ TermLoops(s, F)
      /\ e.to = t /\ e.ts \in Nat /\ e \in F
  BY DEF TermReady, EventOK, LoopTypes, TermOK
<1>2. /\ s.in_sched_loop \in BOOLEAN /\ s.issueIdle \in BOOLEAN /\ s.in_send_loop \in BOOLEAN
      /\ s.terminal_msgs \in Seq(OwnChunk(t)) /\ s.terminal_length \in Int
      /\ s.last_buf_full \in Nat /\ s.busy_time \in Int /\ s.available_time \in Nat
      /\ s.last_in_queue_time \in Nat
      /\ s.vc_occupancy \in Int
  BY <1>1 DEF TermOK
<1>3. DOMAIN s = TermFields
  BY <1>1, TermDomain
<1>4. SendEvents(F) = {e} /\ e \notin IdleTokens(F) /\ s.in_send_loop = TRUE
  BY <1>1, <1>2, TheSendEvent
<1>5. /\ o.ns = n
      /\ o.rc = [c1 |-> FALSE, c4 |-> ~more, c5 |-> idle, c6 |-> c6, c16 |-> local, entry |-> c,
                 saved_send_loop |-> s.in_send_loop, saved_available_time |-> s.available_time,
                 saved_total_time |-> s.busy_time, saved_busy_time |-> s.last_buf_full]
      /\ o.sent = {arrive} \cup (IF more THEN {f} ELSE {}) \cup (IF idle THEN {g} ELSE {})
  <2> HIDE DEF get_next_vcg_fails
  <2>. QED
    BY DEF packet_send_chunk, Outcome
<1>6. /\ s.terminal_msgs # << >> /\ c \in OwnChunk(t) /\ Tail(s.terminal_msgs) \in Seq(OwnChunk(t))
      /\ <<c>> \o Tail(s.terminal_msgs) = s.terminal_msgs
  <2>1. s.terminal_msgs # << >>
    BY DEF get_next_vcg_fails
  <2>. QED
    BY <1>2, <2>1, SchedP!ConsHeadTail, SchedAssumptions, HeadTailProperties
<1>7. /\ c \in ChunkType /\ c.src = t /\ c.from = t /\ c.rt.last_hop = "TERMINAL"
      /\ c.port = InjectionPort(t) /\ c.chan = 0 /\ OnWay(RouterOf[t], c.rt, c.port, c.chan)
  BY <1>6 DEF OwnChunk
<1> HIDE DEF c
<1>8. ChunkSize \in Nat /\ VcSize["TERMINAL"] \in Nat /\ PropDelay["TERMINAL"] \in Nat
  BY SizeFacts
<1>9. available \in Nat
  BY <1>1, <1>2, <1>7, WireFacts, SizeFacts
<1> HIDE DEF available
<1>10. /\ TermShape(sent1) /\ DOMAIN sent1 = TermFields /\ Others(K1, sent1, s)
       /\ sent1.available_time = available /\ sent1.terminal_msgs = Tail(s.terminal_msgs)
       /\ sent1.terminal_length = s.terminal_length - ChunkSize
       /\ sent1.vc_occupancy = s.vc_occupancy + ChunkSize
  BY <1>3, Zenon DEF TermFields, TermShape, Others
<1> HIDE DEF sent1
<1>11. /\ sent1.in_send_loop = s.in_send_loop /\ sent1.issueIdle = s.issueIdle
       /\ sent1.busy_time = s.busy_time /\ sent1.last_buf_full = s.last_buf_full
  BY <1>10, Zenon DEF Others, TermFields
<1>12. /\ more \in BOOLEAN /\ idle \in BOOLEAN /\ c6 \in BOOLEAN /\ (c6 => idle)
       /\ (idle => s.issueIdle = TRUE)
  BY <1>2 DEF get_next_vcg_fails
<1>13. /\ TermShape(n) /\ Others(K, n, s)
       /\ n.available_time = available /\ n.terminal_msgs = Tail(s.terminal_msgs)
       /\ n.terminal_length = s.terminal_length - ChunkSize
       /\ n.vc_occupancy = s.vc_occupancy + ChunkSize
       /\ n.in_send_loop = loop /\ n.issueIdle = issue /\ n.busy_time = busy
       /\ n.last_buf_full = since
       /\ n.terminal_msgs = sent1.terminal_msgs /\ n.vc_occupancy = sent1.vc_occupancy
  <2> HIDE DEF loop, issue, busy, since
  <2>1. /\ TermShape(n) /\ Others({"in_send_loop", "issueIdle", "busy_time", "last_buf_full"}, n, sent1)
        /\ n.in_send_loop = loop /\ n.issueIdle = issue /\ n.busy_time = busy
        /\ n.last_buf_full = since
    BY <1>10, Zenon DEF TermFields, TermShape, Others
  <2> HIDE DEF n
  <2>2. /\ n.available_time = sent1.available_time /\ n.terminal_msgs = sent1.terminal_msgs
        /\ n.terminal_length = sent1.terminal_length /\ n.vc_occupancy = sent1.vc_occupancy
    BY <2>1, Zenon DEF Others, TermFields
  <2>3. Others(K, n, s)
    BY <1>10, <2>1, Zenon DEF Others
  <2>. QED
    BY <1>10, <2>1, <2>2, <2>3, Zenon
<1> HIDE DEF n
<1>14. /\ n.sched = s.sched /\ n.in_sched_loop = s.in_sched_loop
       /\ n.packet_counter = s.packet_counter /\ n.rank_tbl = s.rank_tbl
       /\ n.remaining_sz = s.remaining_sz /\ n.zombies = s.zombies
       /\ n.last_in_queue_time = s.last_in_queue_time
  BY <1>13, Zenon DEF Others, TermFields
<1>15. more = (loop = TRUE) /\ ~more = (loop = FALSE) /\ loop \in BOOLEAN
  BY <1>4, <1>11, <1>12
<1>16. /\ issue = (IF idle THEN FALSE ELSE s.issueIdle) /\ issue \in BOOLEAN
  BY <1>2, <1>11, <1>12
<1>17. /\ busy = (IF c6 THEN s.busy_time + (e.ts - s.last_buf_full) ELSE s.busy_time)
       /\ since = (IF c6 THEN 0 ELSE s.last_buf_full)
       /\ busy \in Int /\ since \in Nat
  BY <1>1, <1>2, <1>11, <1>12
<1>18. get_next_vcg_fails(n) = ~more
  <2>1. get_next_vcg_fails(n) = get_next_vcg_fails(sent1)
    BY <1>13, Zenon DEF get_next_vcg_fails
  <2>. QED
    BY <2>1, Zenon DEF get_next_vcg_fails
<1> HIDE DEF loop, issue, busy, since, more, idle, c6
<1>19. TermOK(t, n)
  <2>1. /\ n.terminal_msgs \in Seq(OwnChunk(t)) /\ n.terminal_length \in Int
        /\ n.vc_occupancy \in Int /\ n.busy_time \in Int /\ n.last_buf_full \in Nat
        /\ n.available_time \in Nat
    BY <1>2, <1>6, <1>8, <1>9, <1>13, <1>17
  <2>2. n.in_send_loop \in BOOLEAN /\ n.issueIdle \in BOOLEAN
    BY <1>13, <1>15, <1>16, Zenon
  <2>. QED
    BY <1>1, <1>13, <1>14, <2>1, <2>2, Zenon DEF TermOK
<1>20. EventOK(arrive) /\ arrive.type = "R_ARRIVE"
  <2>1. RouterOf[t] \in Routers
    BY <1>1, RouteAssumption
  <2>2. Upstream(c, c.port, c.chan)
    BY <1>1, <1>7 DEF Upstream
  <2>. QED
    BY <1>1, <1>7, <1>8, <1>9, <2>1, <2>2 DEF ArriveEvent, EventOK, TermEvents, RouterEvents
<1>21. EventOK(f) /\ f.type = "T_SEND" /\ f.to = t
  BY <1>1, <1>9, TSendOK
<1>22. EventOK(g) /\ g.type = "SCHED_NEXT" /\ g.to = t
  BY <1>1, <1>9 DEF SchedNextEvent, EventOK, TermEvents, RouterEvents
<1> HIDE DEF arrive, f, g
<1>23. /\ SendEvents(o.sent) = IF more THEN {f} ELSE {}
       /\ IdleTokens(o.sent) = IF idle THEN {g} ELSE {}
  BY <1>5, <1>20, <1>21, <1>22 DEF SendEvents, IdleTokens
<1>24. idle => IdleTokens(F) = {} /\ s.in_sched_loop = TRUE
  <2>1. ASSUME idle PROVE IdleTokens(F) = {} /\ s.in_sched_loop = TRUE
    <3>1. s.issueIdle = TRUE
      BY <1>12, <2>1
    <3>2. ~(s.in_sched_loop /\ ~s.issueIdle)
      BY <3>1
    <3>3. NoneOrOne(IdleTokens(F), s.in_sched_loop /\ ~s.issueIdle) /\ s.in_sched_loop
      BY <1>1, <3>1, Zenon DEF TermLoops
    <3>. QED
      BY <1>2, <3>2, <3>3 DEF NoneOrOne
  <2>. QED
    BY <2>1
<1>25. ASSUME NEW G, SendEvents(G) = (SendEvents(F) \ {e}) \cup SendEvents(o.sent),
              IdleTokens(G) = (IdleTokens(F) \ {e}) \cup IdleTokens(o.sent)
       PROVE  TermLoops(n, G)
  <2>1. SendEvents(G) = IF more THEN {f} ELSE {}
    BY <1>4, <1>23, <1>25
  <2>2. IdleTokens(G) = IF idle THEN {g} ELSE IdleTokens(F)
    BY <1>4, <1>23, <1>24, <1>25
  <2>3. NoneOrOne(IdleTokens(G), n.in_sched_loop /\ ~n.issueIdle) /\ (n.issueIdle => n.in_sched_loop)
    <3>1. CASE idle
      <4>1. n.issueIdle = FALSE /\ n.in_sched_loop = TRUE
        BY <1>13, <1>14, <1>16, <1>24, <3>1
      <4>. QED
        BY <2>2, <3>1, <4>1, Zenon DEF NoneOrOne
    <3>2. CASE ~idle
      <4>1. n.issueIdle = s.issueIdle /\ n.in_sched_loop = s.in_sched_loop
        BY <1>13, <1>14, <1>16, <3>2, Zenon
      <4>. QED
        BY <1>1, <2>2, <3>2, <4>1, Zenon DEF TermLoops
    <3>. QED
      BY <3>1, <3>2
  <2>4. NoneOrOne(SendEvents(G), n.in_send_loop) /\ (n.in_send_loop \/ get_next_vcg_fails(n))
    <3>1. CASE more
      <4>1. n.in_send_loop = TRUE
        BY <1>13, <1>15, <3>1
      <4>. QED
        BY <2>1, <3>1, <4>1, Zenon DEF NoneOrOne
    <3>2. CASE ~more
      <4>1. n.in_send_loop = FALSE
        BY <1>13, <1>15, <3>2
      <4>. QED
        BY <1>18, <2>1, <3>2, <4>1, Zenon DEF NoneOrOne
    <3>. QED
      BY <3>1, <3>2
  <2>5. n.in_sched_loop \/ n.sched.reqs = << >>
    BY <1>1, <1>14, Zenon DEF TermLoops
  <2>. QED
    BY <2>3, <2>4, <2>5, Zenon DEF TermLoops
<1>26. ASSUME NEW en, NEW z, en.ev = e, en.rc = o.rc, TermOK(t, z), SameTerm(z, n)
       PROVE  TermOK(t, reverse(z, en)) /\ SameTerm(reverse(z, en), s)
  <2> DEFINE rc == en.rc
             r == [z EXCEPT !.available_time = rc.saved_available_time,
                            !.terminal_length = @ + ChunkSize,
                            !.vc_occupancy = @ - ChunkSize,
                            !.terminal_msgs = <<rc.entry>> \o @,
                            !.in_send_loop = IF rc.c4 THEN rc.saved_send_loop ELSE @,
                            !.issueIdle = IF rc.c5 THEN TRUE ELSE @,
                            !.busy_time = IF rc.c5 /\ rc.c6 THEN rc.saved_total_time ELSE @,
                            !.last_buf_full = IF rc.c5 /\ rc.c6 THEN rc.saved_busy_time ELSE @]
  <2>1. reverse(z, en) = packet_send_rc(z, en)
    BY <1>26, Zenon DEF reverse
  <2>2. /\ rc.c1 = FALSE /\ rc.c4 = ~more /\ rc.c5 = idle /\ rc.c6 = c6 /\ rc.entry = c
        /\ rc.saved_send_loop = s.in_send_loop /\ rc.saved_available_time = s.available_time
        /\ rc.saved_total_time = s.busy_time /\ rc.saved_busy_time = s.last_buf_full
    BY <1>5, <1>26
  <2>3. reverse(z, en) = r
    BY <2>1, <2>2, Zenon DEF packet_send_rc
  <2> HIDE DEF rc
  <2>4. TermShape(z) /\ DOMAIN z = TermFields
    BY <1>26, TermDomain, Zenon DEF TermOK
  <2>5. /\ TermShape(r) /\ Others(K, r, z)
        /\ r.available_time = rc.saved_available_time
        /\ r.terminal_length = z.terminal_length + ChunkSize
        /\ r.vc_occupancy = z.vc_occupancy - ChunkSize
        /\ r.terminal_msgs = <<rc.entry>> \o z.terminal_msgs
        /\ r.in_send_loop = (IF rc.c4 THEN rc.saved_send_loop ELSE z.in_send_loop)
        /\ r.issueIdle = (IF rc.c5 THEN TRUE ELSE z.issueIdle)
        /\ r.busy_time = (IF rc.c5 /\ rc.c6 THEN rc.saved_total_time ELSE z.busy_time)
        /\ r.last_buf_full = (IF rc.c5 /\ rc.c6 THEN rc.saved_busy_time ELSE z.last_buf_full)
    BY <2>4, ZenonT(30) DEF TermFields, TermShape, Others
  <2> HIDE DEF r
  <2>6. Others({"remaining_sz"}, z, n)
    BY <1>26, SameOthers, Zenon DEF SameTerm
  <2>7. /\ z.terminal_msgs = n.terminal_msgs /\ z.terminal_length = n.terminal_length
        /\ z.vc_occupancy = n.vc_occupancy /\ z.in_send_loop = n.in_send_loop
        /\ z.issueIdle = n.issueIdle /\ z.last_buf_full = n.last_buf_full
        /\ z.busy_time = n.busy_time
    BY <1>26, Zenon DEF SameTerm, SameButLeft
  <2>8. /\ r.available_time = s.available_time /\ r.terminal_length = s.terminal_length
        /\ r.vc_occupancy = s.vc_occupancy
    BY <1>2, <1>8, <1>13, <2>2, <2>5, <2>7
  <2>9. r.terminal_msgs = s.terminal_msgs
    BY <1>6, <1>13, <2>2, <2>5, <2>7, Zenon
  <2>10. r.in_send_loop = s.in_send_loop
    <3>1. CASE more
      <4>1. n.in_send_loop = TRUE
        BY <1>13, <1>15, <3>1
      <4>. QED
        BY <1>4, <2>2, <2>5, <2>7, <3>1, <4>1, Zenon
    <3>2. CASE ~more
      BY <2>2, <2>5, <3>2, Zenon
    <3>. QED
      BY <3>1, <3>2
  <2>11. r.issueIdle = s.issueIdle
    <3>1. CASE idle
      BY <1>12, <2>2, <2>5, <3>1, Zenon
    <3>2. CASE ~idle
      BY <1>13, <1>16, <2>2, <2>5, <2>7, <3>2, Zenon
    <3>. QED
      BY <3>1, <3>2
  <2>12. r.busy_time = s.busy_time /\ r.last_buf_full = s.last_buf_full
    <3>1. CASE c6
      BY <1>12, <2>2, <2>5, <3>1, Zenon
    <3>2. CASE ~c6
      BY <1>13, <1>17, <2>2, <2>5, <2>7, <3>2, Zenon
    <3>. QED
      BY <3>1, <3>2
  <2>13. Others({"remaining_sz"}, r, s)
    BY <1>13, <2>5, <2>6, <2>8, <2>9, <2>10, <2>11, <2>12, ZenonT(30) DEF Others
  <2>14. r.remaining_sz = z.remaining_sz /\ ChunksLeft(z.remaining_sz) = ChunksLeft(s.remaining_sz)
    BY <1>14, <1>26, <2>5, Zenon DEF Others, TermFields, SameTerm
  <2>. QED
    BY <1>1, <1>26, <2>3, <2>5, <2>13, <2>14, TermBack
<1>27. \A h \in o.sent : EventOK(h) /\ (h.type \in LoopTypes => h.type # "R_SEND" /\ h.to = t)
  BY <1>5, <1>20, <1>21, <1>22 DEF LoopTypes
<1>28. /\ SendEvents(o.sent) \cap SendEvents(F) \subseteq {e}
       /\ IdleTokens(o.sent) \cap IdleTokens(F) \subseteq {e}
  BY <1>4, <1>23, <1>24
<1> HIDE DEF o
<1>. QED
  BY <1>5, <1>19, <1>25, <1>26, <1>27, <1>28, TermHandler DEF o

LEMMA SendHandler ==
  ASSUME NEW t, NEW s, NEW F, NEW e, TermReady(t, s, F, e), e.type = "T_SEND"
  PROVE  HandlerOK(t, s, F, e, packet_send(s, e))
  BY StallHandler, SendChunkHandler DEF packet_send

-----------------------------------------------------------------------------
(* Tables of a terminal.                                                   *)

LEMMA TableFacts ==
  ASSUME NEW K, NEW V, NEW f
  PROVE  f \in Tables(K, V)
           <=> /\ f = [k \in DOMAIN f |-> f[k]]
               /\ DOMAIN f \subseteq K /\ \A k \in DOMAIN f : f[k] \in V
<1>1. ASSUME f \in Tables(K, V)
      PROVE  /\ f = [k \in DOMAIN f |-> f[k]]
             /\ DOMAIN f \subseteq K /\ \A k \in DOMAIN f : f[k] \in V
  <2>1. PICK D \in SUBSET K : f \in [D -> V]
    BY <1>1 DEF Tables
  <2>. QED
    BY <2>1
<1>2. ASSUME f = [k \in DOMAIN f |-> f[k]], DOMAIN f \subseteq K, \A k \in DOMAIN f : f[k] \in V
      PROVE  f \in Tables(K, V)
  <2>1. f \in [DOMAIN f -> V]
    BY <1>2
  <2>. QED
    BY <1>2, <2>1 DEF Tables
<1>. QED
  BY <1>1, <1>2

LEMMA TableEqual ==
  ASSUME NEW K, NEW V, NEW f \in Tables(K, V), NEW K2, NEW V2, NEW g \in Tables(K2, V2),
         DOMAIN f = DOMAIN g, \A k \in DOMAIN g : f[k] = g[k]
  PROVE  f = g
<1>1. f = [k \in DOMAIN f |-> f[k]] /\ g = [k \in DOMAIN g |-> g[k]]
  BY TableFacts
<1>. QED
  BY <1>1

\* g is f without key k, and f with key k set to x
IsWithout(g, f, k) ==
  DOMAIN g = DOMAIN f \ {k} /\ \A j \in DOMAIN f \ {k} : g[j] = f[j]
IsWith(g, f, k, x) ==
  DOMAIN g = DOMAIN f \cup {k} /\ g[k] = x /\ \A j \in DOMAIN f \ {k} : g[j] = f[j]

LEMMA WithoutFacts ==
  ASSUME NEW K, NEW V, NEW f, f \in Tables(K, V), NEW k
  PROVE  Without(f, k) \in Tables(K, V) /\ IsWithout(Without(f, k), f, k)
<1>1. Without(f, k) = [j \in DOMAIN f \ {k} |-> f[j]]
  BY Zenon DEF Without, Restrict
<1>2. /\ DOMAIN Without(f, k) = DOMAIN f \ {k}
      /\ \A j \in DOMAIN f \ {k} : Without(f, k)[j] = f[j]
  BY <1>1
<1>3. DOMAIN f \subseteq K /\ \A j \in DOMAIN f : f[j] \in V
  BY TableFacts
<1>4. Without(f, k) = [j \in DOMAIN Without(f, k) |-> Without(f, k)[j]]
  BY <1>1
<1>5. Without(f, k) \in Tables(K, V)
  BY <1>2, <1>3, <1>4, TableFacts
<1>. QED
  BY <1>2, <1>5 DEF IsWithout

LEMMA WithFacts ==
  ASSUME NEW K, NEW V, NEW f, f \in Tables(K, V), NEW k, k \in K, NEW x, x \in V
  PROVE  With(f, k, x) \in Tables(K, V) /\ IsWith(With(f, k, x), f, k, x)
<1>1. With(f, k, x) = [j \in DOMAIN f \cup {k} |-> IF j = k THEN x ELSE f[j]]
  BY Zenon DEF With
<1>2. /\ DOMAIN With(f, k, x) = DOMAIN f \cup {k}
      /\ With(f, k, x)[k] = x
      /\ \A j \in DOMAIN f \ {k} : With(f, k, x)[j] = f[j]
  BY <1>1
<1>3. DOMAIN f \subseteq K /\ \A j \in DOMAIN f : f[j] \in V
  BY TableFacts
<1>4. With(f, k, x) = [j \in DOMAIN With(f, k, x) |-> With(f, k, x)[j]]
  BY <1>1
<1>5. With(f, k, x) \in Tables(K, V)
  BY <1>2, <1>3, <1>4, TableFacts
<1>. QED
  BY <1>2, <1>5 DEF IsWith

LEMMA ChunksLeftEqual ==
  ASSUME NEW f, NEW g
  PROVE  ChunksLeft(f) = ChunksLeft(g)
           <=> DOMAIN f = DOMAIN g /\ \A k \in DOMAIN f : num_chunks_for(f[k]) = num_chunks_for(g[k])
<1>1. DOMAIN ChunksLeft(f) = DOMAIN f /\ DOMAIN ChunksLeft(g) = DOMAIN g
  BY DEF ChunksLeft
<1>2. /\ \A k \in DOMAIN f : ChunksLeft(f)[k] = num_chunks_for(f[k])
      /\ \A k \in DOMAIN g : ChunksLeft(g)[k] = num_chunks_for(g[k])
  BY DEF ChunksLeft
<1>3. ChunksLeft(f) = [k \in DOMAIN f |-> num_chunks_for(f[k])]
  BY DEF ChunksLeft
<1>4. ChunksLeft(g) = [k \in DOMAIN g |-> num_chunks_for(g[k])]
  BY DEF ChunksLeft
<1>5. ASSUME ChunksLeft(f) = ChunksLeft(g)
      PROVE  DOMAIN f = DOMAIN g /\ \A k \in DOMAIN f : num_chunks_for(f[k]) = num_chunks_for(g[k])
  <2>1. DOMAIN f = DOMAIN g
    BY <1>1, <1>5, Zenon
  <2>. QED
    BY <1>2, <1>5, <2>1, Zenon
<1>6. ASSUME DOMAIN f = DOMAIN g, \A k \in DOMAIN f : num_chunks_for(f[k]) = num_chunks_for(g[k])
      PROVE  ChunksLeft(f) = ChunksLeft(g)
  BY <1>3, <1>4, <1>6, Zenon
<1>. QED
  BY <1>5, <1>6

LeftTable == Tables(PacketKeys, Nat \ {0})

\* the bytes of a packet still to come once more of them have come, and back again
LeftAfter(R, key, left) == IF left = 0 THEN Without(R, key) ELSE With(R, key, left)
LeftBefore(Z, key, c28, c29) ==
  IF c28 THEN With(Z, key, (IF c29 THEN 0 ELSE Z[key]) + ChunkSize)
  ELSE IF c29 THEN Without(Z, key) ELSE Z

LEMMA LeftWithout ==
  ASSUME NEW f, f \in LeftTable, NEW k
  PROVE  Without(f, k) \in LeftTable /\ IsWithout(Without(f, k), f, k)
<1> DEFINE V == Nat \ {0}
<1>1. LeftTable = Tables(PacketKeys, V)
  BY DEF LeftTable
<1> HIDE DEF V
<1>. QED
  BY <1>1, WithoutFacts

LEMMA LeftWith ==
  ASSUME NEW f, f \in LeftTable, NEW k, k \in PacketKeys, NEW x, x \in Nat \ {0}
  PROVE  With(f, k, x) \in LeftTable /\ IsWith(With(f, k, x), f, k, x)
<1> DEFINE V == Nat \ {0}
<1>1. LeftTable = Tables(PacketKeys, V) /\ x \in V
  BY DEF LeftTable
<1> HIDE DEF V
<1>. QED
  BY <1>1, WithFacts

LEMMA LeftBack ==
  ASSUME NEW R \in LeftTable, NEW key \in PacketKeys, NEW left \in Nat,
         key \in DOMAIN R => left = IF R[key] <= ChunkSize THEN 0 ELSE R[key] - ChunkSize,
         NEW Z \in LeftTable, ChunksLeft(Z) = ChunksLeft(LeftAfter(R, key, left)),
         NEW c28, NEW c29, c28 = (key \in DOMAIN R), c29 = ((key \in DOMAIN R) = (left = 0))
  PROVE  /\ LeftAfter(R, key, left) \in LeftTable
         /\ LeftBefore(Z, key, c28, c29) \in LeftTable
         /\ ChunksLeft(LeftBefore(Z, key, c28, c29)) = ChunksLeft(R)
<1> DEFINE A == LeftAfter(R, key, left)
           B == LeftBefore(Z, key, c28, c29)
<1>1. ChunkSize \in Nat \ {0}
  BY SizeFacts
<1>2. A \in LeftTable
  BY LeftWith, LeftWithout DEF LeftAfter
<1>3. DOMAIN Z = DOMAIN A /\ \A k \in DOMAIN Z : num_chunks_for(Z[k]) = num_chunks_for(A[k])
  BY ChunksLeftEqual
<1>4. /\ \A k \in DOMAIN R : R[k] \in Nat \ {0}
      /\ \A k \in DOMAIN Z : Z[k] \in Nat \ {0}
  BY TableFacts DEF LeftTable
<1>5. CASE key \in DOMAIN R /\ left = 0
  <2>0. c28 = TRUE /\ c29 = TRUE /\ 0 + ChunkSize = ChunkSize
    <3>1. c28 = TRUE
      BY <1>5, Zenon
    <3>2. c29 = TRUE
      BY <1>5, Zenon
    <3>. QED
      BY <1>1, <3>1, <3>2
  <2>1. A = Without(R, key) /\ B = With(Z, key, ChunkSize)
    BY <1>5, <2>0, Zenon DEF LeftAfter, LeftBefore
  <2> HIDE DEF A, B
  <2>2. DOMAIN A = DOMAIN R \ {key} /\ \A j \in DOMAIN R \ {key} : A[j] = R[j]
    <3>1. IsWithout(A, R, key)
      BY <2>1, LeftWithout
    <3>. QED
      BY <3>1 DEF IsWithout
  <2>3. /\ B \in LeftTable /\ DOMAIN B = DOMAIN Z \cup {key} /\ B[key] = ChunkSize
        /\ \A j \in DOMAIN Z \ {key} : B[j] = Z[j]
    <3>1. B \in LeftTable /\ IsWith(B, Z, key, ChunkSize)
      BY <1>1, <2>1, LeftWith
    <3>. QED
      BY <3>1 DEF IsWith
  <2>4. R[key] <= ChunkSize
    BY <1>1, <1>4, <1>5
  <2>5. num_chunks_for(R[key]) = 1 /\ num_chunks_for(ChunkSize) = 1
    BY <1>1, <1>4, <1>5, <2>4, NumChunks
  <2>6. DOMAIN B = DOMAIN R
    BY <1>3, <1>5, <2>2, <2>3
  <2>7. \A k \in DOMAIN B : num_chunks_for(B[k]) = num_chunks_for(R[k])
    BY <1>3, <2>2, <2>3, <2>5, <2>6
  <2>. QED
    BY <1>2, <2>3, <2>6, <2>7, ChunksLeftEqual DEF A, B
<1>6. CASE key \in DOMAIN R /\ left # 0
  <2>1. A = With(R, key, left) /\ B = With(Z, key, Z[key] + ChunkSize)
    BY <1>1, <1>6 DEF LeftAfter, LeftBefore
  <2> HIDE DEF A, B
  <2>2. /\ DOMAIN A = DOMAIN R \cup {key} /\ A[key] = left
        /\ \A j \in DOMAIN R \ {key} : A[j] = R[j]
    <3>1. left \in Nat \ {0}
      BY <1>6
    <3>. QED
      <4>1. IsWith(A, R, key, left)
        BY <2>1, <3>1, LeftWith
      <4>. QED
        BY <4>1 DEF IsWith
  <2>3. Z[key] \in Nat \ {0} /\ Z[key] + ChunkSize \in Nat \ {0}
    BY <1>1, <1>3, <1>4, <2>2
  <2>4. /\ B \in LeftTable /\ DOMAIN B = DOMAIN Z \cup {key} /\ B[key] = Z[key] + ChunkSize
        /\ \A j \in DOMAIN Z \ {key} : B[j] = Z[j]
    <3>1. B \in LeftTable /\ IsWith(B, Z, key, Z[key] + ChunkSize)
      BY <2>1, <2>3, LeftWith
    <3>. QED
      BY <3>1 DEF IsWith
  <2>5. left \in Nat \ {0} /\ R[key] = left + ChunkSize
    BY <1>1, <1>4, <1>6
  <2>6. num_chunks_for(R[key]) = num_chunks_for(left) + 1
    BY <2>5, NumChunks
  <2>7. num_chunks_for(Z[key] + ChunkSize) = num_chunks_for(Z[key]) + 1
    BY <2>3, NumChunks
  <2>8. num_chunks_for(B[key]) = num_chunks_for(R[key])
    BY <1>3, <2>2, <2>4, <2>6, <2>7
  <2>9. DOMAIN B = DOMAIN R
    BY <1>3, <1>6, <2>2, <2>4
  <2>10. \A k \in DOMAIN B : num_chunks_for(B[k]) = num_chunks_for(R[k])
    BY <1>3, <2>2, <2>4, <2>8, <2>9
  <2>. QED
    BY <1>2, <2>4, <2>9, <2>10, ChunksLeftEqual DEF A, B
<1>7. CASE key \notin DOMAIN R /\ left = 0
  <2>1. A = Without(R, key) /\ B = Z
    BY <1>7 DEF LeftAfter, LeftBefore
  <2> HIDE DEF A, B
  <2>2. DOMAIN A = DOMAIN R /\ \A j \in DOMAIN R : A[j] = R[j]
    <3>1. IsWithout(A, R, key)
      BY <2>1, LeftWithout
    <3>. QED
      BY <1>7, <3>1 DEF IsWithout
  <2>. QED
    BY <1>2, <1>3, <2>1, <2>2, ChunksLeftEqual DEF A, B
<1>8. CASE key \notin DOMAIN R /\ left # 0
  <2>0. ~c28 /\ c29 = TRUE
    <3>1. ~c28
      BY <1>8
    <3>2. ((key \in DOMAIN R) = (left = 0)) <=> TRUE
      BY <1>8
    <3>3. c29 = TRUE
      BY <3>2, Zenon
    <3>. QED
      BY <3>1, <3>3
  <2>1. A = With(R, key, left) /\ B = Without(Z, key)
    BY <1>8, <2>0, Zenon DEF LeftAfter, LeftBefore
  <2> HIDE DEF A, B
  <2>2. DOMAIN A = DOMAIN R \cup {key} /\ \A j \in DOMAIN R \ {key} : A[j] = R[j]
    <3>1. left \in Nat \ {0}
      BY <1>8
    <3>. QED
      <4>1. IsWith(A, R, key, left)
        BY <2>1, <3>1, LeftWith
      <4>. QED
        BY <4>1 DEF IsWith
  <2>3. /\ B \in LeftTable /\ DOMAIN B = DOMAIN Z \ {key}
        /\ \A j \in DOMAIN Z \ {key} : B[j] = Z[j]
    <3>1. B \in LeftTable /\ IsWithout(B, Z, key)
      BY <2>1, LeftWithout
    <3>. QED
      BY <3>1 DEF IsWithout
  <2>4. DOMAIN B = DOMAIN R
    BY <1>3, <1>8, <2>2, <2>3
  <2>5. \A k \in DOMAIN B : num_chunks_for(B[k]) = num_chunks_for(R[k])
    BY <1>3, <1>8, <2>2, <2>3, <2>4
  <2>. QED
    BY <1>2, <2>3, <2>4, <2>5, ChunksLeftEqual DEF A, B
<1>. QED
  BY <1>5, <1>6, <1>7, <1>8

-----------------------------------------------------------------------------
(* The table of messages that arrive at a terminal.                        *)

RankEntry == [num_chunks: Int, remaining_packets: Int]
RankTable == Tables(Msgs, RankEntry)

LEMMA RankTables ==
  ASSUME NEW f, f \in RankTable, NEW k
  PROVE  /\ Without(f, k) \in RankTable /\ IsWithout(Without(f, k), f, k)
         /\ \A x : k \in Msgs /\ x \in RankEntry =>
              With(f, k, x) \in RankTable /\ IsWith(With(f, k, x), f, k, x)
  BY WithFacts, WithoutFacts DEF RankTable

LEMMA NewEntryType ==
  ASSUME NEW m \in Msgs
  PROVE  NewEntry(m) \in RankEntry
<1> DEFINE n == (Msg[m].size + PacketSize - 1) \div PacketSize
           x == Msg[m].size + PacketSize - 1
<1>1. PacketSize \in Nat \ {0} /\ x \in Int
  BY NetAssumption, SizeFacts
<1> HIDE DEF x
<1>2. x \div PacketSize \in Int
  BY <1>1, Quotient
<1>3. n \in Int
  BY <1>2 DEF x
<1>4. total_packets(m) = IF n = 0 THEN 1 ELSE n
  BY DEF total_packets
<1> HIDE DEF n
<1>. QED
  BY <1>3, <1>4 DEF NewEntry, RankEntry

CountUp(x, d) == [num_chunks |-> x.num_chunks + 1, remaining_packets |-> x.remaining_packets - d]
CountDown(x, d) == [num_chunks |-> x.num_chunks - 1, remaining_packets |-> x.remaining_packets + d]

LEMMA CountBack ==
  ASSUME NEW x \in RankEntry, NEW d \in Int
  PROVE  CountUp(x, d) \in RankEntry /\ CountDown(CountUp(x, d), d) = x
<1>1. x = [num_chunks |-> x.num_chunks, remaining_packets |-> x.remaining_packets]
      /\ x.num_chunks \in Int /\ x.remaining_packets \in Int
  BY DEF RankEntry
<1>2. /\ CountUp(x, d) \in RankEntry /\ CountUp(x, d).num_chunks = x.num_chunks + 1
      /\ CountUp(x, d).remaining_packets = x.remaining_packets - d
  BY <1>1 DEF RankEntry, CountUp
<1> DEFINE y == CountUp(x, d)
<1> HIDE DEF y
<1>3. y.num_chunks - 1 = x.num_chunks /\ y.remaining_packets + d = x.remaining_packets
  BY <1>1, <1>2 DEF y
<1>4. CountDown(y, d) = x
  BY <1>1, <1>3 DEF CountDown
<1>. QED
  BY <1>2, <1>4 DEF y

\* the table after a chunk of message m, and back again
LEMMA RankBack ==
  ASSUME NEW T, T \in RankTable, NEW m \in Msgs, NEW old, NEW d \in Int, NEW done,
         old = IF m \in DOMAIN T THEN T[m] ELSE NewEntry(m),
         NEW U, U = IF done THEN Without(T, m) ELSE With(T, m, CountUp(old, d)),
         NEW found, found = IF done THEN CountUp(old, d) ELSE U[m],
         NEW V, V = IF m \notin DOMAIN T THEN Without(U, m) ELSE With(U, m, CountDown(found, d))
  PROVE  U \in RankTable /\ V = T
<1>1. \A k \in DOMAIN T : T[k] \in RankEntry
  BY TableFacts DEF RankTable
<1>2. old \in RankEntry
  BY <1>1, NewEntryType
<1>3. CountUp(old, d) \in RankEntry /\ CountDown(CountUp(old, d), d) = old
  BY <1>2, CountBack
<1>4. /\ U \in RankTable
      /\ IF done THEN IsWithout(U, T, m) ELSE IsWith(U, T, m, CountUp(old, d))
  BY <1>3, RankTables
<1>5. DOMAIN U \ {m} = DOMAIN T \ {m} /\ \A j \in DOMAIN T \ {m} : U[j] = T[j]
  <2>1. CASE done
    BY <1>4, <2>1 DEF IsWithout
  <2>2. CASE ~done
    BY <1>4, <2>2 DEF IsWith
  <2>. QED
    BY <2>1, <2>2
<1>6. found = CountUp(old, d)
  BY <1>4 DEF IsWith
<1>7. V \in RankTable /\ DOMAIN V = DOMAIN T /\ \A j \in DOMAIN T : V[j] = T[j]
  <2>1. CASE m \notin DOMAIN T
    <3>1. V \in RankTable /\ IsWithout(V, U, m)
      BY <1>4, <2>1, RankTables
    <3>2. DOMAIN V = DOMAIN U \ {m} /\ \A j \in DOMAIN U \ {m} : V[j] = U[j]
      BY <3>1 DEF IsWithout
    <3>3. DOMAIN T \ {m} = DOMAIN T
      BY <2>1
    <3>. QED
      BY <1>5, <3>1, <3>2, <3>3
  <2>2. CASE m \in DOMAIN T
    <3>0. old = T[m] /\ V = With(U, m, old) /\ old \in RankEntry
      BY <1>2, <1>3, <1>6, <2>2
    <3>1. V \in RankTable /\ IsWith(V, U, m, old)
      BY <1>4, <3>0, RankTables
    <3>2. DOMAIN V = DOMAIN U \cup {m} /\ V[m] = old /\ \A j \in DOMAIN U \ {m} : V[j] = U[j]
      BY <3>1 DEF IsWith
    <3>3. DOMAIN V = DOMAIN T
      BY <1>5, <2>2, <3>2
    <3>4. ASSUME NEW j \in DOMAIN T PROVE V[j] = T[j]
      <4>1. CASE j = m
        BY <3>0, <3>2, <4>1
      <4>2. CASE j # m
        BY <1>5, <3>2, <4>2
      <4>. QED
        BY <4>1, <4>2
    <3>. QED
      BY <3>1, <3>3, <3>4
  <2>. QED
    BY <2>1, <2>2
<1>8. V = T
  BY <1>7, TableEqual DEF RankTable
<1>. QED
  BY <1>4, <1>8

\* a terminal that is s again, with its own bytes to come
LEMMA TermBackLeft ==
  ASSUME NEW t, NEW s, NEW r, TermOK(t, s), TermShape(r), Others({"remaining_sz"}, r, s),
         r.remaining_sz \in LeftTable, ChunksLeft(r.remaining_sz) = ChunksLeft(s.remaining_sz)
  PROVE  TermOK(t, r) /\ SameTerm(r, s)
<1>1. SameButLeft(r, s)
  BY SameOthers
<1>. QED
  BY <1>1 DEF TermOK, SameTerm, SameButLeft, LeftTable

LEMMA ArriveEvents ==
  ASSUME NEW e, EventOK(e), e.type = "T_ARRIVE"
  PROVE  LET c == e.chunk
             f == RBufferEvent(c.from, e.ts + CreditDelay["TERMINAL"], c.port, c.chan, By("ejected", c))
             g == NotifyEvent(e.ts + Lookahead, c)
         IN  EventOK(f) /\ f.type = "R_BUFFER" /\ EventOK(g) /\ g.type = "T_NOTIFY"
<1> DEFINE ts == e.ts + CreditDelay["TERMINAL"]
           us == e.ts + Lookahead
           by == By("ejected", e.chunk)
<1>1. ts \in Nat /\ us \in Nat
  BY SizeFacts DEF EventOK
<1>2. /\ e.chunk.from \in Routers /\ e.chunk.port \in Ports(e.chunk.from) /\ e.chunk.chan \in Chans
      /\ e.chunk.src \in Terminals
  BY DEF EventOK, ChunkType
<1> HIDE DEF ts, us, by
<1>3. EventOK(RBufferEvent(e.chunk.from, ts, e.chunk.port, e.chunk.chan, by))
      /\ RBufferEvent(e.chunk.from, ts, e.chunk.port, e.chunk.chan, by).type = "R_BUFFER"
  BY <1>1, <1>2 DEF RBufferEvent, EventOK, TermEvents, RouterEvents
<1>4. EventOK(NotifyEvent(us, e.chunk)) /\ NotifyEvent(us, e.chunk).type = "T_NOTIFY"
  BY <1>1, <1>2 DEF NotifyEvent, EventOK, TermEvents, RouterEvents
<1>. QED
  BY <1>3, <1>4 DEF ts, us, by

LEMMA ArriveHandler ==
  ASSUME NEW t, NEW s, NEW F, NEW e, TermReady(t, s, F, e), e.type = "T_ARRIVE"
  PROVE  HandlerOK(t, s, F, e, packet_arrive(s, e))
<1> DEFINE o == packet_arrive(s, e)
           c == e.chunk
           key == PacketId(c)
           has == key \in DOMAIN s.remaining_sz
           left == SizeLeft(s, c)
           completed == left = 0
           is_zombie == key \in s.zombies
           rest == LeftAfter(s.remaining_sz, key, left)
           old == IF c.msg \in DOMAIN s.rank_tbl THEN s.rank_tbl[c.msg] ELSE NewEntry(c.msg)
           d == IF completed THEN 1 ELSE 0
           entry == CountUp(old, d)
           done == ~is_zombie /\ entry.remaining_packets = 0
           zs == IF completed THEN s.zombies \ {key} ELSE s.zombies
           counted == IF done THEN Without(s.rank_tbl, c.msg) ELSE With(s.rank_tbl, c.msg, entry)
           ranks == IF is_zombie THEN s.rank_tbl ELSE counted
           n == [s EXCEPT !.remaining_sz = rest, !.zombies = zs, !.rank_tbl = ranks]
           f == RBufferEvent(c.from, e.ts + CreditDelay["TERMINAL"], c.port, c.chan, By("ejected", c))
           g == NotifyEvent(e.ts + Lookahead, c)
           K == {"remaining_sz", "zombies", "rank_tbl"}
<1>1. /\ t \in Terminals /\ TermOK(t, s) /\ TermShape(s) /\ TermLoops(s, F) /\ EventOK(e)
      /\ e.to = t /\ e.ts \in Nat /\ c \in ChunkType
      /\ s.remaining_sz \in LeftTable /\ s.rank_tbl \in RankTable /\ s.zombies \in SUBSET PacketKeys
  BY DEF TermReady, EventOK, TermOK, LeftTable, RankTable, RankEntry
<1>2. o.ns = n
  BY Zenon DEF packet_arrive, Outcome, LeftAfter, CountUp
<1>3. o.sent = {f} \cup (IF Notify /\ completed /\ ~is_zombie THEN {g} ELSE {})
  BY Zenon DEF packet_arrive, Outcome
<1>4. o.rc = [c28 |-> has, c29 |-> has = completed,
              c14 |-> is_zombie /\ completed, c15 |-> is_zombie,
              c5 |-> c.msg \notin DOMAIN s.rank_tbl, c13 |-> completed, c7 |-> done,
              popped |-> entry]
  BY Zenon DEF packet_arrive, Outcome, CountUp
<1>5. EventOK(f) /\ f.type = "R_BUFFER" /\ EventOK(g) /\ g.type = "T_NOTIFY"
  BY <1>1, ArriveEvents
<1> HIDE DEF f, g
<1>6. key \in PacketKeys /\ c.msg \in Msgs /\ c.size \in Nat
  BY <1>1 DEF PacketId, PacketKeys, ChunkType
<1>7. ChunkSize \in Nat \ {0}
  BY SizeFacts
<1>8. /\ left \in Nat
      /\ has => left = IF s.remaining_sz[key] <= ChunkSize THEN 0 ELSE s.remaining_sz[key] - ChunkSize
  <2>1. has => s.remaining_sz[key] \in Nat
    BY <1>1, TableFacts DEF LeftTable
  <2>. QED
    BY <1>6, <1>7, <2>1 DEF SizeLeft
<1>9. DOMAIN s = TermFields
  BY <1>1, TermDomain
<1>10. /\ TermShape(n) /\ Others(K, n, s) /\ n.remaining_sz = rest /\ n.zombies = zs
       /\ n.rank_tbl = ranks
  <2> HIDE DEF rest, zs, ranks
  <2>. QED
    BY <1>9, Zenon DEF TermFields, TermShape, Others
<1>11. d \in Int
  OBVIOUS
<1> HIDE DEF n, left, key, d, entry
<1>12. counted \in RankTable
  <2>1. old \in RankEntry
    <3>1. \A k \in DOMAIN s.rank_tbl : s.rank_tbl[k] \in RankEntry
      BY <1>1, TableFacts DEF RankTable
    <3>. QED
      BY <1>6, <3>1, NewEntryType
  <2> HIDE DEF old
  <2>2. entry \in RankEntry
    BY <1>11, <2>1, CountBack DEF entry
  <2>. QED
    BY <1>1, <1>6, <2>2, RankTables
<1>13. rest \in LeftTable
  BY <1>1, <1>6, <1>8, LeftWith, LeftWithout DEF LeftAfter
<1>14. zs \in SUBSET PacketKeys /\ ranks \in RankTable
  BY <1>1, <1>12
<1>15. TermOK(t, n)
  <2>1. /\ n.sched = s.sched /\ n.in_sched_loop = s.in_sched_loop
        /\ n.packet_counter = s.packet_counter /\ n.terminal_msgs = s.terminal_msgs
        /\ n.terminal_length = s.terminal_length /\ n.vc_occupancy = s.vc_occupancy
        /\ n.in_send_loop = s.in_send_loop /\ n.issueIdle = s.issueIdle
        /\ n.last_buf_full = s.last_buf_full /\ n.busy_time = s.busy_time
        /\ n.available_time = s.available_time /\ n.last_in_queue_time = s.last_in_queue_time
    BY <1>10, Zenon DEF Others, TermFields
  <2>2. /\ n.rank_tbl \in Tables(Msgs, [num_chunks: Int, remaining_packets: Int])
        /\ n.remaining_sz \in Tables(PacketKeys, Nat \ {0}) /\ n.zombies \in SUBSET PacketKeys
    BY <1>10, <1>13, <1>14 DEF RankTable, RankEntry, LeftTable
  <2>. QED
    BY <1>1, <1>10, <2>1, <2>2, Zenon DEF TermOK
<1>16. SendEvents(o.sent) = {} /\ IdleTokens(o.sent) = {}
  BY <1>3, <1>5 DEF SendEvents, IdleTokens
<1>17. e \notin SendEvents(F) /\ e \notin IdleTokens(F)
  BY DEF SendEvents, IdleTokens
<1>18. ASSUME NEW G, SendEvents(G) = (SendEvents(F) \ {e}) \cup SendEvents(o.sent),
              IdleTokens(G) = (IdleTokens(F) \ {e}) \cup IdleTokens(o.sent)
       PROVE  TermLoops(n, G)
  <2>1. SendEvents(G) = SendEvents(F) /\ IdleTokens(G) = IdleTokens(F)
    BY <1>16, <1>17, <1>18
  <2>2. /\ n.sched = s.sched /\ n.in_sched_loop = s.in_sched_loop
        /\ n.terminal_msgs = s.terminal_msgs /\ n.vc_occupancy = s.vc_occupancy
        /\ n.in_send_loop = s.in_send_loop /\ n.issueIdle = s.issueIdle
    BY <1>10, Zenon DEF Others, TermFields
  <2>. QED
    BY <1>1, <2>1, <2>2, Zenon DEF TermLoops, get_next_vcg_fails
<1>20. \A h \in o.sent : EventOK(h) /\ (h.type \in LoopTypes => h.type # "R_SEND" /\ h.to = t)
  BY <1>3, <1>5 DEF LoopTypes
<1>21. /\ SendEvents(o.sent) \cap SendEvents(F) \subseteq {e}
       /\ IdleTokens(o.sent) \cap IdleTokens(F) \subseteq {e}
  BY <1>16
<1>19. ASSUME NEW en, NEW z, en.ev = e, en.rc = o.rc, TermOK(t, z), SameTerm(z, n)
       PROVE  TermOK(t, reverse(z, en)) /\ SameTerm(reverse(z, en), s)
  <2> DEFINE rc == en.rc
             more == LeftBefore(z.remaining_sz, key, rc.c28, rc.c29)
             ws == IF rc.c14 THEN z.zombies \cup {key} ELSE z.zombies
             found == IF rc.c7 THEN rc.popped ELSE z.rank_tbl[c.msg]
             e2 == CountDown(found, IF rc.c13 THEN 1 ELSE 0)
             T2 == IF rc.c5 THEN Without(z.rank_tbl, c.msg) ELSE With(z.rank_tbl, c.msg, e2)
             b == [z EXCEPT !.remaining_sz = more, !.zombies = ws]
             r == IF rc.c15 THEN b ELSE [b EXCEPT !.rank_tbl = T2]
  <2>1. reverse(z, en) = packet_arrive_rc(z, en)
    BY <1>19, Zenon DEF reverse
  <2>2. en.ev.chunk = c
    BY <1>19
  <2>3. packet_arrive_rc(z, en) = r
    BY <2>2, ZenonT(30) DEF packet_arrive_rc, LeftBefore, CountDown, key
  <2>4. /\ rc.c28 = has /\ rc.c29 = (has = completed) /\ rc.c14 = (is_zombie /\ completed)
        /\ rc.c15 = is_zombie /\ rc.c5 = (c.msg \notin DOMAIN s.rank_tbl)
        /\ rc.c13 = completed /\ rc.c7 = done /\ rc.popped = entry
    BY <1>4, <1>19
  <2>5. TermShape(z) /\ DOMAIN z = TermFields /\ z.remaining_sz \in LeftTable
    BY <1>19, TermDomain, Zenon DEF TermOK, LeftTable
  <2>6. /\ Others({"remaining_sz"}, z, n) /\ z.zombies = zs /\ z.rank_tbl = ranks
        /\ ChunksLeft(z.remaining_sz) = ChunksLeft(rest)
    BY <1>10, <1>19, SameOthers, Zenon DEF SameTerm, SameButLeft
  <2>7. more \in LeftTable /\ ChunksLeft(more) = ChunksLeft(s.remaining_sz)
    <3> DEFINE R == s.remaining_sz
               Z == z.remaining_sz
               c28 == rc.c28
               c29 == rc.c29
    <3>1. /\ R \in LeftTable /\ key \in PacketKeys /\ left \in Nat /\ Z \in LeftTable
          /\ key \in DOMAIN R => left = IF R[key] <= ChunkSize THEN 0 ELSE R[key] - ChunkSize
          /\ ChunksLeft(Z) = ChunksLeft(LeftAfter(R, key, left))
          /\ c28 = (key \in DOMAIN R) /\ c29 = ((key \in DOMAIN R) = (left = 0))
      BY <1>1, <1>6, <1>8, <2>4, <2>5, <2>6
    <3> HIDE DEF R, Z, c28, c29
    <3>2. LeftBefore(Z, key, c28, c29) \in LeftTable /\ ChunksLeft(LeftBefore(Z, key, c28, c29)) = ChunksLeft(R)
      BY <3>1, LeftBack
    <3>. QED
      BY <3>2 DEF R, Z, c28, c29
  <2>8. ws = s.zombies
    BY <2>4, <2>6
  <2>9. ~is_zombie => T2 = s.rank_tbl
    <3>1. SUFFICES ASSUME ~is_zombie PROVE T2 = s.rank_tbl
      OBVIOUS
    <3> DEFINE U == z.rank_tbl
               T == s.rank_tbl
               m == c.msg
    <3>2. U = IF done THEN Without(T, m) ELSE With(T, m, CountUp(old, d))
      BY <2>6, <3>1 DEF entry
    <3>3. found = IF done THEN CountUp(old, d) ELSE U[m]
      BY <2>4, Zenon DEF entry
    <3>4. e2 = CountDown(found, d)
      BY <2>4, Zenon DEF d
    <3>5. T2 = IF m \notin DOMAIN T THEN Without(U, m) ELSE With(U, m, CountDown(found, d))
      BY <2>4, <3>4, Zenon
    <3>6. T \in RankTable /\ m \in Msgs /\ old = IF m \in DOMAIN T THEN T[m] ELSE NewEntry(m)
      BY <1>1, <1>6
    <3> HIDE DEF T2, e2, found, done, old, U, T, m
    <3>7. T2 = T
      BY <1>11, <3>2, <3>3, <3>5, <3>6, RankBack
    <3>. QED
      BY <3>7 DEF T
  <2>10. /\ TermShape(r) /\ r.remaining_sz = more /\ r.zombies = ws
         /\ r.rank_tbl = (IF rc.c15 THEN z.rank_tbl ELSE T2) /\ Others(K, r, z)
    <3> HIDE DEF more, ws, T2
    <3>1. /\ TermShape(b) /\ DOMAIN b = TermFields /\ b.remaining_sz = more /\ b.zombies = ws
          /\ b.rank_tbl = z.rank_tbl /\ Others({"remaining_sz", "zombies"}, b, z)
      BY <2>5, Zenon DEF TermFields, TermShape, Others
    <3> HIDE DEF b
    <3>2. CASE rc.c15
      BY <3>1, <3>2, Zenon DEF Others
    <3>3. CASE ~rc.c15
      <4> DEFINE q == [b EXCEPT !.rank_tbl = T2]
      <4>1. /\ TermShape(q) /\ q.rank_tbl = T2 /\ q.remaining_sz = b.remaining_sz
            /\ q.zombies = b.zombies /\ Others({"rank_tbl"}, q, b)
        BY <3>1, Zenon DEF TermFields, TermShape, Others
      <4>2. r = q
        BY <3>3
      <4> HIDE DEF q, r
      <4>. QED
        BY <3>1, <3>3, <4>1, <4>2, Zenon DEF Others
    <3>. QED
      BY <3>2, <3>3
  <2> HIDE DEF r, more, ws, T2
  <2>11. r.rank_tbl = s.rank_tbl
    BY <2>4, <2>6, <2>9, <2>10, Zenon
  <2>12. Others({"remaining_sz"}, r, s)
    BY <1>10, <2>6, <2>8, <2>10, <2>11, Zenon DEF Others
  <2>. QED
    BY <1>1, <2>1, <2>3, <2>7, <2>10, <2>12, TermBackLeft
<1> HIDE DEF o
<1>. QED
  BY <1>2, <1>15, <1>18, <1>19, <1>20, <1>21, TermHandler DEF o

-----------------------------------------------------------------------------
(* Ports of routers.                                                       *)

LEMMA PortFacts ==
  ASSUME NEW r \in Routers, NEW p \in Ports(r)
  PROVE  /\ p \in PortType /\ p.kind \in Kinds
         /\ p.kind = "TERMINAL" => p.to \in Terminals
         /\ p.kind # "TERMINAL" => p.to \in Routers
<1>1. CASE p \in local_conns(r)
  BY <1>1 DEF local_conns, Conn, PortType, Kinds, Lps
<1>2. CASE p \in {Conn("GLOBAL", l[2]) : l \in {l \in Global : l[1] = r}}
  <2>1. PICK l \in Global : p = Conn("GLOBAL", l[2])
    BY <1>2
  <2>2. l[2] \in Routers
    BY RouteAssumption
  <2>. QED
    BY <2>1, <2>2 DEF Conn, PortType, Kinds, Lps
<1>3. CASE p \in {Conn("TERMINAL", t) : t \in {t \in Terminals : RouterOf[t] = r}}
  BY <1>3 DEF Conn, PortType, Kinds, Lps
<1>. QED
  BY <1>1, <1>2, <1>3 DEF Ports

LEMMA SeqOfMore ==
  ASSUME NEW S, NEW T, S \subseteq T, NEW q \in Seq(S)
  PROVE  q \in Seq(T)
<1>1. Len(q) \in Nat /\ q \in [1 .. Len(q) -> S]
  BY LenProperties
<1>. QED
  BY <1>1

LEMMA PendingSet ==
  ASSUME NEW r, NEW p, NEW f \in Pendings(r, p), NEW c \in Chans,
         NEW x \in Seq(LeavingChunk(r, p, c))
  PROVE  [f EXCEPT ![c] = x] \in Pendings(r, p)
<1>1. x \in Seq(ChunkType)
  BY SeqOfMore DEF LeavingChunk
<1>. QED
  BY <1>1 DEF Pendings

LEMMA QueuedSet ==
  ASSUME NEW r, NEW p, NEW f \in Queueds(r, p), NEW c \in Chans,
         NEW x \in Seq(WaitingChunk(r, p, c))
  PROVE  [f EXCEPT ![c] = x] \in Queueds(r, p)
<1>1. x \in Seq(ChunkType)
  BY SeqOfMore DEF LeavingChunk, WaitingChunk
<1>. QED
  BY <1>1 DEF Queueds

\* setting a channel and setting it back
LEMMA SetBack ==
  ASSUME NEW V, NEW f, f \in [Chans -> V], NEW c, c \in Chans, NEW x, NEW y, y = f[c],
         NEW g, g = [f EXCEPT ![c] = x], NEW h, h = [g EXCEPT ![c] = y]
  PROVE  h = f
  OBVIOUS

PortOthers(K, a, b) == \A k \in PortFields \ K : a[k] = b[k]

LEMMA PortDomain ==
  ASSUME NEW s, PortShape(s)
  PROVE  DOMAIN s = PortFields
<1>1. DOMAIN s = DOMAIN [k \in PortFields |-> s[k]]
  BY Zenon DEF PortShape
<1>. QED
  BY <1>1, Zenon

LEMMA PortEqual ==
  ASSUME NEW a, NEW b, PortShape(a), PortShape(b), PortOthers({}, a, b)
  PROVE  a = b
<1>1. \A k \in PortFields : a[k] = b[k]
  BY DEF PortOthers
<1>2. [k \in PortFields |-> a[k]] = [k \in PortFields |-> b[k]]
  BY <1>1, Zenon
<1>. QED
  BY <1>2, Zenon DEF PortShape

\* a router, its loop events and an event it is about to process
RouterReady(r, s, F, e) ==
  /\ r \in Routers /\ RouterOK(r, s)
  /\ \A p \in Ports(r) : PortLoops(p, s[p], F)
  /\ \A f \in F : f.type = "R_SEND" /\ f.to = r
  /\ EventOK(e) /\ e.to = r
  /\ e.type \in LoopTypes => e \in F

PortSends(r, p, sent) ==
  \A f \in sent : f.type \in LoopTypes => f.type = "R_SEND" /\ f.to = r /\ f.port = p
RouterLoopSet(r, F) == \A f \in F : f.type = "R_SEND" /\ f.to = r

\* a router's handler, which changes port p only, does what a handler must do
LEMMA RouterHandler ==
  ASSUME NEW r, NEW s, NEW F, NEW e, RouterReady(r, s, F, e), NEW o,
         NEW p \in Ports(r), NEW q, o.ns = [s EXCEPT ![p] = q], PortOK(r, p, q),
         \A f \in o.sent : EventOK(f), PortSends(r, p, o.sent),
         e.type \in LoopTypes => e.port = p,
         PortEvents(o.sent, p) \cap PortEvents(F, p) \subseteq {e},
         \A G : PortEvents(G, p) = (PortEvents(F, p) \ {e}) \cup PortEvents(o.sent, p)
                => PortLoops(p, q, G),
         \A en, z : en.ev = e /\ en.rc = o.rc /\ z[p] = q => reverse(z, en) = [z EXCEPT ![p] = s[p]]
  PROVE  HandlerOK(r, s, F, e, o)
<1> DEFINE G == (F \ {e}) \cup LoopEvents(o.sent, r)
           n == [s EXCEPT ![p] = q]
<1>1. /\ r \in Routers /\ RouterOK(r, s) /\ e.to = r
      /\ \A d \in Ports(r) : PortLoops(d, s[d], F)
      /\ RouterLoopSet(r, F) /\ (e.type \in LoopTypes => e \in F)
  BY Zenon DEF RouterReady, RouterLoopSet
<1>2. r \notin Terminals
  BY <1>1, RouteAssumption
<1>3. /\ s = [d \in Ports(r) |-> s[d]]
      /\ \A d \in Ports(r) : PortOK(r, d, s[d])
  BY <1>1, Zenon DEF RouterOK
<1>4. /\ n = [d \in Ports(r) |-> n[d]] /\ n[p] = q
      /\ \A d \in Ports(r) : d # p => n[d] = s[d]
  BY <1>3
<1>5. /\ PortEvents(G, p) = (PortEvents(F, p) \ {e}) \cup PortEvents(o.sent, p)
      /\ \A d : d # p => PortEvents(G, d) = PortEvents(F, d)
      /\ F = (G \ o.sent) \cup LoopEvents({e}, r)
  <2>1. G = (F \ {e}) \cup LoopEvents(o.sent, r)
    OBVIOUS
  <2>2. PortSends(r, p, o.sent) /\ (e.type \in LoopTypes => e.port = p)
        /\ PortEvents(o.sent, p) \cap PortEvents(F, p) \subseteq {e}
    OBVIOUS
  <2> DEFINE sent == o.sent
  <2> HIDE DEF G, sent
  <2>3. /\ PortEvents(G, p) = (PortEvents(F, p) \ {e}) \cup PortEvents(sent, p)
        /\ \A d : d # p => PortEvents(G, d) = PortEvents(F, d)
        /\ F = (G \ sent) \cup LoopEvents({e}, r)
    <3>1. /\ G = (F \ {e}) \cup LoopEvents(sent, r) /\ PortSends(r, p, sent)
          /\ PortEvents(sent, p) \cap PortEvents(F, p) \subseteq {e}
      BY <2>1, <2>2 DEF sent
    <3>2. /\ RouterLoopSet(r, F) /\ e.to = r
          /\ e.type \in LoopTypes => e \in F /\ e.port = p
      BY <1>1, <2>2
    <3>3. PortEvents(G, p) = (PortEvents(F, p) \ {e}) \cup PortEvents(sent, p)
      BY ONLY <3>1, <3>2 DEF PortEvents, LoopEvents, LoopTypes, RouterLoopSet, PortSends
    <3>4. ASSUME NEW d, d # p PROVE PortEvents(G, d) = PortEvents(F, d)
      BY ONLY <3>1, <3>2, <3>4 DEF PortEvents, LoopEvents, LoopTypes, RouterLoopSet, PortSends
    <3>5. F = (G \ sent) \cup LoopEvents({e}, r)
      BY ONLY <3>1, <3>2 DEF PortEvents, LoopEvents, LoopTypes, RouterLoopSet, PortSends
    <3>. QED
      BY <3>3, <3>4, <3>5
  <2>. QED
    BY <2>3 DEF sent
<1>6. StateOK(r, o.ns)
  <2> HIDE DEF n
  <2>1. RouterOK(r, n)
    BY <1>3, <1>4, Zenon DEF RouterOK
  <2>. QED
    BY <1>2, <2>1, Zenon DEF StateOK, n
<1> HIDE DEF G
<1>7. LoopsOK(r, o.ns, G)
  <2> HIDE DEF n
  <2>1. ASSUME NEW d \in Ports(r) PROVE PortLoops(d, n[d], G)
    <3>1. CASE d = p
      BY <1>4, <1>5, <3>1, Zenon
    <3>2. CASE d # p
      <4>1. n[d] = s[d] /\ PortEvents(G, d) = PortEvents(F, d) /\ PortLoops(d, s[d], F)
        BY <1>1, <1>4, <1>5, <3>2, Zenon
      <4>. QED
        BY <4>1, Zenon DEF PortLoops
    <3>. QED
      BY <3>1, <3>2
  <2>. QED
    BY <1>2, <2>1, Zenon DEF LoopsOK, n
<1>8. ASSUME NEW en, NEW z, en.ev = e, en.rc = o.rc, StateOK(r, z),
             InChunks(r, z) = InChunks(r, o.ns)
      PROVE  StateOK(r, reverse(z, en)) /\ InChunks(r, reverse(z, en)) = InChunks(r, s)
  <2>1. z = n
    BY <1>2, <1>8, Zenon DEF InChunks
  <2>2. reverse(z, en) = [z EXCEPT ![p] = s[p]]
    BY <1>4, <1>8, <2>1, Zenon
  <2>3. [n EXCEPT ![p] = s[p]] = s
    BY <1>3
  <2>4. reverse(z, en) = s
    BY <2>1, <2>2, <2>3, Zenon
  <2>. QED
    BY <1>1, <1>2, <2>4, Zenon DEF StateOK, InChunks
<1>9. \A f \in o.sent : EventOK(f) /\ (f.type \in LoopTypes => f.to = r)
  BY Zenon DEF PortSends
<1>. QED
  BY <1>5, <1>6, <1>7, <1>8, <1>9, Zenon DEF HandlerOK, G

-----------------------------------------------------------------------------
(* What routers send, and where routing leads.                             *)

LEMMA HopFacts ==
  ASSUME NEW r \in Routers, NEW m, NEW port, NEW chan, OnWay(r, m, port, chan),
         NEW n \in NextHops(Algorithm, r, m)
  PROVE  /\ n.conn \in Ports(r) /\ n.chan \in Chans
         /\ n.msg \in Walk!Route /\ n.msg.last_hop = m.last_hop
         /\ n.conn.to \in Routers => OnWay(n.conn.to, Hop(n.msg, n.conn.kind), n.conn, n.chan)
         /\ ChannelRank(port, chan) < ChannelRank(n.conn, n.chan)
<1> DEFINE h == HopAt(port, chan)
<1>1. m \in Walk!Route /\ Algorithm \in Algorithms /\ n \in Walk!NextHops(Algorithm, r, m)
  BY NetAssumption, SameHops DEF OnWay
<1>2. Algorithm \in Walk!Algorithms
  BY <1>1 DEF Algorithms, Walk!Algorithms
<1>3. h \in Walk!HopType /\ Walk!Stage(Algorithm, r, m, h)
  BY DEF OnWay
<1> HIDE DEF h
<1>10. Walk!HopOf(n) = HopAt(n.conn, n.chan)
  BY Zenon DEF Walk!HopOf, HopAt
<1>4. Walk!HopOK(Algorithm, h, n)
  BY <1>1, <1>2, <1>3, Walk!EveryHop, WalkAssumptions
<1>5. n.conn \in Walk!PortsOf(r) /\ n.msg \in Walk!Route /\ n.msg.last_hop = m.last_hop
  BY <1>1, <1>2, Walk!EveryStop, WalkAssumptions
<1>6. Walk!PortsOf(r) = Ports(r)
  BY Zenon DEF Walk!PortsOf, Ports, local_conns, Walk!local_conns, Conn, Walk!Conn
<1>7. Walk!HopOf(n) \in Walk!HopType
  BY <1>4 DEF Walk!HopOK
<1>8. n.chan \in Chans
  BY <1>7 DEF Walk!HopOf, Walk!HopType, Chans
<1>9. ASSUME n.conn.to \in Routers PROVE OnWay(n.conn.to, Hop(n.msg, n.conn.kind), n.conn, n.chan)
  <2>1. n.conn.kind # "TERMINAL"
    BY <1>5, <1>6, <1>9, PortFacts, RouteAssumption
  <2>2. Walk!MsgOf(n) = Hop(n.msg, n.conn.kind)
    BY <2>1, Zenon DEF Walk!MsgOf, Walk!Hop, Hop
  <2>. QED
    BY <1>4, <1>7, <1>9, <1>10, <2>2, Zenon DEF Walk!HopOK, OnWay
<1>11. Walk!Rank(Walk!HopOf(n)) > Walk!Rank(h)
  BY <1>4, Zenon DEF Walk!HopOK
<1>12. Walk!Rank(h) \in Int /\ Walk!Rank(Walk!HopOf(n)) \in Int
  <2>1. \A k \in Walk!HopType : Walk!Rank(k) \in Int
    BY NetAssumption DEF Walk!HopType, Walk!Rank
  <2>. QED
    BY <1>3, <1>7, <2>1
<1>13. ChannelRank(port, chan) < ChannelRank(n.conn, n.chan)
  <2> DEFINE a == Walk!Rank(h)
             b == Walk!Rank(Walk!HopOf(n))
  <2> HIDE DEF a, b
  <2>1. a < b
    BY <1>11, <1>12 DEF a, b
  <2>2. a = ChannelRank(port, chan) /\ b = ChannelRank(n.conn, n.chan)
    BY <1>10, Zenon DEF a, b, h, ChannelRank
  <2>. QED
    BY <2>1, <2>2
<1>. QED
  BY <1>5, <1>6, <1>8, <1>9, <1>13

LEMMA CreditOK ==
  ASSUME NEW k \in ChunkType, NEW port, NEW chan, Upstream(k, port, chan), NEW now \in Nat
  PROVE  LET f == router_credit_send(now, k, port, chan)
         IN  EventOK(f) /\ f.type \notin LoopTypes
<1>1. CASE k.rt.last_hop = "TERMINAL"
  <2> DEFINE ts == now + CreditDelay["TERMINAL"]
             by == By("injected", k)
  <2>1. ts \in Nat /\ k.from \in Terminals
    BY <1>1, SizeFacts DEF Upstream
  <2>2. router_credit_send(now, k, port, chan) = TBufferEvent(k.from, ts, by)
    BY <1>1 DEF router_credit_send
  <2> HIDE DEF ts, by
  <2>. QED
    BY <2>1, <2>2 DEF TBufferEvent, EventOK, TermEvents, RouterEvents, LoopTypes
<1>2. CASE k.rt.last_hop # "TERMINAL"
  <2> DEFINE ts == now + CreditDelay[k.rt.last_hop]
             by == By("moved", k)
  <2>1. k.from \in Routers /\ port \in Ports(k.from) /\ chan \in Chans /\ port.kind = k.rt.last_hop
    BY <1>2 DEF Upstream
  <2>2. ts \in Nat
    BY <2>1, PortFacts, SizeFacts
  <2>3. router_credit_send(now, k, port, chan) = RBufferEvent(k.from, ts, port, chan, by)
    BY <1>2 DEF router_credit_send
  <2> HIDE DEF ts, by
  <2>. QED
    BY <2>1, <2>2, <2>3 DEF RBufferEvent, EventOK, TermEvents, RouterEvents, LoopTypes
<1>. QED
  BY <1>1, <1>2

LEMMA RSendOK ==
  ASSUME NEW r \in Routers, NEW p \in Ports(r), NEW ts \in Nat, NEW by
  PROVE  LET f == RSendEvent(r, ts, p, by)
         IN  EventOK(f) /\ f.type = "R_SEND" /\ f.to = r /\ f.port = p
  BY DEF RSendEvent, EventOK, TermEvents, RouterEvents

LEMMA PortLoopFacts ==
  ASSUME NEW r, NEW s, NEW F, NEW e, RouterReady(r, s, F, e), NEW p \in Ports(r)
  PROVE  /\ PortOK(r, p, s[p]) /\ PortShape(s[p]) /\ DOMAIN s[p] = PortFields
         /\ PortLoops(p, s[p], F)
<1>1. PortOK(r, p, s[p]) /\ PortLoops(p, s[p], F)
  BY Zenon DEF RouterReady, RouterOK
<1>2. PortShape(s[p])
  BY <1>1, Zenon DEF PortOK
<1>. QED
  BY <1>1, <1>2, PortDomain

LEMMA MaxNat ==
  ASSUME NEW a \in Nat, NEW b \in Nat
  PROVE  MaxOf(a, b) \in Nat /\ MaxOf(a, b) >= a /\ MaxOf(a, b) >= b
  BY DEF MaxOf

\* a chunk put at the end of a queue, and taken back
LEMMA EndOfQueue ==
  ASSUME NEW S, NEW q, q \in Seq(S), NEW x, x \in S
  PROVE  /\ Append(q, x) \in Seq(S) /\ Append(q, x) # << >>
         /\ AllButLast(Append(q, x)) = q
         /\ Append(q, x)[Len(Append(q, x))] = x
<1>1. /\ Append(q, x) \in Seq(S) /\ Len(Append(q, x)) = Len(q) + 1 /\ Len(q) \in Nat
      /\ Append(q, x)[Len(q) + 1] = x
  BY AppendProperties, LenProperties
<1>2. Append(q, x) # << >>
  BY <1>1, EmptySeq
<1>3. SchedP!AllButLast(Append(q, x)) = q
  BY SchedP!PopBackAppend, SchedAssumptions
<1>4. AllButLast(Append(q, x)) = q
  BY <1>3, Zenon DEF AllButLast, SchedP!AllButLast
<1>. QED
  BY <1>1, <1>2, <1>4

\* the first chunk of a queue taken, and put back
LEMMA FrontOfQueue ==
  ASSUME NEW S, NEW q, q \in Seq(S), q # << >>
  PROVE  Head(q) \in S /\ Tail(q) \in Seq(S) /\ <<Head(q)>> \o Tail(q) = q
  BY SchedP!ConsHeadTail, SchedAssumptions, HeadTailProperties

-----------------------------------------------------------------------------
(* router_packet_receive.                                                  *)

\* chunk c with the hop n that routing chose
Routed(c, n) == [c EXCEPT !.rt = n.msg, !.port = n.conn, !.chan = n.chan]
Waiting(c, n) == [Routed(c, n) EXCEPT !.saved_port = c.port, !.saved_chan = c.chan]

LEMMA RoutedChunk ==
  ASSUME NEW r \in Routers, NEW c \in ChunkType, OnWay(r, c.rt, c.port, c.chan),
         Upstream(c, c.port, c.chan),
         NEW n \in NextHops(Algorithm, r, c.rt)
  PROVE  /\ Routed(c, n) \in LeavingChunk(r, n.conn, n.chan)
         /\ Waiting(c, n) \in WaitingChunk(r, n.conn, n.chan)
<1>1. /\ n.conn \in Ports(r) /\ n.chan \in Chans
      /\ n.msg \in Walk!Route /\ n.msg.last_hop = c.rt.last_hop
      /\ n.conn.to \in Routers => OnWay(n.conn.to, Hop(n.msg, n.conn.kind), n.conn, n.chan)
      /\ ChannelRank(c.port, c.chan) < ChannelRank(n.conn, n.chan)
  BY HopFacts
<1>2. n.conn \in PortType /\ n.chan \in Nat
  BY <1>1, PortFacts, NetAssumption DEF Chans
<1> DEFINE a == Routed(c, n)
           b == Waiting(c, n)
<1>3. /\ a \in ChunkType /\ a.port = n.conn /\ a.chan = n.chan /\ a.rt = n.msg /\ a.from = c.from
  BY <1>1, <1>2 DEF Routed, ChunkType
<1>4. c.port \in PortType /\ c.chan \in Nat
  BY DEF ChunkType
<1>5. b = [a EXCEPT !.saved_port = c.port, !.saved_chan = c.chan]
  BY DEF Waiting
<1> HIDE DEF a, b
<1>6. /\ b \in ChunkType /\ b.port = a.port /\ b.chan = a.chan /\ b.rt = a.rt /\ b.from = a.from
      /\ b.saved_port = c.port /\ b.saved_chan = c.chan
  BY <1>3, <1>4, <1>5 DEF ChunkType
<1>7. a \in LeavingChunk(r, n.conn, n.chan)
  BY <1>1, <1>3 DEF LeavingChunk
<1>8. b \in LeavingChunk(r, n.conn, n.chan)
  BY <1>1, <1>3, <1>6 DEF LeavingChunk
<1>9. Upstream(b, b.saved_port, b.saved_chan)
  BY <1>1, <1>3, <1>6 DEF Upstream
<1>. QED
  BY <1>1, <1>6, <1>7, <1>8, <1>9 DEF WaitingChunk, a, b

LEMMA ReceiveFits ==
  ASSUME NEW r, NEW s, NEW F, NEW e, RouterReady(r, s, F, e), e.type = "R_ARRIVE",
         NEW n \in NextHops(Algorithm, e.to, e.chunk.rt),
         s[n.conn].vc_occupancy[n.chan] + ChunkSize <= VcSize[n.conn.kind]
  PROVE  HandlerOK(r, s, F, e, router_packet_receive(s, e, n))
<1> DEFINE o == router_packet_receive(s, e, n)
           c == e.chunk
           P == n.conn
           ch == n.chan
           p == s[P]
           new == Routed(c, n)
           wake == ~p.in_send_loop
           pend == [p.pending EXCEPT ![ch] = Append(p.pending[ch], new)]
           occ == [p.vc_occupancy EXCEPT ![ch] = p.vc_occupancy[ch] + ChunkSize]
           q == [p EXCEPT !.pending = pend, !.vc_occupancy = occ, !.in_send_loop = TRUE]
           g == router_credit_send(e.ts, c, c.port, c.chan)
           f == RSendEvent(e.to, MaxOf(p.next_available, e.ts), n.conn, By("receive", c))
           K == {"pending", "vc_occupancy", "in_send_loop"}
<1>1. /\ r \in Routers /\ EventOK(e) /\ e.to = r /\ e.ts \in Nat
      /\ c \in ChunkType /\ OnWay(r, c.rt, c.port, c.chan) /\ Upstream(c, c.port, c.chan)
  BY DEF RouterReady, EventOK
<1>2. P \in Ports(r) /\ ch \in Chans
  BY <1>1, HopFacts
<1>3. PortOK(r, P, p) /\ PortShape(p) /\ DOMAIN p = PortFields /\ PortLoops(P, p, F)
  BY <1>2, PortLoopFacts
<1>4. /\ p.pending \in Pendings(r, P) /\ p.queued \in Queueds(r, P)
      /\ p.vc_occupancy \in [Chans -> Int] /\ p.queued_count \in Int
      /\ p.in_send_loop \in BOOLEAN /\ p.last_buf_full \in Nat /\ p.busy_time \in Int
      /\ p.next_available \in Nat /\ p.last_qos_lvl \in Int /\ p.link_traffic \in Int
  BY <1>3, Zenon DEF PortOK
<1>5. o.ns = [s EXCEPT ![P] = q]
  <2>1. (s[n.conn].vc_occupancy[n.chan] + ChunkSize <= VcSize[n.conn.kind]) = TRUE
    OBVIOUS
  <2>. QED
    BY <2>1, Zenon DEF router_packet_receive, Outcome, Routed
<1>6. o.sent = {g} \cup (IF wake THEN {f} ELSE {})
  BY DEF router_packet_receive, Outcome
<1>7. /\ o.rc.c2 = TRUE /\ o.rc.c3 = wake /\ o.rc.saved_vc = P /\ o.rc.saved_channel = ch
  BY DEF router_packet_receive, Outcome
<1>8. new \in LeavingChunk(r, P, ch)
  BY <1>1, RoutedChunk
<1>9. EventOK(g) /\ g.type \notin LoopTypes
  BY <1>1, CreditOK
<1>10. EventOK(f) /\ f.type = "R_SEND" /\ f.to = r /\ f.port = P
  <2> DEFINE ts == MaxOf(p.next_available, e.ts)
             by == By("receive", c)
  <2>1. ts \in Nat
    BY <1>1, <1>4, MaxNat
  <2> HIDE DEF ts, by
  <2>2. LET h == RSendEvent(r, ts, P, by) IN EventOK(h) /\ h.type = "R_SEND" /\ h.to = r /\ h.port = P
    BY <1>1, <1>2, <2>1, RSendOK
  <2>. QED
    BY <1>1, <2>2 DEF ts, by
<1> HIDE DEF o, c, new, g, f
<1>11. p.pending[ch] \in Seq(LeavingChunk(r, P, ch)) /\ p.pending \in [Chans -> Seq(ChunkType)]
  BY <1>2, <1>4 DEF Pendings
<1>12. /\ Append(p.pending[ch], new) \in Seq(LeavingChunk(r, P, ch))
       /\ AllButLast(Append(p.pending[ch], new)) = p.pending[ch]
  BY <1>8, <1>11, EndOfQueue
<1>13. pend \in Pendings(r, P)
  BY <1>2, <1>4, <1>12, PendingSet
<1>14. ChunkSize \in Nat \ {0}
  BY SizeFacts
<1>15. occ \in [Chans -> Int] /\ \A d \in Chans : occ[d] >= p.vc_occupancy[d]
  BY <1>2, <1>4, <1>14
<1>16. /\ PortShape(q) /\ DOMAIN q = PortFields /\ q.pending = pend /\ q.vc_occupancy = occ
       /\ q.in_send_loop = TRUE /\ PortOthers(K, q, p)
  <2> HIDE DEF pend, occ, p
  <2>. QED
    BY <1>3, Zenon DEF PortFields, PortShape, PortOthers
<1>17. /\ q.queued = p.queued /\ q.queued_count = p.queued_count
       /\ q.last_buf_full = p.last_buf_full /\ q.busy_time = p.busy_time
       /\ q.next_available = p.next_available /\ q.last_qos_lvl = p.last_qos_lvl
       /\ q.link_traffic = p.link_traffic
  BY <1>16, Zenon DEF PortOthers, PortFields
<1> HIDE DEF q
<1>18. PortOK(r, P, q)
  BY <1>4, <1>13, <1>15, <1>16, <1>17, Zenon DEF PortOK
<1>19. PortEvents(o.sent, P) = IF wake THEN {f} ELSE {}
  BY <1>6, <1>9, <1>10 DEF PortEvents, LoopTypes
<1>20. e \notin PortEvents(F, P) /\ e.type \notin LoopTypes
  BY DEF PortEvents, LoopTypes
<1>21. wake => PortEvents(F, P) = {}
  BY <1>3, Zenon DEF PortLoops, NoneOrOne
<1>22. ASSUME NEW G, PortEvents(G, P) = (PortEvents(F, P) \ {e}) \cup PortEvents(o.sent, P)
       PROVE  PortLoops(P, q, G)
  <2>1. PortEvents(G, P) = IF wake THEN {f} ELSE PortEvents(F, P)
    BY <1>19, <1>20, <1>21, <1>22
  <2>2. NoneOrOne(PortEvents(G, P), q.in_send_loop)
    BY <1>3, <1>16, <2>1, Zenon DEF PortLoops, NoneOrOne
  <2>3. ASSUME NEW d \in Chans, q.queued[d] # << >>
        PROVE  q.vc_occupancy[d] + ChunkSize > VcSize[P.kind]
    <3>1. p.vc_occupancy[d] + ChunkSize > VcSize[P.kind]
      BY <1>3, <1>17, <2>3 DEF PortLoops
    <3>2. VcSize[P.kind] \in Nat
      BY <1>1, <1>2, PortFacts, SizeFacts
    <3> HIDE DEF occ, p
    <3>. QED
      BY <1>4, <1>14, <1>15, <1>16, <3>1, <3>2
  <2>. QED
    BY <1>16, <2>2, <2>3, Zenon DEF PortLoops
<1>23. ASSUME NEW en, NEW z, en.ev = e, en.rc = o.rc, z[P] = q
       PROVE  reverse(z, en) = [z EXCEPT ![P] = p]
  <2> DEFINE back == [q EXCEPT !.pending[ch] = AllButLast(@),
                               !.vc_occupancy[ch] = @ - ChunkSize,
                               !.in_send_loop = IF o.rc.c3 THEN FALSE ELSE @]
  <2>1. reverse(z, en) = router_packet_receive_rc(z, en)
    BY <1>23, Zenon DEF reverse
  <2>2. router_packet_receive_rc(z, en) = [z EXCEPT ![P] = back]
    BY <1>7, <1>23, Zenon DEF router_packet_receive_rc
  <2>3. /\ PortShape(back) /\ PortOthers(K, back, q)
        /\ back.pending = [q.pending EXCEPT ![ch] = AllButLast(q.pending[ch])]
        /\ back.vc_occupancy = [q.vc_occupancy EXCEPT ![ch] = q.vc_occupancy[ch] - ChunkSize]
        /\ back.in_send_loop = (IF o.rc.c3 THEN FALSE ELSE q.in_send_loop)
    BY <1>16, Zenon DEF PortFields, PortShape, PortOthers
  <2> HIDE DEF back
  <2>4. back.pending = p.pending
    <3>1. q.pending[ch] = Append(p.pending[ch], new)
      BY <1>2, <1>11, <1>16
    <3>. QED
      <4>1. back.pending = [q.pending EXCEPT ![ch] = p.pending[ch]]
        BY <1>12, <2>3, <3>1, Zenon
      <4> HIDE DEF p, ch
      <4>. QED
        BY <1>2, <1>11, <1>16, <4>1, SetBack
  <2>5. back.vc_occupancy = p.vc_occupancy
    <3>1. q.vc_occupancy[ch] - ChunkSize = p.vc_occupancy[ch]
      BY <1>2, <1>4, <1>14, <1>16
    <3>. QED
      <4>1. back.vc_occupancy = [q.vc_occupancy EXCEPT ![ch] = p.vc_occupancy[ch]]
        BY <2>3, <3>1, Zenon
      <4> HIDE DEF p, ch
      <4>. QED
        BY <1>2, <1>4, <1>16, <4>1, SetBack
  <2>6. back.in_send_loop = p.in_send_loop
    BY <1>4, <1>7, <1>16, <2>3, Zenon
  <2>7. PortOthers({}, back, p)
    BY <1>16, <2>3, <2>4, <2>5, <2>6, Zenon DEF PortOthers
  <2>8. back = p
    BY <1>3, <2>3, <2>7, PortEqual
  <2>. QED
    BY <2>1, <2>2, <2>8, Zenon
<1>24. /\ \A h \in o.sent : EventOK(h)
       /\ PortSends(r, P, o.sent)
  BY <1>6, <1>9, <1>10 DEF PortSends
<1>25. PortEvents(o.sent, P) \cap PortEvents(F, P) \subseteq {e}
  BY <1>19, <1>21
<1> HIDE DEF P, p
<1>. QED
  BY <1>2, <1>5, <1>18, <1>20, <1>22, <1>23, <1>24, <1>25, RouterHandler DEF o, p

LEMMA ReceiveWaits ==
  ASSUME NEW r, NEW s, NEW F, NEW e, RouterReady(r, s, F, e), e.type = "R_ARRIVE",
         NEW n \in NextHops(Algorithm, e.to, e.chunk.rt),
         ~(s[n.conn].vc_occupancy[n.chan] + ChunkSize <= VcSize[n.conn.kind])
  PROVE  HandlerOK(r, s, F, e, router_packet_receive(s, e, n))
<1> DEFINE o == router_packet_receive(s, e, n)
           c == e.chunk
           P == n.conn
           ch == n.chan
           p == s[P]
           new == Waiting(c, n)
           wait == [p.queued EXCEPT ![ch] = Append(p.queued[ch], new)]
           since == IF p.last_buf_full = 0 THEN e.ts ELSE p.last_buf_full
           q == [p EXCEPT !.queued = wait, !.queued_count = p.queued_count + ChunkSize,
                          !.last_buf_full = since]
           K == {"queued", "queued_count", "last_buf_full"}
<1>1. /\ r \in Routers /\ EventOK(e) /\ e.to = r /\ e.ts \in Nat
      /\ c \in ChunkType /\ OnWay(r, c.rt, c.port, c.chan) /\ Upstream(c, c.port, c.chan)
  BY DEF RouterReady, EventOK
<1>2. P \in Ports(r) /\ ch \in Chans
  BY <1>1, HopFacts
<1>3. PortOK(r, P, p) /\ PortShape(p) /\ DOMAIN p = PortFields /\ PortLoops(P, p, F)
  BY <1>2, PortLoopFacts
<1>4. /\ p.pending \in Pendings(r, P) /\ p.queued \in Queueds(r, P)
      /\ p.vc_occupancy \in [Chans -> Int] /\ p.queued_count \in Int
      /\ p.in_send_loop \in BOOLEAN /\ p.last_buf_full \in Nat /\ p.busy_time \in Int
      /\ p.next_available \in Nat /\ p.last_qos_lvl \in Int /\ p.link_traffic \in Int
  BY <1>3, Zenon DEF PortOK
<1>5. o.ns = [s EXCEPT ![P] = q]
  <2>1. (s[n.conn].vc_occupancy[n.chan] + ChunkSize <= VcSize[n.conn.kind]) = FALSE
    OBVIOUS
  <2>. QED
    BY <2>1, Zenon DEF router_packet_receive, Outcome, Routed, Waiting
<1>6. o.sent = {}
  BY DEF router_packet_receive, Outcome
<1>7. /\ ~o.rc.c2 /\ o.rc.c22 = (p.last_buf_full = 0) /\ o.rc.saved_vc = P
      /\ o.rc.saved_channel = ch /\ o.rc.saved_busy_time = p.last_buf_full
  BY DEF router_packet_receive, Outcome
<1>8. new \in WaitingChunk(r, P, ch)
  BY <1>1, RoutedChunk
<1> HIDE DEF o, c, new
<1>11. p.queued[ch] \in Seq(WaitingChunk(r, P, ch)) /\ p.queued \in [Chans -> Seq(ChunkType)]
  BY <1>2, <1>4 DEF Queueds
<1>12. /\ Append(p.queued[ch], new) \in Seq(WaitingChunk(r, P, ch))
       /\ AllButLast(Append(p.queued[ch], new)) = p.queued[ch]
  BY <1>8, <1>11, EndOfQueue
<1>13. wait \in Queueds(r, P)
  BY <1>2, <1>4, <1>12, QueuedSet
<1>14. ChunkSize \in Nat \ {0}
  BY SizeFacts
<1>15. p.queued_count + ChunkSize \in Int /\ since \in Nat
  BY <1>1, <1>4, <1>14
<1>16. /\ PortShape(q) /\ DOMAIN q = PortFields /\ q.queued = wait
       /\ q.queued_count = p.queued_count + ChunkSize
       /\ q.last_buf_full = since /\ PortOthers(K, q, p)
  <2> HIDE DEF wait, since, p
  <2>. QED
    BY <1>3, Zenon DEF PortFields, PortShape, PortOthers
<1>17. /\ q.pending = p.pending /\ q.vc_occupancy = p.vc_occupancy
       /\ q.in_send_loop = p.in_send_loop /\ q.busy_time = p.busy_time
       /\ q.next_available = p.next_available /\ q.last_qos_lvl = p.last_qos_lvl
       /\ q.link_traffic = p.link_traffic
  BY <1>16, Zenon DEF PortOthers, PortFields
<1> HIDE DEF q
<1>18. PortOK(r, P, q)
  <2> HIDE DEF since
  <2>. QED
    BY <1>4, <1>13, <1>15, <1>16, <1>17, Zenon DEF PortOK
<1>20. e \notin PortEvents(F, P) /\ e.type \notin LoopTypes /\ PortEvents(o.sent, P) = {}
  BY <1>6 DEF PortEvents, LoopTypes
<1>22. ASSUME NEW G, PortEvents(G, P) = (PortEvents(F, P) \ {e}) \cup PortEvents(o.sent, P)
       PROVE  PortLoops(P, q, G)
  <2>1. PortEvents(G, P) = PortEvents(F, P)
    BY <1>20, <1>22
  <2>2. /\ NoneOrOne(PortEvents(G, P), q.in_send_loop)
        /\ q.in_send_loop \/ ~HasPending(q)
    BY <1>3, <1>17, <2>1, Zenon DEF PortLoops, HasPending
  <2>3. ASSUME NEW d \in Chans, q.queued[d] # << >>
        PROVE  q.vc_occupancy[d] + ChunkSize > VcSize[P.kind]
    <3>1. CASE d = ch
      <4>1. VcSize[P.kind] \in Nat
        BY <1>1, <1>2, PortFacts, SizeFacts
      <4>. QED
        BY <1>4, <1>14, <1>17, <3>1, <4>1
    <3>2. CASE d # ch
      <4>1. q.queued[d] = p.queued[d]
        BY <1>11, <1>16, <3>2
      <4>. QED
        BY <1>3, <1>17, <2>3, <4>1, Zenon DEF PortLoops
    <3>. QED
      BY <3>1, <3>2
  <2>. QED
    BY <2>2, <2>3, Zenon DEF PortLoops
<1>23. ASSUME NEW en, NEW z, en.ev = e, en.rc = o.rc, z[P] = q
       PROVE  reverse(z, en) = [z EXCEPT ![P] = p]
  <2> DEFINE back == [q EXCEPT !.queued[ch] = AllButLast(@),
                               !.queued_count = @ - ChunkSize,
                               !.last_buf_full = IF o.rc.c22 THEN o.rc.saved_busy_time ELSE @]
  <2>1. reverse(z, en) = router_packet_receive_rc(z, en)
    BY <1>23, Zenon DEF reverse
  <2>2. router_packet_receive_rc(z, en) = [z EXCEPT ![P] = back]
    BY <1>7, <1>23, Zenon DEF router_packet_receive_rc
  <2>3. /\ PortShape(back) /\ PortOthers(K, back, q)
        /\ back.queued = [q.queued EXCEPT ![ch] = AllButLast(q.queued[ch])]
        /\ back.queued_count = q.queued_count - ChunkSize
        /\ back.last_buf_full = (IF o.rc.c22 THEN o.rc.saved_busy_time ELSE q.last_buf_full)
    BY <1>16, Zenon DEF PortFields, PortShape, PortOthers
  <2> HIDE DEF back
  <2>4. back.queued = p.queued
    <3>1. q.queued[ch] = Append(p.queued[ch], new)
      BY <1>2, <1>11, <1>16
    <3>. QED
      <4>1. back.queued = [q.queued EXCEPT ![ch] = p.queued[ch]]
        BY <1>12, <2>3, <3>1, Zenon
      <4> HIDE DEF p, ch
      <4>. QED
        BY <1>2, <1>11, <1>16, <4>1, SetBack
  <2>5. back.queued_count = p.queued_count
    BY <1>4, <1>14, <1>16, <2>3
  <2>6. back.last_buf_full = p.last_buf_full
    BY <1>7, <1>16, <2>3
  <2>7. PortOthers({}, back, p)
    BY <1>16, <2>3, <2>4, <2>5, <2>6, Zenon DEF PortOthers
  <2>8. back = p
    BY <1>3, <2>3, <2>7, PortEqual
  <2>. QED
    BY <2>1, <2>2, <2>8, Zenon
<1>24. /\ \A h \in o.sent : EventOK(h)
       /\ PortSends(r, P, o.sent)
  BY <1>6 DEF PortSends
<1>25. PortEvents(o.sent, P) \cap PortEvents(F, P) \subseteq {e}
  BY <1>20
<1> HIDE DEF P, p
<1>. QED
  BY <1>2, <1>5, <1>18, <1>20, <1>22, <1>23, <1>24, <1>25, RouterHandler DEF o, p

LEMMA ReceiveHandler ==
  ASSUME NEW r, NEW s, NEW F, NEW e, RouterReady(r, s, F, e), e.type = "R_ARRIVE",
         NEW n \in NextHops(Algorithm, e.to, e.chunk.rt)
  PROVE  HandlerOK(r, s, F, e, router_packet_receive(s, e, n))
  BY ReceiveFits, ReceiveWaits, Zenon

-----------------------------------------------------------------------------
(* router_packet_send.                                                     *)

LEMMA ThePortEvent ==
  ASSUME NEW p, NEW s, NEW F, NEW e \in F, PortLoops(p, s, F), e.type = "R_SEND", e.port = p,
         s.in_send_loop \in BOOLEAN
  PROVE  PortEvents(F, p) = {e} /\ s.in_send_loop = TRUE
<1>1. e \in PortEvents(F, p)
  BY DEF PortEvents
<1>2. NoneOrOne(PortEvents(F, p), s.in_send_loop)
  BY DEF PortLoops
<1>3. s.in_send_loop
  BY <1>1, <1>2 DEF NoneOrOne
<1>4. PICK g \in PortEvents(F, p) : PortEvents(F, p) = {g}
  BY <1>2, <1>3 DEF NoneOrOne
<1>. QED
  BY <1>1, <1>3, <1>4

LEMMA SendNoneHandler ==
  ASSUME NEW r, NEW s, NEW F, NEW e, RouterReady(r, s, F, e), e.type = "R_SEND",
         ~HasPending(s[e.port])
  PROVE  HandlerOK(r, s, F, e, router_send_none(s, e))
<1> DEFINE o == router_send_none(s, e)
           P == e.port
           p == s[P]
           c2 == p.queued_count > 0 /\ p.last_buf_full = 0
           since == IF c2 THEN e.ts ELSE p.last_buf_full
           q == [p EXCEPT !.in_send_loop = FALSE, !.last_buf_full = since]
           K == {"in_send_loop", "last_buf_full"}
<1>1. /\ r \in Routers /\ EventOK(e) /\ e.to = r /\ e.ts \in Nat /\ P \in Ports(r) /\ e \in F
  BY DEF RouterReady, EventOK, LoopTypes
<1>3. PortOK(r, P, p) /\ PortShape(p) /\ DOMAIN p = PortFields /\ PortLoops(P, p, F)
  BY <1>1, PortLoopFacts
<1>4. /\ p.pending \in Pendings(r, P) /\ p.queued \in Queueds(r, P)
      /\ p.vc_occupancy \in [Chans -> Int] /\ p.queued_count \in Int
      /\ p.in_send_loop \in BOOLEAN /\ p.last_buf_full \in Nat /\ p.busy_time \in Int
      /\ p.next_available \in Nat /\ p.last_qos_lvl \in Int /\ p.link_traffic \in Int
  BY <1>3, Zenon DEF PortOK
<1>5. o.ns = [s EXCEPT ![P] = q] /\ o.sent = {}
  BY Zenon DEF router_send_none, Outcome
<1>7. /\ o.rc.c1 = TRUE /\ o.rc.c2 = c2 /\ o.rc.saved_send_loop = p.in_send_loop
      /\ o.rc.saved_busy_time = p.last_buf_full
  BY DEF router_send_none, Outcome
<1>8. PortEvents(F, P) = {e} /\ p.in_send_loop = TRUE
  <2> HIDE DEF p
  <2>. QED
    BY <1>1, <1>3, <1>4, ThePortEvent
<1> HIDE DEF o
<1>15. since \in Nat
  BY <1>1, <1>4
<1>16. /\ PortShape(q) /\ DOMAIN q = PortFields /\ q.in_send_loop = FALSE
       /\ q.last_buf_full = since /\ PortOthers(K, q, p)
  <2> HIDE DEF since, p
  <2>. QED
    BY <1>3, Zenon DEF PortFields, PortShape, PortOthers
<1>17. /\ q.pending = p.pending /\ q.vc_occupancy = p.vc_occupancy /\ q.queued = p.queued
       /\ q.queued_count = p.queued_count /\ q.busy_time = p.busy_time
       /\ q.next_available = p.next_available /\ q.last_qos_lvl = p.last_qos_lvl
       /\ q.link_traffic = p.link_traffic
  BY <1>16, Zenon DEF PortOthers, PortFields
<1> HIDE DEF q
<1>18. PortOK(r, P, q)
  <2> HIDE DEF since
  <2>. QED
    BY <1>4, <1>15, <1>16, <1>17, Zenon DEF PortOK
<1>20. PortEvents(o.sent, P) = {}
  BY <1>5 DEF PortEvents
<1>22. ASSUME NEW G, PortEvents(G, P) = (PortEvents(F, P) \ {e}) \cup PortEvents(o.sent, P)
       PROVE  PortLoops(P, q, G)
  <2>1. PortEvents(G, P) = {}
    BY <1>8, <1>20, <1>22
  <2>2. NoneOrOne(PortEvents(G, P), q.in_send_loop)
    BY <1>16, <2>1, Zenon DEF NoneOrOne
  <2>3. ~HasPending(q)
    BY <1>17, Zenon DEF HasPending
  <2>. QED
    BY <1>3, <1>17, <2>2, <2>3, Zenon DEF PortLoops
<1>23. ASSUME NEW en, NEW z, en.ev = e, en.rc = o.rc, z[P] = q
       PROVE  reverse(z, en) = [z EXCEPT ![P] = p]
  <2> DEFINE back == [q EXCEPT !.in_send_loop = o.rc.saved_send_loop,
                               !.last_buf_full = IF o.rc.c2 THEN o.rc.saved_busy_time ELSE @]
  <2>1. reverse(z, en) = router_packet_send_rc(z, en)
    BY <1>23, Zenon DEF reverse
  <2>2. router_packet_send_rc(z, en) = [z EXCEPT ![P] = back]
    BY <1>7, <1>23, Zenon DEF router_packet_send_rc
  <2>3. /\ PortShape(back) /\ PortOthers(K, back, q)
        /\ back.in_send_loop = o.rc.saved_send_loop
        /\ back.last_buf_full = (IF o.rc.c2 THEN o.rc.saved_busy_time ELSE q.last_buf_full)
    BY <1>16, Zenon DEF PortFields, PortShape, PortOthers
  <2> HIDE DEF back
  <2>4. back.in_send_loop = p.in_send_loop
    BY <1>7, <2>3, Zenon
  <2>6. back.last_buf_full = p.last_buf_full
    <3> HIDE DEF c2
    <3>. QED
      BY <1>7, <1>16, <2>3, Zenon
  <2>7. PortOthers({}, back, p)
    BY <1>16, <2>3, <2>4, <2>6, Zenon DEF PortOthers
  <2>8. back = p
    BY <1>3, <2>3, <2>7, PortEqual
  <2>. QED
    BY <2>1, <2>2, <2>8, Zenon
<1>24. /\ \A h \in o.sent : EventOK(h)
       /\ PortSends(r, P, o.sent)
  BY <1>5 DEF PortSends
<1>25. PortEvents(o.sent, P) \cap PortEvents(F, P) \subseteq {e}
  BY <1>20
<1>26. e.port = P
  OBVIOUS
<1> HIDE DEF P, p
<1>. QED
  <2>1. HandlerOK(r, s, F, e, o)
    <3>1. s[P] = p
      BY DEF p
    <3>2. o.ns = [s EXCEPT ![P] = q]
      BY <1>5
    <3>3. \A en, z : en.ev = e /\ en.rc = o.rc /\ z[P] = q => reverse(z, en) = [z EXCEPT ![P] = s[P]]
      BY <1>23, <3>1, Zenon
    <3>. QED
      BY <1>1, <1>18, <1>22, <1>24, <1>25, <1>26, <3>2, <3>3, RouterHandler
  <2>. QED
    BY <2>1 DEF o

\* round robin finds a channel with a chunk
LEMMA NextChannel ==
  ASSUME NEW p, p.last_qos_lvl \in Int, HasPending(p)
  PROVE  get_next_router_vcg(p) \in Chans /\ p.pending[get_next_router_vcg(p)] # << >>
<1> DEFINE Turn(c) == (c - p.last_qos_lvl - 1) % NumVcs
           Full == {c \in Chans : p.pending[c] # << >>}
           T == {Turn(c) : c \in Full}
<1>1. NumVcs \in Nat \ {0}
  BY NetAssumption
<1>2. \A c \in Chans : Turn(c) \in Nat
  <2>1. ASSUME NEW c \in Chans PROVE Turn(c) \in Nat
    <3>1. c - p.last_qos_lvl - 1 \in Int
      BY <1>1 DEF Chans
    <3> DEFINE x == c - p.last_qos_lvl - 1
    <3> HIDE DEF x
    <3>2. x % NumVcs \in 0 .. NumVcs - 1
      BY <1>1, <3>1, Quotient DEF x
    <3>3. x % NumVcs \in Nat
      BY <1>1, <3>2
    <3>. QED
      BY <3>3 DEF x
  <2>. QED
    BY <2>1
<1> HIDE DEF Turn
<1>3. T \in SUBSET Nat /\ T # {}
  BY <1>2 DEF HasPending
<1> HIDE DEF T
<1>4. PICK x \in T : \A y \in T : x <= y
  BY <1>3, SchedP!Smallest, SchedAssumptions
<1>5. PICK c \in Full : Turn(c) = x
  BY DEF T
<1>6. \A d \in Chans : p.pending[d] # << >> => Turn(c) <= Turn(d)
  BY <1>4, <1>5 DEF T
<1> DEFINE First(a) == p.pending[a] # << >> /\ \A d \in Chans : p.pending[d] # << >> => Turn(a) <= Turn(d)
<1>7. \E a \in Chans : First(a)
  BY <1>5, <1>6
<1>8. get_next_router_vcg(p) = CHOOSE a \in Chans : First(a)
  BY DEF get_next_router_vcg, Turn
<1> HIDE DEF First
<1>9. get_next_router_vcg(p) \in Chans /\ First(get_next_router_vcg(p))
  BY <1>7, <1>8, Zenon
<1>. QED
  BY <1>9 DEF First

\* a chunk on its way to the next router, or to its terminal
LEMMA LeavingOK ==
  ASSUME NEW r \in Routers, NEW P \in Ports(r), NEW ch \in Chans,
         NEW c \in LeavingChunk(r, P, ch), NEW ts \in Nat, NEW hop, NEW out, NEW g,
         hop = IF P.kind = "GLOBAL" THEN "GLOBAL" ELSE "LOCAL",
         out = [c EXCEPT !.rt = Hop(c.rt, hop), !.from = r],
         g = ArriveEvent(IF P.kind = "TERMINAL" THEN "T_ARRIVE" ELSE "R_ARRIVE", ts, P.to, out)
  PROVE  EventOK(g) /\ g.type \notin LoopTypes
<1>1. /\ c \in ChunkType /\ c.port = P /\ c.chan = ch
      /\ P.to \in Routers => OnWay(P.to, Hop(c.rt, P.kind), P, ch)
  BY DEF LeavingChunk
<1>2. /\ P.kind \in Kinds /\ (P.kind = "TERMINAL" => P.to \in Terminals)
      /\ (P.kind # "TERMINAL" => P.to \in Routers)
  BY PortFacts
<1>3. c.rt \in Walk!Route
  BY <1>1 DEF ChunkType
<1>4. hop \in {"LOCAL", "GLOBAL"}
  OBVIOUS
<1> DEFINE w == Hop(c.rt, hop)
<1>5. w \in Walk!Route /\ w.last_hop = hop
  BY <1>3, <1>4 DEF Hop, Walk!Route
<1>6. out = [c EXCEPT !.rt = w, !.from = r]
  OBVIOUS
<1> HIDE DEF w
<1>7. /\ out \in ChunkType /\ out.port = P /\ out.chan = ch /\ out.rt = w /\ out.from = r
  BY <1>1, <1>5, <1>6 DEF ChunkType, Lps
<1>8. CASE P.kind = "TERMINAL"
  <2>1. g.type = "T_ARRIVE" /\ g.ts = ts /\ g.to = P.to /\ g.chunk = out
    BY <1>8 DEF ArriveEvent
  <2>2. EventOK(g)
    BY <1>2, <1>7, <1>8, <2>1 DEF EventOK, TermEvents, RouterEvents
  <2>. QED
    BY <2>1, <2>2 DEF LoopTypes
<1>9. CASE P.kind # "TERMINAL"
  <2>1. g.type = "R_ARRIVE" /\ g.ts = ts /\ g.to = P.to /\ g.chunk = out
    BY <1>9 DEF ArriveEvent
  <2>2. hop = P.kind
    BY <1>2, <1>9 DEF Kinds
  <2>3. OnWay(P.to, out.rt, out.port, out.chan)
    BY <1>1, <1>2, <1>7, <1>9, <2>2 DEF w
  <2>4. Upstream(out, out.port, out.chan)
    BY <1>5, <1>7, <1>9, <2>2 DEF Upstream
  <2>5. EventOK(g)
    BY <1>2, <1>7, <1>9, <2>1, <2>3, <2>4 DEF EventOK, TermEvents, RouterEvents
  <2>. QED
    BY <2>1, <2>5 DEF LoopTypes
<1>. QED
  BY <1>8, <1>9

LEMMA TrafficFacts ==
  ASSUME NEW c \in ChunkType PROVE TrafficSize(c) \in Int
<1>1. ChunkSize \in Nat \ {0} /\ c.size \in Int
  BY SizeFacts DEF ChunkType
<1>2. c.size % ChunkSize \in 0 .. ChunkSize - 1
  BY <1>1, Quotient
<1>3. c.size % ChunkSize \in Int
  BY <1>1, <1>2
<1>. QED
  BY <1>1, <1>3 DEF TrafficSize

LEMMA LeaveTime ==
  ASSUME NEW c \in ChunkType, NEW kind \in Kinds, NEW a \in Nat, NEW b \in Nat, NEW leaves,
         leaves = MaxOf(a, b) + injection_delay(c, kind)
  PROVE  leaves \in Nat /\ leaves - RouterDelay \in Nat /\ leaves + PropDelay[kind] \in Nat
<1> DEFINE w == bytes_to_ns(WireSize(c), kind)
           m == MaxOf(a, b)
<1>1. m + w \in Nat
  BY WireFacts
<1>2. m \in Nat
  BY MaxNat
<1>3. w \in Nat
  <2>1. WireSize(c) \in Nat
    BY SizeFacts DEF WireSize, ChunkType
  <2>. QED
    BY <2>1, SizeFacts, Product DEF bytes_to_ns
<1>4. leaves = m + (w + RouterDelay)
  BY DEF injection_delay
<1> HIDE DEF w, m
<1>5. RouterDelay \in Nat /\ PropDelay[kind] \in Nat
  BY SizeFacts
<1>. QED
  BY <1>2, <1>3, <1>4, <1>5

LEMMA SendChunkFromPort ==
  ASSUME NEW r, NEW s, NEW F, NEW e, RouterReady(r, s, F, e), e.type = "R_SEND",
         HasPending(s[e.port])
  PROVE  HandlerOK(r, s, F, e, router_send_chunk(s, e))
<1> DEFINE o == router_send_chunk(s, e)
           P == e.port
           p == s[P]
           kind == e.port.kind
           ch == get_next_router_vcg(p)
           c == Head(p.pending[ch])
           leaves == MaxOf(p.next_available, e.ts) + injection_delay(c, kind)
           free == leaves - RouterDelay
           busy == p.last_buf_full # 0
           pend == [p.pending EXCEPT ![ch] = Tail(p.pending[ch])]
           worked == IF busy THEN p.busy_time + (e.ts - p.last_buf_full) ELSE p.busy_time
           traffic == p.link_traffic + TrafficSize(c)
           q0 == [p EXCEPT !.pending = pend, !.last_qos_lvl = ch, !.next_available = free,
                           !.busy_time = worked, !.last_buf_full = 0, !.link_traffic = traffic]
           q1 == [p EXCEPT !.pending[ch] = Tail(@), !.last_qos_lvl = ch, !.next_available = free,
                           !.busy_time = IF busy THEN @ + (e.ts - p.last_buf_full) ELSE @,
                           !.last_buf_full = 0, !.link_traffic = @ + TrafficSize(c)]
           loop == IF HasPending(q1) THEN q1.in_send_loop ELSE FALSE
           q == [q1 EXCEPT !.in_send_loop = loop]
           hop == IF kind = "GLOBAL" THEN "GLOBAL" ELSE "LOCAL"
           out == [c EXCEPT !.rt = Hop(c.rt, hop), !.from = e.to]
           g == ArriveEvent(IF kind = "TERMINAL" THEN "T_ARRIVE" ELSE "R_ARRIVE",
                            leaves + PropDelay[kind], e.port.to, out)
           f == RSendEvent(e.to, free, e.port, By("send", c))
           K1 == {"pending", "last_qos_lvl", "next_available", "busy_time", "last_buf_full",
                  "link_traffic"}
           K == K1 \cup {"in_send_loop"}
<1>1. /\ r \in Routers /\ EventOK(e) /\ e.to = r /\ e.ts \in Nat /\ P \in Ports(r) /\ e \in F
  BY DEF RouterReady, EventOK, LoopTypes
<1>2. kind \in Kinds
  BY <1>1, PortFacts
<1>3. PortOK(r, P, p) /\ PortShape(p) /\ DOMAIN p = PortFields /\ PortLoops(P, p, F)
  BY <1>1, PortLoopFacts
<1>4. /\ p.pending \in Pendings(r, P) /\ p.queued \in Queueds(r, P)
      /\ p.vc_occupancy \in [Chans -> Int] /\ p.queued_count \in Int
      /\ p.in_send_loop \in BOOLEAN /\ p.last_buf_full \in Nat /\ p.busy_time \in Int
      /\ p.next_available \in Nat /\ p.last_qos_lvl \in Int /\ p.link_traffic \in Int
  BY <1>3, Zenon DEF PortOK
<1>5. o.ns = [s EXCEPT ![P] = q]
  BY Zenon DEF router_send_chunk, Outcome
<1>6. o.sent = {g} \cup (IF HasPending(q1) THEN {f} ELSE {})
  BY Zenon DEF router_send_chunk, Outcome
<1>7. /\ ~o.rc.c1 /\ o.rc.c4 = (~HasPending(q1)) /\ o.rc.c8 = busy /\ o.rc.saved_channel = ch
      /\ o.rc.entry = c /\ o.rc.last_saved_qos = p.last_qos_lvl
      /\ o.rc.saved_available_time = p.next_available /\ o.rc.saved_rcv_time = p.busy_time
      /\ o.rc.saved_busy_time = p.last_buf_full /\ o.rc.saved_send_loop = p.in_send_loop
  BY Zenon DEF router_send_chunk, Outcome
<1>8. PortEvents(F, P) = {e} /\ p.in_send_loop = TRUE
  <2> HIDE DEF p
  <2>. QED
    BY <1>1, <1>3, <1>4, ThePortEvent
<1> HIDE DEF o
<1>9. ch \in Chans /\ p.pending[ch] # << >>
  BY <1>4, NextChannel
<1> HIDE DEF ch
<1>10. p.pending[ch] \in Seq(LeavingChunk(r, P, ch)) /\ p.pending \in [Chans -> Seq(ChunkType)]
  BY <1>4, <1>9 DEF Pendings
<1>11. /\ c \in LeavingChunk(r, P, ch) /\ Tail(p.pending[ch]) \in Seq(LeavingChunk(r, P, ch))
       /\ <<c>> \o Tail(p.pending[ch]) = p.pending[ch]
  BY <1>9, <1>10, FrontOfQueue
<1> HIDE DEF c
<1>12. c \in ChunkType
  BY <1>11 DEF LeavingChunk
<1>13. leaves \in Nat /\ free \in Nat /\ leaves + PropDelay[kind] \in Nat
  BY <1>1, <1>2, <1>4, <1>12, LeaveTime
<1> HIDE DEF leaves
<1>14. TrafficSize(c) \in Int
  BY <1>12, TrafficFacts
<1>15. EventOK(g) /\ g.type \notin LoopTypes
  <2> DEFINE ts == leaves + PropDelay[kind]
  <2>1. out = [c EXCEPT !.rt = Hop(c.rt, hop), !.from = r]
    BY <1>1
  <2>2. g = ArriveEvent(IF P.kind = "TERMINAL" THEN "T_ARRIVE" ELSE "R_ARRIVE", ts, P.to, out)
    OBVIOUS
  <2>3. hop = IF P.kind = "GLOBAL" THEN "GLOBAL" ELSE "LOCAL"
    OBVIOUS
  <2> HIDE DEF ts, g, out, hop, P
  <2>. QED
    BY <1>1, <1>9, <1>11, <1>13, <2>1, <2>2, <2>3, LeavingOK, ZenonT(30) DEF ts
<1>16. EventOK(f) /\ f.type = "R_SEND" /\ f.to = r /\ f.port = P
  <2> DEFINE by == By("send", c)
  <2> HIDE DEF by, free
  <2>2. LET h == RSendEvent(r, free, P, by) IN EventOK(h) /\ h.type = "R_SEND" /\ h.to = r /\ h.port = P
    BY <1>1, <1>13, RSendOK DEF free
  <2>. QED
    BY <1>1, <2>2 DEF by
<1> HIDE DEF f, g
<1>17. pend \in Pendings(r, P)
  BY <1>4, <1>9, <1>11, PendingSet
<1>18. worked \in Int /\ traffic \in Int /\ ch \in Int
  <2>1. ch \in Int
    <3>1. NumVcs \in Nat
      BY NetAssumption
    <3>. QED
      BY <1>9, <3>1 DEF Chans
  <2>2. worked \in Int
    <3> HIDE DEF p
    <3>. QED
      BY <1>1, <1>4
  <2>3. traffic \in Int
    BY <1>4, <1>14
  <2>. QED
    BY <2>1, <2>2, <2>3
<1>19. /\ PortShape(q1) /\ DOMAIN q1 = PortFields /\ q1.pending = pend /\ q1.last_qos_lvl = ch
       /\ q1.next_available = free /\ q1.busy_time = worked /\ q1.last_buf_full = 0
       /\ q1.link_traffic = traffic /\ PortOthers(K1, q1, p)
  <2> HIDE DEF p, free, busy
  <2>. QED
    BY <1>3, Zenon DEF PortFields, PortShape, PortOthers
<1>20. /\ q1.vc_occupancy = p.vc_occupancy /\ q1.queued = p.queued
       /\ q1.queued_count = p.queued_count /\ q1.in_send_loop = TRUE
  BY <1>8, <1>19, Zenon DEF PortOthers, PortFields
<1> HIDE DEF q1
<1>21. /\ PortShape(q) /\ DOMAIN q = PortFields /\ q.in_send_loop = loop
       /\ PortOthers({"in_send_loop"}, q, q1)
  <2> HIDE DEF loop
  <2>. QED
    BY <1>19, Zenon DEF PortFields, PortShape, PortOthers
<1> HIDE DEF q
<1>22. /\ q.pending = pend /\ q.last_qos_lvl = ch
       /\ q.next_available = free /\ q.busy_time = worked /\ q.last_buf_full = 0
       /\ q.link_traffic = traffic /\ q.vc_occupancy = p.vc_occupancy /\ q.queued = p.queued
       /\ q.queued_count = p.queued_count
  BY <1>19, <1>20, <1>21, Zenon DEF PortOthers, PortFields
<1>23. loop = HasPending(q1) /\ HasPending(q) = HasPending(q1) /\ HasPending(q1) \in BOOLEAN
  <2>1. HasPending(q) = HasPending(q1)
    BY <1>19, <1>22, ZenonT(30) DEF HasPending
  <2>2. HasPending(q1) \in BOOLEAN
    BY DEF HasPending
  <2>3. loop = HasPending(q1)
    <3>1. CASE HasPending(q1)
      BY <1>20, <2>2, <3>1
    <3>2. CASE ~HasPending(q1)
      BY <2>2, <3>2
    <3>. QED
      BY <3>1, <3>2
  <2>. QED
    BY <2>1, <2>2, <2>3
<1>24. PortOK(r, P, q)
  <2>1. q.in_send_loop \in BOOLEAN /\ q.last_buf_full \in Nat
    <3> HIDE DEF loop, pend, worked, traffic, free
    <3>1. q.in_send_loop \in BOOLEAN
      BY <1>21, <1>23, Zenon
    <3>. QED
      BY <1>22, <3>1
  <2> HIDE DEF worked, traffic, free
  <2>. QED
    BY <1>4, <1>13, <1>17, <1>18, <1>21, <1>22, <2>1, Zenon DEF PortOK, free
<1>25. PortEvents(o.sent, P) = IF HasPending(q1) THEN {f} ELSE {}
  BY <1>6, <1>15, <1>16 DEF PortEvents, LoopTypes
<1>26. ASSUME NEW G, PortEvents(G, P) = (PortEvents(F, P) \ {e}) \cup PortEvents(o.sent, P)
       PROVE  PortLoops(P, q, G)
  <2>1. PortEvents(G, P) = IF HasPending(q1) THEN {f} ELSE {}
    BY <1>8, <1>25, <1>26
  <2>2. NoneOrOne(PortEvents(G, P), q.in_send_loop)
    BY <1>21, <1>23, <2>1, Zenon DEF NoneOrOne
  <2>3. q.in_send_loop \/ ~HasPending(q)
    BY <1>21, <1>23, Zenon
  <2>. QED
    BY <1>3, <1>22, <2>2, <2>3, Zenon DEF PortLoops
<1>27. ASSUME NEW en, NEW z, en.ev = e, en.rc = o.rc, z[P] = q
       PROVE  reverse(z, en) = [z EXCEPT ![P] = p]
  <2> DEFINE rc == o.rc
             back == [q EXCEPT !.last_qos_lvl = rc.last_saved_qos,
                               !.busy_time = IF rc.c8 THEN rc.saved_rcv_time ELSE @,
                               !.last_buf_full = IF rc.c8 THEN rc.saved_busy_time ELSE @,
                               !.next_available = rc.saved_available_time,
                               !.link_traffic = @ - TrafficSize(rc.entry),
                               !.pending[ch] = <<rc.entry>> \o @,
                               !.in_send_loop = IF rc.c4 THEN rc.saved_send_loop ELSE @]
  <2>1. reverse(z, en) = router_packet_send_rc(z, en)
    BY <1>27, Zenon DEF reverse
  <2>2. router_packet_send_rc(z, en) = [z EXCEPT ![P] = back]
    BY <1>7, <1>27, Zenon DEF router_packet_send_rc
  <2>3. /\ PortShape(back) /\ PortOthers(K, back, q)
        /\ back.last_qos_lvl = rc.last_saved_qos
        /\ back.busy_time = (IF rc.c8 THEN rc.saved_rcv_time ELSE q.busy_time)
        /\ back.last_buf_full = (IF rc.c8 THEN rc.saved_busy_time ELSE q.last_buf_full)
        /\ back.next_available = rc.saved_available_time
        /\ back.link_traffic = q.link_traffic - TrafficSize(rc.entry)
        /\ back.pending = [q.pending EXCEPT ![ch] = <<rc.entry>> \o q.pending[ch]]
        /\ back.in_send_loop = (IF rc.c4 THEN rc.saved_send_loop ELSE q.in_send_loop)
    BY <1>21, ZenonT(30) DEF PortFields, PortShape, PortOthers
  <2> HIDE DEF back
  <2>4. back.pending = p.pending
    <3>1. q.pending[ch] = Tail(p.pending[ch])
      BY <1>9, <1>10, <1>22
    <3>2. back.pending = [q.pending EXCEPT ![ch] = p.pending[ch]]
      BY <1>7, <1>11, <2>3, <3>1, Zenon
    <3> HIDE DEF p
    <3>. QED
      BY <1>9, <1>10, <1>22, <3>2, SetBack
  <2>5. back.link_traffic = p.link_traffic
    BY <1>4, <1>7, <1>14, <1>22, <2>3
  <2>6. back.last_buf_full = p.last_buf_full /\ back.busy_time = p.busy_time
    BY <1>7, <1>22, <2>3
  <2>7. back.in_send_loop = p.in_send_loop
    BY <1>7, <1>8, <1>21, <1>23, <2>3, Zenon
  <2>8. back.last_qos_lvl = p.last_qos_lvl /\ back.next_available = p.next_available
    BY <1>7, <2>3, Zenon
  <2>9. PortOthers({}, back, p)
    BY <1>19, <1>21, <2>3, <2>4, <2>5, <2>6, <2>7, <2>8, ZenonT(30) DEF PortOthers
  <2>10. back = p
    BY <1>3, <2>3, <2>9, PortEqual
  <2>. QED
    BY <2>1, <2>2, <2>10, Zenon
<1>28. /\ \A h \in o.sent : EventOK(h)
       /\ PortSends(r, P, o.sent)
  BY <1>6, <1>15, <1>16 DEF PortSends
<1>29. PortEvents(o.sent, P) \cap PortEvents(F, P) \subseteq {e}
  BY <1>8
<1>30. e.port = P
  OBVIOUS
<1> HIDE DEF P, p
<1>. QED
  <2>1. HandlerOK(r, s, F, e, o)
    <3>1. s[P] = p
      BY DEF p
    <3>3. \A en, z : en.ev = e /\ en.rc = o.rc /\ z[P] = q => reverse(z, en) = [z EXCEPT ![P] = s[P]]
      BY <1>27, <3>1, Zenon
    <3>. QED
      BY <1>1, <1>5, <1>24, <1>26, <1>28, <1>29, <1>30, <3>3, RouterHandler
  <2>. QED
    BY <2>1 DEF o

LEMMA PortSendHandler ==
  ASSUME NEW r, NEW s, NEW F, NEW e, RouterReady(r, s, F, e), e.type = "R_SEND"
  PROVE  HandlerOK(r, s, F, e, router_packet_send(s, e))
  BY SendNoneHandler, SendChunkFromPort DEF router_packet_send

-----------------------------------------------------------------------------
(* router_buf_update: a chunk that waits takes the place, or nobody does.  *)

LEMMA CreditMoves ==
  ASSUME NEW r, NEW s, NEW F, NEW e, RouterReady(r, s, F, e), e.type = "R_BUFFER",
         s[e.port].queued[e.chan] # << >>
  PROVE  HandlerOK(r, s, F, e, router_buf_update(s, e))
<1> DEFINE o == router_buf_update(s, e)
           P == e.port
           p == s[P]
           ch == e.chan
           c3 == p.last_buf_full > 0
           worked == IF c3 THEN p.busy_time + (e.ts - p.last_buf_full) ELSE p.busy_time
           freed == [p EXCEPT !.vc_occupancy[ch] = @ - ChunkSize,
                              !.busy_time = IF c3 THEN @ + (e.ts - p.last_buf_full) ELSE @,
                              !.last_buf_full = 0]
           head == Head(p.queued[ch])
           pend == [p.pending EXCEPT ![ch] = Append(p.pending[ch], head)]
           wait == [p.queued EXCEPT ![ch] = Tail(p.queued[ch])]
           q0 == [freed EXCEPT !.queued[ch] = Tail(@),
                               !.pending[ch] = Append(@, head),
                               !.vc_occupancy[ch] = @ + ChunkSize,
                               !.queued_count = @ - ChunkSize]
           g == router_credit_send(e.ts, head, head.saved_port, head.saved_chan)
           c2 == ~p.in_send_loop /\ q0.pending[ch] # << >>
           loop == q0.in_send_loop \/ c2
           q == [q0 EXCEPT !.in_send_loop = loop]
           f == RSendEvent(e.to, MaxOf(p.next_available, e.ts), e.port,
                           <<"credit", e.by[2], e.by[3], e.by[4]>>)
           K3 == {"vc_occupancy", "busy_time", "last_buf_full"}
           K == K3 \cup {"queued", "pending", "queued_count", "in_send_loop"}
<1>1. /\ r \in Routers /\ EventOK(e) /\ e.to = r /\ e.ts \in Nat /\ P \in Ports(r) /\ ch \in Chans
  BY DEF RouterReady, EventOK
<1>2. PortOK(r, P, p) /\ PortShape(p) /\ DOMAIN p = PortFields /\ PortLoops(P, p, F)
  BY <1>1, PortLoopFacts
<1>3. /\ p.pending \in Pendings(r, P) /\ p.queued \in Queueds(r, P)
      /\ p.vc_occupancy \in [Chans -> Int] /\ p.queued_count \in Int
      /\ p.in_send_loop \in BOOLEAN /\ p.last_buf_full \in Nat /\ p.busy_time \in Int
      /\ p.next_available \in Nat /\ p.last_qos_lvl \in Int /\ p.link_traffic \in Int
  BY <1>2, Zenon DEF PortOK
<1>4. o.ns = [s EXCEPT ![P] = q]
  BY Zenon DEF router_buf_update, Outcome
<1>5. o.sent = {g} \cup (IF c2 THEN {f} ELSE {})
  BY Zenon DEF router_buf_update, Outcome
<1>6. /\ o.rc.c1 = TRUE /\ o.rc.c2 = c2 /\ o.rc.c3 = c3
      /\ o.rc.saved_rcv_time = p.busy_time /\ o.rc.saved_busy_time = p.last_buf_full
  <2>1. (s[e.port].queued[e.chan] # << >>) = TRUE
    OBVIOUS
  <2>. QED
    BY <2>1, Zenon DEF router_buf_update, Outcome
<1> HIDE DEF o
<1>7. ChunkSize \in Nat \ {0}
  BY SizeFacts
<1>8. EventOK(f) /\ f.type = "R_SEND" /\ f.to = r /\ f.port = P
  <2> DEFINE ts == MaxOf(p.next_available, e.ts)
             by == <<"credit", e.by[2], e.by[3], e.by[4]>>
  <2>1. ts \in Nat
    BY <1>1, <1>3, MaxNat
  <2> HIDE DEF ts, by
  <2>2. LET h == RSendEvent(r, ts, P, by) IN EventOK(h) /\ h.type = "R_SEND" /\ h.to = r /\ h.port = P
    BY <1>1, <2>1, RSendOK
  <2>. QED
    BY <1>1, <2>2 DEF ts, by
<1> HIDE DEF f
<1>9. /\ p.pending[ch] \in Seq(LeavingChunk(r, P, ch)) /\ p.pending \in [Chans -> Seq(ChunkType)]
      /\ p.queued[ch] \in Seq(WaitingChunk(r, P, ch)) /\ p.queued \in [Chans -> Seq(ChunkType)]
  BY <1>1, <1>3 DEF Pendings, Queueds
<1>10. worked \in Int
  <2> HIDE DEF p
  <2>. QED
    BY <1>1, <1>3
<1>11. /\ PortShape(freed) /\ DOMAIN freed = PortFields
       /\ freed.vc_occupancy = [p.vc_occupancy EXCEPT ![ch] = p.vc_occupancy[ch] - ChunkSize]
       /\ freed.busy_time = worked /\ freed.last_buf_full = 0
       /\ PortOthers(K3, freed, p)
  <2> HIDE DEF p, ch, c3
  <2>. QED
    BY <1>2, Zenon DEF PortFields, PortShape, PortOthers
<1>12. /\ freed.pending = p.pending /\ freed.queued = p.queued /\ freed.queued_count = p.queued_count
       /\ freed.in_send_loop = p.in_send_loop /\ freed.next_available = p.next_available
       /\ freed.last_qos_lvl = p.last_qos_lvl /\ freed.link_traffic = p.link_traffic
  BY <1>11, Zenon DEF PortOthers, PortFields
<1> HIDE DEF freed
<1>13. head \in WaitingChunk(r, P, ch) /\ Tail(p.queued[ch]) \in Seq(WaitingChunk(r, P, ch))
       /\ <<head>> \o Tail(p.queued[ch]) = p.queued[ch]
  BY <1>9, FrontOfQueue
<1>14. EventOK(g) /\ g.type \notin LoopTypes
  <2> HIDE DEF head
  <2>1. head \in ChunkType /\ Upstream(head, head.saved_port, head.saved_chan)
    BY <1>13 DEF WaitingChunk, LeavingChunk
  <2>. QED
    BY <1>1, <2>1, CreditOK
<1> HIDE DEF g, head
<1>15. head \in LeavingChunk(r, P, ch)
  BY <1>13 DEF WaitingChunk
<1>16. /\ Append(p.pending[ch], head) \in Seq(LeavingChunk(r, P, ch))
       /\ Append(p.pending[ch], head) # << >>
       /\ AllButLast(Append(p.pending[ch], head)) = p.pending[ch]
       /\ Append(p.pending[ch], head)[Len(Append(p.pending[ch], head))] = head
  <2> DEFINE w == p.pending[ch]
  <2>1. w \in Seq(LeavingChunk(r, P, ch))
    BY <1>9
  <2> HIDE DEF w, p, ch, P
  <2>2. /\ Append(w, head) \in Seq(LeavingChunk(r, P, ch)) /\ Append(w, head) # << >>
        /\ AllButLast(Append(w, head)) = w /\ Append(w, head)[Len(Append(w, head))] = head
    BY <1>15, <2>1, EndOfQueue
  <2>. QED
    BY <2>2 DEF w
<1>17. pend \in Pendings(r, P) /\ wait \in Queueds(r, P)
  BY <1>1, <1>3, <1>13, <1>16, PendingSet, QueuedSet
<1>18. /\ PortShape(q0) /\ DOMAIN q0 = PortFields /\ q0.queued = wait /\ q0.pending = pend
       /\ q0.vc_occupancy = [freed.vc_occupancy EXCEPT ![ch] = freed.vc_occupancy[ch] + ChunkSize]
       /\ q0.queued_count = p.queued_count - ChunkSize
       /\ PortOthers({"queued", "pending", "vc_occupancy", "queued_count"}, q0, freed)
  <2> HIDE DEF p, ch
  <2>. QED
    BY <1>11, <1>12, Zenon DEF PortFields, PortShape, PortOthers
<1>19. q0.vc_occupancy = p.vc_occupancy
  <2>1. freed.vc_occupancy[ch] + ChunkSize = p.vc_occupancy[ch]
    BY <1>1, <1>3, <1>7, <1>11
  <2>2. q0.vc_occupancy = [freed.vc_occupancy EXCEPT ![ch] = p.vc_occupancy[ch]]
    BY <1>18, <2>1, Zenon
  <2> HIDE DEF q0, p, ch
  <2>. QED
    BY <1>1, <1>3, <1>11, <2>2, SetBack
<1>20. /\ q0.busy_time = worked /\ q0.last_buf_full = 0 /\ q0.in_send_loop = p.in_send_loop
       /\ q0.next_available = p.next_available
       /\ q0.last_qos_lvl = p.last_qos_lvl /\ q0.link_traffic = p.link_traffic
  BY <1>11, <1>12, <1>18, Zenon DEF PortOthers, PortFields
<1>21. /\ PortShape(q) /\ DOMAIN q = PortFields /\ q.in_send_loop = loop
       /\ PortOthers({"in_send_loop"}, q, q0)
  <2> HIDE DEF q0, loop
  <2>. QED
    BY <1>18, Zenon DEF PortFields, PortShape, PortOthers
<1> HIDE DEF q0
<1>22. /\ q.pending = pend /\ q.queued = wait /\ q.vc_occupancy = p.vc_occupancy
       /\ q.queued_count = p.queued_count - ChunkSize /\ q.busy_time = worked
       /\ q.last_buf_full = 0 /\ q.next_available = p.next_available
       /\ q.last_qos_lvl = p.last_qos_lvl /\ q.link_traffic = p.link_traffic
  BY <1>18, <1>19, <1>20, <1>21, Zenon DEF PortOthers, PortFields
<1>23. loop = (p.in_send_loop \/ c2) /\ loop \in BOOLEAN
  BY <1>20, Zenon
<1> HIDE DEF q
<1>24. PortOK(r, P, q)
  <2> HIDE DEF loop, worked
  <2>1. q.in_send_loop \in BOOLEAN
    BY <1>21, <1>23, Zenon
  <2>2. q.queued_count \in Int /\ q.last_buf_full \in Nat
    BY <1>3, <1>7, <1>22
  <2>. QED
    BY <1>3, <1>10, <1>17, <1>21, <1>22, <2>1, <2>2, Zenon DEF PortOK
<1>25. PortEvents(o.sent, P) = IF c2 THEN {f} ELSE {}
  <2> HIDE DEF c2
  <2>. QED
    BY <1>5, <1>8, <1>14 DEF PortEvents, LoopTypes
<1>26. e \notin PortEvents(F, P) /\ e.type \notin LoopTypes
  BY DEF PortEvents, LoopTypes
<1>27. c2 => PortEvents(F, P) = {}
  BY <1>2, Zenon DEF PortLoops, NoneOrOne
<1>28. ASSUME NEW G, PortEvents(G, P) = (PortEvents(F, P) \ {e}) \cup PortEvents(o.sent, P)
       PROVE  PortLoops(P, q, G)
  <2>1. PortEvents(G, P) = IF c2 THEN {f} ELSE PortEvents(F, P)
    <3> HIDE DEF c2
    <3>. QED
      BY <1>25, <1>26, <1>27, <1>28
  <2>2. NoneOrOne(PortEvents(G, P), q.in_send_loop)
    <3>1. CASE c2
      <4>1. q.in_send_loop /\ PortEvents(G, P) = {f}
        BY <1>21, <1>23, <2>1, <3>1, Zenon
      <4>. QED
        BY <4>1, Zenon DEF NoneOrOne
    <3>2. CASE ~c2
      <4>1. PortEvents(G, P) = PortEvents(F, P)
        BY <2>1, <3>2, Zenon
      <4>2. q.in_send_loop = p.in_send_loop
        BY <1>3, <1>20, <1>21, <3>2
      <4>. QED
        BY <1>2, <4>1, <4>2, Zenon DEF PortLoops
    <3>. QED
      BY <3>1, <3>2
  <2>3. q.in_send_loop \/ ~HasPending(q)
    <3>1. SUFFICES ASSUME ~q.in_send_loop PROVE ~HasPending(q)
      OBVIOUS
    <3>2. ~p.in_send_loop /\ ~c2
      BY <1>21, <1>23, <3>1, Zenon
    <3>3. \A d \in Chans : p.pending[d] = << >>
      BY <1>2, <3>2, ZenonT(30) DEF PortLoops, HasPending
    <3>4. q0.pending[ch] = << >> /\ q.pending = q0.pending
      BY <1>21, <3>2, ZenonT(30) DEF PortOthers, PortFields
    <3>5. q0.pending[ch] # << >>
      BY <1>1, <1>9, <1>16, <1>18
    <3>. QED
      BY <3>4, <3>5
  <2>4. ASSUME NEW d \in Chans, q.queued[d] # << >>
        PROVE  q.vc_occupancy[d] + ChunkSize > VcSize[P.kind]
    <3>1. p.queued[d] # << >>
      BY <1>9, <1>22, <2>4
    <3>. QED
      BY <1>2, <1>22, <3>1, Zenon DEF PortLoops
  <2>. QED
    BY <2>2, <2>3, <2>4, Zenon DEF PortLoops
<1>29. ASSUME NEW en, NEW z, en.ev = e, en.rc = o.rc, z[P] = q
       PROVE  reverse(z, en) = [z EXCEPT ![P] = p]
  <2> DEFINE rc == o.rc
             b0 == [q EXCEPT !.vc_occupancy[ch] = @ + ChunkSize,
                             !.busy_time = IF rc.c3 THEN rc.saved_rcv_time ELSE @,
                             !.last_buf_full = IF rc.c3 THEN rc.saved_busy_time ELSE @,
                             !.in_send_loop = IF rc.c2 THEN FALSE ELSE @]
             moved == q.pending[ch]
             back == [b0 EXCEPT !.pending[ch] = AllButLast(@),
                                !.queued[ch] = <<moved[Len(moved)]>> \o @,
                                !.vc_occupancy[ch] = @ - ChunkSize,
                                !.queued_count = @ + ChunkSize]
  <2>1. reverse(z, en) = router_buf_update_rc(z, en)
    BY <1>29, Zenon DEF reverse
  <2>2. router_buf_update_rc(z, en) = [z EXCEPT ![P] = back]
    BY <1>6, <1>29, Zenon DEF router_buf_update_rc
  <2>3. /\ PortShape(b0) /\ DOMAIN b0 = PortFields
        /\ PortOthers({"vc_occupancy", "busy_time", "last_buf_full", "in_send_loop"}, b0, q)
        /\ b0.vc_occupancy = [q.vc_occupancy EXCEPT ![ch] = q.vc_occupancy[ch] + ChunkSize]
        /\ b0.busy_time = (IF rc.c3 THEN rc.saved_rcv_time ELSE q.busy_time)
        /\ b0.last_buf_full = (IF rc.c3 THEN rc.saved_busy_time ELSE q.last_buf_full)
        /\ b0.in_send_loop = (IF rc.c2 THEN FALSE ELSE q.in_send_loop)
    BY <1>21, Zenon DEF PortFields, PortShape, PortOthers
  <2>4. b0.pending = q.pending /\ b0.queued = q.queued /\ b0.queued_count = q.queued_count
    BY <2>3, Zenon DEF PortOthers, PortFields
  <2> HIDE DEF b0
  <2>5. b0.last_buf_full = p.last_buf_full /\ b0.busy_time = p.busy_time
    <3>1. CASE c3
      <4> HIDE DEF c3
      <4>. QED
        BY <1>6, <2>3, <3>1, Zenon
    <3>2. CASE ~c3
      <4>1. p.last_buf_full = 0
        <5> HIDE DEF p
        <5>. QED
          BY <1>3, <3>2
      <4>2. worked = p.busy_time
        BY <3>2, Zenon
      <4> HIDE DEF c3, worked
      <4>. QED
        BY <1>6, <1>22, <2>3, <3>2, <4>1, <4>2, Zenon
    <3>. QED
      BY <3>1, <3>2
  <2>6. b0.in_send_loop = p.in_send_loop
    <3>1. CASE c2
      <4>1. p.in_send_loop = FALSE
        BY <1>3, <3>1
      <4>. QED
        BY <1>6, <2>3, <3>1, <4>1, Zenon
    <3>2. CASE ~c2
      <4>1. q.in_send_loop = p.in_send_loop
        BY <1>3, <1>20, <1>21, <3>2
      <4>. QED
        BY <1>6, <2>3, <3>2, <4>1, Zenon
    <3>. QED
      BY <3>1, <3>2
  <2>7. /\ PortShape(back)
        /\ PortOthers({"pending", "queued", "vc_occupancy", "queued_count"}, back, b0)
        /\ back.pending = [q.pending EXCEPT ![ch] = AllButLast(q.pending[ch])]
        /\ back.queued = [q.queued EXCEPT ![ch] = <<moved[Len(moved)]>> \o q.queued[ch]]
        /\ back.vc_occupancy = [b0.vc_occupancy EXCEPT ![ch] = b0.vc_occupancy[ch] - ChunkSize]
        /\ back.queued_count = q.queued_count + ChunkSize
    BY <2>3, <2>4, Zenon DEF PortFields, PortShape, PortOthers
  <2> HIDE DEF back
  <2>8. q.pending[ch] = Append(p.pending[ch], head) /\ q.queued[ch] = Tail(p.queued[ch])
    BY <1>1, <1>9, <1>22
  <2>9. back.pending = p.pending
    <3>1. back.pending = [q.pending EXCEPT ![ch] = p.pending[ch]]
      BY <1>16, <2>7, <2>8, Zenon
    <3> HIDE DEF p, ch
    <3>. QED
      BY <1>1, <1>9, <1>22, <3>1, SetBack
  <2>10. back.queued = p.queued
    <3>1. back.queued = [q.queued EXCEPT ![ch] = p.queued[ch]]
      BY <1>13, <1>16, <2>7, <2>8, Zenon
    <3> HIDE DEF p, ch
    <3>. QED
      BY <1>1, <1>9, <1>22, <3>1, SetBack
  <2>11. back.vc_occupancy = p.vc_occupancy
    <3>1. b0.vc_occupancy[ch] - ChunkSize = p.vc_occupancy[ch]
      BY <1>1, <1>3, <1>7, <1>22, <2>3
    <3>2. back.vc_occupancy = [b0.vc_occupancy EXCEPT ![ch] = p.vc_occupancy[ch]]
      BY <2>7, <3>1, Zenon
    <3>3. b0.vc_occupancy = [p.vc_occupancy EXCEPT ![ch] = q.vc_occupancy[ch] + ChunkSize]
      BY <1>22, <2>3, Zenon
    <3> HIDE DEF p, ch
    <3>. QED
      BY <1>1, <1>3, <3>2, <3>3, SetBack
  <2>12. back.queued_count = p.queued_count
    <3>1. /\ p.queued_count \in Int /\ q.queued_count = p.queued_count - ChunkSize
          /\ back.queued_count = q.queued_count + ChunkSize
      BY <1>3, <1>22, <2>7
    <3> HIDE DEF p
    <3>. QED
      BY ONLY <1>7, <3>1, SMTT(30)
  <2>13. PortOthers(K, back, p)
    <3>1. PortOthers(K, back, b0) /\ PortOthers(K, b0, q) /\ PortOthers(K, q, q0) /\ PortOthers(K, q0, freed)
          /\ PortOthers(K, freed, p)
      BY <1>11, <1>18, <1>21, <2>3, <2>7, Zenon DEF PortOthers
    <3>. QED
      BY <3>1, ZenonT(30) DEF PortOthers
  <2>14. /\ back.busy_time = p.busy_time /\ back.last_buf_full = p.last_buf_full
         /\ back.in_send_loop = p.in_send_loop
    BY <2>5, <2>6, <2>7, Zenon DEF PortOthers, PortFields
  <2>15. PortOthers({}, back, p)
    BY <2>9, <2>10, <2>11, <2>12, <2>13, <2>14, Zenon DEF PortOthers
  <2>16. back = p
    BY <1>2, <2>7, <2>15, PortEqual
  <2>. QED
    BY <2>1, <2>2, <2>16, Zenon
<1> HIDE DEF c2
<1>30. /\ \A h \in o.sent : EventOK(h)
       /\ PortSends(r, P, o.sent)
  BY <1>5, <1>8, <1>14 DEF PortSends
<1>31. PortEvents(o.sent, P) \cap PortEvents(F, P) \subseteq {e}
  BY <1>25, <1>27
<1> HIDE DEF P, p
<1>. QED
  <2>1. HandlerOK(r, s, F, e, o)
    <3>1. s[P] = p
      BY DEF p
    <3>2. \A en, z : en.ev = e /\ en.rc = o.rc /\ z[P] = q => reverse(z, en) = [z EXCEPT ![P] = s[P]]
      BY <1>29, <3>1, Zenon
    <3>. QED
      BY <1>1, <1>4, <1>24, <1>26, <1>28, <1>30, <1>31, <3>2, RouterHandler
  <2>. QED
    BY <2>1 DEF o

LEMMA CreditFrees ==
  ASSUME NEW r, NEW s, NEW F, NEW e, RouterReady(r, s, F, e), e.type = "R_BUFFER",
         s[e.port].queued[e.chan] = << >>
  PROVE  HandlerOK(r, s, F, e, router_buf_update(s, e))
<1> DEFINE o == router_buf_update(s, e)
           P == e.port
           p == s[P]
           ch == e.chan
           c3 == p.last_buf_full > 0
           worked == IF c3 THEN p.busy_time + (e.ts - p.last_buf_full) ELSE p.busy_time
           freed == [p EXCEPT !.vc_occupancy[ch] = @ - ChunkSize,
                              !.busy_time = IF c3 THEN @ + (e.ts - p.last_buf_full) ELSE @,
                              !.last_buf_full = 0]
           q0 == freed
           less == [p.vc_occupancy EXCEPT ![ch] = p.vc_occupancy[ch] - ChunkSize]
           c2 == ~p.in_send_loop /\ q0.pending[ch] # << >>
           loop == q0.in_send_loop \/ c2
           q == [q0 EXCEPT !.in_send_loop = loop]
           f == RSendEvent(e.to, MaxOf(p.next_available, e.ts), e.port,
                           <<"credit", e.by[2], e.by[3], e.by[4]>>)
           K3 == {"vc_occupancy", "busy_time", "last_buf_full"}
           K == K3 \cup {"queued", "pending", "queued_count", "in_send_loop"}
<1>1. /\ r \in Routers /\ EventOK(e) /\ e.to = r /\ e.ts \in Nat /\ P \in Ports(r) /\ ch \in Chans
  BY DEF RouterReady, EventOK
<1>2. PortOK(r, P, p) /\ PortShape(p) /\ DOMAIN p = PortFields /\ PortLoops(P, p, F)
  BY <1>1, PortLoopFacts
<1>3. /\ p.pending \in Pendings(r, P) /\ p.queued \in Queueds(r, P)
      /\ p.vc_occupancy \in [Chans -> Int] /\ p.queued_count \in Int
      /\ p.in_send_loop \in BOOLEAN /\ p.last_buf_full \in Nat /\ p.busy_time \in Int
      /\ p.next_available \in Nat /\ p.last_qos_lvl \in Int /\ p.link_traffic \in Int
  BY <1>2, Zenon DEF PortOK
<1>4. o.ns = [s EXCEPT ![P] = q]
  BY Zenon DEF router_buf_update, Outcome
<1>5. o.sent = IF c2 THEN {f} ELSE {}
  <2>1. o.sent = {} \cup (IF c2 THEN {f} ELSE {})
    BY Zenon DEF router_buf_update, Outcome
  <2> HIDE DEF o, c2, f
  <2>. QED
    BY <2>1
<1>6. /\ ~o.rc.c1 /\ o.rc.c2 = c2 /\ o.rc.c3 = c3
      /\ o.rc.saved_rcv_time = p.busy_time /\ o.rc.saved_busy_time = p.last_buf_full
  BY Zenon DEF router_buf_update, Outcome
<1> HIDE DEF o
<1>7. ChunkSize \in Nat \ {0}
  BY SizeFacts
<1>8. EventOK(f) /\ f.type = "R_SEND" /\ f.to = r /\ f.port = P
  <2> DEFINE ts == MaxOf(p.next_available, e.ts)
             by == <<"credit", e.by[2], e.by[3], e.by[4]>>
  <2>1. ts \in Nat
    BY <1>1, <1>3, MaxNat
  <2> HIDE DEF ts, by
  <2>2. LET h == RSendEvent(r, ts, P, by) IN EventOK(h) /\ h.type = "R_SEND" /\ h.to = r /\ h.port = P
    BY <1>1, <2>1, RSendOK
  <2>. QED
    BY <1>1, <2>2 DEF ts, by
<1> HIDE DEF f
<1>9. /\ p.pending[ch] \in Seq(LeavingChunk(r, P, ch)) /\ p.pending \in [Chans -> Seq(ChunkType)]
      /\ p.queued[ch] \in Seq(WaitingChunk(r, P, ch)) /\ p.queued \in [Chans -> Seq(ChunkType)]
  BY <1>1, <1>3 DEF Pendings, Queueds
<1>10. worked \in Int
  <2> HIDE DEF p
  <2>. QED
    BY <1>1, <1>3
<1>11. /\ PortShape(freed) /\ DOMAIN freed = PortFields
       /\ freed.vc_occupancy = [p.vc_occupancy EXCEPT ![ch] = p.vc_occupancy[ch] - ChunkSize]
       /\ freed.busy_time = worked /\ freed.last_buf_full = 0
       /\ PortOthers(K3, freed, p)
  <2> HIDE DEF p, ch, c3
  <2>. QED
    BY <1>2, Zenon DEF PortFields, PortShape, PortOthers
<1>12. /\ freed.pending = p.pending /\ freed.queued = p.queued /\ freed.queued_count = p.queued_count
       /\ freed.in_send_loop = p.in_send_loop /\ freed.next_available = p.next_available
       /\ freed.last_qos_lvl = p.last_qos_lvl /\ freed.link_traffic = p.link_traffic
  BY <1>11, Zenon DEF PortOthers, PortFields
<1> HIDE DEF freed
<1>17. less \in [Chans -> Int]
  <2> HIDE DEF p, ch
  <2>1. p.vc_occupancy[ch] - ChunkSize \in Int
    BY <1>1, <1>3, <1>7
  <2>. QED
    BY <1>3, <2>1
<1>18. PortShape(q0) /\ DOMAIN q0 = PortFields
  BY <1>11
<1>19. q0.vc_occupancy = less /\ q0.pending = p.pending /\ q0.queued = p.queued
       /\ q0.queued_count = p.queued_count
  BY <1>11, <1>12
<1>20. /\ q0.busy_time = worked /\ q0.last_buf_full = 0 /\ q0.in_send_loop = p.in_send_loop
       /\ q0.next_available = p.next_available
       /\ q0.last_qos_lvl = p.last_qos_lvl /\ q0.link_traffic = p.link_traffic
  BY <1>11, <1>12
<1>21. /\ PortShape(q) /\ DOMAIN q = PortFields /\ q.in_send_loop = loop
       /\ PortOthers({"in_send_loop"}, q, q0)
  <2> HIDE DEF q0, loop
  <2>. QED
    BY <1>18, Zenon DEF PortFields, PortShape, PortOthers
<1> HIDE DEF q0
<1>22. /\ q.pending = p.pending /\ q.queued = p.queued /\ q.vc_occupancy = less
       /\ q.queued_count = p.queued_count /\ q.busy_time = worked
       /\ q.last_buf_full = 0 /\ q.next_available = p.next_available
       /\ q.last_qos_lvl = p.last_qos_lvl /\ q.link_traffic = p.link_traffic
  BY <1>18, <1>19, <1>20, <1>21, Zenon DEF PortOthers, PortFields
<1>23. loop = (p.in_send_loop \/ c2) /\ loop \in BOOLEAN
  BY <1>20, Zenon
<1> HIDE DEF q
<1>24. PortOK(r, P, q)
  <2> HIDE DEF loop, worked
  <2>1. q.in_send_loop \in BOOLEAN
    BY <1>21, <1>23, Zenon
  <2>2. q.queued_count \in Int /\ q.last_buf_full \in Nat
    BY <1>3, <1>7, <1>22
  <2>. QED
    BY <1>3, <1>10, <1>17, <1>21, <1>22, <2>1, <2>2, Zenon DEF PortOK
<1>25. PortEvents(o.sent, P) = IF c2 THEN {f} ELSE {}
  <2> HIDE DEF c2
  <2>. QED
    BY <1>5, <1>8 DEF PortEvents, LoopTypes
<1>26. e \notin PortEvents(F, P) /\ e.type \notin LoopTypes
  BY DEF PortEvents, LoopTypes
<1>27. c2 => PortEvents(F, P) = {}
  BY <1>2, Zenon DEF PortLoops, NoneOrOne
<1>28. ASSUME NEW G, PortEvents(G, P) = (PortEvents(F, P) \ {e}) \cup PortEvents(o.sent, P)
       PROVE  PortLoops(P, q, G)
  <2>1. PortEvents(G, P) = IF c2 THEN {f} ELSE PortEvents(F, P)
    <3> HIDE DEF c2
    <3>. QED
      BY <1>25, <1>26, <1>27, <1>28
  <2>2. NoneOrOne(PortEvents(G, P), q.in_send_loop)
    <3>1. CASE c2
      <4>1. q.in_send_loop /\ PortEvents(G, P) = {f}
        BY <1>21, <1>23, <2>1, <3>1, Zenon
      <4>. QED
        BY <4>1, Zenon DEF NoneOrOne
    <3>2. CASE ~c2
      <4>1. PortEvents(G, P) = PortEvents(F, P)
        BY <2>1, <3>2, Zenon
      <4>2. q.in_send_loop = p.in_send_loop
        BY <1>3, <1>20, <1>21, <3>2
      <4>. QED
        BY <1>2, <4>1, <4>2, Zenon DEF PortLoops
    <3>. QED
      BY <3>1, <3>2
  <2>3. q.in_send_loop \/ ~HasPending(q)
    <3>1. SUFFICES ASSUME ~q.in_send_loop PROVE ~HasPending(q)
      OBVIOUS
    <3>2. ~p.in_send_loop /\ ~c2
      BY <1>21, <1>23, <3>1, Zenon
    <3>3. \A d \in Chans : p.pending[d] = << >>
      BY <1>2, <3>2, Zenon DEF PortLoops, HasPending
    <3>4. q0.pending[ch] = << >> /\ q.pending = q0.pending
      BY <1>21, <3>2, Zenon DEF PortOthers, PortFields
    <3>. QED
      BY <1>22, <3>3, Zenon DEF HasPending
  <2>4. ASSUME NEW d \in Chans, q.queued[d] # << >>
        PROVE  q.vc_occupancy[d] + ChunkSize > VcSize[P.kind]
    <3>1. d # ch
      BY <1>22, <2>4
    <3>2. q.vc_occupancy[d] = p.vc_occupancy[d]
      BY <1>1, <1>3, <1>22, <3>1
    <3>. QED
      BY <1>2, <1>22, <2>4, <3>2, Zenon DEF PortLoops
  <2>. QED
    BY <2>2, <2>3, <2>4, Zenon DEF PortLoops
<1>29. ASSUME NEW en, NEW z, en.ev = e, en.rc = o.rc, z[P] = q
       PROVE  reverse(z, en) = [z EXCEPT ![P] = p]
  <2> DEFINE rc == o.rc
             b0 == [q EXCEPT !.vc_occupancy[ch] = @ + ChunkSize,
                             !.busy_time = IF rc.c3 THEN rc.saved_rcv_time ELSE @,
                             !.last_buf_full = IF rc.c3 THEN rc.saved_busy_time ELSE @,
                             !.in_send_loop = IF rc.c2 THEN FALSE ELSE @]
             back == b0
  <2>1. reverse(z, en) = router_buf_update_rc(z, en)
    BY <1>29, Zenon DEF reverse
  <2>2. router_buf_update_rc(z, en) = [z EXCEPT ![P] = back]
    BY <1>6, <1>29, Zenon DEF router_buf_update_rc
  <2>3. /\ PortShape(b0) /\ DOMAIN b0 = PortFields
        /\ PortOthers({"vc_occupancy", "busy_time", "last_buf_full", "in_send_loop"}, b0, q)
        /\ b0.vc_occupancy = [q.vc_occupancy EXCEPT ![ch] = q.vc_occupancy[ch] + ChunkSize]
        /\ b0.busy_time = (IF rc.c3 THEN rc.saved_rcv_time ELSE q.busy_time)
        /\ b0.last_buf_full = (IF rc.c3 THEN rc.saved_busy_time ELSE q.last_buf_full)
        /\ b0.in_send_loop = (IF rc.c2 THEN FALSE ELSE q.in_send_loop)
    BY <1>21, Zenon DEF PortFields, PortShape, PortOthers
  <2>4. b0.pending = q.pending /\ b0.queued = q.queued /\ b0.queued_count = q.queued_count
    BY <2>3, Zenon DEF PortOthers, PortFields
  <2> HIDE DEF b0
  <2>5. b0.last_buf_full = p.last_buf_full /\ b0.busy_time = p.busy_time
    <3>1. CASE c3
      <4> HIDE DEF c3
      <4>. QED
        BY <1>6, <2>3, <3>1, Zenon
    <3>2. CASE ~c3
      <4>1. p.last_buf_full = 0
        <5> HIDE DEF p
        <5>. QED
          BY <1>3, <3>2
      <4>2. worked = p.busy_time
        BY <3>2, Zenon
      <4> HIDE DEF c3, worked
      <4>. QED
        BY <1>6, <1>22, <2>3, <3>2, <4>1, <4>2, Zenon
    <3>. QED
      BY <3>1, <3>2
  <2>6. b0.in_send_loop = p.in_send_loop
    <3>1. CASE c2
      <4>1. p.in_send_loop = FALSE
        BY <1>3, <3>1
      <4>. QED
        BY <1>6, <2>3, <3>1, <4>1, Zenon
    <3>2. CASE ~c2
      <4>1. q.in_send_loop = p.in_send_loop
        BY <1>3, <1>20, <1>21, <3>2
      <4>. QED
        BY <1>6, <2>3, <3>2, <4>1, Zenon
    <3>. QED
      BY <3>1, <3>2
  <2>7. PortShape(back)
    BY <2>3
  <2>9. back.pending = p.pending
    BY <1>22, <2>4
  <2>10. back.queued = p.queued
    BY <1>22, <2>4
  <2>11. back.vc_occupancy = p.vc_occupancy
    <3>1. q.vc_occupancy[ch] + ChunkSize = p.vc_occupancy[ch]
      BY <1>1, <1>3, <1>7, <1>22
    <3>2. back.vc_occupancy = [q.vc_occupancy EXCEPT ![ch] = p.vc_occupancy[ch]]
      BY <2>3, <3>1, Zenon
    <3> HIDE DEF p, ch
    <3>. QED
      BY <1>1, <1>3, <1>22, <3>2, SetBack
  <2>12. back.queued_count = p.queued_count
    BY <1>22, <2>4
  <2>13. PortOthers(K, back, p)
    <3>1. PortOthers(K, b0, q) /\ PortOthers(K, q, q0) /\ PortOthers(K, freed, p)
      BY <1>11, <1>21, <2>3, Zenon DEF PortOthers
    <3>. QED
      BY <3>1, Zenon DEF PortOthers, q0
  <2>14. /\ back.busy_time = p.busy_time /\ back.last_buf_full = p.last_buf_full
         /\ back.in_send_loop = p.in_send_loop
    BY <2>5, <2>6
  <2>15. PortOthers({}, back, p)
    BY <2>9, <2>10, <2>11, <2>12, <2>13, <2>14, Zenon DEF PortOthers
  <2>16. back = p
    BY <1>2, <2>7, <2>15, PortEqual
  <2>. QED
    BY <2>1, <2>2, <2>16, Zenon
<1> HIDE DEF c2
<1>30. /\ \A h \in o.sent : EventOK(h)
       /\ PortSends(r, P, o.sent)
  BY <1>5, <1>8 DEF PortSends
<1>31. PortEvents(o.sent, P) \cap PortEvents(F, P) \subseteq {e}
  BY <1>25, <1>27
<1> HIDE DEF P, p
<1>. QED
  <2>1. HandlerOK(r, s, F, e, o)
    <3>1. s[P] = p
      BY DEF p
    <3>2. \A en, z : en.ev = e /\ en.rc = o.rc /\ z[P] = q => reverse(z, en) = [z EXCEPT ![P] = s[P]]
      BY <1>29, <3>1, Zenon
    <3>. QED
      BY <1>1, <1>4, <1>24, <1>26, <1>28, <1>30, <1>31, <3>2, RouterHandler
  <2>. QED
    BY <2>1 DEF o

LEMMA CreditHandler ==
  ASSUME NEW r, NEW s, NEW F, NEW e, RouterReady(r, s, F, e), e.type = "R_BUFFER"
  PROVE  HandlerOK(r, s, F, e, router_buf_update(s, e))
  BY CreditMoves, CreditFrees, Zenon

-----------------------------------------------------------------------------
(* All LPs together.  The invariant says that there is a history: for each  *)
(* entry of the log the views V and the loop events L of every LP before    *)
(* it, and last those of the present.                                      *)

LEMMA ViewShape ==
  ASSUME NEW t \in Terminals, NEW s, TermShape(s)
  PROVE  SameButLeft(InChunks(t, s), s)
<1> DEFINE w == [k \in DOMAIN s.remaining_sz |-> num_chunks_for(s.remaining_sz[k])]
<1>1. InChunks(t, s) = [s EXCEPT !.remaining_sz = w]
  BY Zenon DEF InChunks
<1> HIDE DEF w
<1>. QED
  BY <1>1, TermWithLeft, Zenon

\* what the loops need of a state is in its view
LEMMA LoopsInView ==
  ASSUME NEW x \in Lps, NEW s, StateOK(x, s), NEW F
  PROVE  LoopsOK(x, InChunks(x, s), F) <=> LoopsOK(x, s, F)
<1>1. CASE x \in Terminals
  <2>1. SameButLeft(InChunks(x, s), s)
    BY <1>1, ViewShape, Zenon DEF StateOK, TermOK
  <2> DEFINE v == InChunks(x, s)
  <2> HIDE DEF v
  <2>2. /\ v.in_send_loop = s.in_send_loop /\ v.in_sched_loop = s.in_sched_loop
        /\ v.issueIdle = s.issueIdle /\ v.sched = s.sched
        /\ v.terminal_msgs = s.terminal_msgs /\ v.vc_occupancy = s.vc_occupancy
    BY <2>1, Zenon DEF v, SameButLeft
  <2>3. get_next_vcg_fails(v) = get_next_vcg_fails(s)
    BY <2>2, Zenon DEF get_next_vcg_fails
  <2>4. TermLoops(v, F) <=> TermLoops(s, F)
    BY <2>2, <2>3, Zenon DEF TermLoops
  <2>. QED
    BY <1>1, <2>4, Zenon DEF v, LoopsOK
<1>2. CASE x \notin Terminals
  BY <1>2, Zenon DEF InChunks
<1>. QED
  BY <1>1, <1>2

IsSeq(g) == \E U : g \in Seq(U)

LEMMA LongLogFacts ==
  ASSUME NEW g, IsSeq(g), NEW en
  PROVE  /\ Len(g) \in Nat /\ IsSeq(Append(g, en)) /\ Len(Append(g, en)) = Len(g) + 1
         /\ \A i \in 1 .. Len(g) : Append(g, en)[i] = g[i]
         /\ Append(g, en)[Len(g) + 1] = en
<1>1. PICK U : g \in Seq(U)
  BY DEF IsSeq
<1>2. g \in Seq(U \cup {en})
  BY <1>1, SeqOfMore
<1>3. Append(g, en) \in Seq(U \cup {en})
  BY <1>2
<1>. QED
  BY <1>2, <1>3 DEF IsSeq

LEMMA ShortLogFacts ==
  ASSUME NEW g, IsSeq(g), g # << >>
  PROVE  /\ Len(g) \in Nat \ {0}
         /\ LET h == SubSeq(g, 1, Len(g) - 1)
            IN  IsSeq(h) /\ Len(h) = Len(g) - 1 /\ \A i \in 1 .. Len(g) - 1 : h[i] = g[i]
         /\ LET h == Tail(g)
            IN  IsSeq(h) /\ Len(h) = Len(g) - 1 /\ \A i \in 1 .. Len(g) - 1 : h[i] = g[i + 1]
<1>1. PICK U : g \in Seq(U)
  BY DEF IsSeq
<1>2. Len(g) \in Nat \ {0}
  BY <1>1
<1>3. Tail(g) \in Seq(U) /\ Len(Tail(g)) = Len(g) - 1 /\ \A i \in 1 .. Len(g) - 1 : Tail(g)[i] = g[i + 1]
  BY <1>1, <1>2
<1>4. /\ SubSeq(g, 1, Len(g) - 1) \in Seq(U) /\ Len(SubSeq(g, 1, Len(g) - 1)) = Len(g) - 1
      /\ \A i \in 1 .. Len(g) - 1 : SubSeq(g, 1, Len(g) - 1)[i] = g[i]
  <2> DEFINE m == Len(g) - 1
  <2>1. m \in Nat /\ m <= Len(g) /\ \A i \in 1 .. m : g[i] \in U
    BY <1>1, <1>2
  <2> HIDE DEF m
  <2>2. SubSeq(g, 1, m) = [i \in 1 .. m |-> g[i]]
    BY <1>1, <2>1
  <2>3. SubSeq(g, 1, m) \in Seq(U) /\ Len(SubSeq(g, 1, m)) = m
    BY <2>1, <2>2
  <2>4. \A i \in 1 .. m : SubSeq(g, 1, m)[i] = g[i]
    BY <2>2, Zenon
  <2>. QED
    BY <2>3, <2>4 DEF m
<1>. QED
  BY <1>2, <1>3, <1>4 DEF IsSeq

\* an entry of the log, between the views and loop events before it and after it
Link(en, v, l, v2, l2) ==
  LET x == en.ev.to
  IN  /\ EventOK(en.ev)
      /\ v[x] = InChunks(x, en.before)
      /\ \A y \in Lps \ {x} : v2[y] = v[y] /\ l2[y] = l[y]
      /\ \A f \in en.sent : f.type \in LoopTypes => f.to = x
      /\ l[x] = (l2[x] \ en.sent) \cup LoopEvents({en.ev}, x)
      /\ \A z : StateOK(x, z) /\ InChunks(x, z) = v2[x] =>
                  StateOK(x, reverse(z, en)) /\ InChunks(x, reverse(z, en)) = v[x]

\* states S, events E and log g with the history V, L
World(S, E, g, V, L) ==
  /\ S = [x \in Lps |-> S[x]]
  /\ \A x \in Lps : StateOK(x, S[x])
  /\ \A e \in E : EventOK(e)
  /\ IsSeq(g)
  /\ \A i \in 1 .. Len(g) + 1 : \A x \in Lps : LoopsOK(x, V[i][x], L[i][x])
  /\ \A i \in 1 .. Len(g) : Link(g[i], V[i], L[i], V[i + 1], L[i + 1])
  /\ \A x \in Lps : /\ V[Len(g) + 1][x] = InChunks(x, S[x])
                    /\ L[Len(g) + 1][x] = LoopEvents(E, x)

IndInv == \E V, L : World(lps, events, log, V, L)

LEMMA EventTo ==
  ASSUME NEW e, EventOK(e)
  PROVE  e.to \in Lps
  BY DEF EventOK, Lps

SameViews(g, V, V2) == \A i \in 1 .. Len(g) + 1 : V2[i] = V[i]

LEMMA ProcessStep ==
  ASSUME NEW S, NEW E, NEW g, NEW V, NEW L, World(S, E, g, V, L), NEW e \in E, NEW o,
         HandlerOK(e.to, S[e.to], LoopEvents(E, e.to), e, o),
         NEW en, en.ev = e, en.rc = o.rc, en.sent = o.sent, en.before = S[e.to]
  PROVE  \E V2, L2 : /\ World([S EXCEPT ![e.to] = o.ns], (E \ {e}) \cup o.sent, Append(g, en), V2, L2)
                     /\ SameViews(g, V, V2)
<1> DEFINE x == e.to
           n == Len(g)
           T == [S EXCEPT ![x] = o.ns]
           D == (E \ {e}) \cup o.sent
           h == Append(g, en)
           F == LoopEvents(E, x)
           G == (F \ {e}) \cup LoopEvents(o.sent, x)
           V2 == [i \in 1 .. n + 2 |-> IF i = n + 2 THEN [y \in Lps |-> InChunks(y, T[y])] ELSE V[i]]
           L2 == [i \in 1 .. n + 2 |-> IF i = n + 2 THEN [y \in Lps |-> LoopEvents(D, y)] ELSE L[i]]
<1>1. x \in Lps /\ EventOK(e)
  BY EventTo, Zenon DEF World
<1>2. /\ StateOK(x, o.ns)
      /\ \A f \in o.sent : EventOK(f) /\ (f.type \in LoopTypes => f.to = x)
      /\ LoopsOK(x, o.ns, G)
      /\ F = (G \ o.sent) \cup LoopEvents({e}, x)
      /\ \A z : StateOK(x, z) /\ InChunks(x, z) = InChunks(x, o.ns) =>
                  StateOK(x, reverse(z, en)) /\ InChunks(x, reverse(z, en)) = InChunks(x, S[x])
  BY Zenon DEF HandlerOK
<1>3. /\ n \in Nat /\ IsSeq(h) /\ Len(h) = n + 1
      /\ (\A i \in 1 .. n : h[i] = g[i]) /\ h[n + 1] = en
  BY LongLogFacts, Zenon DEF World
<1>4. DOMAIN S = Lps
  BY Zenon DEF World
<1>5. T = [y \in Lps |-> T[y]] /\ T[x] = o.ns /\ \A y \in Lps \ {x} : T[y] = S[y]
  BY <1>1, <1>4, Zenon
<1>6. \A y \in Lps : StateOK(y, T[y])
  BY <1>2, <1>5, Zenon DEF World
<1>7. \A f \in D : EventOK(f)
  BY <1>2, Zenon DEF World
<1>8. LoopEvents(D, x) = G
  BY Zenon DEF LoopEvents
<1>9. \A y \in Lps \ {x} : LoopEvents(D, y) = LoopEvents(E, y)
  BY <1>2, Zenon DEF LoopEvents
<1>10. /\ \A i \in 1 .. n + 1 : V2[i] = V[i] /\ L2[i] = L[i]
       /\ V2[n + 2] = [y \in Lps |-> InChunks(y, T[y])]
       /\ L2[n + 2] = [y \in Lps |-> LoopEvents(D, y)]
  <2> HIDE DEF n, T, D
  <2>. QED
    BY <1>3
<1>11. /\ \A y \in Lps : V2[n + 2][y] = InChunks(y, T[y]) /\ L2[n + 2][y] = LoopEvents(D, y)
       /\ \A y \in Lps : V[n + 1][y] = InChunks(y, S[y]) /\ L[n + 1][y] = LoopEvents(E, y)
  <2>1. \A y \in Lps : V[n + 1][y] = InChunks(y, S[y]) /\ L[n + 1][y] = LoopEvents(E, y)
    BY Zenon DEF World
  <2> HIDE DEF T, D, V2, L2, n
  <2>. QED
    BY <1>10, <2>1, Zenon
<1> HIDE DEF T, D, h, F, G, V2, L2
<1>12. V2[n + 1] = V[n + 1] /\ L2[n + 1] = L[n + 1]
  <2> HIDE DEF n
  <2>. QED
    BY <1>3, <1>10
<1>13. \A y \in Lps : LoopsOK(y, S[y], LoopEvents(E, y))
  <2>1. \A y \in Lps : LoopsOK(y, V[n + 1][y], L[n + 1][y])
    <3>1. n + 1 \in 1 .. n + 1
      BY <1>3
    <3>. QED
      BY <3>1, Zenon DEF World
  <2> SUFFICES ASSUME NEW y \in Lps PROVE LoopsOK(y, S[y], LoopEvents(E, y))
    OBVIOUS
  <2>2. StateOK(y, S[y])
    BY Zenon DEF World
  <2>3. LoopsOK(y, InChunks(y, S[y]), LoopEvents(E, y))
    BY <1>11, <2>1, Zenon
  <2>. QED
    BY <2>2, <2>3, LoopsInView
<1>14. \A y \in Lps : LoopsOK(y, V2[n + 2][y], L2[n + 2][y])
  <2>1. \A y \in Lps : LoopsOK(y, T[y], LoopEvents(D, y))
    BY <1>2, <1>5, <1>8, <1>9, <1>13, Zenon
  <2> SUFFICES ASSUME NEW y \in Lps PROVE LoopsOK(y, V2[n + 2][y], L2[n + 2][y])
    OBVIOUS
  <2>2. LoopsOK(y, InChunks(y, T[y]), LoopEvents(D, y))
    BY <1>6, <2>1, LoopsInView
  <2>. QED
    BY <1>11, <2>2, Zenon
<1>15. ASSUME NEW i \in 1 .. Len(h) + 1, NEW y \in Lps
       PROVE  LoopsOK(y, V2[i][y], L2[i][y])
  <2>1. i \in 1 .. n + 1 \/ i = n + 2
    BY <1>3
  <2>2. CASE i \in 1 .. n + 1
    BY <1>10, <2>2, Zenon DEF World
  <2>. QED
    BY <1>14, <2>1, <2>2, Zenon
<1>16. Link(en, V[n + 1], L[n + 1], V2[n + 2], L2[n + 2])
  <2>1. V[n + 1][x] = InChunks(x, S[x]) /\ L[n + 1][x] = F /\ V2[n + 2][x] = InChunks(x, o.ns) /\ L2[n + 2][x] = G
    <3>1. V[n + 1][x] = InChunks(x, S[x]) /\ L[n + 1][x] = F
      BY <1>1, <1>11, Zenon DEF F
    <3>2. V2[n + 2][x] = InChunks(x, T[x]) /\ L2[n + 2][x] = LoopEvents(D, x)
      BY <1>1, <1>11, Zenon
    <3>. QED
      BY <1>5, <1>8, <3>1, <3>2, Zenon
  <2>2. \A y \in Lps \ {x} : V2[n + 2][y] = V[n + 1][y] /\ L2[n + 2][y] = L[n + 1][y]
    <3> SUFFICES ASSUME NEW y \in Lps \ {x}
                 PROVE  V2[n + 2][y] = V[n + 1][y] /\ L2[n + 2][y] = L[n + 1][y]
      OBVIOUS
    <3>1. T[y] = S[y] /\ LoopEvents(D, y) = LoopEvents(E, y) /\ y \in Lps
      BY <1>5, <1>9
    <3>2. V2[n + 2][y] = InChunks(y, T[y]) /\ L2[n + 2][y] = LoopEvents(D, y)
          /\ V[n + 1][y] = InChunks(y, S[y]) /\ L[n + 1][y] = LoopEvents(E, y)
      BY <1>11, <3>1, Zenon
    <3>. QED
      BY <3>1, <3>2, Zenon
  <2>. QED
    BY <1>1, <1>2, <2>1, <2>2, Zenon DEF Link
<1>17. ASSUME NEW i \in 1 .. Len(h)
       PROVE  Link(h[i], V2[i], L2[i], V2[i + 1], L2[i + 1])
  <2>1. CASE i \in 1 .. n
    <3>1. i \in 1 .. n + 1 /\ i + 1 \in 1 .. n + 1
      <4> HIDE DEF n
      <4>. QED
        BY <1>3, <2>1
    <3>. QED
      BY <1>3, <1>10, <2>1, <3>1, Zenon DEF World
  <2>2. CASE i = n + 1
    <3>1. i + 1 = n + 2
      <4> HIDE DEF n
      <4>. QED
        BY <1>3, <2>2
    <3>. QED
      BY <1>3, <1>12, <1>16, <2>2, <3>1, Zenon
  <2>. QED
    <3> HIDE DEF n
    <3>. QED
      BY <1>3, <2>1, <2>2
<1>18. \A y \in Lps : /\ V2[Len(h) + 1][y] = InChunks(y, T[y])
                      /\ L2[Len(h) + 1][y] = LoopEvents(D, y)
  <2>1. Len(h) + 1 = n + 2
    <3> HIDE DEF n
    <3>. QED
      BY <1>3
  <2>. QED
    BY <1>11, <2>1, Zenon
<1>19. World(T, D, h, V2, L2)
  BY <1>3, <1>5, <1>6, <1>7, <1>15, <1>17, <1>18, Zenon DEF World
<1>. QED
  BY <1>10, <1>19, Zenon DEF T, D, h, SameViews

LEMMA UndoStep ==
  ASSUME NEW S, NEW E, NEW g, NEW V, NEW L, World(S, E, g, V, L), g # << >>,
         NEW en, en = g[Len(g)]
  PROVE  LET x == en.ev.to
         IN  /\ World([S EXCEPT ![x] = reverse(S[x], en)], (E \ en.sent) \cup {en.ev},
                      SubSeq(g, 1, Len(g) - 1), V, L)
             /\ InChunks(x, reverse(S[x], en)) = InChunks(x, en.before)
<1> DEFINE x == en.ev.to
           n == Len(g)
           T == [S EXCEPT ![x] = reverse(S[x], en)]
           D == (E \ en.sent) \cup {en.ev}
           h == SubSeq(g, 1, Len(g) - 1)
<1>1. /\ n \in Nat \ {0} /\ IsSeq(h) /\ Len(h) = n - 1
      /\ \A i \in 1 .. n - 1 : h[i] = g[i]
  BY ShortLogFacts, Zenon DEF World
<1> HIDE DEF h
<1>2. n \in 1 .. n /\ n \in 1 .. n + 1
  <2> HIDE DEF n
  <2>. QED
    BY <1>1
<1>3. Link(en, V[n], L[n], V[n + 1], L[n + 1])
  BY <1>2, Zenon DEF World
<1>4. x \in Lps
  BY <1>3, EventTo, Zenon DEF Link
<1>5. /\ EventOK(en.ev) /\ V[n][x] = InChunks(x, en.before)
      /\ \A y \in Lps \ {x} : V[n + 1][y] = V[n][y] /\ L[n + 1][y] = L[n][y]
      /\ \A f \in en.sent : f.type \in LoopTypes => f.to = x
      /\ L[n][x] = (L[n + 1][x] \ en.sent) \cup LoopEvents({en.ev}, x)
  BY <1>3, Zenon DEF Link
<1>6. \A y \in Lps : V[n + 1][y] = InChunks(y, S[y]) /\ L[n + 1][y] = LoopEvents(E, y) /\ StateOK(y, S[y])
  BY Zenon DEF World
<1>7. StateOK(x, reverse(S[x], en)) /\ InChunks(x, reverse(S[x], en)) = V[n][x]
  BY <1>3, <1>4, <1>6, Zenon DEF Link
<1>8. DOMAIN S = Lps
  BY Zenon DEF World
<1>9. T = [y \in Lps |-> T[y]] /\ T[x] = reverse(S[x], en) /\ \A y \in Lps \ {x} : T[y] = S[y]
  BY <1>4, <1>8, Zenon
<1> HIDE DEF T
<1>10. \A y \in Lps : StateOK(y, T[y])
  BY <1>6, <1>7, <1>9, Zenon
<1>11. \A f \in D : EventOK(f)
  BY <1>5, Zenon DEF World
<1>12. \A y \in Lps : V[n][y] = InChunks(y, T[y])
  BY <1>5, <1>6, <1>7, <1>9, Zenon
<1>13. LoopEvents(D, x) = (LoopEvents(E, x) \ en.sent) \cup LoopEvents({en.ev}, x)
  BY Zenon DEF LoopEvents
<1>14. \A y \in Lps \ {x} : LoopEvents(D, y) = LoopEvents(E, y)
  BY <1>5, Zenon DEF LoopEvents
<1>15. \A y \in Lps : L[n][y] = LoopEvents(D, y)
  BY <1>4, <1>5, <1>6, <1>13, <1>14, Zenon
<1>16. Len(h) + 1 = n /\ 1 .. Len(h) + 1 \subseteq 1 .. n + 1 /\ 1 .. Len(h) \subseteq 1 .. n
       /\ 1 .. Len(h) = 1 .. n - 1
  <2> HIDE DEF n
  <2>. QED
    BY <1>1
<1>17. \A i \in 1 .. Len(h) : Link(h[i], V[i], L[i], V[i + 1], L[i + 1])
  BY <1>1, <1>16, Zenon DEF World
<1>18. \A i \in 1 .. Len(h) + 1 : \A y \in Lps : LoopsOK(y, V[i][y], L[i][y])
  BY <1>16, Zenon DEF World
<1> HIDE DEF D
<1>19. World(T, D, h, V, L)
  BY <1>1, <1>9, <1>10, <1>11, <1>12, <1>15, <1>16, <1>17, <1>18, Zenon DEF World
<1>. QED
  BY <1>5, <1>7, <1>19, Zenon DEF T, D, h

LaterViews(g, V, V2) == \A i \in 1 .. Len(g) : V2[i] = V[i + 1]

LEMMA CommitStep ==
  ASSUME NEW S, NEW E, NEW g, NEW V, NEW L, World(S, E, g, V, L), g # << >>
  PROVE  \E V2, L2 : World(S, E, Tail(g), V2, L2) /\ LaterViews(g, V, V2)
<1> DEFINE n == Len(g)
           h == Tail(g)
           V2 == [i \in 1 .. n |-> V[i + 1]]
           L2 == [i \in 1 .. n |-> L[i + 1]]
<1>1. /\ n \in Nat \ {0} /\ IsSeq(h) /\ Len(h) = n - 1
      /\ \A i \in 1 .. n - 1 : h[i] = g[i + 1]
  BY ShortLogFacts, Zenon DEF World
<1> HIDE DEF h
<1>2. \A i \in 1 .. n : V2[i] = V[i + 1] /\ L2[i] = L[i + 1]
  BY Zenon
<1> HIDE DEF V2, L2
<1>3. /\ Len(h) + 1 = n /\ n \in 1 .. n
      /\ \A i \in 1 .. Len(h) + 1 : i \in 1 .. n /\ i + 1 \in 1 .. n + 1
      /\ \A i \in 1 .. Len(h) : i + 1 \in 1 .. n /\ i \in 1 .. n - 1 /\ i \in 1 .. n
  <2> HIDE DEF n
  <2>. QED
    BY <1>1
<1>4. \A i \in 1 .. Len(h) + 1 : \A x \in Lps : LoopsOK(x, V2[i][x], L2[i][x])
  BY <1>2, <1>3, Zenon DEF World
<1>5. \A i \in 1 .. Len(h) : Link(h[i], V2[i], L2[i], V2[i + 1], L2[i + 1])
  BY <1>1, <1>2, <1>3, Zenon DEF World
<1>6. \A x \in Lps : /\ V2[Len(h) + 1][x] = InChunks(x, S[x])
                     /\ L2[Len(h) + 1][x] = LoopEvents(E, x)
  BY <1>2, <1>3, Zenon DEF World
<1>7. World(S, E, h, V2, L2)
  BY <1>1, <1>4, <1>5, <1>6, Zenon DEF World
<1>. QED
  BY <1>2, <1>7, Zenon DEF h, LaterViews

-----------------------------------------------------------------------------
(* The initial states.                                                     *)

LEMMA TerminalStart ==
  ASSUME NEW t \in Terminals
  PROVE  TermOK(t, TerminalInit) /\ TermLoops(TerminalInit, {})
<1> DEFINE s == TerminalInit
<1>1. /\ s.sched = Sched!fcfs_init /\ s.terminal_msgs = << >> /\ s.rank_tbl = << >>
      /\ s.remaining_sz = << >> /\ s.zombies = {}
      /\ s.packet_counter = 0 /\ s.terminal_length = 0 /\ s.vc_occupancy = 0
      /\ s.last_buf_full = 0 /\ s.busy_time = 0 /\ s.available_time = 0
      /\ s.last_in_queue_time = 0
  BY DEF TerminalInit
<1>2. s.in_sched_loop = FALSE /\ s.in_send_loop = FALSE /\ s.issueIdle = FALSE
  BY Zenon DEF TerminalInit
<1>3. TermShape(s)
  <2>1. DOMAIN s = TermFields
    BY DEF TerminalInit, TermFields
  <2>. QED
    BY <2>1 DEF TermShape, TerminalInit
<1>4. s.sched.reqs = << >>
  BY <1>1 DEF Sched!fcfs_init
<1> HIDE DEF s
<1>5. << >> \in Tables(Msgs, [num_chunks: Int, remaining_packets: Int])
      /\ << >> \in Tables(PacketKeys, Nat \ {0})
  <2>1. ASSUME NEW K, NEW W PROVE << >> \in Tables(K, W)
    <3>1. << >> \in [{} -> W] /\ {} \in SUBSET K
      OBVIOUS
    <3>. QED
      BY <3>1, Zenon DEF Tables
  <2>. QED
    BY <2>1, Zenon
<1>6. << >> \in Seq(OwnChunk(t))
  OBVIOUS
<1>7. s.in_sched_loop \in BOOLEAN /\ s.in_send_loop \in BOOLEAN /\ s.issueIdle \in BOOLEAN
  BY <1>2, Zenon
<1>8. /\ s.packet_counter \in Nat /\ s.terminal_length \in Int /\ s.vc_occupancy \in Int
      /\ s.last_buf_full \in Nat /\ s.busy_time \in Int /\ s.available_time \in Nat
      /\ s.last_in_queue_time \in Nat
  BY <1>1
<1>9. TermOK(t, s)
  <2>1. s.sched \in QueueOf(t) /\ s.terminal_msgs \in Seq(OwnChunk(t))
    BY <1>1, <1>6, EmptyQueue, Zenon
  <2>2. s.zombies \in SUBSET PacketKeys
    BY <1>1, Zenon
  <2>. QED
    BY <1>1, <1>3, <1>5, <1>7, <1>8, <2>1, <2>2, Zenon DEF TermOK
<1>10. get_next_vcg_fails(s)
  BY <1>1, Zenon DEF get_next_vcg_fails
<1>11. SendEvents({}) = {} /\ IdleTokens({}) = {}
  BY DEF SendEvents, IdleTokens
<1>12. TermLoops(s, {})
  BY <1>2, <1>4, <1>10, <1>11, Zenon DEF TermLoops, NoneOrOne
<1>. QED
  BY <1>9, <1>12 DEF s

LEMMA RouterStart ==
  ASSUME NEW r \in Routers
  PROVE  /\ RouterOK(r, RouterInit(r))
         /\ \A p \in Ports(r) : PortLoops(p, RouterInit(r)[p], {})
<1> DEFINE s == PortInit
<1>1. /\ s.pending = [c \in Chans |-> << >>] /\ s.queued = [c \in Chans |-> << >>]
      /\ s.vc_occupancy = [c \in Chans |-> 0]
  BY Zenon DEF PortInit
<1>2. s.in_send_loop = FALSE
  BY Zenon DEF PortInit
<1>3. /\ s.queued_count \in Int /\ s.last_buf_full \in Nat /\ s.busy_time \in Int
      /\ s.next_available \in Nat /\ s.last_qos_lvl \in Int /\ s.link_traffic \in Int
  BY DEF PortInit
<1>4. PortShape(s)
  <2>1. DOMAIN s = PortFields
    BY DEF PortInit, PortFields
  <2>. QED
    BY <2>1 DEF PortShape, PortInit
<1> HIDE DEF s
<1>5. ASSUME NEW p \in Ports(r)
      PROVE  PortOK(r, p, s) /\ PortLoops(p, s, {})
  <2>1. s.pending \in Pendings(r, p) /\ s.queued \in Queueds(r, p)
    <3>1. \A c \in Chans : s.pending[c] = << >> /\ s.queued[c] = << >>
      BY <1>1
    <3>2. s.pending \in [Chans -> Seq(ChunkType)] /\ s.queued \in [Chans -> Seq(ChunkType)]
      BY <1>1
    <3>3. \A U : << >> \in Seq(U)
      OBVIOUS
    <3>. QED
      BY <3>1, <3>2, <3>3, Zenon DEF Pendings, Queueds
  <2>2. s.vc_occupancy \in [Chans -> Int]
    BY <1>1
  <2>3. s.in_send_loop \in BOOLEAN
    BY <1>2, Zenon
  <2>4. PortOK(r, p, s)
    BY <1>3, <1>4, <2>1, <2>2, <2>3, Zenon DEF PortOK
  <2>5. \A c \in Chans : s.pending[c] = << >> /\ s.queued[c] = << >>
    BY <1>1
  <2>6. ~HasPending(s)
    BY <2>5, Zenon DEF HasPending
  <2>7. PortEvents({}, p) = {}
    BY DEF PortEvents
  <2>8. PortLoops(p, s, {})
    BY <1>2, <2>5, <2>6, <2>7, Zenon DEF PortLoops, NoneOrOne
  <2>. QED
    BY <2>4, <2>8
<1>6. RouterInit(r) = [p \in Ports(r) |-> s]
  BY Zenon DEF s, RouterInit
<1>7. \A p \in Ports(r) : RouterInit(r)[p] = s
  BY <1>6, Zenon
<1>8. RouterInit(r) = [p \in Ports(r) |-> RouterInit(r)[p]]
  BY <1>6, Zenon
<1>. QED
  BY <1>5, <1>7, <1>8, Zenon DEF RouterOK

LEMMA NewMsgOK ==
  ASSUME NEW m \in Msgs, NEW ts \in Nat
  PROVE  EventOK(NewMsgEvent(m, ts)) /\ NewMsgEvent(m, ts).type \notin LoopTypes
<1>1. Msg[m].src \in Terminals
  BY NetAssumption
<1>. QED
  BY <1>1 DEF NewMsgEvent, EventOK, LoopTypes, TermEvents, RouterEvents

LEMMA StartInv == Init => IndInv
<1> SUFFICES ASSUME Init PROVE IndInv
  OBVIOUS
<1> DEFINE V == [i \in {1} |-> [x \in Lps |-> InChunks(x, lps[x])]]
           L == [i \in {1} |-> [x \in Lps |-> LoopEvents(events, x)]]
<1>1. \A x \in Lps : lps[x] = IF x \in Terminals THEN TerminalInit ELSE RouterInit(x)
  BY Zenon DEF Init, Lps
<1>2. lps = [x \in Lps |-> lps[x]]
  BY <1>1, Zenon DEF Init, Lps
<1>3. ASSUME NEW x \in Lps PROVE StateOK(x, lps[x]) /\ LoopsOK(x, lps[x], {})
  <2>1. CASE x \in Terminals
    BY <1>1, <2>1, TerminalStart, Zenon DEF StateOK, LoopsOK
  <2>2. CASE x \notin Terminals
    <3>1. x \in Routers
      BY <2>2 DEF Lps
    <3>. QED
      BY <1>1, <2>2, <3>1, RouterStart, Zenon DEF StateOK, LoopsOK
  <2>. QED
    BY <2>1, <2>2
<1>4. PICK ts \in [Msgs -> Times] : events = {NewMsgEvent(m, ts[m]) : m \in Msgs}
  BY Zenon DEF Init
<1>5. \A e \in events : EventOK(e) /\ e.type \notin LoopTypes
  <2>1. \A m \in Msgs : ts[m] \in Nat
    BY <1>4, TimesAssumption
  <2>2. \A m \in Msgs : EventOK(NewMsgEvent(m, ts[m])) /\ NewMsgEvent(m, ts[m]).type \notin LoopTypes
    BY <2>1, NewMsgOK
  <2>. QED
    BY <1>4, <2>2, Zenon
<1>6. \A x : LoopEvents(events, x) = {}
  BY <1>5, Zenon DEF LoopEvents
<1>7. log = << >> /\ Len(log) = 0 /\ IsSeq(log)
  <2>1. log = << >>
    BY Zenon DEF Init
  <2>2. << >> \in Seq({})
    OBVIOUS
  <2>. QED
    BY <2>1, <2>2 DEF IsSeq
<1>8. 1 .. Len(log) + 1 = {1} /\ Len(log) + 1 = 1 /\ 1 .. Len(log) = {}
  BY <1>7
<1>9. V[1] = [x \in Lps |-> InChunks(x, lps[x])] /\ L[1] = [x \in Lps |-> LoopEvents(events, x)]
  BY Zenon
<1> HIDE DEF V, L
<1>10. \A x \in Lps : V[1][x] = InChunks(x, lps[x]) /\ L[1][x] = LoopEvents(events, x)
  BY <1>9, Zenon
<1>11. ASSUME NEW x \in Lps PROVE LoopsOK(x, V[1][x], L[1][x])
  <2>1. LoopsOK(x, InChunks(x, lps[x]), {})
    BY <1>3, LoopsInView
  <2>. QED
    BY <1>6, <1>10, <2>1, Zenon
<1>12. World(lps, events, log, V, L)
  <2>1. \A i \in 1 .. Len(log) + 1 : \A x \in Lps : LoopsOK(x, V[i][x], L[i][x])
    BY <1>8, <1>11, Zenon
  <2>2. \A i \in 1 .. Len(log) : Link(log[i], V[i], L[i], V[i + 1], L[i + 1])
    BY <1>8, Zenon
  <2>3. \A x \in Lps : /\ V[Len(log) + 1][x] = InChunks(x, lps[x])
                       /\ L[Len(log) + 1][x] = LoopEvents(events, x)
    BY <1>8, <1>10, Zenon
  <2>. QED
    BY <1>2, <1>3, <1>5, <1>7, <2>1, <2>2, <2>3, Zenon DEF World
<1>. QED
  BY <1>12, Zenon DEF IndInv

-----------------------------------------------------------------------------
(* Every step keeps the invariant.                                         *)

LEMMA WorldLoops ==
  ASSUME NEW S, NEW E, NEW g, NEW V, NEW L, World(S, E, g, V, L), NEW x \in Lps
  PROVE  StateOK(x, S[x]) /\ LoopsOK(x, S[x], LoopEvents(E, x))
<1>1. StateOK(x, S[x])
  BY Zenon DEF World
<1>2. Len(g) + 1 \in 1 .. Len(g) + 1
  <2>1. PICK U : g \in Seq(U)
    BY Zenon DEF World, IsSeq
  <2>2. Len(g) \in Nat
    BY <2>1
  <2>. QED
    BY <2>2
<1>3. LoopsOK(x, V[Len(g) + 1][x], L[Len(g) + 1][x])
  BY <1>2, Zenon DEF World
<1>4. LoopsOK(x, InChunks(x, S[x]), LoopEvents(E, x))
  BY <1>3, Zenon DEF World
<1>. QED
  BY <1>1, <1>4, LoopsInView

LEMMA TermIsReady ==
  ASSUME NEW S, NEW E, NEW g, NEW V, NEW L, World(S, E, g, V, L), NEW e \in E, e.type \in TermEvents
  PROVE  TermReady(e.to, S[e.to], LoopEvents(E, e.to), e)
<1>1. EventOK(e)
  BY Zenon DEF World
<1>2. e.to \in Terminals /\ e.to \in Lps
  BY <1>1, Zenon DEF EventOK, Lps
<1>3. TermOK(e.to, S[e.to]) /\ TermLoops(S[e.to], LoopEvents(E, e.to))
  BY <1>2, WorldLoops, Zenon DEF StateOK, LoopsOK
<1>4. ASSUME NEW f \in LoopEvents(E, e.to)
      PROVE  f.type \in LoopTypes \ {"R_SEND"} /\ f.to = e.to
  <2>1. f \in E /\ f.type \in LoopTypes /\ f.to = e.to
    BY Zenon DEF LoopEvents
  <2>2. EventOK(f)
    BY <2>1, Zenon DEF World
  <2>3. f.type = "R_SEND" => f.to \in Routers
    BY <2>2, Zenon DEF EventOK, RouterEvents
  <2>4. f.to \notin Routers
    BY <1>2, <2>1, RouteAssumption
  <2>. QED
    BY <2>1, <2>3, <2>4, Zenon
<1>5. e.type \in LoopTypes => e \in LoopEvents(E, e.to)
  BY Zenon DEF LoopEvents
<1>. QED
  BY <1>1, <1>2, <1>3, <1>4, <1>5, Zenon DEF TermReady

LEMMA RouterIsReady ==
  ASSUME NEW S, NEW E, NEW g, NEW V, NEW L, World(S, E, g, V, L), NEW e \in E, e.type \in RouterEvents
  PROVE  RouterReady(e.to, S[e.to], LoopEvents(E, e.to), e)
<1>1. EventOK(e)
  BY Zenon DEF World
<1>2. e.to \in Routers /\ e.to \in Lps
  BY <1>1, Zenon DEF EventOK, Lps
<1>3. e.to \notin Terminals
  BY <1>2, RouteAssumption
<1>4. /\ RouterOK(e.to, S[e.to])
      /\ \A p \in Ports(e.to) : PortLoops(p, S[e.to][p], LoopEvents(E, e.to))
  BY <1>2, <1>3, WorldLoops, Zenon DEF StateOK, LoopsOK
<1>5. ASSUME NEW f \in LoopEvents(E, e.to)
      PROVE  f.type = "R_SEND" /\ f.to = e.to
  <2>1. f \in E /\ f.type \in LoopTypes /\ f.to = e.to
    BY Zenon DEF LoopEvents
  <2>2. EventOK(f)
    BY <2>1, Zenon DEF World
  <2>3. f.type \in TermEvents => f.to \in Terminals
    BY <2>2, Zenon DEF EventOK
  <2>4. f.type \notin TermEvents
    BY <1>3, <2>1, <2>3, Zenon
  <2>. QED
    BY <2>1, <2>4 DEF LoopTypes, TermEvents
<1>6. e.type \in LoopTypes => e \in LoopEvents(E, e.to)
  BY Zenon DEF LoopEvents
<1>. QED
  BY <1>1, <1>2, <1>4, <1>5, <1>6, Zenon DEF RouterReady

LEMMA ProcessKeeps ==
  ASSUME IndInv, NEW e \in events, NEW o,
         HandlerOK(e.to, lps[e.to], LoopEvents(events, e.to), e, o), Process(e, o)
  PROVE  IndInv'
<1>1. PICK V, L : World(lps, events, log, V, L)
  BY Zenon DEF IndInv
<1> DEFINE en == [ev |-> e, rc |-> o.rc, sent |-> o.sent, before |-> lps[e.to], mark |-> Len(trace)]
<1>2. en.ev = e /\ en.rc = o.rc /\ en.sent = o.sent /\ en.before = lps[e.to]
  OBVIOUS
<1>3. /\ lps' = [lps EXCEPT ![e.to] = o.ns]
      /\ events' = (events \ {e}) \cup o.sent
      /\ log' = Append(log, en)
  BY Zenon DEF Process
<1> HIDE DEF en
<1>4. \E V2, L2 : World([lps EXCEPT ![e.to] = o.ns], (events \ {e}) \cup o.sent, Append(log, en), V2, L2)
  BY <1>1, <1>2, ProcessStep
<1>5. \E V2, L2 : World(lps', events', log', V2, L2)
  BY <1>3, <1>4, Zenon
<1>. QED
  BY <1>5, Zenon DEF IndInv

LEMMA HandleEventKeeps == IndInv /\ HandleEvent => IndInv'
<1> SUFFICES ASSUME IndInv, NEW e \in events,
                    \/ NewMsg(e) \/ SchedNext(e)
                    \/ TGenerate(e) \/ TSend(e) \/ TArrive(e) \/ TBuffer(e)
                    \/ RArrive(e) \/ RSend(e) \/ RBuffer(e)
             PROVE  IndInv'
  BY Zenon DEF HandleEvent
<1> DEFINE x == e.to
           s == lps[x]
           F == LoopEvents(events, x)
<1>1. PICK V, L : World(lps, events, log, V, L)
  BY Zenon DEF IndInv
<1>2. e.type \in TermEvents => TermReady(x, s, F, e)
  BY <1>1, TermIsReady, Zenon
<1>3. e.type \in RouterEvents => RouterReady(x, s, F, e)
  BY <1>1, RouterIsReady, Zenon
<1> HIDE DEF s, F
<1>4. ASSUME NEW o, HandlerOK(x, s, F, e, o), Process(e, o) PROVE IndInv'
  BY <1>4, ProcessKeeps DEF s, F
<1>5. CASE NewMsg(e)
  <2>1. e.type = "NEW_MSG" /\ Process(e, handle_new_msg(s, e))
    BY <1>5, Zenon DEF NewMsg, Ready, s
  <2>2. TermReady(x, s, F, e)
    BY <1>2, <2>1, Zenon DEF TermEvents
  <2>3. HandlerOK(x, s, F, e, handle_new_msg(s, e))
    BY <2>1, <2>2, NewMsgHandler
  <2>. QED
    BY <1>4, <2>1, <2>3, Zenon
<1>6. CASE SchedNext(e)
  <2>1. e.type = "SCHED_NEXT" /\ Process(e, handle_sched_next(s, e))
    BY <1>6, Zenon DEF SchedNext, Ready, s
  <2>2. TermReady(x, s, F, e)
    BY <1>2, <2>1, Zenon DEF TermEvents
  <2>3. HandlerOK(x, s, F, e, handle_sched_next(s, e))
    BY <2>1, <2>2, SchedNextHandler
  <2>. QED
    BY <1>4, <2>1, <2>3, Zenon
<1>7. CASE TGenerate(e)
  <2>1. e.type = "T_GENERATE" /\ Process(e, packet_generate(s, e))
    BY <1>7, Zenon DEF TGenerate, Ready, s
  <2>2. TermReady(x, s, F, e)
    BY <1>2, <2>1, Zenon DEF TermEvents
  <2>3. HandlerOK(x, s, F, e, packet_generate(s, e))
    BY <2>1, <2>2, GenerateHandler
  <2>. QED
    BY <1>4, <2>1, <2>3, Zenon
<1>8. CASE TSend(e)
  <2>1. e.type = "T_SEND" /\ Process(e, packet_send(s, e))
    BY <1>8, Zenon DEF TSend, Ready, s
  <2>2. TermReady(x, s, F, e)
    BY <1>2, <2>1, Zenon DEF TermEvents
  <2>3. HandlerOK(x, s, F, e, packet_send(s, e))
    BY <2>1, <2>2, SendHandler
  <2>. QED
    BY <1>4, <2>1, <2>3, Zenon
<1>9. CASE TArrive(e)
  <2>1. e.type = "T_ARRIVE" /\ Process(e, packet_arrive(s, e))
    BY <1>9, Zenon DEF TArrive, Ready, s
  <2>2. TermReady(x, s, F, e)
    BY <1>2, <2>1, Zenon DEF TermEvents
  <2>3. HandlerOK(x, s, F, e, packet_arrive(s, e))
    BY <2>1, <2>2, ArriveHandler
  <2>. QED
    BY <1>4, <2>1, <2>3, Zenon
<1>10. CASE TBuffer(e)
  <2>1. e.type = "T_BUFFER" /\ Process(e, terminal_buf_update(s, e))
    BY <1>10, Zenon DEF TBuffer, Ready, s
  <2>2. TermReady(x, s, F, e)
    BY <1>2, <2>1, Zenon DEF TermEvents
  <2>3. HandlerOK(x, s, F, e, terminal_buf_update(s, e))
    BY <2>1, <2>2, BufUpdate
  <2>. QED
    BY <1>4, <2>1, <2>3, Zenon
<1>11. CASE RArrive(e)
  <2>1. PICK n \in NextHops(Algorithm, e.to, e.chunk.rt) : Process(e, router_packet_receive(s, e, n))
    BY <1>11, Zenon DEF RArrive, s
  <2>2. e.type = "R_ARRIVE"
    BY <1>11, Zenon DEF RArrive, Ready
  <2>3. RouterReady(x, s, F, e)
    BY <1>3, <2>2, Zenon DEF RouterEvents
  <2>4. HandlerOK(x, s, F, e, router_packet_receive(s, e, n))
    BY <2>2, <2>3, ReceiveHandler
  <2>. QED
    BY <1>4, <2>1, <2>4, Zenon
<1>12. CASE RSend(e)
  <2>1. e.type = "R_SEND" /\ Process(e, router_packet_send(s, e))
    BY <1>12, Zenon DEF RSend, Ready, s
  <2>2. RouterReady(x, s, F, e)
    BY <1>3, <2>1, Zenon DEF RouterEvents
  <2>3. HandlerOK(x, s, F, e, router_packet_send(s, e))
    BY <2>1, <2>2, PortSendHandler
  <2>. QED
    BY <1>4, <2>1, <2>3, Zenon
<1>13. CASE RBuffer(e)
  <2>1. e.type = "R_BUFFER" /\ Process(e, router_buf_update(s, e))
    BY <1>13, Zenon DEF RBuffer, Ready, s
  <2>2. RouterReady(x, s, F, e)
    BY <1>3, <2>1, Zenon DEF RouterEvents
  <2>3. HandlerOK(x, s, F, e, router_buf_update(s, e))
    BY <2>1, <2>2, CreditHandler
  <2>. QED
    BY <1>4, <2>1, <2>3, Zenon
<1>. QED
  BY <1>5, <1>6, <1>7, <1>8, <1>9, <1>10, <1>11, <1>12, <1>13

LEMMA UndoKeeps == IndInv /\ Undo(reverse) => IndInv'
<1> SUFFICES ASSUME IndInv, Undo(reverse) PROVE IndInv'
  OBVIOUS
<1>1. PICK V, L : World(lps, events, log, V, L)
  BY Zenon DEF IndInv
<1> DEFINE en == log[Len(log)]
           x == en.ev.to
<1>2. /\ log # << >>
      /\ lps' = [lps EXCEPT ![x] = reverse(lps[x], en)]
      /\ events' = (events \ en.sent) \cup {en.ev}
      /\ log' = SubSeq(log, 1, Len(log) - 1)
  BY Zenon DEF Undo, LastEntry, Reversed
<1>3. World([lps EXCEPT ![x] = reverse(lps[x], en)], (events \ en.sent) \cup {en.ev},
            SubSeq(log, 1, Len(log) - 1), V, L)
  BY <1>1, <1>2, UndoStep, Zenon
<1>4. World(lps', events', log', V, L)
  BY <1>2, <1>3, Zenon
<1>. QED
  BY <1>4, Zenon DEF IndInv

LEMMA CommitKeeps == IndInv /\ Commit => IndInv'
<1> SUFFICES ASSUME IndInv, Commit PROVE IndInv'
  OBVIOUS
<1>1. PICK V, L : World(lps, events, log, V, L)
  BY Zenon DEF IndInv
<1>2. log # << >> /\ lps' = lps /\ events' = events /\ log' = Tail(log)
  BY Zenon DEF Commit
<1>3. \E V2, L2 : World(lps, events, Tail(log), V2, L2)
  BY <1>1, <1>2, CommitStep, Zenon
<1>4. \E V2, L2 : World(lps', events', log', V2, L2)
  BY <1>2, <1>3, Zenon
<1>. QED
  BY <1>4, Zenon DEF IndInv

LEMMA StutterKeeps == IndInv /\ UNCHANGED rossVars => IndInv'
  BY Zenon DEF IndInv, rossVars

LEMMA NextKeeps == IndInv /\ [Next]_rossVars => IndInv'
<1> SUFFICES ASSUME IndInv, [Next]_rossVars PROVE IndInv'
  OBVIOUS
<1>1. Terminated => UNCHANGED rossVars
  BY Zenon DEF Terminated
<1>. QED
  BY <1>1, HandleEventKeeps, UndoKeeps, CommitKeeps, StutterKeeps, Zenon DEF Next

LEMMA Inductive == Spec => []IndInv
  BY StartInv, NextKeeps, PTL DEF Spec

-----------------------------------------------------------------------------
(* The properties.                                                         *)

LEMMA HistoryRestores == IndInv => RollbackRestoresChunks
<1> SUFFICES ASSUME IndInv, log # << >>
             PROVE  InChunks(LastEntry.ev.to, Reversed(reverse))
                      = InChunks(LastEntry.ev.to, LastEntry.before)
  BY Zenon DEF RollbackRestoresChunks
<1>1. PICK V, L : World(lps, events, log, V, L)
  BY Zenon DEF IndInv
<1> DEFINE en == log[Len(log)]
           x == en.ev.to
<1>2. InChunks(x, reverse(lps[x], en)) = InChunks(x, en.before)
  BY <1>1, UndoStep, Zenon
<1>. QED
  BY <1>2, Zenon DEF LastEntry, Reversed

\* a set of none or one
LEMMA CountOne ==
  ASSUME NEW A, NEW b \in BOOLEAN, NoneOrOne(A, b)
  PROVE  Cardinality(A) = IF b THEN 1 ELSE 0
<1>1. CASE b
  <2>1. PICK e \in A : A = {e}
    BY <1>1, Zenon DEF NoneOrOne
  <2>2. Cardinality({e}) = 1
    BY FS_Singleton
  <2>. QED
    BY <1>1, <2>1, <2>2, Zenon
<1>2. CASE ~b
  <2>1. A = {}
    BY <1>2, Zenon DEF NoneOrOne
  <2>. QED
    BY <1>2, <2>1, FS_EmptySet, Zenon
<1>. QED
  BY <1>1, <1>2

\* one token, of either of two kinds
LEMMA CountTwo ==
  ASSUME NEW A, NEW B, A \cap B = {}, NEW b \in BOOLEAN, NoneOrOne(A \cup B, b)
  PROVE  Cardinality(A) + Cardinality(B) = IF b THEN 1 ELSE 0
<1>1. Cardinality({}) = 0 /\ \A e : Cardinality({e}) = 1
  BY FS_EmptySet, FS_Singleton
<1>2. CASE b
  <2>1. PICK e \in A \cup B : A \cup B = {e}
    BY <1>2, Zenon DEF NoneOrOne
  <2>2. (A = {e} /\ B = {}) \/ (A = {} /\ B = {e})
    BY <2>1
  <2>3. Cardinality(A) + Cardinality(B) = 1
    <3>1. \/ Cardinality(A) = 1 /\ Cardinality(B) = 0
          \/ Cardinality(A) = 0 /\ Cardinality(B) = 1
      BY <1>1, <2>2, Zenon
    <3>. QED
      BY <3>1
  <2>. QED
    BY <1>2, <2>3, Zenon
<1>3. CASE ~b
  <2>1. A \cup B = {}
    BY <1>3, Zenon DEF NoneOrOne
  <2>2. A = {} /\ B = {}
    BY <2>1
  <2>3. Cardinality(A) + Cardinality(B) = 0
    BY <1>1, <2>2
  <2>. QED
    BY <1>3, <2>3, Zenon
<1>. QED
  BY <1>2, <1>3

LEMMA HistorySendLoops == IndInv => SendLoops
<1> SUFFICES ASSUME IndInv PROVE SendLoops
  OBVIOUS
<1>1. PICK V, L : World(lps, events, log, V, L)
  BY Zenon DEF IndInv
<1>2. ASSUME NEW t \in Terminals
      PROVE  /\ Cardinality(EventsOf("T_SEND", t)) = IF lps[t].in_send_loop THEN 1 ELSE 0
             /\ lps[t].in_send_loop \/ get_next_vcg_fails(lps[t])
  <2>1. t \in Lps
    BY DEF Lps
  <2>2. TermOK(t, lps[t]) /\ TermLoops(lps[t], LoopEvents(events, t))
    BY <1>1, <2>1, WorldLoops, Zenon DEF StateOK, LoopsOK
  <2>3. lps[t].in_send_loop \in BOOLEAN
    BY <2>2, Zenon DEF TermOK
  <2>4. SendEvents(LoopEvents(events, t)) = EventsOf("T_SEND", t)
    BY DEF SendEvents, LoopEvents, EventsOf, LoopTypes
  <2>5. NoneOrOne(EventsOf("T_SEND", t), lps[t].in_send_loop)
    BY <2>2, <2>4, Zenon DEF TermLoops
  <2>6. Cardinality(EventsOf("T_SEND", t)) = IF lps[t].in_send_loop THEN 1 ELSE 0
    BY <2>3, <2>5, CountOne
  <2>. QED
    BY <2>2, <2>6, Zenon DEF TermLoops
<1>3. ASSUME NEW r \in Routers, NEW p \in DOMAIN lps[r]
      PROVE  /\ Cardinality({e \in EventsOf("R_SEND", r) : e.port = p})
                  = IF lps[r][p].in_send_loop THEN 1 ELSE 0
             /\ lps[r][p].in_send_loop \/ ~HasPending(lps[r][p])
             /\ \A c \in Chans : lps[r][p].queued[c] # << >> =>
                  lps[r][p].vc_occupancy[c] + ChunkSize > VcSize[p.kind]
  <2>1. r \in Lps /\ r \notin Terminals
    BY RouteAssumption DEF Lps
  <2>2. /\ RouterOK(r, lps[r])
        /\ \A q \in Ports(r) : PortLoops(q, lps[r][q], LoopEvents(events, r))
    BY <1>1, <2>1, WorldLoops, Zenon DEF StateOK, LoopsOK
  <2>3. DOMAIN lps[r] = Ports(r)
    <3> DEFINE s == lps[r]
    <3> HIDE DEF s
    <3>1. RouterOK(r, s)
      BY <2>2 DEF s
    <3>2. s = [q \in Ports(r) |-> s[q]]
      BY <3>1, Zenon DEF RouterOK
    <3>3. DOMAIN s = DOMAIN [q \in Ports(r) |-> s[q]]
      BY <3>2, Zenon
    <3>4. DOMAIN s = Ports(r)
      BY <3>3, Zenon
    <3>. QED
      BY <3>4 DEF s
  <2>4. p \in Ports(r)
    BY <2>3, Zenon
  <2>5. PortLoops(p, lps[r][p], LoopEvents(events, r)) /\ lps[r][p].in_send_loop \in BOOLEAN
    BY <2>2, <2>4, Zenon DEF RouterOK, PortOK
  <2>6. PortEvents(LoopEvents(events, r), p) = {e \in EventsOf("R_SEND", r) : e.port = p}
    BY DEF PortEvents, LoopEvents, EventsOf, LoopTypes
  <2>7. NoneOrOne({e \in EventsOf("R_SEND", r) : e.port = p}, lps[r][p].in_send_loop)
    BY <2>5, <2>6, Zenon DEF PortLoops
  <2> DEFINE A == {e \in EventsOf("R_SEND", r) : e.port = p}
  <2> HIDE DEF A
  <2>8. NoneOrOne(A, lps[r][p].in_send_loop)
    BY <2>7 DEF A
  <2>9. Cardinality(A) = IF lps[r][p].in_send_loop THEN 1 ELSE 0
    BY <2>5, <2>8, CountOne
  <2>. QED
    BY <2>5, <2>9, Zenon DEF PortLoops, A
<1>. QED
  BY <1>2, <1>3, Zenon DEF SendLoops

LEMMA HistoryIdleToken == IndInv => OneIdleToken
<1> SUFFICES ASSUME IndInv, NEW t \in Terminals
             PROVE  /\ Cardinality(EventsOf("SCHED_NEXT", t)) + Cardinality(EventsOf("T_GENERATE", t))
                         + (IF lps[t].issueIdle THEN 1 ELSE 0)
                         = IF lps[t].in_sched_loop THEN 1 ELSE 0
                    /\ lps[t].in_sched_loop \/ lps[t].sched.reqs = << >>
  BY Zenon DEF OneIdleToken
<1>1. PICK V, L : World(lps, events, log, V, L)
  BY Zenon DEF IndInv
<1> DEFINE A == EventsOf("SCHED_NEXT", t)
           B == EventsOf("T_GENERATE", t)
           s == lps[t]
           idle == s.issueIdle
           loop == s.in_sched_loop
<1>2. t \in Lps
  BY DEF Lps
<1>3. TermOK(t, s) /\ TermLoops(s, LoopEvents(events, t))
  BY <1>1, <1>2, WorldLoops, Zenon DEF StateOK, LoopsOK
<1>4. idle \in BOOLEAN /\ loop \in BOOLEAN
  BY <1>3, Zenon DEF TermOK
<1>5. IdleTokens(LoopEvents(events, t)) = A \cup B
  BY DEF IdleTokens, LoopEvents, EventsOf, LoopTypes
<1>6. A \cap B = {}
  BY DEF EventsOf
<1>7. NoneOrOne(A \cup B, loop /\ ~idle) /\ (idle => loop) /\ (loop \/ s.sched.reqs = << >>)
  BY <1>3, <1>5, Zenon DEF TermLoops
<1> HIDE DEF A, B, s, idle, loop
<1>8. (loop /\ ~idle) \in BOOLEAN
  BY Zenon
<1>9. Cardinality(A) + Cardinality(B) = IF loop /\ ~idle THEN 1 ELSE 0
  BY <1>6, <1>7, <1>8, CountTwo
<1>10. Cardinality(A) + Cardinality(B) + (IF idle THEN 1 ELSE 0) = IF loop THEN 1 ELSE 0
  <2>1. CASE idle
    <3>1. loop /\ Cardinality(A) + Cardinality(B) = 0
      BY <1>7, <1>9, <2>1, Zenon
    <3>2. Cardinality(A) + Cardinality(B) + 1 = 1
      BY <3>1
    <3>. QED
      BY <2>1, <3>1, <3>2, Zenon
  <2>2. CASE ~idle
    <3>1. Cardinality(A) + Cardinality(B) = IF loop THEN 1 ELSE 0
      BY <1>9, <2>2, Zenon
    <3>2. Cardinality(A) + Cardinality(B) + 0 = IF loop THEN 1 ELSE 0
      BY <3>1
    <3>. QED
      BY <2>2, <3>2, Zenon
  <2>. QED
    BY <2>1, <2>2
<1>. QED
  BY <1>7, <1>10 DEF A, B, s, idle, loop

\* Whatever LPs, messages and window there are, the reverse handlers of
\* terminals and routers (packet_generate_rc, packet_send_rc, packet_arrive_rc,
\* router_packet_receive_rc, router_packet_send_rc, the two buffer updates and
\* the base LP's two) give their LP back as it was before the event, the bytes of
\* unfinished packets to the chunk, after any number of rollbacks.
THEOREM RollbackRestored == Spec => []RollbackRestoresChunks
  BY Inductive, HistoryRestores, PTL

\* In every reachable state a terminal or a port is in its send loop exactly while
\* one send event is on its way and a base LP in its loop exactly while one idle
\* token is; none sleeps with something it could send (packet_send,
\* terminal_buf_update, router_packet_receive, router_packet_send,
\* router_buf_update, handle_sched_next, and every rollback of them).
THEOREM LoopsAlwaysRun == Spec => []LoopsRun
<1>1. IndInv => LoopsRun
  BY HistorySendLoops, HistoryIdleToken DEF LoopsRun
<1>. QED
  BY <1>1, Inductive, PTL
=============================================================================
