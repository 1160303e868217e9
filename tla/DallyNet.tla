------------------------------- MODULE DallyNet -------------------------------
(***************************************************************************)
(* Terminals and routers of dragonfly-dally: each handler as a function    *)
(* from the LP's state and an event to an outcome (new state, what is      *)
(* saved for the reversal, events sent, LPs outside told), and each        *)
(* reverse handler as a function from the state and the log entry.         *)
(*                                                                         *)
(* A terminal LP is a model-net base LP around the terminal: it queues     *)
(* messages, splits them into packets (fcfs) and hands one packet to the   *)
(* terminal each time the terminal says that it is idle.  The terminal     *)
(* cuts packets into chunks and sends them to its router as long as it has *)
(* credit; a router has a buffer per port and virtual channel, and gives   *)
(* credit back upstream when a chunk has moved into one of them.           *)
(*                                                                         *)
(* One rail, one injection queue, one QoS level, no noise on event times   *)
(* (ADD_NOISE is 0), no congestion control.  Counters that are only        *)
(* printed are left out, except the times ports were busy.                 *)
(*                                                                         *)
(* A definition named Fault_f is f with a seeded fault, for testing the    *)
(* properties; no specification uses it.                                   *)
(***************************************************************************)
EXTENDS DallyRoute, Sequences, FiniteSetsExt, Functions

CONSTANTS
  Msgs,         \* messages sent by server LPs
  Msg,          \* Msg[m]: source and destination terminal, size
  Algorithm,    \* routing
  PacketSize, ChunkSize,
  VcSize,       \* buffer size of a channel by kind of connection
  NsPerByte,    \* inverse bandwidth by kind of connection
  PropDelay,    \* propagation delay by kind of connection
  CreditDelay,  \* by kind of connection
  RouterDelay,
  NumVcs,
  Notify,       \* dally_surrogate_configured: arrivals are reported to the source
  Lookahead     \* g_tw_lookahead, delay of that report

Kinds == {"LOCAL", "GLOBAL", "TERMINAL"}

ASSUME NetAssumption ==
  /\ Msg \in [Msgs -> [src : Terminals, dest : Terminals, size : Nat]]
  /\ \A m \in Msgs : Msg[m].src # Msg[m].dest
  /\ -1 \notin Msgs   \* the request of an rc record nothing was saved in
  /\ Algorithm \in Algorithms
  /\ {PacketSize, ChunkSize, RouterDelay, Lookahead} \subseteq Nat \ {0}
  /\ NumVcs \in Nat /\ NumVcs >= 4   \* p->num_vcs is 4, or that for each QoS level
  /\ {VcSize, NsPerByte, PropDelay, CreditDelay} \subseteq [Kinds -> Nat \ {0}]
  /\ Notify \in BOOLEAN

\* the scheduler of a base LP that is configured as fcfs
Sched ==
  INSTANCE ModelNetSched WITH
    NoMsg <- -1, SchedType <- "fcfs", SubType <- "fcfs", NumPrios <- 1,
    Req <- [m \in Msgs |-> [msg_size |-> Msg[m].size, prio |-> -1, offset |-> 0,
                            is_from_remote |-> FALSE, loopback |-> FALSE]]

-----------------------------------------------------------------------------
(* Sizes and times.                                                        *)

num_chunks_for(size) ==
  IF size = 0 THEN 1 ELSE (size + ChunkSize - 1) \div ChunkSize

bytes_to_ns(bytes, kind) == bytes * NsPerByte[kind]

\* bytes of a chunk on the wire: a packet smaller than a chunk sends its own size
WireSize(c) == IF c.size < ChunkSize THEN c.size ELSE ChunkSize

\* bytes of a chunk as link traffic counts them
TrafficSize(c) ==
  IF c.id = num_chunks_for(c.size) - 1 /\ (c.size % ChunkSize # 0 \/ c.size = 0)
  THEN c.size % ChunkSize ELSE ChunkSize

total_packets(m) == LET n == (Msg[m].size + PacketSize - 1) \div PacketSize
                    IN  IF n = 0 THEN 1 ELSE n

MaxOf(a, b) == IF a >= b THEN a ELSE b

-----------------------------------------------------------------------------
(* Events.  by names what an event was sent for, so that two events sent   *)
(* for different things are different.                                     *)

NewMsgEvent(m, ts) == [type |-> "NEW_MSG", ts |-> ts, to |-> Msg[m].src, msg |-> m]
SchedNextEvent(t, ts, by, surr) ==
  [type |-> "SCHED_NEXT", ts |-> ts, to |-> t, by |-> by, created_in_surrogate |-> surr]
GenerateEvent(t, ts, pkt) == [type |-> "T_GENERATE", ts |-> ts, to |-> t, pkt |-> pkt]
TSendEvent(t, ts, by) == [type |-> "T_SEND", ts |-> ts, to |-> t, by |-> by]
RSendEvent(r, ts, port, by) ==
  [type |-> "R_SEND", ts |-> ts, to |-> r, port |-> port, by |-> by]
ArriveEvent(type, ts, to, c) == [type |-> type, ts |-> ts, to |-> to, chunk |-> c]
TBufferEvent(t, ts, by) == [type |-> "T_BUFFER", ts |-> ts, to |-> t, by |-> by]
RBufferEvent(r, ts, port, chan, by) ==
  [type |-> "R_BUFFER", ts |-> ts, to |-> r, port |-> port, chan |-> chan, by |-> by]
NotifyEvent(ts, c) ==
  [type |-> "T_NOTIFY", ts |-> ts, to |-> c.src, notify |-> "LATENCY", src |-> c.src,
   pid |-> c.pid]

\* which chunk, and at which step
By(why, c) == <<why, c.src, c.pid, c.id>>

Told(what, m) == <<[what |-> what, msg |-> m]>>
Outcome(ns, rc, sent, did) == [ns |-> ns, rc |-> rc, sent |-> sent, did |-> did]

-----------------------------------------------------------------------------
(* State.                                                                  *)

TerminalInit ==
  [sched |-> Sched!fcfs_init, in_sched_loop |-> FALSE, packet_counter |-> 0,
   terminal_msgs |-> << >>, terminal_length |-> 0, vc_occupancy |-> 0,
   in_send_loop |-> FALSE, issueIdle |-> FALSE, last_buf_full |-> 0,
   busy_time |-> 0, available_time |-> 0, last_in_queue_time |-> 0,
   rank_tbl |-> << >>, remaining_sz |-> << >>, zombies |-> {}]

Ports(r) ==
  local_conns(r)
  \cup {Conn("GLOBAL", l[2]) : l \in {l \in Global : l[1] = r}}
  \cup {Conn("TERMINAL", t) : t \in {t \in Terminals : RouterOf[t] = r}}

Chans == 0..NumVcs - 1

PortInit ==
  [pending |-> [c \in Chans |-> << >>], queued |-> [c \in Chans |-> << >>],
   vc_occupancy |-> [c \in Chans |-> 0], queued_count |-> 0,
   in_send_loop |-> FALSE, last_buf_full |-> 0, busy_time |-> 0,
   next_available |-> 0, last_qos_lvl |-> 0, link_traffic |-> 0]

RouterInit(r) == [p \in Ports(r) |-> PortInit]

\* a table without one key, and with one key set
Without(f, k) == Restrict(f, DOMAIN f \ {k})
With(f, k, x) == [j \in DOMAIN f \cup {k} |-> IF j = k THEN x ELSE f[j]]

-----------------------------------------------------------------------------
(* The base LP: handle_new_msg and handle_sched_next (see ModelNetLP for   *)
(* the schedulers, queues and copies left out here).                       *)

\* a queued request becomes a packet, sent to the terminal as T_GENERATE
sched_issue(s, now) ==
  LET p == Sched!NextPacket(s.sched)
  IN  [ns |-> [s EXCEPT !.sched = Sched!fcfs_next(s.sched)],
       rc |-> [rtn |-> IF p.last THEN 1 ELSE 0, prio |-> 0, req |-> p.req],
       sent |-> {GenerateEvent(Msg[p.req].src, now,
                   [msg |-> p.req, offset |-> p.offset, size |-> p.size, last |-> p.last])}]

sched_empty(s) == [ns |-> s, rc |-> [rtn |-> -1, prio |-> 0, req |-> -1], sent |-> {}]

Fault_handle_sched_next(s, e) ==
  LET o == IF s.sched.reqs = << >> THEN sched_empty(s) ELSE sched_issue(s, e.ts)
  IN  Outcome(o.ns, o.rc, o.sent, << >>)

handle_sched_next(s, e) ==
  LET o == IF s.sched.reqs = << >>
           THEN sched_empty([s EXCEPT !.in_sched_loop = FALSE])
           ELSE sched_issue(s, e.ts)
  IN  Outcome(o.ns, o.rc, o.sent, << >>)

handle_sched_next_rc(s, en) ==
  [s EXCEPT !.sched = Sched!fcfs_next_rc(s.sched, en.rc), !.in_sched_loop = TRUE]

handle_new_msg(s, e) ==
  LET q == [s EXCEPT !.sched = Sched!fcfs_add(e.msg, s.sched)]
      o == IF s.in_sched_loop THEN sched_empty(q)
           ELSE sched_issue([q EXCEPT !.in_sched_loop = TRUE], e.ts)
  IN  Outcome(o.ns, [started |-> ~s.in_sched_loop, next |-> o.rc], o.sent, << >>)

handle_new_msg_rc(s, en) ==
  LET q == IF en.rc.started
           THEN [s EXCEPT !.sched = Sched!fcfs_next_rc(s.sched, en.rc.next),
                          !.in_sched_loop = FALSE]
           ELSE s
  IN  [q EXCEPT !.sched = Sched!fcfs_add_rc(q.sched)]

-----------------------------------------------------------------------------
(* Terminal: packet_generate.                                              *)

Chunk(t, pid, i, pkt) ==
  [src |-> t, pid |-> pid, id |-> i, msg |-> pkt.msg, size |-> pkt.size, last |-> pkt.last,
   rt |-> NewRoute(t, Msg[pkt.msg].dest), from |-> t,
   port |-> Conn("INJECTION", RouterOf[t]), chan |-> 0,
   saved_port |-> Conn("INJECTION", RouterOf[t]), saved_chan |-> 0]

packet_generate(s, e) ==
  LET n == num_chunks_for(e.pkt.size)
      new == [i \in 1..n |-> Chunk(e.to, s.packet_counter, i - 1, e.pkt)]
      length == s.terminal_length + n * ChunkSize
      full == length >= VcSize["TERMINAL"]
      nic_ts == bytes_to_ns(e.pkt.size, "TERMINAL")
  IN  Outcome(
        [s EXCEPT !.packet_counter = @ + 1,
                  !.last_in_queue_time = e.ts,
                  !.terminal_msgs = @ \o new,
                  !.terminal_length = length,
                  !.issueIdle = @ \/ full,
                  !.last_buf_full = IF full /\ @ = 0 THEN e.ts ELSE @,
                  !.in_send_loop = TRUE],
        [c5 |-> ~s.in_send_loop, c11 |-> full, c8 |-> full /\ s.last_buf_full = 0,
         saved_busy_time |-> s.last_buf_full, saved_last_in_queue_time |-> s.last_in_queue_time],
        (IF full THEN {}
         ELSE {SchedNextEvent(e.to, e.ts + nic_ts, By("idle", new[1]), FALSE)})
        \cup (IF s.in_send_loop THEN {}
              ELSE {TSendEvent(e.to, e.ts, By("generate", new[1]))}),
        << >>)

packet_generate_rc(s, en) ==
  LET n == num_chunks_for(en.ev.pkt.size)
      rc == en.rc
  IN  [s EXCEPT !.packet_counter = @ - 1,
                !.last_in_queue_time = rc.saved_last_in_queue_time,
                !.terminal_msgs = SubSeq(@, 1, Len(@) - n),
                !.terminal_length = @ - n * ChunkSize,
                !.in_send_loop = IF rc.c5 THEN FALSE ELSE @,
                !.issueIdle = IF rc.c11 THEN FALSE ELSE @,
                !.last_buf_full = IF rc.c11 /\ rc.c8 THEN rc.saved_busy_time ELSE @]

-----------------------------------------------------------------------------
(* Terminal: packet_send.  T_SEND is the loop's own event; when there is   *)
(* nothing to send or no credit the loop ends.                             *)

Fault_get_next_vcg_fails(s) ==
  s.terminal_msgs = << >> \/ s.vc_occupancy > VcSize["TERMINAL"]

get_next_vcg_fails(s) ==
  s.terminal_msgs = << >> \/ s.vc_occupancy + ChunkSize > VcSize["TERMINAL"]

packet_send_stall(s, e) ==
  Outcome(
    [s EXCEPT !.in_send_loop = FALSE,
              !.last_buf_full = IF @ = 0 THEN e.ts ELSE @],
    [c1 |-> TRUE, c3 |-> s.last_buf_full = 0, saved_send_loop |-> s.in_send_loop,
     saved_busy_time |-> s.last_buf_full],
    {}, << >>)

packet_send_chunk(s, e) ==
  LET c == Head(s.terminal_msgs)
      available == MaxOf(s.available_time, e.ts) + bytes_to_ns(WireSize(c), "TERMINAL")
      sent1 == [s EXCEPT !.available_time = available,
                         !.terminal_msgs = Tail(@),
                         !.terminal_length = @ - ChunkSize,
                         !.vc_occupancy = @ + ChunkSize]
      more == ~get_next_vcg_fails(sent1)
      idle == s.issueIdle /\ sent1.terminal_length < VcSize["TERMINAL"]
      c6 == idle /\ s.last_buf_full > 0
      local == c.last /\ c.id = num_chunks_for(c.size) - 1
  IN  Outcome(
        [sent1 EXCEPT !.in_send_loop = IF more THEN @ ELSE FALSE,
                      !.issueIdle = IF idle THEN FALSE ELSE @,
                      !.busy_time = IF c6 THEN @ + (e.ts - s.last_buf_full) ELSE @,
                      !.last_buf_full = IF c6 THEN 0 ELSE @],
        [c1 |-> FALSE, c4 |-> ~more, c5 |-> idle, c6 |-> c6, c16 |-> local, entry |-> c,
         saved_send_loop |-> s.in_send_loop, saved_available_time |-> s.available_time,
         saved_total_time |-> s.busy_time, saved_busy_time |-> s.last_buf_full],
        {ArriveEvent("R_ARRIVE", available + PropDelay["TERMINAL"], RouterOf[e.to], c)}
        \cup (IF more THEN {TSendEvent(e.to, available, By("send", c))} ELSE {})
        \cup (IF idle THEN {SchedNextEvent(e.to, available, By("resume", c), FALSE)} ELSE {}),
        IF local THEN Told("local", c.msg) ELSE << >>)

packet_send(s, e) ==
  IF get_next_vcg_fails(s) THEN packet_send_stall(s, e) ELSE packet_send_chunk(s, e)

packet_send_rc(s, en) ==
  LET rc == en.rc
  IN  IF rc.c1
      THEN [s EXCEPT !.in_send_loop = rc.saved_send_loop,
                     !.last_buf_full = IF rc.c3 THEN rc.saved_busy_time ELSE @]
      ELSE [s EXCEPT !.available_time = rc.saved_available_time,
                     !.terminal_length = @ + ChunkSize,
                     !.vc_occupancy = @ - ChunkSize,
                     !.terminal_msgs = <<rc.entry>> \o @,
                     !.in_send_loop = IF rc.c4 THEN rc.saved_send_loop ELSE @,
                     !.issueIdle = IF rc.c5 THEN TRUE ELSE @,
                     !.busy_time = IF rc.c5 /\ rc.c6 THEN rc.saved_total_time ELSE @,
                     !.last_buf_full = IF rc.c5 /\ rc.c6 THEN rc.saved_busy_time ELSE @]

-----------------------------------------------------------------------------
(* Terminal: packet_arrive and terminal_buf_update.                        *)

PacketId(c) == <<c.src, c.pid>>

Fault_SizeLeft(s, c) == IF c.id = num_chunks_for(c.size) - 1 THEN 0 ELSE ChunkSize

\* bytes of the packet still to come after this chunk; 0: it is complete
SizeLeft(s, c) ==
  IF PacketId(c) \in DOMAIN s.remaining_sz
  THEN LET r == s.remaining_sz[PacketId(c)] IN IF r <= ChunkSize THEN 0 ELSE r - ChunkSize
  ELSE IF ChunkSize < c.size THEN c.size - ChunkSize ELSE 0

NewEntry(m) == [num_chunks |-> 0, remaining_packets |-> total_packets(m)]

packet_arrive(s, e) ==
  LET c == e.chunk
      key == PacketId(c)
      has == key \in DOMAIN s.remaining_sz
      left == SizeLeft(s, c)
      completed == left = 0
      is_zombie == key \in s.zombies
      rest == IF completed THEN Without(s.remaining_sz, key)
              ELSE With(s.remaining_sz, key, left)
      old == IF c.msg \in DOMAIN s.rank_tbl THEN s.rank_tbl[c.msg] ELSE NewEntry(c.msg)
      entry == [num_chunks |-> old.num_chunks + 1,
                remaining_packets |-> old.remaining_packets - (IF completed THEN 1 ELSE 0)]
      done == ~is_zombie /\ entry.remaining_packets = 0
  IN  Outcome(
        [s EXCEPT !.remaining_sz = rest,
                  !.zombies = IF completed THEN @ \ {key} ELSE @,
                  !.rank_tbl = IF is_zombie THEN @
                               ELSE IF done THEN Without(@, c.msg)
                               ELSE With(@, c.msg, entry)],
        [c28 |-> has, c29 |-> has = completed,
         c14 |-> is_zombie /\ completed, c15 |-> is_zombie,
         c5 |-> c.msg \notin DOMAIN s.rank_tbl, c13 |-> completed, c7 |-> done,
         popped |-> entry],
        {RBufferEvent(c.from, e.ts + CreditDelay["TERMINAL"], c.port, c.chan, By("ejected", c))}
        \cup (IF Notify /\ completed /\ ~is_zombie
              THEN {NotifyEvent(e.ts + Lookahead, c)} ELSE {}),
        IF done THEN Told("remote", c.msg) ELSE << >>)

packet_arrive_rc(s, en) ==
  LET c == en.ev.chunk
      key == PacketId(c)
      rc == en.rc
      left == IF rc.c28
              THEN With(s.remaining_sz, key,
                        (IF rc.c29 THEN 0 ELSE s.remaining_sz[key]) + ChunkSize)
              ELSE IF rc.c29 THEN Without(s.remaining_sz, key) ELSE s.remaining_sz
      back == [s EXCEPT !.remaining_sz = left,
                        !.zombies = IF rc.c14 THEN @ \cup {key} ELSE @]
      found == IF rc.c7 THEN rc.popped ELSE s.rank_tbl[c.msg]
      entry == [num_chunks |-> found.num_chunks - 1,
                remaining_packets |-> found.remaining_packets + (IF rc.c13 THEN 1 ELSE 0)]
  IN  IF rc.c15 THEN back
      ELSE [back EXCEPT !.rank_tbl = IF rc.c5 THEN Without(@, c.msg)
                                     ELSE With(@, c.msg, entry)]

Fault_terminal_buf_update(s, e) ==
  Outcome([s EXCEPT !.vc_occupancy = @ - ChunkSize], [c1 |-> FALSE], {}, << >>)

terminal_buf_update(s, e) ==
  LET wake == ~s.in_send_loop /\ s.terminal_msgs # << >>
  IN  Outcome(
        [s EXCEPT !.vc_occupancy = @ - ChunkSize, !.in_send_loop = @ \/ wake],
        [c1 |-> wake],
        IF wake THEN {TSendEvent(e.to, e.ts, <<"credit", e.by[2], e.by[3], e.by[4]>>)} ELSE {},
        << >>)

terminal_buf_update_rc(s, en) ==
  [s EXCEPT !.vc_occupancy = @ + ChunkSize,
            !.in_send_loop = IF en.rc.c1 THEN FALSE ELSE @]

-----------------------------------------------------------------------------
(* Router: router_packet_receive.  n is the hop routing chose.             *)

Fault_router_credit_send(now, c, port, chan) ==
  IF c.rt.last_hop = "TERMINAL"
  THEN TBufferEvent(c.from, now + CreditDelay["TERMINAL"], By("injected", c))
  ELSE RBufferEvent(c.from, now + CreditDelay[c.rt.last_hop], port, c.chan, By("moved", c))

\* credit for the buffer upstream that chunk c came from
router_credit_send(now, c, port, chan) ==
  IF c.rt.last_hop = "TERMINAL"
  THEN TBufferEvent(c.from, now + CreditDelay["TERMINAL"], By("injected", c))
  ELSE RBufferEvent(c.from, now + CreditDelay[c.rt.last_hop], port, chan, By("moved", c))

router_packet_receive(s, e, n) ==
  LET c == e.chunk
      p == s[n.conn]
      new == [c EXCEPT !.rt = n.msg, !.port = n.conn, !.chan = n.chan]
      fits == p.vc_occupancy[n.chan] + ChunkSize <= VcSize[n.conn.kind]
      wake == fits /\ ~p.in_send_loop
  IN  Outcome(
        [s EXCEPT ![n.conn] =
           IF fits
           THEN [p EXCEPT !.pending[n.chan] = Append(@, new),
                          !.vc_occupancy[n.chan] = @ + ChunkSize,
                          !.in_send_loop = TRUE]
           ELSE [p EXCEPT !.queued[n.chan] =
                            Append(@, [new EXCEPT !.saved_port = c.port, !.saved_chan = c.chan]),
                          !.queued_count = @ + ChunkSize,
                          !.last_buf_full = IF @ = 0 THEN e.ts ELSE @]],
        [c2 |-> fits, c3 |-> wake, c22 |-> ~fits /\ p.last_buf_full = 0,
         saved_vc |-> n.conn, saved_channel |-> n.chan, saved_busy_time |-> p.last_buf_full],
        (IF fits THEN {router_credit_send(e.ts, c, c.port, c.chan)} ELSE {})
        \cup (IF wake THEN {RSendEvent(e.to, MaxOf(p.next_available, e.ts), n.conn, By("receive", c))}
              ELSE {}),
        << >>)

AllButLast(q) == SubSeq(q, 1, Len(q) - 1)

Fault_router_packet_receive_rc(s, en) ==
  LET rc == en.rc
      chan == rc.saved_channel
  IN  [s EXCEPT ![rc.saved_vc] =
         IF rc.c2
         THEN [@ EXCEPT !.pending[chan] = AllButLast(@),
                        !.vc_occupancy[chan] = @ - ChunkSize,
                        !.in_send_loop = IF rc.c3 THEN FALSE ELSE @]
         ELSE [@ EXCEPT !.queued[chan] = AllButLast(@),
                        !.queued_count = @ - ChunkSize]]

router_packet_receive_rc(s, en) ==
  LET rc == en.rc
      p == s[rc.saved_vc]
      chan == rc.saved_channel
  IN  [s EXCEPT ![rc.saved_vc] =
         IF rc.c2
         THEN [p EXCEPT !.pending[chan] = AllButLast(@),
                        !.vc_occupancy[chan] = @ - ChunkSize,
                        !.in_send_loop = IF rc.c3 THEN FALSE ELSE @]
         ELSE [p EXCEPT !.queued[chan] = AllButLast(@),
                        !.queued_count = @ - ChunkSize,
                        !.last_buf_full = IF rc.c22 THEN rc.saved_busy_time ELSE @]]

-----------------------------------------------------------------------------
(* Router: router_packet_send, the loop of one port.                       *)

\* round robin over the channels, from the one after the last served
get_next_router_vcg(p) ==
  CHOOSE c \in Chans :
    /\ p.pending[c] # << >>
    /\ \A d \in Chans : p.pending[d] # << >> =>
         (c - p.last_qos_lvl - 1) % NumVcs <= (d - p.last_qos_lvl - 1) % NumVcs

HasPending(p) == \E c \in Chans : p.pending[c] # << >>

injection_delay(c, kind) == bytes_to_ns(WireSize(c), kind) + RouterDelay

router_send_none(s, e) ==
  LET p == s[e.port]
      c2 == p.queued_count > 0 /\ p.last_buf_full = 0
  IN  Outcome(
        [s EXCEPT ![e.port] = [p EXCEPT !.in_send_loop = FALSE,
                                        !.last_buf_full = IF c2 THEN e.ts ELSE @]],
        [c1 |-> TRUE, c2 |-> c2, saved_send_loop |-> p.in_send_loop,
         saved_busy_time |-> p.last_buf_full],
        {}, << >>)

router_send_chunk(s, e) ==
  LET p == s[e.port]
      kind == e.port.kind
      chan == get_next_router_vcg(p)
      c == Head(p.pending[chan])
      leaves == MaxOf(p.next_available, e.ts) + injection_delay(c, kind)
      free == leaves - RouterDelay
      busy == p.last_buf_full # 0
      q == [p EXCEPT !.pending[chan] = Tail(@),
                     !.last_qos_lvl = chan,
                     !.next_available = free,
                     !.busy_time = IF busy THEN @ + (e.ts - p.last_buf_full) ELSE @,
                     !.last_buf_full = 0,
                     !.link_traffic = @ + TrafficSize(c)]
      hop == IF kind = "GLOBAL" THEN "GLOBAL" ELSE "LOCAL"
      out == [c EXCEPT !.rt = Hop(@, hop), !.from = e.to]
  IN  Outcome(
        [s EXCEPT ![e.port] = [q EXCEPT !.in_send_loop = IF HasPending(q) THEN @ ELSE FALSE]],
        [c1 |-> FALSE, c4 |-> ~HasPending(q), c8 |-> busy, saved_channel |-> chan, entry |-> c,
         last_saved_qos |-> p.last_qos_lvl, saved_available_time |-> p.next_available,
         saved_rcv_time |-> p.busy_time, saved_busy_time |-> p.last_buf_full,
         saved_send_loop |-> p.in_send_loop],
        {ArriveEvent(IF kind = "TERMINAL" THEN "T_ARRIVE" ELSE "R_ARRIVE",
                     leaves + PropDelay[kind], e.port.to, out)}
        \cup (IF HasPending(q) THEN {RSendEvent(e.to, free, e.port, By("send", c))} ELSE {}),
        << >>)

router_packet_send(s, e) ==
  IF HasPending(s[e.port]) THEN router_send_chunk(s, e) ELSE router_send_none(s, e)

router_packet_send_rc(s, en) ==
  LET rc == en.rc
      p == s[en.ev.port]
      chan == rc.saved_channel
  IN  [s EXCEPT ![en.ev.port] =
         IF rc.c1
         THEN [p EXCEPT !.in_send_loop = rc.saved_send_loop,
                        !.last_buf_full = IF rc.c2 THEN rc.saved_busy_time ELSE @]
         ELSE
         [p EXCEPT !.last_qos_lvl = rc.last_saved_qos,
                   !.busy_time = IF rc.c8 THEN rc.saved_rcv_time ELSE @,
                   !.last_buf_full = IF rc.c8 THEN rc.saved_busy_time ELSE @,
                   !.next_available = rc.saved_available_time,
                   !.link_traffic = @ - TrafficSize(rc.entry),
                   !.pending[chan] = <<rc.entry>> \o @,
                   !.in_send_loop = IF rc.c4 THEN rc.saved_send_loop ELSE @]]

-----------------------------------------------------------------------------
(* Router: router_buf_update.  A credit frees the place of one chunk, and  *)
(* a chunk that waits for the channel takes it.                            *)

router_buf_update(s, e) ==
  LET p == s[e.port]
      chan == e.chan
      c1 == p.queued[chan] # << >>
      c3 == p.last_buf_full > 0
      head == Head(p.queued[chan])
      freed == [p EXCEPT !.vc_occupancy[chan] = @ - ChunkSize,
                         !.busy_time = IF c3 THEN @ + (e.ts - p.last_buf_full) ELSE @,
                         !.last_buf_full = 0]
      q == IF c1
           THEN [freed EXCEPT !.queued[chan] = Tail(@),
                              !.pending[chan] = Append(@, head),
                              !.vc_occupancy[chan] = @ + ChunkSize,
                              !.queued_count = @ - ChunkSize]
           ELSE freed
      c2 == ~p.in_send_loop /\ q.pending[chan] # << >>
  IN  Outcome(
        [s EXCEPT ![e.port] = [q EXCEPT !.in_send_loop = @ \/ c2]],
        [c1 |-> c1, c2 |-> c2, c3 |-> c3,
         saved_rcv_time |-> p.busy_time, saved_busy_time |-> p.last_buf_full],
        (IF c1 THEN {router_credit_send(e.ts, head, head.saved_port, head.saved_chan)} ELSE {})
        \cup (IF c2 THEN {RSendEvent(e.to, MaxOf(p.next_available, e.ts), e.port,
                                     <<"credit", e.by[2], e.by[3], e.by[4]>>)} ELSE {}),
        << >>)

router_buf_update_rc(s, en) ==
  LET rc == en.rc
      chan == en.ev.chan
      moved == s[en.ev.port].pending[chan]
      q == [s[en.ev.port] EXCEPT
              !.vc_occupancy[chan] = @ + ChunkSize,
              !.busy_time = IF rc.c3 THEN rc.saved_rcv_time ELSE @,
              !.last_buf_full = IF rc.c3 THEN rc.saved_busy_time ELSE @,
              !.in_send_loop = IF rc.c2 THEN FALSE ELSE @]
  IN  [s EXCEPT ![en.ev.port] =
         IF rc.c1
         THEN [q EXCEPT !.pending[chan] = AllButLast(@),
                        !.queued[chan] = <<moved[Len(moved)]>> \o @,
                        !.vc_occupancy[chan] = @ - ChunkSize,
                        !.queued_count = @ + ChunkSize]
         ELSE q]
=============================================================================
