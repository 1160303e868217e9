------------------------------ MODULE ModelNetLP ------------------------------
(***************************************************************************)
(* Event handlers of the model-net base LP (core/model-net-lp.c), as       *)
(* functions of the LP state and the event.  A forward handler yields the  *)
(* new state, what it wrote into the event for its reversal, the events it *)
(* sent and what it did; a reverse handler yields the state it leaves.     *)
(*                                                                         *)
(* Virtual time is a natural number.  A network model ("method") takes     *)
(* packets from the LP and decides when the scheduler goes on:             *)
(*   selfclocked  SIMPLEP2P, TORUS: the LP schedules its own next packet   *)
(*   idle         one model_net_method_idle_event per packet               *)
(*   multirail    dragonfly-dally with several injection queues: an idle   *)
(*                event to every queue for each packet of any of them      *)
(***************************************************************************)
EXTENDS ModelNetSched

(* A definition named Fault_f is f with a seeded fault.  It is used by no   *)
(* specification: it serves to confirm that a property notices the fault.   *)

CONSTANTS
  Method,          \* "selfclocked", "idle" or "multirail"
  NumQueues,       \* num_queues: send queues (injection queues) of the LP
  NumServers,      \* servers that share this LP's router
  NicsPerRouter,   \* nics_per_router
  NodeCopyQueues,  \* node_copy_queues: queues for messages within the node
  CnDelay,         \* codes_cn_delay: time to copy one byte within the node
  NicSeqDelay,     \* nic_seq_delay: time between two requests entering the NIC
  IdleDelay,       \* injection time the method waits before an idle event
  LatencyRange,    \* number of values codes_local_latency can return
  Recycled         \* what the unset flags of a recycled event may hold

ASSUME LPAssumption ==
  /\ Method \in {"selfclocked", "idle", "multirail"}
  /\ NumQueues \in Nat \ {0}
  /\ NumServers \in Nat \ {0}
  /\ NicsPerRouter \in Nat \ {0}
  /\ NodeCopyQueues \in Nat \ {0}
  /\ CnDelay \in Nat
  /\ NicSeqDelay \in Nat
  /\ IdleDelay \in Nat
  /\ LatencyRange \in Nat \ {0}
  /\ Recycled \in SUBSET BOOLEAN
  /\ Recycled # {}

-----------------------------------------------------------------------------
(* Queues.  Index NumQueues is the receive queue (sched_recv).             *)

SendQueues == 0 .. (NumQueues - 1)
RecvQueue == NumQueues
Queues == 0 .. NumQueues

AtLeastOne(n) == IF n = 0 THEN 1 ELSE n

servers_per_node == AtLeastOne(NumServers \div NumQueues)

servers_per_node_queue ==
  AtLeastOne((NumServers \div NicsPerRouter) \div NodeCopyQueues)

\* queue_offset of a message, and sched_recv for one that came over the wire
queue_of(m) ==
  IF Req[m].is_from_remote THEN RecvQueue
  ELSE IF NumQueues = 1 THEN 0
  ELSE (Req[m].offset \div servers_per_node) % NumQueues

\* queue of a message to the own node
copy_queue(m) == (Req[m].offset \div NicsPerRouter) \div servers_per_node_queue

CopyQueues == 0 .. (NodeCopyQueues - 1)

\* the code indexes node_copy_next_available_time with copy_queue unchecked
ASSUME CopyQueueAssumption == \A m \in Msgs : copy_queue(m) \in CopyQueues

-----------------------------------------------------------------------------
(* Events, LP state, and the outcome of a handler.                         *)

\* src numbers the event that sent it; 0 is another LP
Event == [type: {"NEW_MSG", "SCHED_NEXT", "PASS"}, ts: Nat, src: Nat,
          m: Msgs \cup {NoMsg}, q: Queues,
          isQueueReq: BOOLEAN, created_in_surrogate: BOOLEAN]

\* the events of P that belong to a scheduler loop
Tokens(P) == {e \in P : e.type # "NEW_MSG"}

NewMsg(m, ts, src, isq) ==
  [type |-> "NEW_MSG", ts |-> ts, src |-> src, m |-> m, q |-> queue_of(m),
   isQueueReq |-> isq, created_in_surrogate |-> FALSE]

\* model_net_event_impl_base asks for a NIC slot (isQueueReq);
\* model_net_method_send_msg_recv_event leaves the flag unset
ArrivalFlags(m) == IF Req[m].is_from_remote THEN Recycled ELSE {TRUE}

SchedNext(q, ts, src, surr) ==
  [type |-> "SCHED_NEXT", ts |-> ts, src |-> src, m |-> NoMsg, q |-> q,
   isQueueReq |-> FALSE, created_in_surrogate |-> surr]

Pass(q, ts, src) ==
  [type |-> "PASS", ts |-> ts, src |-> src, m |-> NoMsg, q |-> q,
   isQueueReq |-> FALSE, created_in_surrogate |-> FALSE]

\* model_net_base_state, and the position of the LP's random stream
State == [in_loop: [Queues -> BOOLEAN], sched: [Queues -> [Levels -> Queue]],
          msg_id: Nat, next_avail: Nat, copy_avail: [CopyQueues -> Nat], rng: Nat]

base_lp_init ==
  [in_loop |-> [q \in Queues |-> FALSE], sched |-> [q \in Queues |-> sched_init],
   msg_id |-> 0, next_avail |-> 0, copy_avail |-> [c \in CopyQueues |-> 0], rng |-> 0]

\* the bits of tw_bf the handlers use
NoBits == [c0 |-> FALSE, c30 |-> FALSE, c31 |-> FALSE]
NoRc == [rtn |-> 0, prio |-> 0, req |-> NoMsg]

\* One thing the LP did: took a request through the NIC ("nic"), copied a message
\* within the node ("copy"), queued a message ("queued"), gave a packet to the
\* method ("packet").  "at" is when it is done.
Did(kind, q, at, pkt) ==
  [kind |-> kind, q |-> q, at |-> at, req |-> pkt.req, offset |-> pkt.offset,
   size |-> pkt.size, last |-> pkt.last, another |-> pkt.another]

Whole(m) == [req |-> m, offset |-> 0, size |-> Req[m].msg_size,
             last |-> TRUE, another |-> FALSE]

\* A handler that leaves its event untouched and does nothing
Nothing(s) == [ns |-> s, bf |-> NoBits, rc |-> NoRc, save_ts |-> 0,
               sent |-> {}, did |-> << >>]

\* codes_local_latency: the value at a position of the random stream
codes_local_latency(k) == 1 + (k % LatencyRange)

Later(a, b) == IF a > b THEN a ELSE b

-----------------------------------------------------------------------------
(* Forward handlers.  n is the number of this event among the events the   *)
(* LP has processed.                                                       *)

Fault_new_msg_local(s, e) ==
  LET c    == copy_queue(e.m)
      done == e.ts + Req[e.m].msg_size * CnDelay
  IN  [Nothing([s EXCEPT !.copy_avail[c] = done, !.rng = @ + 1])
         EXCEPT !.save_ts = s.copy_avail[c],
                !.did = <<Did("copy", c, done, Whole(e.m))>>]

\* handle_new_msg, destination on the own node
new_msg_local(s, e) ==
  LET c     == copy_queue(e.m)
      start == Later(s.copy_avail[c], e.ts)
      done  == start + Req[e.m].msg_size * CnDelay
  IN  [Nothing([s EXCEPT !.copy_avail[c] = done, !.rng = @ + 1])
         EXCEPT !.save_ts = s.copy_avail[c],
                !.did = <<Did("copy", c, done, Whole(e.m))>>]

Fault_new_msg_nic(s, e, n) ==
  LET free == e.ts + NicSeqDelay + codes_local_latency(s.rng)
  IN  [Nothing([s EXCEPT !.next_avail = free, !.rng = @ + 1])
         EXCEPT !.save_ts = s.next_avail,
                !.sent = {NewMsg(e.m, free, n, FALSE)},
                !.did = <<Did("nic", queue_of(e.m), free, Whole(e.m))>>]

\* handle_new_msg, isQueueReq: wait for the NIC, then come back
new_msg_nic(s, e, n) ==
  LET free == Later(s.next_avail, e.ts) + NicSeqDelay + codes_local_latency(s.rng)
  IN  [Nothing([s EXCEPT !.next_avail = free, !.rng = @ + 1])
         EXCEPT !.save_ts = s.next_avail,
                !.sent = {NewMsg(e.m, free, n, FALSE)},
                !.did = <<Did("nic", queue_of(e.m), free, Whole(e.m))>>]

\* random draws of one packet: the method's packet_event, and the LP's own
\* when it schedules the next packet itself
Draws == IF Method = "selfclocked" THEN 2 ELSE 1

Fault_Wakeups(s, q, ts, n) ==
  IF sched_next_pkt(s.sched[q]).last THEN {{}}
  ELSE {{SchedNext(q, ts + codes_local_latency(s.rng), n, FALSE)}}

\* what wakes the scheduler up after a packet.  Nobody sets
\* created_in_surrogate in the event a selfclocked LP sends to itself.
Wakeups(s, q, ts, n) ==
  IF Method = "selfclocked"
  THEN LET at == ts + codes_local_latency(s.rng) + codes_local_latency(s.rng + 1)
       IN  {{SchedNext(q, at, n, surr)} : surr \in Recycled}
  ELSE {{Pass(q, ts + codes_local_latency(s.rng), n)}}

\* handle_sched_next on queue q, a request waiting; one outcome per wakeup
sched_next_issue(s, q, ts, rc, n) ==
  LET pkt == sched_next_pkt(s.sched[q])
  IN  {[ns      |-> [s EXCEPT !.sched[q] = sched_next(@), !.rng = @ + Draws],
        bf      |-> NoBits,
        rc      |-> sched_next_rcrec(s.sched[q], rc),
        save_ts |-> 0,
        sent    |-> w,
        did     |-> <<Did("packet", q, ts, pkt)>>] : w \in Wakeups(s, q, ts, n)}

\* handle_sched_next on queue q, nothing waiting: the loop ends
sched_next_finish(s, q, rc) ==
  [Nothing([s EXCEPT !.in_loop[q] = FALSE])
     EXCEPT !.bf.c0 = TRUE, !.rc = sched_next_rcrec(s.sched[q], rc)]

\* handle_new_msg, the request enters the scheduler
Queued(s, e) ==
  LET q == queue_of(e.m)
  IN  [s EXCEPT !.msg_id = @ + 1, !.sched[q] = sched_add(e.m, @)]

\* ... behind a loop that is already running
new_msg_queue(s, e) ==
  [Nothing(Queued(s, e))
     EXCEPT !.bf.c30 = TRUE, !.rc = sched_add_rcrec(e.m, NoRc),
            !.did = <<Did("queued", queue_of(e.m), e.ts, Whole(e.m))>>]

\* ... and starts the loop: handle_sched_next on the same event and rc record
new_msg_start(s, e, n) ==
  LET q == queue_of(e.m)
      t == [Queued(s, e) EXCEPT !.in_loop[q] = TRUE]
  IN  {[o EXCEPT !.bf.c30 = TRUE, !.bf.c31 = TRUE,
                 !.did = <<Did("queued", q, e.ts, Whole(e.m))>> \o @] :
         o \in sched_next_issue(t, q, e.ts, sched_add_rcrec(e.m, NoRc), n)}

\* The method, done with a packet of e.q, calls model_net_method_idle_event2
IdleQueues(q) ==
  IF Method = "multirail" /\ q \in SendQueues THEN SendQueues ELSE {q}

method_idle(s, e, n) ==
  [Nothing(s) EXCEPT
     !.sent = {SchedNext(j, e.ts + IdleDelay, n, FALSE) : j \in IdleQueues(e.q)}]

-----------------------------------------------------------------------------
(* Reverse handlers.  x is an entry of the list of processed events: the   *)
(* event and what its forward handler wrote into it.                       *)

\* whether model_net_sched_next handed a packet out, so that next_rc calls
\* the method's packet_event_rc
RcIssued(rc) == IF SchedType = "prio" THEN rc.prio # -1 ELSE rc.rtn # -1

Fault_handle_sched_next_rc(s, q, x) ==
  [s EXCEPT !.sched[q] = sched_next_rc(@, x.rc),
            !.rng = IF RcIssued(x.rc) THEN @ - Draws ELSE @]

handle_sched_next_rc(s, q, x) ==
  LET undone == [s EXCEPT !.sched[q] = sched_next_rc(@, x.rc),
                          !.rng = IF RcIssued(x.rc) THEN @ - 1 ELSE @]
  IN  IF x.bf.c0 THEN [undone EXCEPT !.in_loop[q] = TRUE]
      ELSE [undone EXCEPT !.rng = IF Method = "selfclocked" THEN @ - 1 ELSE @]

\* the NIC clock is not set back
Fault_handle_new_msg_rc(s, x) ==
  LET m == x.ev.m
      q == queue_of(m)
      t == IF x.bf.c31
           THEN [handle_sched_next_rc(s, q, x) EXCEPT !.in_loop[q] = FALSE]
           ELSE s
  IN  CASE Req[m].loopback -> [s EXCEPT !.rng = @ - 1,
                                        !.copy_avail[copy_queue(m)] = x.save_ts]
        [] ~Req[m].loopback /\ x.ev.isQueueReq -> [s EXCEPT !.rng = @ - 1]
        [] OTHER -> [t EXCEPT !.sched[q] = sched_add_rc(@, x.rc),
                              !.msg_id = IF x.bf.c30 THEN @ - 1 ELSE @]

\* the loop flag is not reset
Fault2_handle_new_msg_rc(s, x) ==
  LET m == x.ev.m
      q == queue_of(m)
      t == IF x.bf.c31 THEN handle_sched_next_rc(s, q, x) ELSE s
  IN  CASE Req[m].loopback -> [s EXCEPT !.rng = @ - 1,
                                        !.copy_avail[copy_queue(m)] = x.save_ts]
        [] ~Req[m].loopback /\ x.ev.isQueueReq ->
             [s EXCEPT !.rng = @ - 1, !.next_avail = x.save_ts]
        [] OTHER -> [t EXCEPT !.sched[q] = sched_add_rc(@, x.rc),
                              !.msg_id = IF x.bf.c30 THEN @ - 1 ELSE @]

handle_new_msg_rc(s, x) ==
  LET m == x.ev.m
      q == queue_of(m)
      t == IF x.bf.c31
           THEN [handle_sched_next_rc(s, q, x) EXCEPT !.in_loop[q] = FALSE]
           ELSE s
  IN  CASE Req[m].loopback -> [s EXCEPT !.rng = @ - 1,
                                        !.copy_avail[copy_queue(m)] = x.save_ts]
        [] ~Req[m].loopback /\ x.ev.isQueueReq ->
             [s EXCEPT !.rng = @ - 1, !.next_avail = x.save_ts]
        [] OTHER -> [t EXCEPT !.sched[q] = sched_add_rc(@, x.rc),
                              !.msg_id = IF x.bf.c30 THEN @ - 1 ELSE @]

\* model_net_base_event_rc; the method's own reversal is not part of ns
base_event_rc(s, x) ==
  CASE x.ev.type = "NEW_MSG" -> handle_new_msg_rc(s, x)
    [] x.ev.type = "SCHED_NEXT" /\ ~x.ev.created_in_surrogate ->
         handle_sched_next_rc(s, x.ev.q, x)
    [] OTHER -> s
=============================================================================
