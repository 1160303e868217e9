-------------------------------- MODULE DallyTW --------------------------------
(***************************************************************************)
(* Terminals and routers of dragonfly-dally under the optimistic scheduler *)
(* of ROSS, from the messages of server LPs to their delivery.             *)
(***************************************************************************)
EXTENDS DallyNet, Ross

CONSTANT Times   \* when server LPs may send their messages

ASSUME TimesAssumption == Times \subseteq Nat \ {0}

-----------------------------------------------------------------------------
Init ==
  /\ lps = [x \in Terminals \cup Routers |->
              IF x \in Terminals THEN TerminalInit ELSE RouterInit(x)]
  /\ \E ts \in [Msgs -> Times] : events = {NewMsgEvent(m, ts[m]) : m \in Msgs}
  /\ log = << >>
  /\ trace = << >>
  /\ gvt = 0
  /\ rollbacks = 0

-----------------------------------------------------------------------------
(* One action per event type: model_net_base_event, terminal_dally_event,  *)
(* router_dally_event.                                                     *)

NewMsg(e) ==
  /\ Ready(e, "NEW_MSG")
  /\ Process(e, handle_new_msg(lps[e.to], e))

SchedNext(e) ==
  /\ Ready(e, "SCHED_NEXT")
  /\ Process(e, handle_sched_next(lps[e.to], e))

TGenerate(e) ==
  /\ Ready(e, "T_GENERATE")
  /\ Process(e, packet_generate(lps[e.to], e))

TSend(e) ==
  /\ Ready(e, "T_SEND")
  /\ Process(e, packet_send(lps[e.to], e))

TArrive(e) ==
  /\ Ready(e, "T_ARRIVE")
  /\ Process(e, packet_arrive(lps[e.to], e))

TBuffer(e) ==
  /\ Ready(e, "T_BUFFER")
  /\ Process(e, terminal_buf_update(lps[e.to], e))

RArrive(e) ==
  /\ Ready(e, "R_ARRIVE")
  /\ \E n \in NextHops(Algorithm, e.to, e.chunk.rt) :
       Process(e, router_packet_receive(lps[e.to], e, n))

RSend(e) ==
  /\ Ready(e, "R_SEND")
  /\ Process(e, router_packet_send(lps[e.to], e))

RBuffer(e) ==
  /\ Ready(e, "R_BUFFER")
  /\ Process(e, router_buf_update(lps[e.to], e))

HandleEvent ==
  \E e \in events :
    \/ NewMsg(e) \/ SchedNext(e)
    \/ TGenerate(e) \/ TSend(e) \/ TArrive(e) \/ TBuffer(e)
    \/ RArrive(e) \/ RSend(e) \/ RBuffer(e)

\* the reverse handler of a logged event
reverse(s, en) ==
  CASE en.ev.type = "NEW_MSG" -> handle_new_msg_rc(s, en)
    [] en.ev.type = "SCHED_NEXT" -> handle_sched_next_rc(s, en)
    [] en.ev.type = "T_GENERATE" -> packet_generate_rc(s, en)
    [] en.ev.type = "T_SEND" -> packet_send_rc(s, en)
    [] en.ev.type = "T_ARRIVE" -> packet_arrive_rc(s, en)
    [] en.ev.type = "T_BUFFER" -> terminal_buf_update_rc(s, en)
    [] en.ev.type = "R_ARRIVE" -> router_packet_receive_rc(s, en)
    [] en.ev.type = "R_SEND" -> router_packet_send_rc(s, en)
    [] en.ev.type = "R_BUFFER" -> router_buf_update_rc(s, en)

Terminated == events = {} /\ log = << >> /\ UNCHANGED rossVars

Next == HandleEvent \/ Undo(reverse) \/ Commit \/ Terminated

Spec == Init /\ [][Next]_rossVars
FairSpec == Spec /\ WF_rossVars(HandleEvent) /\ WF_rossVars(Commit)

-----------------------------------------------------------------------------
(* Where chunks and credits are.                                           *)

EventsOf(type, lp) == {e \in events : e.type = type /\ e.to = lp}
ArrivingChunks == {e.chunk : e \in {e \in events : e.type \in {"R_ARRIVE", "T_ARRIVE"}}}
ChunksIn(buffer) == UNION {Range(buffer[c]) : c \in Chans}
QueuedChunks == UNION {UNION {ChunksIn(lps[r][p].queued) : p \in DOMAIN lps[r]} : r \in Routers}
PendingChunks == UNION {UNION {ChunksIn(lps[r][p].pending) : p \in DOMAIN lps[r]} : r \in Routers}
ChunksInNetwork ==
  ArrivingChunks \cup QueuedChunks \cup PendingChunks
  \cup UNION {Range(lps[t].terminal_msgs) : t \in Terminals}

\* the places of the queues of a port, one for each chunk that waits
QueuePlaces(buffer) == UNION {{<<c, i>> : i \in DOMAIN buffer[c]} : c \in Chans}

-----------------------------------------------------------------------------
(* Properties.                                                             *)

\* Types, and the bounds the credit protocol is there for: no channel holds more
\* than its size or less than nothing, forward or in a rollback, and the byte
\* counts beside the queues are those of the queues.
TypeOK ==
  /\ \A t \in Terminals :
       /\ lps[t].vc_occupancy \in 0..VcSize["TERMINAL"]
       /\ lps[t].terminal_length = ChunkSize * Len(lps[t].terminal_msgs)
       /\ {lps[t].busy_time, lps[t].available_time, lps[t].packet_counter,
           lps[t].last_in_queue_time} \subseteq Nat
       /\ \A k \in DOMAIN lps[t].remaining_sz : lps[t].remaining_sz[k] > 0
       /\ \A m \in DOMAIN lps[t].rank_tbl :
            lps[t].rank_tbl[m].remaining_packets \in 1..total_packets(m)
  /\ \A r \in Routers : \A p \in DOMAIN lps[r] :
       /\ \A c \in Chans : lps[r][p].vc_occupancy[c] \in 0..VcSize[p.kind]
       /\ lps[r][p].queued_count = ChunkSize * Cardinality(QueuePlaces(lps[r][p].queued))
       /\ {lps[r][p].busy_time, lps[r][p].next_available, lps[r][p].link_traffic} \subseteq Nat

\* The state of an LP, with the bytes that a terminal still expects of each
\* unfinished packet counted in chunks.
InChunks(lp, s) ==
  IF lp \in Terminals
  THEN [s EXCEPT !.remaining_sz = [k \in DOMAIN @ |-> num_chunks_for(@[k])]]
  ELSE s

\* The reverse handler of the last event, run now, gives the LP back as it was
\* before the event: what check_terminal_state and check_router_state compare, of
\* the fields kept here.  False for packets whose last chunk is not full:
\* packet_arrive_rc adds a whole chunk_size to the bytes still expected.
RollbackRestores == log # << >> => Reversed(reverse) = LastEntry.before

\* What is true for every size of packet: all fields but the bytes expected of
\* unfinished packets are restored exactly, and of those the number of chunks, by
\* which packet_arrive tells a packet's last chunk from the others.
RollbackRestoresChunks ==
  log # << >> =>
    InChunks(LastEntry.ev.to, Reversed(reverse)) = InChunks(LastEntry.ev.to, LastEntry.before)

\* Credits are neither lost nor made: a channel counts as occupied exactly the
\* chunks that wait in it, travel from it, wait at the next router for a place
\* there, or whose credit is on its way back (packet_send, router_packet_receive,
\* router_buf_update, packet_arrive and their reverse handlers).
CreditsConserved ==
  LET arriving == ArrivingChunks
      waiting == QueuedChunks
  IN
  /\ \A t \in Terminals :
       lps[t].vc_occupancy = ChunkSize *
         (Cardinality({k \in arriving \cup waiting : k.from = t})
          + Cardinality(EventsOf("T_BUFFER", t)))
  /\ \A r \in Routers : \A p \in DOMAIN lps[r], c \in Chans :
       lps[r][p].vc_occupancy[c] = ChunkSize *
         (Len(lps[r][p].pending[c])
          + Cardinality({k \in arriving : k.from = r /\ k.port = p /\ k.chan = c})
          + Cardinality({k \in waiting : k.from = r /\ k.saved_port = p /\ k.saved_chan = c})
          + Cardinality({e \in EventsOf("R_BUFFER", r) : e.port = p /\ e.chan = c}))

\* No lost wakeup and no second loop: a terminal or port is in its send loop
\* exactly while one send event is on its way; out of the loop there is nothing
\* it could send, and a chunk waits for a channel only while the channel is full.
SendLoops ==
  /\ \A t \in Terminals :
       /\ Cardinality(EventsOf("T_SEND", t)) = IF lps[t].in_send_loop THEN 1 ELSE 0
       /\ lps[t].in_send_loop \/ get_next_vcg_fails(lps[t])
  /\ \A r \in Routers : \A p \in DOMAIN lps[r] :
       /\ Cardinality({e \in EventsOf("R_SEND", r) : e.port = p})
            = IF lps[r][p].in_send_loop THEN 1 ELSE 0
       /\ lps[r][p].in_send_loop \/ ~HasPending(lps[r][p])
       /\ \A c \in Chans : lps[r][p].queued[c] # << >> =>
            lps[r][p].vc_occupancy[c] + ChunkSize > VcSize[p.kind]

\* The terminal asks for one packet at a time: while the base LP is in its loop
\* exactly one of an idle event, a packet on its way to the terminal, or the note
\* to send the idle event once there is room (issueIdle) exists; out of the loop
\* none does, and no request waits.
OneIdleToken ==
  \A t \in Terminals :
    /\ Cardinality(EventsOf("SCHED_NEXT", t)) + Cardinality(EventsOf("T_GENERATE", t))
         + (IF lps[t].issueIdle THEN 1 ELSE 0)
         = IF lps[t].in_sched_loop THEN 1 ELSE 0
    /\ lps[t].in_sched_loop \/ lps[t].sched.reqs = << >>

\* Both at once: from the request in the base LP to the last router, whatever has
\* something to send and room for it has an event on its way that will send it,
\* and only one.
LoopsRun == SendLoops /\ OneIdleToken

TimesTold(what, m) ==
  Cardinality({i \in DOMAIN trace : trace[i] = [what |-> what, msg |-> m]})

\* The receiver is told of a message once, after the sender is, and only when all
\* of the message has arrived: no part of it is left with its sender or in the
\* network, whatever packets of other messages it is mixed with.
DeliveredWhole ==
  \A m \in Msgs :
    /\ TimesTold("remote", m) <= TimesTold("local", m)
    /\ TimesTold("local", m) <= 1
    /\ TimesTold("remote", m) = 1 =>
         /\ \A c \in ChunksInNetwork : c.msg # m
         /\ \A e \in EventsOf("T_GENERATE", Msg[m].src) : e.pkt.msg # m
         /\ m \notin DOMAIN lps[Msg[m].dest].rank_tbl

\* What is left when every event has been processed: nothing in any buffer, no
\* table entry, no credit owed, no loop running.
Drained ==
  /\ \A t \in Terminals :
       /\ lps[t].terminal_msgs = << >> /\ lps[t].vc_occupancy = 0
       /\ lps[t].rank_tbl = << >> /\ lps[t].remaining_sz = << >>
       /\ ~lps[t].in_sched_loop /\ ~lps[t].in_send_loop /\ ~lps[t].issueIdle
  /\ QueuedChunks = {} /\ PendingChunks = {}
  /\ \A r \in Routers : \A p \in DOMAIN lps[r] :
       /\ \A c \in Chans : lps[r][p].vc_occupancy[c] = 0
       /\ ~lps[r][p].in_send_loop

\* Every message sent is delivered and the network then drains, with buffers so
\* small that chunks of different messages hold each other up.
EveryMessageDelivered ==
  <>(Drained /\ \A m \in Msgs : TimesTold("remote", m) = 1)
=============================================================================
