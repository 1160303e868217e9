------------------------------- MODULE MpiReplay -------------------------------
(***************************************************************************)
(* An LP of the MPI trace replay (model-net-mpi-replay.c): it executes the *)
(* operations of one rank.  Messages below a threshold are sent at once    *)
(* (eager), longer ones after a handshake with the receiver (rendezvous).  *)
(* Receives and messages are matched by source and tag; non-blocking       *)
(* operations leave their request in a list of completed requests, where   *)
(* waits find them.  Ranks that have finished tell the root of their job,  *)
(* and when all jobs are done the background traffic is told to stop.      *)
(*                                                                         *)
(* Counts of operations and bytes and the times a rank spends are kept;    *)
(* samples and message tracking, which are off by default, are left out.   *)
(* A simulated network takes any of a set of latencies, so that messages   *)
(* may overtake each other.  Background traffic has the uniform pattern    *)
(* and no iteration predictor.                                             *)
(*                                                                         *)
(* A definition named Fault_f is f with a seeded fault, for testing the    *)
(* properties; no specification uses it.                                   *)
(***************************************************************************)
EXTENDS Integers, Sequences, FiniteSets, SequencesExt

CONSTANTS
  Ranks,            \* LPs
  Job,              \* job of each rank
  Root,             \* rank 0 of each job
  Job0,             \* the job whose root hears of the others
  Synthetic,        \* jobs that are background traffic
  Trace,            \* operations of each rank of the other jobs
  EAGER_THRESHOLD,
  Latencies,        \* how long the network may take to deliver a message, for each
                    \* kind: "eager", "announce", "ack", "data", "background"
  LocalLatencies,   \* how long until a message has left its sender
  Interval,         \* time between two messages of background traffic
  MaxBackground,    \* bound on messages of background traffic
  PayloadSz,        \* bytes of one
  MaxGenData,       \* max_gen_data: bytes after which a background rank stops; 0: told to
  JobTimer,         \* for each job, <<job_timer1, job_timer2>>: background traffic is silent
                    \* between them, unless the first is 0
  RecvReqs,         \* what the request of a blocking receive may hold
  None

NEAR_ZERO == 1
ANY == -1
Counters ==
  {"num_sends", "num_recvs", "num_delays", "num_waitsome", "num_waitall", "num_wait", "num_cols"}
WKLD_JOBS == DOMAIN Root \ Synthetic

\* the operations a rank may get; a workload goes on with END after its last one
Ops == {[op |-> "END"]} \cup UNION {ToSet(Trace[r]) : r \in Ranks}

ASSUME ReplayAssumption ==
  /\ Ranks \subseteq Nat
  /\ Job \in [Ranks -> DOMAIN Root] /\ Range(Root) \subseteq Ranks
  /\ Synthetic \subseteq DOMAIN Root /\ Job0 \in DOMAIN Root \ Synthetic
  /\ \A r \in Ranks : Job[r] \notin Synthetic => Trace[r][Len(Trace[r])].op = "END"
  /\ \A r \in Ranks : Trace[r] \in Seq(Ops)
  /\ \A op \in Ops :
       /\ op.op \in {"SEND", "ISEND"} => op.peer \in Ranks
       /\ op.op \in {"RECV", "IRECV"} => op.peer \in Ranks \cup {ANY}
       /\ op.op \in {"SEND", "ISEND", "RECV", "IRECV"} =>
            op.tag \in Int /\ op.bytes \in Nat /\ op.req \in Int
       /\ op.op = "WAIT" => op.req \in Int
       /\ op.op = "DELAY" => op.nsecs \in Nat
  /\ DOMAIN Latencies = {"eager", "announce", "ack", "data", "background"}
  /\ \A k \in DOMAIN Latencies : Latencies[k] \subseteq Nat \ {0}
  /\ LocalLatencies \cup {Interval, MaxBackground, EAGER_THRESHOLD} \subseteq Nat \ {0}
  /\ {PayloadSz, MaxGenData} \subseteq Nat /\ JobTimer \in [DOMAIN Root -> Nat \X Nat]
  /\ RecvReqs \subseteq Int

\* elements of the two queues
Receive == [op : {"RECV", "IRECV"}, source : Ranks \cup {ANY}, tag : Int, bytes : Nat,
            req : Int, id : Ranks \X Int]
Message == [op : {"SEND", "ISEND"}, src : Ranks, dest : Ranks, tag : Int, bytes : Nat,
            req : Int, matched_req : Int, start : Nat, id : Ranks \X Int]

ASSUME NoneAssumption == None \notin Receive \cup Message

nw_test_init(recv_req) ==
  [recv_req |-> recv_req, read |-> 0, lifo |-> << >>,
   arrival_queue |-> << >>, pending_recvs_queue |-> << >>, completed_reqs |-> << >>,
   wait_op |-> None,
   processed_ops |-> << >>, processed_wait_op |-> << >>, matched_reqs |-> << >>,
   count |-> [c \in Counters |-> 0],
   num_bytes_sent |-> 0, num_bytes_recvd |-> 0, syn_data |-> 0, gen_data |-> 0,
   col_time |-> 0, all_reduce_time |-> 0, num_all_reduce |-> 0, max_time |-> 0,
   recv_time |-> 0, wait_time |-> 0, send_time |-> 0, compute_time |-> 0, elapsed_time |-> 0,
   is_finished |-> FALSE, num_own_job_ranks_completed |-> 0, known_completed_jobs |-> {},
   rng |-> 0]

Outcome(ns, rc, sent, did) == [ns |-> ns, rc |-> rc, sent |-> sent, did |-> did]

-----------------------------------------------------------------------------
(* codes-workload.c: operations given back are handed out again first.     *)

NextOp(r, s) ==
  IF s.lifo # << >> THEN Head(s.lifo)
  ELSE IF s.read < Len(Trace[r]) THEN Trace[r][s.read + 1] ELSE [op |-> "END"]
codes_workload_get_next(s) ==
  IF s.lifo # << >> THEN [s EXCEPT !.lifo = Tail(@)] ELSE [s EXCEPT !.read = @ + 1]
codes_workload_get_next_rc(s, op) == [s EXCEPT !.lifo = <<op>> \o @]
Pos(s) == s.read - Len(s.lifo)

-----------------------------------------------------------------------------
(* rc-stack.c in optimistic mode, and the lists of quicklist.h.            *)

rc_stack_push(q, x, now) == Append(q, [time |-> now, data |-> x])
rc_stack_top(q) == IF q = << >> THEN None ELSE Last(q).data
rc_stack_pop(q) == IF q = << >> THEN q ELSE Front(q)

\* entries of committed events, oldest first
rc_stack_gc(q, gvt) ==
  LET n == CHOOSE n \in 0..Len(q) :
             /\ \A j \in 1..n : q[j].time < gvt
             /\ n < Len(q) => q[n + 1].time >= gvt
  IN  SubSeq(q, n + 1, Len(q))

CollectStacks(s, gvt) ==
  [s EXCEPT !.processed_ops = rc_stack_gc(@, gvt), !.matched_reqs = rc_stack_gc(@, gvt),
            !.processed_wait_op = rc_stack_gc(@, gvt)]

\* the list is circular, its head counts as a place
qlist_add_at_index(q, x, index) == InsertAt(q, 1 + (index % (Len(q) + 1)), x)

\* after the index-th element; lost if there are fewer
AddBehind(q, x, index) == IF index <= Len(q) THEN InsertAt(q, index + 1, x) ELSE q

FirstIndex(q, Test(_)) ==
  IF \E i \in DOMAIN q : Test(q[i])
  THEN (CHOOSE i \in DOMAIN q : Test(q[i]) /\ \A j \in 1..(i - 1) : ~Test(q[j])) - 1
  ELSE -1

-----------------------------------------------------------------------------
(* Events.  The field id, the rank and position of the operation that made *)
(* it, tells events of the same kind apart.                                *)

Event(type, ts, to, id) == [type |-> type, ts |-> ts, to |-> to, id |-> id]

NextEvent(e, delay) ==
  Event("MPI_OP_GET_NEXT", e.ts + delay, e.to,
        <<e.type, IF e.type = "MPI_OP_GET_NEXT" THEN << >> ELSE e.id>>)
codes_issue_next_event(e) == {NextEvent(e, NEAR_ZERO)}
NextIf(cond, e) == IF cond THEN codes_issue_next_event(e) ELSE {}

MessageEvent(type, ts, to, msg) ==
  [type |-> type, ts |-> ts, to |-> to, id |-> msg.id, msg |-> msg]
is_eager(msg) == msg.bytes < EAGER_THRESHOLD

\* the sender is told how long its message took
CallbackEvent(e) ==
  [type |-> "MPI_SEND_ARRIVED_CB", ts |-> e.ts, to |-> e.msg.src, id |-> e.id,
   msg_send_time |-> e.ts - e.msg.start]

send_ack_back(e, msg, req, latency) ==
  {MessageEvent("MPI_REND_ACK_ARRIVED", e.ts + latency, msg.src,
                [msg EXCEPT !.matched_req = req])}

-----------------------------------------------------------------------------
(* Completed requests and the wait for them.                               *)

Positions(q, reqs) == SetToSortSeq({i \in DOMAIN q : q[i] \in reqs}, <)

Without(q, reqs) == SelectSeq(q, LAMBDA req : req \notin reqs)

clear_completed_reqs(s, reqs, now) ==
  LET at == Positions(s.completed_reqs, reqs)
  IN  [s EXCEPT !.completed_reqs = Without(@, reqs),
                !.matched_reqs =
                   @ \o [k \in DOMAIN at |-> [time |-> now, data |->
                           [req |-> s.completed_reqs[at[k]], index |-> at[k] - 1]]]]

\* count entries go from the stack back to their places in the list
PutBack(list, stack, count) ==
  FoldLeft(LAMBDA t, i :
             LET top == rc_stack_top(t.stack)
             IN  [stack |-> rc_stack_pop(t.stack),
                  list |-> IF top = None THEN t.list
                           ELSE qlist_add_at_index(t.list, top.req, top.index - count + i)],
           [list |-> list, stack |-> stack], [i \in 1..count |-> i])

add_completed_reqs(s, count) ==
  LET p == PutBack(s.completed_reqs, s.matched_reqs, count)
  IN  [s EXCEPT !.completed_reqs = p.list, !.matched_reqs = p.stack]

Times(reqs, req) == Cardinality({i \in DOMAIN reqs : reqs[i] = req})

Fault_notify_posted_wait(s, req) ==
  LET w == s.wait_op
      n == IF w = None THEN 0 ELSE Times(w.req_ids, req)
      all == w.op = "WAITALL"
  IN  [wait_completed |-> IF n > 0 /\ all THEN n ELSE 0,
       done |-> n > 0 /\ (all => w.num_completed + n + 1 >= Len(w.req_ids))]

\* how many requests of the posted wait this is, and whether it ends the wait
notify_posted_wait(s, req) ==
  LET w == s.wait_op
      n == IF w = None THEN 0 ELSE Times(w.req_ids, req)
      all == w.op = "WAITALL"
  IN  [wait_completed |-> IF n > 0 /\ all THEN n ELSE 0,
       done |-> n > 0 /\ (all => w.num_completed + n >= Len(w.req_ids))]

update_completed_queue(s, e, req) ==
  LET n == notify_posted_wait(s, req)
      t == IF s.wait_op = None THEN s
           ELSE [s EXCEPT !.wait_op.num_completed = @ + n.wait_completed]
      cleared == clear_completed_reqs(t, ToSet(s.wait_op.req_ids), e.ts)
  IN  IF n.done
      THEN Outcome(
             [cleared EXCEPT
                !.wait_time = @ + (e.ts - s.wait_op.start_time),
                !.processed_wait_op = rc_stack_push(@, t.wait_op, e.ts), !.wait_op = None],
             [c31 |-> TRUE, wait_completed |-> n.wait_completed, saved_wait_time |-> s.wait_time,
              num_matched |-> Len(t.completed_reqs) - Len(cleared.completed_reqs)],
             codes_issue_next_event(e), <<[rank |-> e.to, done |-> req]>>)
      ELSE Outcome(
             [t EXCEPT !.completed_reqs = <<req>> \o @],
             [c31 |-> FALSE, wait_completed |-> n.wait_completed, saved_wait_time |-> 0,
              num_matched |-> 0],
             {}, <<[rank |-> e.to, done |-> req]>>)

update_completed_queue_rc(s, rc) ==
  LET t == IF rc.c31
           THEN [add_completed_reqs(s, rc.num_matched) EXCEPT
                   !.wait_op = rc_stack_top(s.processed_wait_op),
                   !.processed_wait_op = rc_stack_pop(@), !.wait_time = rc.saved_wait_time]
           ELSE [s EXCEPT !.completed_reqs = Tail(@)]
  IN  IF rc.wait_completed > 0 THEN [t EXCEPT !.wait_op.num_completed = @ - rc.wait_completed]
      ELSE t

\* an operation that completes no request
NoRequest(s, sent) ==
  Outcome(s, [c31 |-> FALSE, wait_completed |-> 0, saved_wait_time |-> 0, num_matched |-> 0],
          sent, << >>)

-----------------------------------------------------------------------------
(* Messages and receives find each other.  Both handlers match the first   *)
(* entry of the other queue that fits.                                     *)

Matches(recv, msg) == recv.tag \in {ANY, msg.tag} /\ recv.source \in {ANY, msg.src}

\* a long message is asked for; a short one completes a non-blocking receive or
\* lets a blocking one go on
MatchOutcome(s, e, recv, msg, latency) ==
  IF ~is_eager(msg) THEN NoRequest(s, send_ack_back(e, msg, recv.req, latency))
  ELSE IF recv.op = "IRECV" THEN update_completed_queue(s, e, recv.req)
  ELSE NoRequest(s, codes_issue_next_event(e))

Matched(recv, msg) == <<[recv |-> recv.id, msg |-> msg.id]>>

FirstReceive(s, msg) == FirstIndex(s.pending_recvs_queue, LAMBDA q : Matches(q, msg))

\* MPI_SEND_ARRIVED: rm_matching_rcv is the case of a match
update_arrival_queue(s, e, latency) ==
  LET msg == e.msg
      t == [s EXCEPT !.num_bytes_recvd = @ + msg.bytes]
      index == FirstReceive(s, msg)
      recv == s.pending_recvs_queue[index + 1]
      o == MatchOutcome(t, e, recv, msg, latency)
      callback == IF is_eager(msg) THEN {CallbackEvent(e)} ELSE {}
  IN  IF index = -1
      THEN Outcome([t EXCEPT !.arrival_queue = Append(@, msg)], [found_match |-> index],
                   callback, << >>)
      ELSE Outcome(
             [o.ns EXCEPT
                !.recv_time = IF is_eager(msg) THEN @ + (e.ts - msg.start) ELSE @,
                !.pending_recvs_queue = RemoveAt(@, index + 1),
                !.processed_ops = rc_stack_push(@, [recv EXCEPT !.bytes = msg.bytes], e.ts)],
             [found_match |-> index, saved_recv_time |-> s.recv_time,
              saved_num_bytes |-> recv.bytes, recv |-> recv, completed |-> o.rc],
             o.sent \cup callback, Matched(recv, msg) \o o.did)

Fault_update_arrival_queue_rc(s, en) ==
  LET rc == en.rc
      qi == rc_stack_top(s.processed_ops)
      u == [s EXCEPT !.num_bytes_recvd = @ - en.ev.msg.bytes]
      t == [u EXCEPT !.processed_ops = rc_stack_pop(@), !.recv_time = rc.saved_recv_time,
                     !.pending_recvs_queue =
                       Append(@, [qi EXCEPT !.bytes = rc.saved_num_bytes])]
  IN  IF rc.found_match = -1 THEN [u EXCEPT !.arrival_queue = Front(@)]
      ELSE IF is_eager(en.ev.msg) /\ rc.recv.op = "IRECV"
           THEN update_completed_queue_rc(t, rc.completed) ELSE t

update_arrival_queue_rc(s, en) ==
  LET rc == en.rc
      qi == rc_stack_top(s.processed_ops)
      u == [s EXCEPT !.num_bytes_recvd = @ - en.ev.msg.bytes]
      t == [u EXCEPT !.processed_ops = rc_stack_pop(@), !.recv_time = rc.saved_recv_time,
                     !.pending_recvs_queue = IF qi = None THEN @ ELSE
                       AddBehind(@, [qi EXCEPT !.bytes = rc.saved_num_bytes], rc.found_match)]
  IN  IF rc.found_match = -1 THEN [u EXCEPT !.arrival_queue = Front(@)]
      ELSE IF is_eager(en.ev.msg) /\ rc.recv.op = "IRECV"
           THEN update_completed_queue_rc(t, rc.completed) ELSE t

Fault_FirstMessage(s, recv) == FirstIndex(s.arrival_queue, LAMBDA q : q.tag = recv.tag)

FirstMessage(s, recv) == FirstIndex(s.arrival_queue, LAMBDA q : Matches(recv, q))

\* MPI_OP_GET_NEXT with a receive: rm_matching_send is the case of a match
codes_exec_mpi_recv(s, e, op, latency) ==
  LET recv == [op |-> op.op, source |-> op.peer, tag |-> op.tag, bytes |-> op.bytes,
               req |-> IF op.op = "RECV" THEN s.recv_req ELSE op.req, id |-> <<e.to, Pos(s)>>]
      index == FirstMessage(s, recv)
      msg == s.arrival_queue[index + 1]
      o == MatchOutcome(s, e, [recv EXCEPT !.bytes = msg.bytes], msg, latency)
      next == NextIf(op.op = "IRECV", e)
  IN  IF index = -1
      THEN Outcome([s EXCEPT !.pending_recvs_queue = Append(@, recv)], [found_match |-> index],
                   next, << >>)
      ELSE Outcome(
             [o.ns EXCEPT !.arrival_queue = RemoveAt(@, index + 1),
                          !.processed_ops = rc_stack_push(@, msg, e.ts)],
             [found_match |-> index, msg |-> msg, completed |-> o.rc],
             o.sent \cup next, Matched(recv, msg) \o o.did)

codes_exec_mpi_recv_rc(s, rc, op) ==
  LET qi == rc_stack_top(s.processed_ops)
      t == [s EXCEPT !.processed_ops = rc_stack_pop(@),
                     !.arrival_queue = IF qi = None THEN @ ELSE AddBehind(@, qi, rc.found_match)]
  IN  IF rc.found_match = -1 THEN [s EXCEPT !.pending_recvs_queue = Front(@)]
      ELSE IF is_eager(rc.msg) /\ op.op = "IRECV" THEN update_completed_queue_rc(t, rc.completed)
      ELSE t

-----------------------------------------------------------------------------
(* Sends.                                                                  *)

BytesSent(s, n) == [s EXCEPT !.num_bytes_sent = @ + n]

\* a short message leaves at once, of a long one only the announcement
codes_exec_mpi_send(s, e, op, latency, local) ==
  LET msg == [op |-> op.op, src |-> e.to, dest |-> op.peer, tag |-> op.tag, bytes |-> op.bytes,
              req |-> op.req, matched_req |-> -1, start |-> e.ts, id |-> <<e.to, Pos(s)>>]
      posted == IF is_eager(msg)
                THEN {MessageEvent("MPI_SEND_POSTED", e.ts + local, e.to, msg)} ELSE {}
  IN  Outcome(IF is_eager(op) THEN BytesSent(s, op.bytes) ELSE s, << >>,
              {MessageEvent("MPI_SEND_ARRIVED", e.ts + latency, op.peer, msg)} \cup posted
                \cup NextIf(op.op = "ISEND", e),
              << >>)

Fault_codes_exec_mpi_send_rc(s, op) == BytesSent(s, -op.bytes)

codes_exec_mpi_send_rc(s, op) == IF is_eager(op) THEN BytesSent(s, -op.bytes) ELSE s

\* MPI_REND_ACK_ARRIVED: the receiver is ready for a long message
rend_send(s, e, latency, local) ==
  Outcome(BytesSent(s, e.msg.bytes), << >>,
          {MessageEvent("MPI_REND_ARRIVED", e.ts + latency, e.msg.dest, e.msg),
           MessageEvent("MPI_SEND_POSTED", e.ts + local, e.to, e.msg)},
          << >>)
rend_send_rc(s, en) == BytesSent(s, -en.ev.msg.bytes)

Fault_send_posted(s, e) ==
  IF e.msg.op = "ISEND" THEN update_completed_queue(s, e, e.msg.req)
  ELSE NoRequest(s, NextIf(is_eager(e.msg), e))

send_posted(s, e) ==
  IF e.msg.op = "ISEND" THEN update_completed_queue(s, e, e.msg.req)
  ELSE NoRequest(s, codes_issue_next_event(e))

send_posted_rc(s, en) ==
  IF en.ev.msg.op = "ISEND" THEN update_completed_queue_rc(s, en.rc) ELSE s

rend_arrived(s, e) ==
  LET req == e.msg.matched_req
      o == IF req >= 0 THEN update_completed_queue(s, e, req)
           ELSE NoRequest(s, codes_issue_next_event(e))
  IN  Outcome([o.ns EXCEPT !.recv_time = @ + (e.ts - e.msg.start)],
              [saved_recv_time |-> s.recv_time, completed |-> o.rc],
              o.sent \cup {CallbackEvent(e)}, o.did)

rend_arrived_rc(s, en) ==
  [IF en.ev.msg.matched_req >= 0 THEN update_completed_queue_rc(s, en.rc.completed) ELSE s
     EXCEPT !.recv_time = en.rc.saved_recv_time]

update_message_time(s, e) ==
  Outcome([s EXCEPT !.send_time = @ + e.msg_send_time], [saved_send_time |-> s.send_time],
          {}, << >>)
update_message_time_rc(s, en) == [s EXCEPT !.send_time = en.rc.saved_send_time]

-----------------------------------------------------------------------------
(* Waits.                                                                  *)

Post(s, e, op, reqs, completed) ==
  [s EXCEPT !.wait_op = [op |-> op, req_ids |-> reqs, num_completed |-> completed,
                         start_time |-> e.ts]]

FirstRequest(s, req) == FirstIndex(s.completed_reqs, LAMBDA q : q = req)

codes_exec_mpi_wait(s, e, op) ==
  LET index == FirstRequest(s, op.req)
  IN  IF index = -1
      THEN Outcome(Post(s, e, "WAIT", <<op.req>>, 0), [c1 |-> FALSE], {}, << >>)
      ELSE Outcome([s EXCEPT !.completed_reqs = RemoveAt(@, index + 1),
                             !.processed_ops = rc_stack_push(@, op.req, e.ts)],
                   [c1 |-> TRUE, found_match |-> index],
                   codes_issue_next_event(e), << >>)

codes_exec_mpi_wait_rc(s, rc) ==
  LET qi == rc_stack_top(s.processed_ops)
  IN  IF ~rc.c1 THEN [s EXCEPT !.wait_op = None]
      ELSE [s EXCEPT !.processed_ops = rc_stack_pop(@),
                     !.completed_reqs = AddBehind(@, qi, rc.found_match)]

NumMatched(s, reqs) ==
  Cardinality({p \in (DOMAIN reqs) \X (DOMAIN s.completed_reqs) :
                 reqs[p[1]] = s.completed_reqs[p[2]]})

Fault_codes_exec_mpi_wait_all(s, e, op) ==
  LET n == NumMatched(s, op.reqs)
      cleared == clear_completed_reqs(s, ToSet(op.reqs), e.ts)
  IN  IF n = Len(op.reqs)
      THEN Outcome([cleared EXCEPT !.wait_op = None],
                   [num_matched |-> Len(s.completed_reqs) - Len(cleared.completed_reqs)],
                   codes_issue_next_event(e), << >>)
      ELSE Outcome(Post(s, e, "WAITALL", op.reqs, 0), [num_matched |-> 0], {}, << >>)

codes_exec_mpi_wait_all(s, e, op) ==
  LET n == NumMatched(s, op.reqs)
      cleared == clear_completed_reqs(s, ToSet(op.reqs), e.ts)
  IN  IF n = Len(op.reqs)
      THEN Outcome([cleared EXCEPT !.wait_op = None],
                   [num_matched |-> Len(s.completed_reqs) - Len(cleared.completed_reqs)],
                   codes_issue_next_event(e), << >>)
      ELSE Outcome(Post(s, e, "WAITALL", op.reqs, n), [num_matched |-> 0], {}, << >>)

codes_exec_mpi_wait_all_rc(s, rc) ==
  IF s.wait_op # None THEN [s EXCEPT !.wait_op = None]
  ELSE add_completed_reqs(s, rc.num_matched)

-----------------------------------------------------------------------------
(* Delays, and operations that are only counted: collectives but one,      *)
(* marks without a director, waits for any or some requests.               *)

codes_exec_comp_delay(s, e, op) ==
  Outcome([s EXCEPT !.compute_time = @ + op.nsecs], [saved_delay |-> s.compute_time],
          {NextEvent(e, op.nsecs)}, << >>)

counted_op(s, e) == Outcome(s, << >>, codes_issue_next_event(e), << >>)

\* the time between the first ALLREDUCE and the second is measured, and between
\* the third and the fourth
allreduce(s, e) ==
  LET second == s.col_time > 0
  IN  Outcome(IF second
              THEN [s EXCEPT !.all_reduce_time = @ + (e.ts - s.col_time), !.col_time = 0,
                             !.num_all_reduce = @ + 1]
              ELSE [s EXCEPT !.col_time = e.ts],
              [c27 |-> second, saved_delay |-> s.all_reduce_time, saved_send_time |-> s.col_time],
              codes_issue_next_event(e), << >>)

Fault_allreduce_rc(s, rc) ==
  IF rc.c27
  THEN [s EXCEPT !.num_all_reduce = @ - 1, !.col_time = rc.saved_send_time]
  ELSE [s EXCEPT !.col_time = 0]

allreduce_rc(s, rc) ==
  IF rc.c27
  THEN [s EXCEPT !.num_all_reduce = @ - 1, !.col_time = rc.saved_send_time,
                 !.all_reduce_time = rc.saved_delay]
  ELSE [s EXCEPT !.col_time = 0]

\* the counter an operation is counted in
CounterOf(op) ==
  CASE op \in {"SEND", "ISEND"} -> "num_sends"
    [] op \in {"RECV", "IRECV"} -> "num_recvs"
    [] op = "DELAY" -> "num_delays"
    [] op \in {"WAITSOME", "WAITANY"} -> "num_waitsome"
    [] op = "WAITALL" -> "num_waitall"
    [] op = "WAIT" -> "num_wait"
    [] op \in {"COL", "ALLREDUCE"} -> "num_cols"
    [] OTHER -> "none"
Counted(s, op, n) ==
  IF CounterOf(op) \in Counters THEN [s EXCEPT !.count[CounterOf(op)] = @ + n] ELSE s

-----------------------------------------------------------------------------
(* The end of ranks, of jobs, and of the background traffic.               *)

mpi_end(s, e) ==
  Outcome([s EXCEPT !.is_finished = TRUE, !.elapsed_time = e.ts],
          [saved_elapsed_time |-> s.elapsed_time],
          {Event("CLI_NBR_FINISH", e.ts + NEAR_ZERO, Root[Job[e.to]], <<e.to>>)}, << >>)

RanksOf(job) == {r \in Ranks : Job[r] = job}

handle_neighbor_finish(s, e) ==
  LET n == s.num_own_job_ranks_completed + 1
  IN  Outcome([s EXCEPT !.num_own_job_ranks_completed = n], << >>,
              IF n = Cardinality(RanksOf(Job[e.to]))
              THEN {Event("CLI_OTHER_FINISH", e.ts + NEAR_ZERO, Root[Job0], <<Job[e.to]>>)} ELSE {},
              << >>)
handle_neighbor_finish_rc(s, en) == [s EXCEPT !.num_own_job_ranks_completed = @ - 1]

Fault_handle_other_finish(s, e) ==
  LET known == s.known_completed_jobs \cup ToSet(e.id)
  IN  Outcome([s EXCEPT !.known_completed_jobs = known], << >>,
              IF Cardinality(known) + 1 >= Cardinality(WKLD_JOBS) /\ MaxGenData = 0
              THEN {Event("CLI_BCKGND_FIN", e.ts + NEAR_ZERO, r, <<r>>) :
                      r \in {r \in Ranks : Job[r] \in Synthetic}}
              ELSE {},
              << >>)

handle_other_finish(s, e) ==
  LET known == s.known_completed_jobs \cup ToSet(e.id)
  IN  Outcome([s EXCEPT !.known_completed_jobs = known], << >>,
              IF Cardinality(known) = Cardinality(WKLD_JOBS) /\ MaxGenData = 0
              THEN {Event("CLI_BCKGND_FIN", e.ts + NEAR_ZERO, r, <<r>>) :
                      r \in {r \in Ranks : Job[r] \in Synthetic}}
              ELSE {},
              << >>)
handle_other_finish_rc(s, en) == [s EXCEPT !.known_completed_jobs = @ \ ToSet(en.ev.id)]

finish_bckgnd_traffic(s, e) ==
  Outcome([s EXCEPT !.is_finished = TRUE, !.elapsed_time = e.ts],
          [saved_elapsed_time |-> s.elapsed_time], {}, << >>)
finish_bckgnd_traffic_rc(s, rc) ==
  [s EXCEPT !.is_finished = FALSE, !.elapsed_time = rc.saved_elapsed_time]

\* the uniform pattern draws any rank of the job but the sender, unless it is alone
Destinations(r) ==
  IF RanksOf(Job[r]) = {r} THEN {r} ELSE RanksOf(Job[r]) \ {r}

\* job_timer1 and job_timer2 silence the traffic for a while
Silent(e) ==
  LET timer == JobTimer[Job[e.to]]
  IN  timer[1] > 0 /\ e.ts > timer[1] /\ e.ts < timer[2]

\* saved_syn_length is recorded before a silent period takes the message away; it
\* shares its memory with the elapsed time that the last message saves, still 0.0
gen_synthetic_tr(s, e, dest, latency) ==
  LET bytes == IF Silent(e) THEN 0 ELSE PayloadSz
      t == [BytesSent(s, bytes) EXCEPT !.rng = @ + 1, !.gen_data = @ + bytes,
                                       !.count["num_sends"] = @ + 1]
      full == MaxGenData # 0 /\ t.gen_data >= MaxGenData
      arrival == [type |-> "CLI_BCKGND_ARRIVE", ts |-> e.ts + latency, to |-> dest,
                  id |-> <<e.to, s.rng>>, start |-> e.ts]
  IN  IF s.is_finished THEN Outcome(s, [c0 |-> TRUE], {}, << >>)
      ELSE Outcome(IF full THEN finish_bckgnd_traffic(t, e).ns ELSE t,
                   [c0 |-> FALSE, c5 |-> full, saved_gen_data |-> s.gen_data,
                    saved_syn_length |-> IF full THEN 0 ELSE 1,
                    saved_elapsed_time |-> s.elapsed_time],
                   {Event("CLI_BCKGND_GEN", e.ts + Interval, e.to, <<e.to>>)}
                     \cup (IF Silent(e) THEN {} ELSE {arrival}),
                   << >>)

gen_synthetic_tr_rc(s, en) ==
  LET rc == en.rc
      t == [BytesSent(s, -(rc.saved_syn_length * PayloadSz)) EXCEPT
              !.rng = @ - 1, !.gen_data = rc.saved_gen_data, !.count["num_sends"] = @ - 1]
  IN  IF rc.c0 THEN s
      ELSE IF rc.c5 THEN finish_bckgnd_traffic_rc(t, rc) ELSE t

arrive_syn_tr(s, e) ==
  LET took == e.ts - e.start
  IN  Outcome([s EXCEPT !.max_time = IF took > @ THEN took ELSE @, !.send_time = @ + took,
                        !.count["num_recvs"] = @ + 1, !.syn_data = @ + PayloadSz,
                        !.num_bytes_recvd = @ + PayloadSz],
              [c0 |-> took > s.max_time, saved_prev_max_time |-> s.max_time,
               saved_send_time |-> s.send_time],
              {}, << >>)
arrive_syn_tr_rc(s, en) ==
  [s EXCEPT !.max_time = IF en.rc.c0 THEN en.rc.saved_prev_max_time ELSE @,
            !.send_time = en.rc.saved_send_time, !.count["num_recvs"] = @ - 1,
            !.syn_data = @ - PayloadSz, !.num_bytes_recvd = @ - PayloadSz]
=============================================================================
