--------------------------------- MODULE MpiTW ---------------------------------
(***************************************************************************)
(* The LPs of the MPI trace replay under the optimistic scheduler of ROSS. *)
(***************************************************************************)
EXTENDS MpiReplay, Ross

AppRanks == {r \in Ranks : Job[r] \notin Synthetic}

Init ==
  /\ \E q \in RecvReqs : lps = [r \in Ranks |-> nw_test_init(q)]
  /\ events = {IF r \in AppRanks THEN Event("MPI_OP_GET_NEXT", NEAR_ZERO, r, <<"init", << >> >>)
               ELSE Event("CLI_BCKGND_GEN", 0, r, <<r>>) : r \in Ranks}
  /\ log = << >>
  /\ trace = << >>
  /\ gvt = 0
  /\ rollbacks = 0

-----------------------------------------------------------------------------
(* nw_test_event_handler: one action per event type, and per kind of       *)
(* operation.                                                              *)

Collected(e) == CollectStacks(lps[e.to], gvt)

SendArrived(e) ==
  /\ Ready(e, "MPI_SEND_ARRIVED")
  /\ \E l \in Latencies.ack : Process(e, update_arrival_queue(Collected(e), e, l))

RendArrived(e) ==
  /\ Ready(e, "MPI_REND_ARRIVED")
  /\ Process(e, rend_arrived(Collected(e), e))

RendAckArrived(e) ==
  /\ Ready(e, "MPI_REND_ACK_ARRIVED")
  /\ \E l \in Latencies.data, k \in LocalLatencies : Process(e, rend_send(Collected(e), e, l, k))

SendArrivedCb(e) ==
  /\ Ready(e, "MPI_SEND_ARRIVED_CB")
  /\ Process(e, update_message_time(Collected(e), e))

SendPosted(e) ==
  /\ Ready(e, "MPI_SEND_POSTED")
  /\ Process(e, send_posted(Collected(e), e))

\* get_next_mpi_operation
GetNext(e, ops) ==
  /\ Ready(e, "MPI_OP_GET_NEXT")
  /\ NextOp(e.to, lps[e.to]).op \in ops

OpOf(e) == NextOp(e.to, lps[e.to])
Taken(e) == Counted(codes_workload_get_next(Collected(e)), OpOf(e).op, 1)
ProcessOp(e, o) == Process(e, [o EXCEPT !.rc = [mpi_op |-> OpOf(e), saved |-> @]])

NextSend(e) ==
  /\ GetNext(e, {"SEND", "ISEND"})
  /\ \E l \in Latencies[IF is_eager(OpOf(e)) THEN "eager" ELSE "announce"],
        k \in LocalLatencies :
       ProcessOp(e, codes_exec_mpi_send(Taken(e), e, OpOf(e), l, k))
NextRecv(e) ==
  /\ GetNext(e, {"RECV", "IRECV"})
  /\ \E l \in Latencies.ack : ProcessOp(e, codes_exec_mpi_recv(Taken(e), e, OpOf(e), l))
NextWait(e) ==
  /\ GetNext(e, {"WAIT"})
  /\ ProcessOp(e, codes_exec_mpi_wait(Taken(e), e, OpOf(e)))
NextWaitAll(e) ==
  /\ GetNext(e, {"WAITALL"})
  /\ ProcessOp(e, codes_exec_mpi_wait_all(Taken(e), e, OpOf(e)))
NextDelay(e) ==
  /\ GetNext(e, {"DELAY"})
  /\ ProcessOp(e, codes_exec_comp_delay(Taken(e), e, OpOf(e)))
NextCounted(e) ==
  /\ GetNext(e, {"COL", "MARK", "WAITSOME", "WAITANY"})
  /\ ProcessOp(e, counted_op(Taken(e), e))
NextAllreduce(e) ==
  /\ GetNext(e, {"ALLREDUCE"})
  /\ ProcessOp(e, allreduce(Taken(e), e))
NextEnd(e) ==
  /\ GetNext(e, {"END"})
  /\ ProcessOp(e, mpi_end(Taken(e), e))

NbrFinish(e) ==
  /\ Ready(e, "CLI_NBR_FINISH")
  /\ Process(e, handle_neighbor_finish(Collected(e), e))
OtherFinish(e) ==
  /\ Ready(e, "CLI_OTHER_FINISH")
  /\ Process(e, handle_other_finish(Collected(e), e))
BckgndFin(e) ==
  /\ Ready(e, "CLI_BCKGND_FIN")
  /\ Process(e, finish_bckgnd_traffic(Collected(e), e))
BckgndGen(e) ==
  /\ Ready(e, "CLI_BCKGND_GEN")
  /\ lps[e.to].rng < MaxBackground
  /\ \E r \in Destinations(e.to), l \in Latencies.background :
       Process(e, gen_synthetic_tr(Collected(e), e, r, l))
BckgndArrive(e) ==
  /\ Ready(e, "CLI_BCKGND_ARRIVE")
  /\ Process(e, arrive_syn_tr(Collected(e), e))

HandleEvent ==
  \E e \in events :
    \/ SendArrived(e) \/ RendArrived(e) \/ RendAckArrived(e) \/ SendArrivedCb(e)
    \/ SendPosted(e)
    \/ NextSend(e) \/ NextRecv(e) \/ NextWait(e) \/ NextWaitAll(e)
    \/ NextDelay(e) \/ NextCounted(e) \/ NextAllreduce(e) \/ NextEnd(e)
    \/ NbrFinish(e) \/ OtherFinish(e) \/ BckgndFin(e) \/ BckgndGen(e) \/ BckgndArrive(e)

\* of an ALLREDUCE, num_cols is left as it is
get_next_mpi_operation_rc(s, en) ==
  LET op == en.rc.mpi_op
      rc == en.rc.saved
      u == codes_workload_get_next_rc(s, op)
      t == Counted(u, op.op, -1)
  IN  CASE op.op = "ALLREDUCE" -> allreduce_rc(u, rc)
        [] op.op \in {"SEND", "ISEND"} -> codes_exec_mpi_send_rc(t, op)
        [] op.op \in {"RECV", "IRECV"} -> codes_exec_mpi_recv_rc(t, rc, op)
        [] op.op = "WAIT" -> codes_exec_mpi_wait_rc(t, rc)
        [] op.op = "WAITALL" -> codes_exec_mpi_wait_all_rc(t, rc)
        [] op.op = "DELAY" -> [t EXCEPT !.compute_time = rc.saved_delay]
        [] op.op = "END" -> finish_bckgnd_traffic_rc(t, rc)
        [] OTHER -> t

\* nw_test_event_handler_rc
reverse(s, en) ==
  CASE en.ev.type = "MPI_SEND_ARRIVED" -> update_arrival_queue_rc(s, en)
    [] en.ev.type = "MPI_REND_ARRIVED" -> rend_arrived_rc(s, en)
    [] en.ev.type = "MPI_REND_ACK_ARRIVED" -> rend_send_rc(s, en)
    [] en.ev.type = "MPI_SEND_ARRIVED_CB" -> update_message_time_rc(s, en)
    [] en.ev.type = "MPI_SEND_POSTED" -> send_posted_rc(s, en)
    [] en.ev.type = "MPI_OP_GET_NEXT" -> get_next_mpi_operation_rc(s, en)
    [] en.ev.type = "CLI_NBR_FINISH" -> handle_neighbor_finish_rc(s, en)
    [] en.ev.type = "CLI_OTHER_FINISH" -> handle_other_finish_rc(s, en)
    [] en.ev.type = "CLI_BCKGND_FIN" -> finish_bckgnd_traffic_rc(s, en.rc)
    [] en.ev.type = "CLI_BCKGND_GEN" -> gen_synthetic_tr_rc(s, en)
    [] en.ev.type = "CLI_BCKGND_ARRIVE" -> arrive_syn_tr_rc(s, en)

Terminated == events = {} /\ log = << >> /\ UNCHANGED rossVars

Next == HandleEvent \/ Undo(reverse) \/ Commit \/ Terminated

Spec == Init /\ [][Next]_rossVars
FairSpec == Spec /\ WF_rossVars(HandleEvent) /\ WF_rossVars(Commit)

-----------------------------------------------------------------------------
(* Properties.                                                             *)

\* what check_nw_lp_state compares: not the stacks, and of the workload the
\* operations still to come
Visible(r, s) ==
  [s EXCEPT !.processed_ops = << >>, !.processed_wait_op = << >>, !.matched_reqs = << >>,
            !.lifo = @ \o SubSeq(Trace[r], s.read + 1, Len(Trace[r])), !.read = Pos(s)]

\* ALLREDUCEs among the first n operations of a rank
Allreduces(r, n) == {p \in DOMAIN Trace[r] : p <= n /\ Trace[r][p].op = "ALLREDUCE"}

\* The reverse handler of the last event gives the rank back as it was: queues in
\* their order, the list of completed requests, the posted wait, the operation
\* taken from the workload, counts of operations and bytes, and times.
RollbackRestores ==
  log # << >> =>
    Visible(LastEntry.ev.to, Reversed(reverse)) = Visible(LastEntry.ev.to, LastEntry.before)

\* What the code keeps of RollbackRestores where background traffic is told to stop
\* (max_gen_data = 0) and is never silent: all of it, but the reverse handler of an
\* ALLREDUCE leaves num_cols counted.
RollbackRestoresButCols ==
  log # << >> =>
    LET r == LastEntry.ev.to
        now == Reversed(reverse)
        cols == now.count.num_cols
        before == LastEntry.before
    IN  /\ Visible(r, now) = Visible(r, [before EXCEPT !.count.num_cols = cols])
        /\ cols >= before.count.num_cols
        /\ Allreduces(r, Len(Trace[r])) = {} => cols = before.count.num_cols

\* A message and a receive that fit never wait side by side, whichever of them
\* came first and whatever was undone.
NoMissedMatch ==
  \A r \in Ranks : \A m \in ToSet(lps[r].arrival_queue), q \in ToSet(lps[r].pending_recvs_queue) :
    ~Matches(q, m)

\* events of messages, by type
MessageEvents(type) == {e \in events : e.type = type}
\* a blocking send that has not left: announced, waiting at the receiver, granted, or leaving
SendsInFlight(r) ==
  {e \in MessageEvents("MPI_SEND_POSTED") \cup MessageEvents("MPI_REND_ACK_ARRIVED") :
     e.to = r /\ e.msg.op = "SEND"}
  \cup {e \in MessageEvents("MPI_SEND_ARRIVED") :
          e.msg.src = r /\ e.msg.op = "SEND" /\ ~is_eager(e.msg)}
  \cup {m \in UNION {ToSet(lps[x].arrival_queue) : x \in Ranks} :
          m.src = r /\ m.op = "SEND" /\ ~is_eager(m)}
\* a blocking receive that has not finished: posted, or its data granted or on their way
RecvsInFlight(r) ==
  {q \in ToSet(lps[r].pending_recvs_queue) : q.op = "RECV"}
  \cup {e \in MessageEvents("MPI_REND_ACK_ARRIVED") \cup MessageEvents("MPI_REND_ARRIVED") :
          e.msg.dest = r /\ ~\E q \in DOMAIN Trace[r] :
             Trace[r][q].op = "IRECV" /\ [recv |-> <<r, q>>, msg |-> e.msg.id] \in ToSet(trace)}
One(b) == IF b THEN 1 ELSE 0

\* A rank is at one place of its program: either the event that takes its next
\* operation is on its way, or one wait, blocking send or blocking receive will
\* send it, or the rank has finished ("MPI_OP_GET_NEXT is for getting next MPI
\* operation when the previous operation completes").
OneOperationAtATime ==
  \A r \in AppRanks :
    Cardinality({e \in MessageEvents("MPI_OP_GET_NEXT") : e.to = r})
      + One(lps[r].wait_op # None) + Cardinality(SendsInFlight(r))
      + Cardinality(RecvsInFlight(r)) + One(lps[r].is_finished) = 1

Done(r, req) == \E i \in DOMAIN trace : trace[i] = [rank |-> r, done |-> req]

\* operations a rank has completed
Passed(r) ==
  1..(Pos(lps[r])
      - One(lps[r].wait_op # None \/ SendsInFlight(r) # {} \/ RecvsInFlight(r) # {}))

\* A posted wait has counted exactly those of its requests that are in the list of
\* completed requests, and one is missing.  A wait ends when its requests are
\* complete, not before, and they are taken off the list; no request completes
\* twice, and no message or receive is matched twice.
WaitsWait ==
  /\ \A r \in AppRanks :
       LET w == lps[r].wait_op
       IN  w # None =>
             /\ w.num_completed < Len(w.req_ids)
             /\ w.num_completed
                  = Cardinality(ToSet(w.req_ids) \cap ToSet(lps[r].completed_reqs))
  /\ \A r \in AppRanks : \A p \in Passed(r) :
       LET op == Trace[r][p]
           reqs == IF op.op = "WAITALL" THEN ToSet(op.reqs)
                   ELSE IF op.op = "WAIT" THEN {op.req} ELSE {}
       IN  \A q \in reqs : Done(r, q) /\ q \notin ToSet(lps[r].completed_reqs)
  /\ \A i, j \in DOMAIN trace : i # j =>
       IF "done" \in DOMAIN trace[i] THEN trace[i] # trace[j]
       ELSE "done" \notin DOMAIN trace[j] =>
              trace[i].recv # trace[j].recv /\ trace[i].msg # trace[j].msg

\* Bytes are counted as sent once and as received once, through rollbacks of either
\* side: those sent, and those of long messages that wait for their data to be
\* asked for, are those received and those on their way.
BytesAddUp ==
  LET Bytes(m) == m.bytes
      Waiting == {m \in UNION {ToSet(lps[r].arrival_queue) : r \in Ranks} : ~is_eager(m)}
                 \cup {e.msg : e \in MessageEvents("MPI_REND_ACK_ARRIVED")}
      OnTheWay == {m \in {e.msg : e \in MessageEvents("MPI_SEND_ARRIVED")} : is_eager(m)}
  IN  MapThenSumSet(LAMBDA r : lps[r].num_bytes_sent, Ranks) + MapThenSumSet(Bytes, Waiting)
        = MapThenSumSet(LAMBDA r : lps[r].num_bytes_recvd, Ranks) + MapThenSumSet(Bytes, OnTheWay)
            + PayloadSz * Cardinality(MessageEvents("CLI_BCKGND_ARRIVE"))

Odd(S) == Cardinality(S) % 2 = 1
\* operations between the two ALLREDUCEs of a pair, the first one included
Measured(r) ==
  LET n == Pos(lps[r])
  IN  {p \in 1..n : /\ Odd(Allreduces(r, p))
                    /\ \E q \in (p + 1)..n : ~Odd(Allreduces(r, q))}
Duration(op) == IF op.op = "DELAY" THEN op.nsecs ELSE NEAR_ZERO

\* ALLREDUCEs are measured in pairs although any of them may be undone: a pair is
\* open after an odd number of them, each closed one is counted, and has taken at
\* least the time of the operations in between, exactly that if none of them
\* depends on another rank.
CollectiveTimes ==
  \A r \in AppRanks :
    LET done == Allreduces(r, Pos(lps[r]))
        time == MapThenSumSet(LAMBDA p : Duration(Trace[r][p]), Measured(r))
        local == \A p \in Measured(r) : Trace[r][p].op \in {"ALLREDUCE", "DELAY", "MARK", "COL"}
    IN  /\ lps[r].col_time > 0 <=> Odd(done)
        /\ lps[r].num_all_reduce = Cardinality(done) \div 2
        /\ lps[r].all_reduce_time >= time
        /\ local => lps[r].all_reduce_time = time

\* The background traffic is told to stop only when every rank of the other jobs
\* has finished and will not go on (max_gen_data = 0; otherwise each background
\* rank stops by itself).
StopsLast ==
  (\E r \in Ranks \ AppRanks :
     lps[r].is_finished \/ \E e \in MessageEvents("CLI_BCKGND_FIN") : e.to = r)
  => \A r \in AppRanks : lps[r].is_finished

\* Every program runs to its end, all messages and receives are matched and every
\* request is waited for, and then the background traffic stops.
EveryRankFinishes ==
  <>(/\ \A r \in Ranks : lps[r].is_finished
     /\ \A r \in Ranks : /\ lps[r].arrival_queue = << >> /\ lps[r].pending_recvs_queue = << >>
                         /\ lps[r].completed_reqs = << >>
     /\ events = {})
=============================================================================
