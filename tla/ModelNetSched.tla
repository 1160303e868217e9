---------------------------- MODULE ModelNetSched ----------------------------
(***************************************************************************)
(* The packet schedulers of model-net (core/model-net-sched-impl.c):       *)
(* first-come first-served, round robin, and strict priorities over one of *)
(* the two.  A scheduler splits the queued messages into packets; each of  *)
(* its four operations is a function of the scheduler state, and the two   *)
(* "_rc" ones undo the two others when the simulator rolls an event back.  *)
(*                                                                         *)
(* A scheduler is a function from priority levels to queues.  fcfs and rr  *)
(* keep a single queue, which is level 0.                                  *)
(*                                                                         *)
(* A definition named Fault_f is f with a seeded fault.  It is used by no  *)
(* specification: it serves to confirm that a property notices the fault.  *)
(***************************************************************************)
EXTENDS Integers, Sequences

CONSTANTS
  Msgs,        \* the messages handed to this LP during the run
  NoMsg,       \* not a message: content of an rc record nothing was saved in
  Req,         \* Req[m]: the model_net_request and sched_params of message m
  PacketSize,  \* packet_size parameter of the network
  SchedType,   \* "fcfs", "rr" or "prio"
  SubType,     \* scheduler of every level under "prio"
  NumPrios     \* number of levels under "prio"

\* msg_size, sched_params.prio (-1: default), position of the sending server
\* among the servers of its node, and whether the destination is this very LP
ReqType == [msg_size: Nat, prio: -1 .. (NumPrios - 1), offset: Nat,
            is_from_remote: BOOLEAN, loopback: BOOLEAN]

ASSUME MsgAssumption ==
  /\ NoMsg \notin Msgs
  /\ Req \in [Msgs -> ReqType]

ASSUME SchedAssumption ==
  /\ PacketSize \in Nat \ {0}
  /\ NumPrios \in Nat \ {0}
  /\ SchedType \in {"fcfs", "rr", "prio"}
  /\ SubType \in {"fcfs", "rr"}

-----------------------------------------------------------------------------
(* Levels, queues, and what an event saves for its own reversal.           *)

Levels == IF SchedType = "prio" THEN 0 .. (NumPrios - 1) ELSE {0}

\* the scheduler that serves one level
Discipline == IF SchedType = "prio" THEN SubType ELSE SchedType

\* mn_sched_qitem: a queued request and the bytes of it not yet issued
QItem == [req: Msgs, rem: Nat]

\* mn_sched_queue
Queue == [reqs: Seq(QItem), queue_len: Nat]

\* model_net_sched_rc, carried by the event
Rc == [rtn: {-1, 0, 1}, prio: Int, req: Msgs \cup {NoMsg}]

fcfs_init == [reqs |-> << >>, queue_len |-> 0]

sched_init == [l \in Levels |-> fcfs_init]

\* qlist_pop_back and the element it returns
AllButLast(s) == SubSeq(s, 1, Len(s) - 1)
LastOf(s) == s[Len(s)]

-----------------------------------------------------------------------------
(* fcfs                                                                    *)

fcfs_add(m, q) ==
  [reqs      |-> Append(q.reqs, [req |-> m, rem |-> Req[m].msg_size]),
   queue_len |-> q.queue_len + 1]

fcfs_add_rc(q) ==
  [reqs |-> AllButLast(q.reqs), queue_len |-> q.queue_len - 1]

Fault_is_last_packet(item) == PacketSize > item.rem
Fault2_is_last_packet(item) == item.rem = 0

is_last_packet(item) == PacketSize >= item.rem

\* the packet handed to the network's packet_event (send queue) or
\* recv_msg_event (receive queue)
NextPacket(q) ==
  LET item == Head(q.reqs)
      last == is_last_packet(item)
  IN  [req     |-> item.req,
       offset  |-> Req[item.req].msg_size - item.rem,
       size    |-> IF last THEN item.rem ELSE PacketSize,
       last    |-> last,
       another |-> ~last \/ q.queue_len > 1]

fcfs_next(q) ==
  LET item == Head(q.reqs)
  IN  IF is_last_packet(item)
      THEN [reqs |-> Tail(q.reqs), queue_len |-> q.queue_len - 1]
      ELSE [q EXCEPT !.reqs[1].rem = @ - PacketSize]

\* rem of a message whose last packet is taken back
LastRem(m) ==
  LET r == Req[m].msg_size % PacketSize
  IN  IF r = 0 /\ Req[m].msg_size # 0 THEN PacketSize ELSE r

fcfs_next_rc(q, rc) ==
  CASE rc.rtn = -1 -> q
    [] rc.rtn = 0  -> [q EXCEPT !.reqs[1].rem = @ + PacketSize]
    [] rc.rtn = 1  -> [reqs |-> <<[req |-> rc.req, rem |-> LastRem(rc.req)]>> \o q.reqs,
                       queue_len |-> q.queue_len + 1]

-----------------------------------------------------------------------------
(* rr: a message that has packets left goes to the tail of the queue.      *)

RotateBack(q) == [q EXCEPT !.reqs = Append(Tail(@), Head(@))]
RotateFront(q) == [q EXCEPT !.reqs = <<LastOf(@)>> \o AllButLast(@)]

Fault_rr_next(q) == fcfs_next(q)

rr_next(q) ==
  IF is_last_packet(Head(q.reqs)) THEN fcfs_next(q) ELSE RotateBack(fcfs_next(q))

Fault_rr_next_rc(q, rc) == fcfs_next_rc(q, rc)

rr_next_rc(q, rc) ==
  fcfs_next_rc(IF rc.rtn = 0 THEN RotateFront(q) ELSE q, rc)

-----------------------------------------------------------------------------
(* The level operations, by discipline, on a queue that holds a request.   *)

QueueNext(q) == IF Discipline = "rr" THEN rr_next(q) ELSE fcfs_next(q)

QueueNextRc(q, rc) ==
  IF Discipline = "rr" THEN rr_next_rc(q, rc) ELSE fcfs_next_rc(q, rc)

\* what fcfs_next leaves in the rc record of the event
NextRtn(q, rc) ==
  LET item == Head(q.reqs)
  IN  IF is_last_packet(item) THEN [rc EXCEPT !.rtn = 1, !.req = item.req]
                              ELSE [rc EXCEPT !.rtn = 0]

-----------------------------------------------------------------------------
(* model_net_sched_add, _add_rc, _next and _next_rc of a whole scheduler.  *)

\* level of a message: the lowest one by default
prio_of(m) ==
  CASE SchedType # "prio" -> 0
    [] SchedType = "prio" /\ Req[m].prio = -1 -> NumPrios - 1
    [] SchedType = "prio" /\ Req[m].prio # -1 -> Req[m].prio

sched_add(m, s) == [s EXCEPT ![prio_of(m)] = fcfs_add(m, @)]

\* rc->prio is written by prio_add only
sched_add_rcrec(m, rc) ==
  IF SchedType = "prio" THEN [rc EXCEPT !.prio = prio_of(m)] ELSE rc

\* the level an rc record points at
RcLevel(rc) == IF SchedType = "prio" THEN rc.prio ELSE 0

sched_add_rc(s, rc) == [s EXCEPT ![RcLevel(rc)] = fcfs_add_rc(@)]

Busy(s) == {l \in Levels : s[l].reqs # << >>}

sched_empty(s) == Busy(s) = {}

\* the first level that holds a request
NextLevel(s) == CHOOSE l \in Busy(s) : \A k \in Busy(s) : l <= k

sched_next(s) == [s EXCEPT ![NextLevel(s)] = QueueNext(@)]

sched_next_pkt(s) == NextPacket(s[NextLevel(s)])

\* fcfs_next on an empty queue returns through rc->rtn, prio_next through rc->prio
sched_next_rcrec(s, rc) ==
  LET r == IF sched_empty(s) THEN rc ELSE NextRtn(s[NextLevel(s)], rc)
  IN  IF SchedType = "prio"
      THEN [r EXCEPT !.prio = IF sched_empty(s) THEN -1 ELSE NextLevel(s)]
      ELSE [r EXCEPT !.rtn = IF sched_empty(s) THEN -1 ELSE @]

sched_next_rc(s, rc) ==
  IF RcLevel(rc) = -1 THEN s
  ELSE [s EXCEPT ![RcLevel(rc)] = QueueNextRc(@, rc)]
=============================================================================
