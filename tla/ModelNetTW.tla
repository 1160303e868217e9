------------------------------ MODULE ModelNetTW ------------------------------
(***************************************************************************)
(* The model-net base LP under the optimistic (Time Warp) scheduler of     *)
(* ROSS.  Events are processed in timestamp order as far as the LP knows   *)
(* them; whatever another LP does (a late message, a cancelled one, or a   *)
(* rollback of another LP of the same kernel process) makes ROSS undo the  *)
(* most recent events with the reverse handlers, newest first, and cancel  *)
(* what they sent.  Events older than every event still to come are        *)
(* committed and leave the list of processed events.                       *)
(***************************************************************************)
EXTENDS ModelNetLP, FiniteSets

CONSTANTS
  Times,        \* timestamps at which other LPs send messages here
  MaxRollbacks  \* bound on cancelled messages and on events undone for others

ASSUME TWAssumption ==
  /\ Times \subseteq Nat \ {0}
  /\ MaxRollbacks \in Nat

VARIABLES
  ns,         \* model_net_base_state
  pending,    \* events this LP has yet to process
  log,        \* processed, not yet committed events, oldest first
  trace,      \* what the LP did, in the timeline as it stands (history)
  arrived,    \* the messages other LPs have sent here
  committed,  \* number of committed events
  gvt,        \* timestamp of the last committed event
  rollbacks   \* cancelled messages and events undone for others so far

vars == <<ns, pending, log, trace, arrived, committed, gvt, rollbacks>>

-----------------------------------------------------------------------------
Init ==
  /\ ns = base_lp_init
  /\ pending = {}
  /\ log = << >>
  /\ trace = << >>
  /\ arrived = {}
  /\ committed = 0
  /\ gvt = 0
  /\ rollbacks = 0

\* tw_now of the LP: timestamp of the last processed event
Now == IF log = << >> THEN gvt ELSE LastOf(log).ev.ts

\* the number of the next event
Step == committed + Len(log) + 1

\* e is the next event to process: a straggler has to be rolled back to first
Ready(e) == e.ts >= Now /\ \A f \in pending : e.ts <= f.ts

\* Process e with outcome o.  before, tokens and mark are history: the state, the
\* loop events and the length of trace before the event.
Process(e, o) ==
  /\ ns' = o.ns
  /\ pending' = (pending \ {e}) \cup o.sent
  /\ log' = Append(log, [ev |-> e, bf |-> o.bf, rc |-> o.rc, save_ts |-> o.save_ts,
                         sent |-> o.sent, before |-> ns, tokens |-> Tokens(pending),
                         mark |-> Len(trace)])
  /\ trace' = trace \o o.did
  /\ UNCHANGED <<arrived, committed, gvt, rollbacks>>

ReadyNewMsg(e) == e.type = "NEW_MSG" /\ Ready(e)
ReadySchedNext(e) == e.type = "SCHED_NEXT" /\ Ready(e)

-----------------------------------------------------------------------------
(* model_net_base_event, one action per path through the handlers.         *)

NewMsgLocal(e) ==
  /\ ReadyNewMsg(e)
  /\ Req[e.m].loopback
  /\ Process(e, new_msg_local(ns, e))

NewMsgNic(e) ==
  /\ ReadyNewMsg(e)
  /\ ~Req[e.m].loopback
  /\ e.isQueueReq
  /\ Process(e, new_msg_nic(ns, e, Step))

NewMsgQueue(e) ==
  /\ ReadyNewMsg(e)
  /\ ~Req[e.m].loopback
  /\ ~e.isQueueReq
  /\ ns.in_loop[e.q]
  /\ Process(e, new_msg_queue(ns, e))

NewMsgStart(e) ==
  /\ ReadyNewMsg(e)
  /\ ~Req[e.m].loopback
  /\ ~e.isQueueReq
  /\ ~ns.in_loop[e.q]
  /\ \E o \in new_msg_start(ns, e, Step) : Process(e, o)

SchedNextIssue(e) ==
  /\ ReadySchedNext(e)
  /\ ~e.created_in_surrogate
  /\ ~sched_empty(ns.sched[e.q])
  /\ \E o \in sched_next_issue(ns, e.q, e.ts, NoRc, Step) : Process(e, o)

SchedNextFinish(e) ==
  /\ ReadySchedNext(e)
  /\ ~e.created_in_surrogate
  /\ sched_empty(ns.sched[e.q])
  /\ Process(e, sched_next_finish(ns, e.q, NoRc))

\* the early return of model_net_base_event in high-fidelity mode
SchedNextDrop(e) ==
  /\ ReadySchedNext(e)
  /\ e.created_in_surrogate
  /\ Process(e, Nothing(ns))

MethodIdle(e) ==
  /\ e.type = "PASS"
  /\ Ready(e)
  /\ Process(e, method_idle(ns, e, Step))

HandleEvent ==
  \E e \in pending :
    \/ NewMsgLocal(e) \/ NewMsgNic(e) \/ NewMsgQueue(e) \/ NewMsgStart(e)
    \/ SchedNextIssue(e) \/ SchedNextFinish(e) \/ SchedNextDrop(e)
    \/ MethodIdle(e)

-----------------------------------------------------------------------------
(* Other LPs and ROSS.                                                     *)

\* another LP sends message m with timestamp ts
Arrive(m, ts) ==
  /\ m \notin arrived
  /\ ts > gvt
  /\ \E isq \in ArrivalFlags(m) :
       pending' = pending \cup {NewMsg(m, ts, 0, isq)}
  /\ arrived' = arrived \cup {m}
  /\ UNCHANGED <<ns, log, trace, committed, gvt, rollbacks>>

\* the sender rolls back: its message is withdrawn
Cancel(e) ==
  /\ rollbacks < MaxRollbacks
  /\ e.src = 0
  /\ pending' = pending \ {e}
  /\ arrived' = arrived \ {e.m}
  /\ rollbacks' = rollbacks + 1
  /\ UNCHANGED <<ns, log, trace, committed, gvt>>

\* a message arrived in the LP's past
Straggler == \E e \in pending : e.ts < Now

\* ROSS takes the last processed event back, because of a straggler or, within
\* the bound, because of another LP
Undo ==
  /\ log # << >>
  /\ Straggler \/ rollbacks < MaxRollbacks
  /\ LET x == LastOf(log)
     IN  /\ ns' = base_event_rc(ns, x)
         /\ pending' = (pending \ x.sent) \cup {x.ev}
         /\ trace' = SubSeq(trace, 1, x.mark)
  /\ log' = AllButLast(log)
  /\ rollbacks' = IF Straggler THEN rollbacks ELSE rollbacks + 1
  /\ UNCHANGED <<arrived, committed, gvt>>

\* fossil collection of the oldest processed event
Commit ==
  /\ log # << >>
  /\ \A e \in pending : e.ts > log[1].ev.ts
  /\ log' = Tail(log)
  /\ committed' = committed + 1
  /\ gvt' = log[1].ev.ts
  /\ UNCHANGED <<ns, pending, trace, arrived, rollbacks>>

\* the simulation ends when there is no event left
Terminated == pending = {} /\ log = << >> /\ UNCHANGED vars

Next ==
  \/ HandleEvent
  \/ \E m \in Msgs, ts \in Times : Arrive(m, ts)
  \/ \E e \in pending : Cancel(e)
  \/ Undo
  \/ Commit
  \/ Terminated

Spec == Init /\ [][Next]_vars

\* ROSS goes on processing and collecting events, and rolls stragglers back;
\* nothing obliges other LPs to send, to cancel or to roll back.
Fairness ==
  /\ WF_vars(HandleEvent)
  /\ WF_vars(Commit)
  /\ WF_vars(Straggler /\ Undo)

FairSpec == Spec /\ Fairness

-----------------------------------------------------------------------------
(* Types.                                                                  *)

Did_ == [kind: {"nic", "copy", "queued", "packet"}, q: Nat, at: Nat, req: Msgs, offset: Nat,
         size: Nat, last: BOOLEAN, another: BOOLEAN]

Entry == [ev: Event, bf: [c0: BOOLEAN, c30: BOOLEAN, c31: BOOLEAN], rc: Rc,
          save_ts: Nat, sent: SUBSET Event, before: State, tokens: SUBSET Event,
          mark: Nat]

\* Every variable stays in its type: in particular, no reverse handler ever
\* drives a clock, a counter or the random stream of the LP below zero, and
\* no queued message is left with a negative number of bytes.
TypeOK ==
  /\ ns \in State
  /\ pending \subseteq Event
  /\ log \in Seq(Entry)
  /\ trace \in Seq(Did_)
  /\ arrived \subseteq Msgs
  /\ committed \in Nat
  /\ gvt \in Nat
  /\ rollbacks \in 0 .. MaxRollbacks

-----------------------------------------------------------------------------
(* Reversibility.                                                          *)

\* check_model_net_state, for the event that a rollback would undo now: the
\* reverse handler gives back exactly the state in which the event found the
\* LP - scheduler queues, loop flags, NIC and copy clocks, random stream - and
\* cancelling what the event sent leaves the loop events there were before it.
RollbackRestores ==
  log # << >> =>
    LET x == LastOf(log)
    IN  /\ base_event_rc(ns, x) = x.before
        /\ Tokens((pending \ x.sent) \cup {x.ev}) = x.tokens

-----------------------------------------------------------------------------
(* The scheduler loop.                                                     *)

\* events that will make the scheduler of queue q go on
Wakeup(q) == {e \in pending : /\ e.q = q
                             /\ e.type \in {"SCHED_NEXT", "PASS"}
                             /\ ~e.created_in_surrogate}

\* in_sched_send_loop and in_sched_recv_loop tell the truth, in every
\* timeline: the loop of a queue is marked running exactly when one single
\* event is on its way that continues it (handle_new_msg relies on the flag
\* to decide whether it has to start the loop).
OneLoopPerQueue ==
  \A q \in Queues :
    IF ns.in_loop[q] THEN \E e \in Wakeup(q) : Wakeup(q) = {e}
                     ELSE Wakeup(q) = {}

\* A queue whose loop is not running is empty.  handle_new_msg depends on it:
\* it lets the scheduler overwrite the rc record and the payload of the event
\* it is processing with those of the request that is served.
IdleQueueIsEmpty ==
  \A q \in Queues : ~ns.in_loop[q] => sched_empty(ns.sched[q])

\* A request that waits in a scheduler is going to be served: an event is on
\* its way that makes the scheduler go on.
NoStrandedRequest ==
  \A q \in Queues : ~sched_empty(ns.sched[q]) => Wakeup(q) # {}

-----------------------------------------------------------------------------
(* What comes out of the LP.                                               *)

\* positions in the trace of the packets of message m
PacketsOf(m) == {i \in DOMAIN trace : trace[i].kind = "packet" /\ trace[i].req = m}

\* the bytes of m still queued, -1 if m is not queued
Remaining(m) ==
  LET reqs  == ns.sched[queue_of(m)][prio_of(m)].reqs
      items == {i \in DOMAIN reqs : reqs[i].req = m}
  IN  IF items = {} THEN -1 ELSE reqs[CHOOSE i \in items : TRUE].rem

\* The packets of a message cover it from its first byte on, without gap or
\* overlap, across rollbacks and interleaved messages: only the last one is
\* marked last, and what is queued is what has not been issued.
PacketsTile ==
  \A m \in Msgs :
    LET P    == PacketsOf(m)
        done == \E i \in P : trace[i].last
    IN  /\ \A i \in P :
             LET k == Cardinality({j \in P : j < i})
             IN  /\ trace[i].offset = k * PacketSize
                 /\ trace[i].last <=>
                      trace[i].offset + trace[i].size = Req[m].msg_size
                                      /\ k + 1 = Cardinality(P)
                 /\ ~trace[i].last => trace[i].size = PacketSize
        /\ Remaining(m) # -1 =>
             /\ ~done
             /\ Remaining(m) = Req[m].msg_size - Cardinality(P) * PacketSize

\* packets i and j were served by the same level of the same queue
SameLevel(i, j) ==
  trace[i].q = trace[j].q /\ prio_of(trace[i].req) = prio_of(trace[j].req)

\* Service discipline within a level.  fcfs: nothing comes between two packets
\* of a message.  rr: between two packets of a message, every other message
\* that was queued before them and is not through by then has its turn.
ServiceOrder ==
  \A m \in Msgs : \A i, j \in PacketsOf(m) : i < j =>
    \A k \in DOMAIN trace : trace[k].req # m /\ SameLevel(i, k) =>
      IF Discipline = "fcfs"
      THEN trace[k].kind = "packet" => k < i \/ k > j
      ELSE trace[k].kind = "queued" /\ k < i /\ (\E p \in PacketsOf(trace[k].req) : p > j)
             => \E p \in PacketsOf(trace[k].req) : i < p /\ p < j

\* Messages of one queue and level start in the order in which the NIC took
\* their requests (isQueueReq), whatever rollbacks happen in between.
NicOrder ==
  \A i, j \in DOMAIN trace :
    /\ trace[i].kind = "nic" /\ trace[j].kind = "nic" /\ i < j
    /\ SameLevel(i, j)
    => \A q \in PacketsOf(trace[j].req) :
         \E p \in PacketsOf(trace[i].req) : p < q

\* Copies within the node that share a copy queue never overlap in time.
CopiesSerialised ==
  \A i, j \in DOMAIN trace :
    /\ trace[i].kind = "copy" /\ trace[j].kind = "copy" /\ i < j
    /\ trace[i].q = trace[j].q
    => trace[i].at + trace[j].size * CnDelay <= trace[j].at

\* A packet is issued from the first level that holds a request, counting the
\* request that the same event may have just added.
HighestLevelFirst ==
  [][Len(trace') > Len(trace) /\ LastOf(trace').kind = "packet" =>
       LET p == LastOf(trace')
       IN  \A l \in Levels : l < prio_of(p.req) =>
             ns.sched[p.q][l].reqs = << >>]_vars

-----------------------------------------------------------------------------
(* Progress.                                                               *)

\* the LP is through with message m, for good
Served(m) ==
  /\ log = << >>
  /\ \E i \in DOMAIN trace : trace[i].req = m /\ trace[i].last
                             /\ trace[i].kind \in {"copy", "packet"}

\* A message that is not withdrawn is copied or issued to its last packet.
EveryMessageServed ==
  \A m \in Msgs : m \in arrived ~> (Served(m) \/ m \notin arrived)

-----------------------------------------------------------------------------
(* Refinement of the sequential execution.                                 *)

\* the events the LP knew of when it had processed the committed events only
Uncommitted == {log[i].ev : i \in DOMAIN log}
KnownAtCommit ==
  (pending \cup Uncommitted) \ UNION {log[i].sent : i \in DOMAIN log}

Sequential == INSTANCE ModelNetSeq WITH
  ns     <- IF log = << >> THEN ns ELSE log[1].before,
  self   <- {e \in KnownAtCommit : e.src # 0},
  unsent <- (Msgs \ arrived) \cup {e.m : e \in {f \in KnownAtCommit : f.src = 0}},
  trace  <- IF log = << >> THEN trace ELSE SubSeq(trace, 1, log[1].mark),
  now    <- gvt,
  steps  <- committed

\* The committed part of every optimistic execution is a sequential execution:
\* speculation, stragglers and rollbacks leave no mark on the results.
CommitsSequentially == Sequential!Spec
=============================================================================
