------------------------------ MODULE ModelNetSeq ------------------------------
(***************************************************************************)
(* What the model-net base LP promises: the same LP under the sequential   *)
(* scheduler of ROSS.  Every event is processed once, in timestamp order;  *)
(* nothing is undone, and the reverse handlers do not exist.               *)
(***************************************************************************)
EXTENDS ModelNetLP

CONSTANT Times   \* timestamps at which other LPs send messages here

VARIABLES
  ns,       \* model_net_base_state
  self,     \* events the LP has sent to itself and not yet processed
  unsent,   \* messages other LPs may still send
  trace,    \* what the LP did
  now,      \* timestamp of the last event
  steps     \* number of events processed

vars == <<ns, self, unsent, trace, now, steps>>

Init ==
  /\ ns = base_lp_init
  /\ self = {}
  /\ unsent = Msgs
  /\ trace = << >>
  /\ now = 0
  /\ steps = 0

\* the outcomes of processing e, the n-th event, in state s
Outcomes(s, e, n) ==
  CASE e.type = "PASS" -> {method_idle(s, e, n)}
    [] e.type = "SCHED_NEXT" ->
         (IF e.created_in_surrogate THEN {Nothing(s)}
          ELSE IF sched_empty(s.sched[e.q]) THEN {sched_next_finish(s, e.q, NoRc)}
          ELSE sched_next_issue(s, e.q, e.ts, NoRc, n))
    [] e.type = "NEW_MSG" ->
         (IF Req[e.m].loopback THEN {new_msg_local(s, e)}
          ELSE IF e.isQueueReq THEN {new_msg_nic(s, e, n)}
          ELSE IF s.in_loop[e.q] THEN {new_msg_queue(s, e)}
          ELSE new_msg_start(s, e, n))

Process(e) ==
  /\ now <= e.ts
  /\ \A f \in self : e.ts <= f.ts
  /\ \E o \in Outcomes(ns, e, steps + 1) :
       /\ ns' = o.ns
       /\ self' = (self \ {e}) \cup o.sent
       /\ trace' = trace \o o.did
  /\ now' = e.ts
  /\ steps' = steps + 1

\* a message of another LP arrives and is handled
Receive(m, ts) ==
  /\ m \in unsent
  /\ unsent' = unsent \ {m}
  /\ \E isq \in ArrivalFlags(m) : Process(NewMsg(m, ts, 0, isq))

\* an event of the LP's own is handled
Continue(e) == Process(e) /\ UNCHANGED unsent

Next ==
  \/ \E m \in Msgs, ts \in Times : Receive(m, ts)
  \/ \E e \in self : Continue(e)

Spec == Init /\ [][Next]_vars
=============================================================================
