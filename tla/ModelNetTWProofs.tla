--------------------------- MODULE ModelNetTWProofs ---------------------------
(***************************************************************************)
(* Proofs about the optimistic execution of the model-net base LP, for     *)
(* every set of messages, every scheduler, any number of queues and any    *)
(* number of rollbacks, and for every method except "multirail", whose     *)
(* idle events break the reversal of handle_sched_next.                    *)
(*                                                                         *)
(* The properties are not inductive on their own: undoing the last event   *)
(* brings back the state before it, so what holds of the present state     *)
(* has to be known of every state in the list of processed events, and     *)
(* every entry of the list has to be undone by its reverse handler in the  *)
(* state that the next entry found.                                        *)
(***************************************************************************)
EXTENDS ModelNetTW, ModelNetSchedProofs

-----------------------------------------------------------------------------
(* The inductive invariant.                                                *)

\* an event that was filled in by one of the LP's senders
EventOK(e) ==
  /\ e.type = "NEW_MSG" => e.m \in Msgs /\ e.q = queue_of(e.m)
  /\ e.type # "NEW_MSG" => e.src # 0

StateOK(s) ==
  \A q \in Queues : /\ SchedOK(s.sched[q])
                    /\ ~s.in_loop[q] => sched_empty(s.sched[q])

\* the event a selfclocked LP sends itself is never taken for a surrogate's
FlagsClear == Recycled = {FALSE} \/ Method = "idle"

\* T are the loop events under way in state s: at most one for each queue and
\* only for a queue that is marked running, and, unless they may get lost, at
\* least one for such a queue
LoopOK(s, T) ==
  /\ \A t \in T : s.in_loop[t.q]
  /\ \A t, u \in T : t.q = u.q => t = u
  /\ FlagsClear => /\ \A t \in T : ~t.created_in_surrogate
                   /\ \A q \in Queues : s.in_loop[q] => \E t \in T : t.q = q

\* undoing entry x, in state s with loop events T and n steps in the trace,
\* gives back what there was before x
EntryOK(x, s, T, n) ==
  /\ EventOK(x.ev)
  /\ StateOK(x.before)
  /\ LoopOK(x.before, x.tokens)
  /\ base_event_rc(s, x) = x.before
  /\ (T \ x.sent) \cup Tokens({x.ev}) = x.tokens
  /\ x.mark <= n

\* what there was after entry i of the log
StateAfter(i) == IF i = Len(log) THEN ns ELSE log[i + 1].before
TokensAfter(i) == IF i = Len(log) THEN Tokens(pending) ELSE log[i + 1].tokens
MarkAfter(i) == IF i = Len(log) THEN Len(trace) ELSE log[i + 1].mark

IndInv ==
  /\ TypeOK
  /\ \A e \in pending : EventOK(e)
  /\ StateOK(ns)
  /\ LoopOK(ns, Tokens(pending))
  /\ \A i \in 1 .. Len(log) :
       EntryOK(log[i], StateAfter(i), TokensAfter(i), MarkAfter(i))

-----------------------------------------------------------------------------
(* Events and states.                                                      *)

LEMMA QueueFacts ==
  /\ \A m \in Msgs : queue_of(m) \in Queues
  /\ \A m \in Msgs : copy_queue(m) \in CopyQueues
  /\ Queues \subseteq Nat
  /\ CopyQueues \subseteq Nat
<1>1. Queues \subseteq Nat /\ CopyQueues \subseteq Nat
  BY LPAssumption DEF Queues, CopyQueues
<1>2. ASSUME NEW m \in Msgs PROVE queue_of(m) \in Queues
  <2>1. NumQueues \in Nat \ {0} /\ NumServers \in Nat \ {0} /\ Req[m].offset \in Nat
    BY LPAssumption, ReqFacts
  <2>2. servers_per_node \in Nat \ {0}
    <3>1. NumServers \div NumQueues \in Nat
      BY <2>1
    <3>. QED
      BY <3>1 DEF servers_per_node, AtLeastOne
  <2>3. Req[m].offset \div servers_per_node \in Nat
    BY <2>1, <2>2
  <2>4. (Req[m].offset \div servers_per_node) % NumQueues \in 0 .. (NumQueues - 1)
    BY <2>1, <2>3
  <2> DEFINE k == (Req[m].offset \div servers_per_node) % NumQueues
  <2>5. queue_of(m) \in {RecvQueue, 0, k}
    BY DEF queue_of
  <2> HIDE DEF k
  <2>. QED
    BY <2>1, <2>4, <2>5 DEF Queues, RecvQueue, k
<1>. QED
  BY <1>1, <1>2, CopyQueueAssumption

LEMMA NewMsgFacts ==
  ASSUME NEW m \in Msgs, NEW ts \in Nat, NEW src \in Nat, NEW isq \in BOOLEAN
  PROVE  NewMsg(m, ts, src, isq) \in Event /\ EventOK(NewMsg(m, ts, src, isq))
         /\ NewMsg(m, ts, src, isq).type = "NEW_MSG"
  BY QueueFacts DEF NewMsg, Event, EventOK

LEMMA SchedNextFacts ==
  ASSUME NEW q \in Queues, NEW ts \in Nat, NEW src \in Nat \ {0}, NEW surr \in BOOLEAN
  PROVE  /\ SchedNext(q, ts, src, surr) \in Event
         /\ EventOK(SchedNext(q, ts, src, surr))
         /\ SchedNext(q, ts, src, surr).type # "NEW_MSG"
         /\ SchedNext(q, ts, src, surr).q = q
         /\ SchedNext(q, ts, src, surr).created_in_surrogate = surr
  BY DEF SchedNext, Event, EventOK

LEMMA PassFacts ==
  ASSUME NEW q \in Queues, NEW ts \in Nat, NEW src \in Nat \ {0}
  PROVE  /\ Pass(q, ts, src) \in Event
         /\ EventOK(Pass(q, ts, src))
         /\ Pass(q, ts, src).type # "NEW_MSG"
         /\ Pass(q, ts, src).q = q
         /\ Pass(q, ts, src).created_in_surrogate = FALSE
  BY DEF Pass, Event, EventOK

LEMMA LatencyFacts ==
  ASSUME NEW k \in Nat
  PROVE  codes_local_latency(k) \in Nat
<1>1. k % LatencyRange \in Nat
  BY LPAssumption
<1>. QED
  BY <1>1 DEF codes_local_latency

LEMMA DidFacts ==
  ASSUME NEW kind \in {"nic", "copy", "queued", "packet"}, NEW q \in Nat, NEW at \in Nat,
         NEW pkt \in Packet
  PROVE  Did(kind, q, at, pkt) \in Did_
  BY DEF Did, Did_, Packet

LEMMA WholeFacts ==
  ASSUME NEW m \in Msgs
  PROVE  Whole(m) \in Packet
  BY ReqFacts DEF Whole, Packet

Bits == [c0: BOOLEAN, c30: BOOLEAN, c31: BOOLEAN]

\* what a handler leaves is well formed, and its reverse handler undoes it
OutcomeOK(s, e, o) ==
  /\ o.ns \in State /\ StateOK(o.ns)
  /\ o.bf \in Bits /\ o.rc \in Rc /\ o.save_ts \in Nat
  /\ o.sent \subseteq Event /\ \A f \in o.sent : EventOK(f)
  /\ o.did \in Seq(Did_)
  /\ \A x : x.ev = e /\ x.bf = o.bf /\ x.rc = o.rc /\ x.save_ts = o.save_ts
             => base_event_rc(o.ns, x) = s

\* the loop events, after the LP has processed e with outcome o
TokensNext(T, e, o) == (T \ {e}) \cup Tokens(o.sent)

\* they fit the state o leaves, and cancelling what e sent gives the old ones back
LoopStepOK(s, T, e, o) ==
  /\ LoopOK(o.ns, TokensNext(T, e, o))
  /\ (TokensNext(T, e, o) \ o.sent) \cup Tokens({e}) = T

Fields == {"in_loop", "sched", "msg_id", "next_avail", "copy_avail", "rng"}

IsRecord(s) == s = [f \in Fields |-> s[f]]

LEMMA StateFacts ==
  ASSUME NEW s \in State
  PROVE  /\ s.in_loop \in [Queues -> BOOLEAN] /\ s.sched \in [Queues -> SchedState]
         /\ s.msg_id \in Nat /\ s.next_avail \in Nat
         /\ s.copy_avail \in [CopyQueues -> Nat] /\ s.rng \in Nat
         /\ IsRecord(s)
  BY DEF State, SchedState, IsRecord, Fields

LEMMA StateFromFields ==
  ASSUME NEW s, IsRecord(s),
         s.in_loop \in [Queues -> BOOLEAN], s.sched \in [Queues -> SchedState],
         s.msg_id \in Nat, s.next_avail \in Nat,
         s.copy_avail \in [CopyQueues -> Nat], s.rng \in Nat
  PROVE  s \in State
<1>1. s = [in_loop |-> s.in_loop, sched |-> s.sched, msg_id |-> s.msg_id,
           next_avail |-> s.next_avail, copy_avail |-> s.copy_avail, rng |-> s.rng]
  BY DEF IsRecord, Fields
<1>. QED
  BY <1>1 DEF State, SchedState

LEMMA StateEqual ==
  ASSUME NEW s, NEW t, IsRecord(s), IsRecord(t),
         s.in_loop = t.in_loop, s.sched = t.sched, s.msg_id = t.msg_id,
         s.next_avail = t.next_avail, s.copy_avail = t.copy_avail, s.rng = t.rng
  PROVE  s = t
<1>1. ASSUME NEW f \in Fields PROVE s[f] = t[f]
  BY DEF Fields
<1>. QED
  BY <1>1 DEF IsRecord

-----------------------------------------------------------------------------
(* What the handlers do to the loop events.                                *)

IsLoopEvents(T) == T \subseteq Event /\ \A t \in T : t.type # "NEW_MSG"

\* a request that does not concern the loop
LEMMA LoopUntouched ==
  ASSUME NEW s, NEW T, IsLoopEvents(T), LoopOK(s, T),
         NEW e, e.type = "NEW_MSG",
         NEW o, o.ns.in_loop = s.in_loop, \A f \in o.sent : f.type = "NEW_MSG"
  PROVE  LoopStepOK(s, T, e, o)
<1>1. e \notin T /\ Tokens(o.sent) = {} /\ Tokens({e}) = {} /\ T \ o.sent = T
  BY DEF IsLoopEvents, Tokens
<1>2. TokensNext(T, e, o) = T
  BY <1>1 DEF TokensNext
<1>3. LoopOK(o.ns, T)
  BY DEF LoopOK
<1>. QED
  BY <1>1, <1>2, <1>3 DEF LoopStepOK

\* one loop event takes the place of another of the same queue
LEMMA LoopContinues ==
  ASSUME NEW s, NEW T, IsLoopEvents(T), LoopOK(s, T),
         NEW e \in T,
         NEW o, o.ns.in_loop = s.in_loop,
         NEW f \in Event, f.type # "NEW_MSG", f.q = e.q,
         FlagsClear => ~f.created_in_surrogate, o.sent = {f}
  PROVE  LoopStepOK(s, T, e, o)
<1>1. Tokens(o.sent) = {f} /\ Tokens({e}) = {e}
  BY DEF IsLoopEvents, Tokens
<1>2. TokensNext(T, e, o) = (T \ {e}) \cup {f}
  BY <1>1 DEF TokensNext
<1>3. f \notin T \ {e}
  BY DEF LoopOK
<1>4. (TokensNext(T, e, o) \ o.sent) \cup Tokens({e}) = T
  BY <1>1, <1>2, <1>3
<1>5. LoopOK(o.ns, (T \ {e}) \cup {f})
  BY DEF LoopOK
<1>. QED
  BY <1>2, <1>4, <1>5 DEF LoopStepOK

\* the last loop event of a queue
LEMMA LoopEnds ==
  ASSUME NEW s \in State, NEW T, IsLoopEvents(T), LoopOK(s, T),
         NEW e \in T,
         NEW o, o.ns.in_loop = [s.in_loop EXCEPT ![e.q] = FALSE], o.sent = {}
  PROVE  LoopStepOK(s, T, e, o)
<1>1. Tokens(o.sent) = {} /\ Tokens({e}) = {e}
  BY DEF IsLoopEvents, Tokens
<1>2. TokensNext(T, e, o) = T \ {e}
  BY <1>1 DEF TokensNext
<1>3. s.in_loop \in [Queues -> BOOLEAN]
  BY StateFacts
<1>4. LoopOK(o.ns, T \ {e})
  <2>1. \A t \in T \ {e} : t.q # e.q /\ t.q \in Queues
    BY DEF LoopOK, IsLoopEvents, Event
  <2>2. \A t \in T \ {e} : o.ns.in_loop[t.q]
    BY <2>1, <1>3 DEF LoopOK
  <2>3. ASSUME FlagsClear, NEW q \in Queues, o.ns.in_loop[q]
        PROVE  \E t \in T \ {e} : t.q = q
    <3>1. q # e.q /\ s.in_loop[q]
      BY <2>3, <1>3
    <3>. QED
      BY <3>1, <2>3 DEF LoopOK
  <2>. QED
    BY <2>2, <2>3 DEF LoopOK
<1>. QED
  BY <1>1, <1>2, <1>4 DEF LoopStepOK

\* the first loop event of a queue
LEMMA LoopStarts ==
  ASSUME NEW s \in State, NEW T, IsLoopEvents(T), LoopOK(s, T),
         NEW e, e.type = "NEW_MSG", NEW k \in Queues, ~s.in_loop[k],
         NEW o, o.ns.in_loop = [s.in_loop EXCEPT ![k] = TRUE],
         NEW f \in Event, f.type # "NEW_MSG", f.q = k,
         FlagsClear => ~f.created_in_surrogate, o.sent = {f}
  PROVE  LoopStepOK(s, T, e, o)
<1>1. Tokens(o.sent) = {f} /\ Tokens({e}) = {} /\ e \notin T
  BY DEF IsLoopEvents, Tokens
<1>2. TokensNext(T, e, o) = T \cup {f}
  BY <1>1 DEF TokensNext
<1>3. s.in_loop \in [Queues -> BOOLEAN]
  BY StateFacts
<1>4. \A t \in T : t.q # k /\ t.q \in Queues
  BY DEF LoopOK, IsLoopEvents, Event
<1>5. (TokensNext(T, e, o) \ o.sent) \cup Tokens({e}) = T
  BY <1>1, <1>2, <1>4
<1>6. LoopOK(o.ns, T \cup {f})
  <2>1. \A t \in T \cup {f} : o.ns.in_loop[t.q]
    BY <1>3, <1>4 DEF LoopOK
  <2>2. \A t, u \in T \cup {f} : t.q = u.q => t = u
    BY <1>4 DEF LoopOK
  <2>3. ASSUME FlagsClear, NEW q \in Queues, o.ns.in_loop[q]
        PROVE  \E t \in T \cup {f} : t.q = q
    <3>1. CASE q = k
      BY <3>1
    <3>2. CASE q # k
      BY <3>2, <2>3, <1>3 DEF LoopOK
    <3>. QED
      BY <3>1, <3>2
  <2>4. FlagsClear => \A t \in T \cup {f} : ~t.created_in_surrogate
    BY DEF LoopOK
  <2>. QED
    BY <2>1, <2>2, <2>3, <2>4 DEF LoopOK
<1>. QED
  BY <1>2, <1>5, <1>6 DEF LoopStepOK

\* a loop event that is taken for a surrogate's gets lost
LEMMA LoopLost ==
  ASSUME NEW s \in State, NEW T, IsLoopEvents(T), LoopOK(s, T),
         NEW e \in T, e.created_in_surrogate,
         NEW o, o.ns = s, o.sent = {}
  PROVE  LoopStepOK(s, T, e, o)
<1>1. Tokens(o.sent) = {} /\ Tokens({e}) = {e}
  BY DEF IsLoopEvents, Tokens
<1>2. TokensNext(T, e, o) = T \ {e}
  BY <1>1 DEF TokensNext
<1>3. LoopOK(o.ns, T \ {e})
  BY DEF LoopOK
<1>. QED
  BY <1>1, <1>2, <1>3 DEF LoopStepOK

-----------------------------------------------------------------------------
(* The handlers, one lemma each.                                           *)

LEMMA NoneFacts == NoBits \in Bits /\ NoRc \in Rc
  BY DEF NoBits, Bits, NoRc, Rc

\* reverse handlers, path by path
LEMMA RcPaths ==
  ASSUME NEW s, NEW x
  PROVE  /\ x.ev.type = "NEW_MSG" => base_event_rc(s, x) = handle_new_msg_rc(s, x)
         /\ x.ev.type = "SCHED_NEXT" /\ ~x.ev.created_in_surrogate
              => base_event_rc(s, x) = handle_sched_next_rc(s, x.ev.q, x)
         /\ x.ev.type = "SCHED_NEXT" /\ x.ev.created_in_surrogate => base_event_rc(s, x) = s
         /\ x.ev.type = "PASS" => base_event_rc(s, x) = s
  BY DEF base_event_rc

LEMMA LocalOutcome ==
  ASSUME NEW s \in State, StateOK(s),
         NEW e \in Event, EventOK(e), e.type = "NEW_MSG", Req[e.m].loopback
  PROVE  /\ OutcomeOK(s, e, new_msg_local(s, e))
         /\ new_msg_local(s, e).ns.in_loop = s.in_loop
         /\ new_msg_local(s, e).sent = {}
<1> DEFINE c == copy_queue(e.m)
           start == Later(s.copy_avail[c], e.ts)
           done == start + Req[e.m].msg_size * CnDelay
           d == Did("copy", c, done, Whole(e.m))
           t == [s EXCEPT !.copy_avail[c] = done, !.rng = @ + 1]
           o == new_msg_local(s, e)
<1>1. e.m \in Msgs /\ e.ts \in Nat /\ c \in CopyQueues /\ c \in Nat
  BY QueueFacts DEF EventOK, Event
<1>2. s.copy_avail \in [CopyQueues -> Nat] /\ s.rng \in Nat /\ s.copy_avail[c] \in Nat
  BY <1>1, StateFacts
<1>3. done \in Nat
  <2>1. start \in Nat
    BY <1>1, <1>2 DEF Later
  <2>2. Req[e.m].msg_size * CnDelay \in Nat
    BY <1>1, ReqFacts, LPAssumption
  <2> HIDE DEF start
  <2>. QED
    BY <2>1, <2>2
<1>4. d \in Did_
  BY <1>1, <1>3, WholeFacts, DidFacts
<1>5. /\ o.ns = t /\ o.bf = NoBits /\ o.rc = NoRc
      /\ o.save_ts = s.copy_avail[c] /\ o.sent = {} /\ o.did = <<d>>
  BY DEF new_msg_local, Nothing
<1> HIDE DEF c, done, d, o
<1>6. /\ IsRecord(t)
      /\ t.in_loop = s.in_loop /\ t.sched = s.sched /\ t.msg_id = s.msg_id
      /\ t.next_avail = s.next_avail
      /\ t.copy_avail = [s.copy_avail EXCEPT ![c] = done] /\ t.rng = s.rng + 1
  BY StateFacts DEF IsRecord, Fields
<1> HIDE DEF t
<1>7. t \in State
  BY <1>2, <1>3, <1>6, StateFacts, StateFromFields
<1>8. StateOK(t)
  BY <1>6 DEF StateOK
<1>9. ASSUME NEW x, x.ev = e, x.save_ts = s.copy_avail[c]
      PROVE  base_event_rc(t, x) = s
  <2>1. base_event_rc(t, x) = [t EXCEPT !.rng = @ - 1, !.copy_avail[c] = s.copy_avail[c]]
    BY <1>9, RcPaths DEF handle_new_msg_rc, c
  <2>2. [[s.copy_avail EXCEPT ![c] = done] EXCEPT ![c] = s.copy_avail[c]] = s.copy_avail
    BY <1>1, <1>2
  <2>3. s.rng + 1 - 1 = s.rng
    BY <1>2
  <2> DEFINE b == [t EXCEPT !.rng = @ - 1, !.copy_avail[c] = s.copy_avail[c]]
  <2>4. /\ IsRecord(b)
        /\ b.in_loop = t.in_loop /\ b.sched = t.sched /\ b.msg_id = t.msg_id
        /\ b.next_avail = t.next_avail /\ b.rng = t.rng - 1
        /\ b.copy_avail = [t.copy_avail EXCEPT ![c] = s.copy_avail[c]]
    BY <1>6 DEF IsRecord, Fields
  <2> HIDE DEF b
  <2>5. b = s
    BY <2>2, <2>3, <2>4, <1>6, StateFacts, StateEqual
  <2>. QED
    BY <2>1, <2>5, SMTT(30) DEF b
<1>10. <<d>> \in Seq(Did_)
  BY <1>4
<1>11. OutcomeOK(s, e, o)
  BY <1>2, <1>5, <1>7, <1>8, <1>9, <1>10, NoneFacts DEF OutcomeOK
<1>. QED
  BY <1>5, <1>6, <1>11 DEF o

LEMMA NicOutcome ==
  ASSUME NEW s \in State, StateOK(s), NEW n \in Nat,
         NEW e \in Event, EventOK(e), e.type = "NEW_MSG",
         ~Req[e.m].loopback, e.isQueueReq
  PROVE  /\ OutcomeOK(s, e, new_msg_nic(s, e, n))
         /\ new_msg_nic(s, e, n).ns.in_loop = s.in_loop
         /\ \A f \in new_msg_nic(s, e, n).sent : f.type = "NEW_MSG"
<1> DEFINE free == Later(s.next_avail, e.ts) + NicSeqDelay + codes_local_latency(s.rng)
           d == Did("nic", queue_of(e.m), free, Whole(e.m))
           f == NewMsg(e.m, free, n, FALSE)
           t == [s EXCEPT !.next_avail = free, !.rng = @ + 1]
           o == new_msg_nic(s, e, n)
<1>1. e.m \in Msgs /\ e.ts \in Nat /\ queue_of(e.m) \in Nat
  BY QueueFacts DEF EventOK, Event
<1>2. s.next_avail \in Nat /\ s.rng \in Nat
  BY StateFacts
<1>3. free \in Nat
  <2>1. Later(s.next_avail, e.ts) \in Nat
    BY <1>1, <1>2 DEF Later
  <2>. QED
    BY <2>1, <1>2, LatencyFacts, LPAssumption
<1>4. d \in Did_
  BY <1>1, <1>3, WholeFacts, DidFacts
<1>5. /\ o.ns = t /\ o.bf = NoBits /\ o.rc = NoRc
      /\ o.save_ts = s.next_avail /\ o.sent = {f} /\ o.did = <<d>>
  BY DEF new_msg_nic, Nothing
<1> HIDE DEF free
<1>6. f \in Event /\ EventOK(f) /\ f.type = "NEW_MSG"
  BY <1>1, <1>3, NewMsgFacts
<1> HIDE DEF d, o, f
<1>7. /\ IsRecord(t)
      /\ t.in_loop = s.in_loop /\ t.sched = s.sched /\ t.msg_id = s.msg_id
      /\ t.next_avail = free /\ t.copy_avail = s.copy_avail /\ t.rng = s.rng + 1
  BY StateFacts, ZenonT(30) DEF IsRecord, Fields
<1> HIDE DEF t
<1>8. t \in State
  BY <1>2, <1>3, <1>7, StateFacts, StateFromFields
<1>9. StateOK(t)
  BY <1>7 DEF StateOK
<1>10. ASSUME NEW x, x.ev = e, x.save_ts = s.next_avail
       PROVE  base_event_rc(t, x) = s
  <2>1. base_event_rc(t, x) = [t EXCEPT !.rng = @ - 1, !.next_avail = s.next_avail]
    BY <1>10, RcPaths, ZenonT(30) DEF handle_new_msg_rc
  <2>2. s.rng + 1 - 1 = s.rng
    BY <1>2
  <2> DEFINE b == [t EXCEPT !.rng = @ - 1, !.next_avail = s.next_avail]
  <2>3. /\ IsRecord(b)
        /\ b.in_loop = t.in_loop /\ b.sched = t.sched /\ b.msg_id = t.msg_id
        /\ b.next_avail = s.next_avail /\ b.rng = t.rng - 1 /\ b.copy_avail = t.copy_avail
    BY <1>7 DEF IsRecord, Fields
  <2> HIDE DEF b
  <2>4. b = s
    BY <2>2, <2>3, <1>7, StateFacts, StateEqual
  <2>. QED
    BY <2>1, <2>4 DEF b
<1>11. <<d>> \in Seq(Did_)
  BY <1>4
<1>12. OutcomeOK(s, e, o)
  BY <1>2, <1>5, <1>6, <1>8, <1>9, <1>10, <1>11, NoneFacts DEF OutcomeOK
<1>. QED
  BY <1>5, <1>6, <1>7, <1>12 DEF o

\* what the schedulers of a state look like when one of them changes
LEMMA SchedUpdate ==
  ASSUME NEW s \in State, StateOK(s), NEW t, NEW q \in Queues,
         NEW v \in SchedState, SchedOK(v),
         t.sched = [s.sched EXCEPT ![q] = v], t.in_loop[q],
         \A k \in Queues \ {q} : t.in_loop[k] = s.in_loop[k]
  PROVE  /\ t.sched \in [Queues -> SchedState] /\ t.sched[q] = v
         /\ StateOK(t)
<1>1. s.sched \in [Queues -> SchedState]
  BY StateFacts
<1>2. t.sched \in [Queues -> SchedState] /\ t.sched[q] = v
      /\ \A k \in Queues \ {q} : t.sched[k] = s.sched[k]
  BY <1>1
<1>3. ASSUME NEW k \in Queues
      PROVE  SchedOK(t.sched[k]) /\ (~t.in_loop[k] => sched_empty(t.sched[k]))
  <2>1. CASE k = q
    BY <2>1, <1>2
  <2>2. CASE k # q
    <3>1. t.in_loop[k] = s.in_loop[k] /\ t.sched[k] = s.sched[k]
      BY <2>2, <1>2
    <3>2. SchedOK(s.sched[k]) /\ (~s.in_loop[k] => sched_empty(s.sched[k]))
      BY DEF StateOK
    <3>. QED
      BY <3>1, <3>2
  <2>. QED
    BY <2>1, <2>2
<1>. QED
  BY <1>2, <1>3 DEF StateOK

\* handle_new_msg, the request enters the scheduler of a running loop
LEMMA QueuedFacts ==
  ASSUME NEW s \in State, StateOK(s), NEW e \in Event, EventOK(e), e.type = "NEW_MSG"
  PROVE  LET q == queue_of(e.m)
             t == Queued(s, e)
         IN  /\ e.m \in Msgs /\ q \in Queues /\ q = e.q
             /\ s.sched[q] \in SchedState /\ SchedOK(s.sched[q])
             /\ IsRecord(t) /\ t.in_loop = s.in_loop
             /\ t.sched = [s.sched EXCEPT ![q] = sched_add(e.m, s.sched[q])]
             /\ t.msg_id = s.msg_id + 1 /\ t.next_avail = s.next_avail
             /\ t.copy_avail = s.copy_avail /\ t.rng = s.rng
<1> DEFINE q == queue_of(e.m)
<1>1. e.m \in Msgs /\ q \in Queues /\ q = e.q
  BY QueueFacts DEF EventOK
<1>2. s.sched[q] \in SchedState /\ SchedOK(s.sched[q])
  BY <1>1, StateFacts DEF StateOK
<1> HIDE DEF q
<1> DEFINE t == [s EXCEPT !.msg_id = @ + 1, !.sched[q] = sched_add(e.m, @)]
<1>3. /\ IsRecord(t) /\ t.in_loop = s.in_loop
      /\ t.sched = [s.sched EXCEPT ![q] = sched_add(e.m, s.sched[q])]
      /\ t.msg_id = s.msg_id + 1 /\ t.next_avail = s.next_avail
      /\ t.copy_avail = s.copy_avail /\ t.rng = s.rng
  BY StateFacts, ZenonT(30) DEF IsRecord, Fields
<1>4. Queued(s, e) = t
  BY DEF Queued, q
<1>. QED
  BY <1>1, <1>2, <1>3, <1>4 DEF q

LEMMA QueueOutcome ==
  ASSUME NEW s \in State, StateOK(s),
         NEW e \in Event, EventOK(e), e.type = "NEW_MSG",
         ~Req[e.m].loopback, ~e.isQueueReq, s.in_loop[e.q]
  PROVE  /\ OutcomeOK(s, e, new_msg_queue(s, e))
         /\ new_msg_queue(s, e).ns.in_loop = s.in_loop
         /\ new_msg_queue(s, e).sent = {}
<1> DEFINE q == queue_of(e.m)
           t == Queued(s, e)
           a == sched_add(e.m, s.sched[q])
           r == sched_add_rcrec(e.m, NoRc)
           d == Did("queued", q, e.ts, Whole(e.m))
           o == new_msg_queue(s, e)
<1>1. /\ e.m \in Msgs /\ q \in Queues /\ q = e.q /\ e.ts \in Nat /\ q \in Nat
      /\ s.sched[q] \in SchedState /\ SchedOK(s.sched[q])
  BY QueuedFacts, QueueFacts DEF Event
<1>2. /\ IsRecord(t) /\ t.in_loop = s.in_loop
      /\ t.sched = [s.sched EXCEPT ![q] = a]
      /\ t.msg_id = s.msg_id + 1 /\ t.next_avail = s.next_avail
      /\ t.copy_avail = s.copy_avail /\ t.rng = s.rng
  BY QueuedFacts
<1>3. a \in SchedState /\ SchedOK(a)
      /\ \A rc : RcLevel(rc) = prio_of(e.m) => sched_add_rc(a, rc) = s.sched[q]
  BY <1>1, SchedAdd
<1>4. r \in Rc /\ RcLevel(r) = prio_of(e.m)
  BY <1>1, NoneFacts, AddRcRecord
<1>5. d \in Did_
  BY <1>1, WholeFacts, DidFacts
<1>6. /\ o.ns = t /\ o.bf = [NoBits EXCEPT !.c30 = TRUE] /\ o.rc = r
      /\ o.save_ts = 0 /\ o.sent = {} /\ o.did = <<d>>
  BY DEF new_msg_queue, Nothing, NoBits
<1>7. o.bf \in Bits /\ o.bf.c31 = FALSE /\ o.bf.c30 = TRUE
  BY <1>6 DEF NoBits, Bits
<1> HIDE DEF q, t, a, r, d, o
<1>8. t.sched \in [Queues -> SchedState] /\ t.sched[q] = a /\ StateOK(t)
  BY <1>1, <1>2, <1>3, SchedUpdate, ZenonT(30)
<1>9. t \in State
  <2>1. t.msg_id \in Nat
    BY <1>2, StateFacts
  <2>. QED
    BY <2>1, <1>2, <1>8, StateFacts, StateFromFields
<1>10. ASSUME NEW x, x.ev = e, x.bf = o.bf, x.rc = r
       PROVE  base_event_rc(t, x) = s
  <2> DEFINE b == [t EXCEPT !.sched[q] = sched_add_rc(@, r), !.msg_id = @ - 1]
  <2>1. base_event_rc(t, x) = b
    BY <1>7, <1>10, RcPaths DEF handle_new_msg_rc, q
  <2>2. /\ IsRecord(b)
        /\ b.in_loop = t.in_loop /\ b.sched = [t.sched EXCEPT ![q] = sched_add_rc(t.sched[q], r)]
        /\ b.msg_id = t.msg_id - 1 /\ b.next_avail = t.next_avail
        /\ b.rng = t.rng /\ b.copy_avail = t.copy_avail
    BY <1>2 DEF IsRecord, Fields
  <2> HIDE DEF b
  <2>3. sched_add_rc(t.sched[q], r) = s.sched[q]
    BY <1>3, <1>4, <1>8
  <2>4. b.sched = s.sched
    BY <2>2, <2>3, <1>1, <1>2, StateFacts
  <2>5. b.msg_id = s.msg_id
    BY <2>2, <1>2, StateFacts
  <2>6. b = s
    BY <2>2, <2>4, <2>5, <1>2, StateFacts, StateEqual
  <2>. QED
    BY <2>1, <2>6
<1>11. <<d>> \in Seq(Did_)
  BY <1>5
<1>12. OutcomeOK(s, e, o)
  <2>1. \A x : x.ev = e /\ x.bf = o.bf /\ x.rc = o.rc /\ x.save_ts = o.save_ts
              => base_event_rc(o.ns, x) = s
    BY <1>6, <1>10
  <2>2. o.ns \in State /\ StateOK(o.ns)
    BY <1>6, <1>8, <1>9
  <2>3. o.rc \in Rc /\ o.save_ts \in Nat /\ o.sent \subseteq Event /\ o.did \in Seq(Did_)
        /\ \A f \in o.sent : EventOK(f)
    BY <1>4, <1>6, <1>11
  <2>. QED
    BY <2>1, <2>2, <2>3, <1>7 DEF OutcomeOK
<1>. QED
  BY <1>2, <1>6, <1>12 DEF o

\* handle_sched_next sends exactly one event that makes its queue go on
LEMMA WakeupFacts ==
  ASSUME NEW s \in State, NEW q \in Queues, NEW ts \in Nat, NEW n \in Nat \ {0},
         NEW w \in Wakeups(s, q, ts, n)
  PROVE  \E f \in Event : /\ w = {f} /\ EventOK(f) /\ f.type # "NEW_MSG" /\ f.q = q
                          /\ FlagsClear => ~f.created_in_surrogate
<1>1. s.rng \in Nat /\ s.rng + 1 \in Nat
  BY StateFacts
<1>2. codes_local_latency(s.rng) \in Nat /\ codes_local_latency(s.rng + 1) \in Nat
  BY <1>1, LatencyFacts
<1>3. CASE Method = "selfclocked"
  <2> DEFINE at == ts + codes_local_latency(s.rng) + codes_local_latency(s.rng + 1)
  <2>1. at \in Nat
    BY <1>2
  <2>2. PICK surr \in Recycled : w = {SchedNext(q, at, n, surr)}
    BY <1>3 DEF Wakeups
  <2>3. surr \in BOOLEAN
    BY LPAssumption
  <2>4. FlagsClear => surr = FALSE
    BY <1>3 DEF FlagsClear
  <2> HIDE DEF at
  <2>. QED
    BY <2>1, <2>2, <2>3, <2>4, SchedNextFacts
<1>4. CASE Method # "selfclocked"
  <2>1. w = {Pass(q, ts + codes_local_latency(s.rng), n)}
    BY <1>4 DEF Wakeups
  <2>2. ts + codes_local_latency(s.rng) \in Nat
    BY <1>2
  <2>. QED
    BY <2>1, <2>2, PassFacts
<1>. QED
  BY <1>3, <1>4

IssuedOK(s, q, ts, n, o) ==
  /\ o = [ns |-> o.ns, bf |-> o.bf, rc |-> o.rc, save_ts |-> o.save_ts, sent |-> o.sent,
          did |-> o.did]
  /\ o.ns \in State /\ StateOK(o.ns) /\ o.ns.in_loop = s.in_loop
  /\ o.bf = NoBits /\ o.save_ts = 0
  /\ o.rc \in Rc /\ RcLevel(o.rc) = NextLevel(s.sched[q])
  /\ o.sent \in Wakeups(s, q, ts, n)
  /\ o.did \in Seq(Did_)
  /\ \A x : x.rc = o.rc /\ x.bf.c0 = FALSE => handle_sched_next_rc(o.ns, q, x) = s

\* handle_sched_next with a request waiting, and its reversal
LEMMA IssueFacts ==
  ASSUME NEW s \in State, StateOK(s), NEW q \in Queues, s.in_loop[q],
         ~sched_empty(s.sched[q]), NEW ts \in Nat, NEW rc \in Rc, NEW n \in Nat \ {0},
         NEW o \in sched_next_issue(s, q, ts, rc, n)
  PROVE  IssuedOK(s, q, ts, n, o)
<1> DEFINE p == s.sched[q]
           v == sched_next(p)
           r == sched_next_rcrec(p, rc)
           d == Did("packet", q, ts, sched_next_pkt(p))
           t == [s EXCEPT !.sched[q] = v, !.rng = @ + Draws]
<1>1. p \in SchedState /\ SchedOK(p) /\ q \in Nat
  BY StateFacts, QueueFacts DEF StateOK
<1>2. /\ v \in SchedState /\ SchedOK(v)
      /\ sched_next_pkt(p) \in Packet
      /\ r \in Rc /\ RcLevel(r) = NextLevel(p)
      /\ SchedType = "prio" => r.prio # -1
      /\ SchedType # "prio" => r.rtn # -1
      /\ sched_next_rc(v, r) = p
  BY <1>1, SchedNextBusy
<1>3. d \in Did_
  BY <1>1, <1>2, DidFacts
<1>4. PICK w \in Wakeups(s, q, ts, n) :
        o = [ns |-> t, bf |-> NoBits, rc |-> r, save_ts |-> 0, sent |-> w, did |-> <<d>>]
  BY DEF sched_next_issue
<1>5. /\ o.ns = t /\ o.bf = NoBits /\ o.rc = r /\ o.save_ts = 0
      /\ o.sent \in Wakeups(s, q, ts, n) /\ o.did = <<d>>
  BY <1>4
<1>6. RcIssued(r)
  BY <1>2 DEF RcIssued
<1> HIDE DEF p, v, r, d
<1>7. /\ IsRecord(t) /\ t.in_loop = s.in_loop
      /\ t.sched = [s.sched EXCEPT ![q] = v]
      /\ t.msg_id = s.msg_id /\ t.next_avail = s.next_avail
      /\ t.copy_avail = s.copy_avail /\ t.rng = s.rng + Draws
  <2>1. IsRecord(s)
    BY StateFacts
  <2>. QED
    BY <2>1 DEF IsRecord, Fields
<1> HIDE DEF t
<1>8. t.sched \in [Queues -> SchedState] /\ t.sched[q] = v /\ StateOK(t)
  BY <1>2, <1>7, SchedUpdate
<1>9. Draws \in Nat /\ (IF Method = "selfclocked" THEN Draws = 2 ELSE Draws = 1)
  BY DEF Draws
<1>10. t \in State
  <2>1. t.rng \in Nat
    BY <1>7, <1>9, StateFacts
  <2>. QED
    BY <2>1, <1>7, <1>8, StateFacts, StateFromFields
<1>11. ASSUME NEW x, x.rc = r, x.bf.c0 = FALSE
       PROVE  handle_sched_next_rc(t, q, x) = s
  <2> DEFINE u == [t EXCEPT !.sched[q] = sched_next_rc(@, r), !.rng = @ - 1]
             k == IF Method = "selfclocked" THEN u.rng - 1 ELSE u.rng
             b == [u EXCEPT !.rng = k]
  <2>1. handle_sched_next_rc(t, q, x) = b
    BY <1>6, <1>11 DEF handle_sched_next_rc
  <2>2. /\ IsRecord(u) /\ u.in_loop = t.in_loop
        /\ u.sched = [t.sched EXCEPT ![q] = sched_next_rc(t.sched[q], r)]
        /\ u.msg_id = t.msg_id /\ u.next_avail = t.next_avail
        /\ u.copy_avail = t.copy_avail /\ u.rng = t.rng - 1
    BY <1>7 DEF IsRecord, Fields
  <2> HIDE DEF u
  <2>3. k = s.rng
    BY <2>2, <1>7, <1>9, StateFacts
  <2> HIDE DEF k
  <2>4. /\ IsRecord(b) /\ b.in_loop = u.in_loop /\ b.sched = u.sched
        /\ b.msg_id = u.msg_id /\ b.next_avail = u.next_avail
        /\ b.copy_avail = u.copy_avail /\ b.rng = k
    BY <2>2 DEF IsRecord, Fields
  <2> HIDE DEF b
  <2>5. sched_next_rc(t.sched[q], r) = s.sched[q]
    BY <1>2, <1>8 DEF p
  <2>6. b.sched = s.sched
    BY <2>2, <2>4, <2>5, <1>7, StateFacts
  <2>7. b = s
    BY <2>2, <2>3, <2>4, <2>6, <1>7, StateFacts, StateEqual
  <2>. QED
    BY <2>1, <2>7
<1>12. <<d>> \in Seq(Did_)
  BY <1>3
<1>. QED
  BY <1>2, <1>4, <1>5, <1>7, <1>8, <1>10, <1>11, <1>12 DEF IssuedOK, p

LEMMA IssueOutcome ==
  ASSUME NEW s \in State, StateOK(s), NEW n \in Nat \ {0},
         NEW e \in Event, EventOK(e), e.type = "SCHED_NEXT", ~e.created_in_surrogate,
         s.in_loop[e.q], ~sched_empty(s.sched[e.q]),
         NEW o \in sched_next_issue(s, e.q, e.ts, NoRc, n)
  PROVE  /\ OutcomeOK(s, e, o)
         /\ o.ns.in_loop = s.in_loop
         /\ o.sent \in Wakeups(s, e.q, e.ts, n)
<1> DEFINE q == e.q
           ts == e.ts
<1>1. /\ q \in Queues /\ ts \in Nat
      /\ s.in_loop[q] /\ ~sched_empty(s.sched[q])
      /\ o \in sched_next_issue(s, q, ts, NoRc, n)
  BY DEF Event
<1> HIDE DEF q, ts
<1>2. /\ o.ns \in State /\ StateOK(o.ns) /\ o.ns.in_loop = s.in_loop
      /\ o.bf = NoBits /\ o.save_ts = 0
      /\ o.rc \in Rc
      /\ o.sent \in Wakeups(s, q, ts, n)
      /\ o.did \in Seq(Did_)
      /\ \A x : x.rc = o.rc /\ x.bf.c0 = FALSE => handle_sched_next_rc(o.ns, q, x) = s
  <2>1. IssuedOK(s, q, ts, n, o)
    BY <1>1, NoneFacts, IssueFacts
  <2>. QED
    BY <2>1 DEF IssuedOK
<1>3. o.bf \in Bits /\ o.bf.c0 = FALSE
  BY <1>2 DEF NoBits, Bits
<1>4. \A x : x.ev = e /\ x.bf = o.bf /\ x.rc = o.rc /\ x.save_ts = o.save_ts
            => base_event_rc(o.ns, x) = s
  BY <1>2, <1>3, RcPaths DEF q
<1>5. PICK f \in Event : o.sent = {f} /\ EventOK(f)
  BY <1>1, <1>2, WakeupFacts
<1>. QED
  BY <1>2, <1>3, <1>4, <1>5 DEF OutcomeOK, q, ts

\* handle_new_msg_rc of a request that started the loop
UndoStart(t, q, rc) ==
  [[t EXCEPT !.in_loop[q] = FALSE]
     EXCEPT !.sched[q] = sched_add_rc(@, rc), !.msg_id = @ - 1]

LEMMA RcStarted ==
  ASSUME NEW s, NEW x, NEW t, NEW q, q = queue_of(x.ev.m),
         x.ev.type = "NEW_MSG", ~Req[x.ev.m].loopback, ~x.ev.isQueueReq,
         x.bf.c30 = TRUE, x.bf.c31 = TRUE,
         handle_sched_next_rc(s, q, x) = t
  PROVE  base_event_rc(s, x) = UndoStart(t, q, x.rc)
<1>1. base_event_rc(s, x) = handle_new_msg_rc(s, x)
  BY RcPaths
<1>2. handle_new_msg_rc(s, x) = UndoStart(t, q, x.rc)
  BY DEF handle_new_msg_rc, UndoStart
<1>. QED
  BY <1>1, <1>2

LEMMA StartOutcome ==
  ASSUME NEW s \in State, StateOK(s), NEW n \in Nat \ {0},
         NEW e \in Event, EventOK(e), e.type = "NEW_MSG",
         ~Req[e.m].loopback, ~e.isQueueReq, ~s.in_loop[e.q],
         NEW o \in new_msg_start(s, e, n)
  PROVE  /\ OutcomeOK(s, e, o)
         /\ o.ns.in_loop = [s.in_loop EXCEPT ![e.q] = TRUE]
         /\ \E f \in Event : /\ o.sent = {f} /\ f.type # "NEW_MSG" /\ f.q = e.q
                             /\ FlagsClear => ~f.created_in_surrogate
<1> DEFINE q == queue_of(e.m)
           u == Queued(s, e)
           t == [u EXCEPT !.in_loop[q] = TRUE]
           a == sched_add(e.m, s.sched[q])
           r == sched_add_rcrec(e.m, NoRc)
           d == Did("queued", q, e.ts, Whole(e.m))
           ts == e.ts
<1>1. /\ e.m \in Msgs /\ q \in Queues /\ q = e.q /\ ts \in Nat /\ q \in Nat
      /\ s.sched[q] \in SchedState /\ SchedOK(s.sched[q])
  BY QueuedFacts, QueueFacts DEF Event
<1>2. /\ IsRecord(u) /\ u.in_loop = s.in_loop
      /\ u.sched = [s.sched EXCEPT ![q] = a]
      /\ u.msg_id = s.msg_id + 1 /\ u.next_avail = s.next_avail
      /\ u.copy_avail = s.copy_avail /\ u.rng = s.rng
  BY QueuedFacts
<1>3. sched_empty(s.sched[q])
  BY <1>1 DEF StateOK
<1>4. /\ a \in SchedState /\ SchedOK(a) /\ ~sched_empty(a) /\ NextLevel(a) = prio_of(e.m)
      /\ \A rc : RcLevel(rc) = prio_of(e.m) => sched_add_rc(a, rc) = s.sched[q]
  BY <1>1, <1>3, SchedAdd, AddToEmpty
<1>5. r \in Rc
  BY <1>1, NoneFacts, AddRcRecord
<1>6. d \in Did_
  BY <1>1, WholeFacts, DidFacts
<1>7. PICK i \in sched_next_issue(t, q, ts, r, n) :
        o = [i EXCEPT !.bf.c30 = TRUE, !.bf.c31 = TRUE, !.did = <<d>> \o @]
  BY DEF new_msg_start
<1> HIDE DEF q, u, a, r, d, ts
<1>8. /\ IsRecord(t) /\ t.in_loop = [s.in_loop EXCEPT ![q] = TRUE]
      /\ t.sched = [s.sched EXCEPT ![q] = a]
      /\ t.msg_id = s.msg_id + 1 /\ t.next_avail = s.next_avail
      /\ t.copy_avail = s.copy_avail /\ t.rng = s.rng
  BY <1>2 DEF IsRecord, Fields
<1> HIDE DEF t
<1>9. /\ t.in_loop \in [Queues -> BOOLEAN] /\ t.in_loop[q]
      /\ \A k \in Queues \ {q} : t.in_loop[k] = s.in_loop[k]
  <2>1. s.in_loop \in [Queues -> BOOLEAN]
    BY StateFacts
  <2> DEFINE f == s.in_loop
             g == t.in_loop
  <2>2. g = [f EXCEPT ![q] = TRUE]
    BY <1>8
  <2> HIDE DEF f, g
  <2>3. g \in [Queues -> BOOLEAN] /\ g[q] /\ \A k \in Queues \ {q} : g[k] = f[k]
    <3>1. f \in [Queues -> BOOLEAN] /\ q \in Queues
      BY <2>1, <1>1 DEF f
    <3>. QED
      BY <3>1, <2>2
  <2>. QED
    BY <2>3 DEF f, g
<1>10. t.sched \in [Queues -> SchedState] /\ t.sched[q] = a /\ StateOK(t)
  BY <1>1, <1>4, <1>8, <1>9, SchedUpdate, ZenonT(30)
<1>11. t \in State
  <2>1. t.msg_id \in Nat
    BY <1>8, StateFacts
  <2>. QED
    BY <2>1, <1>8, <1>9, <1>10, StateFacts, StateFromFields
<1>12. IssuedOK(t, q, ts, n, i)
  BY <1>1, <1>4, <1>5, <1>9, <1>10, <1>11, IssueFacts
<1>13. /\ o.ns = i.ns /\ o.rc = i.rc /\ o.save_ts = 0 /\ o.sent = i.sent
       /\ o.bf \in Bits /\ o.bf.c0 = FALSE /\ o.bf.c30 = TRUE /\ o.bf.c31 = TRUE
       /\ o.did = <<d>> \o i.did
  <2>1. /\ i = [ns |-> i.ns, bf |-> i.bf, rc |-> i.rc, save_ts |-> i.save_ts,
                sent |-> i.sent, did |-> i.did]
        /\ i.bf = NoBits /\ i.save_ts = 0
    BY <1>12 DEF IssuedOK
  <2> DEFINE D == <<d>> \o i.did
  <2>2. o = [i EXCEPT !.bf.c30 = TRUE, !.bf.c31 = TRUE, !.did = D]
    BY <1>7
  <2> HIDE DEF D
  <2> DEFINE F == {"ns", "bf", "rc", "save_ts", "sent", "did"}
  <2>3. i = [f \in F |-> i[f]]
    BY <2>1
  <2>4. /\ o.ns = i.ns /\ o.rc = i.rc /\ o.save_ts = i.save_ts /\ o.sent = i.sent
        /\ o.did = D
    BY <2>2, <2>3
  <2>5. o.bf = [[i.bf EXCEPT !.c30 = TRUE] EXCEPT !.c31 = TRUE]
    BY <2>2, <2>3
  <2>6. o.bf \in Bits /\ o.bf.c0 = FALSE /\ o.bf.c30 = TRUE /\ o.bf.c31 = TRUE
    <3>1. i.bf \in Bits /\ i.bf.c0 = FALSE
      BY <2>1 DEF NoBits, Bits
    <3> DEFINE g == i.bf
               h == [g EXCEPT !.c30 = TRUE]
    <3> HIDE DEF g
    <3>2. h \in Bits /\ h.c0 = FALSE /\ h.c30 = TRUE
      BY <3>1 DEF g, Bits
    <3> HIDE DEF h
    <3>3. o.bf = [h EXCEPT !.c31 = TRUE]
      BY <2>5 DEF h, g
    <3>. QED
      BY <3>2, <3>3 DEF Bits
  <2>. QED
    BY <2>1, <2>4, <2>6 DEF D
<1>14. o.bf \in Bits /\ o.bf.c0 = FALSE /\ o.bf.c30 = TRUE /\ o.bf.c31 = TRUE
  BY <1>13
<1>15. o.did \in Seq(Did_)
  <2>1. <<d>> \in Seq(Did_) /\ i.did \in Seq(Did_)
    BY <1>6, <1>12 DEF IssuedOK
  <2>. QED
    BY <2>1, <1>13, ConcatProperties
<1>16. ASSUME NEW x, x.ev = e, x.bf = o.bf, x.rc = o.rc
       PROVE  base_event_rc(o.ns, x) = s
  <2> DEFINE c == [t EXCEPT !.in_loop[q] = FALSE]
             b == [c EXCEPT !.sched[q] = sched_add_rc(@, x.rc), !.msg_id = @ - 1]
  <2>1. handle_sched_next_rc(o.ns, q, x) = t
    BY <1>12, <1>13, <1>14, <1>16 DEF IssuedOK
  <2>2. base_event_rc(o.ns, x) = b
    <3>1. /\ q = queue_of(x.ev.m) /\ x.ev.type = "NEW_MSG"
          /\ ~Req[x.ev.m].loopback /\ ~x.ev.isQueueReq
          /\ x.bf.c30 = TRUE /\ x.bf.c31 = TRUE
      BY <1>14, <1>16 DEF q
    <3>2. base_event_rc(o.ns, x) = UndoStart(t, q, x.rc)
      BY <3>1, <2>1, RcStarted
    <3>. QED
      BY <3>2 DEF UndoStart
  <2>3. /\ IsRecord(c) /\ c.in_loop = [t.in_loop EXCEPT ![q] = FALSE]
        /\ c.sched = t.sched /\ c.msg_id = t.msg_id /\ c.next_avail = t.next_avail
        /\ c.rng = t.rng /\ c.copy_avail = t.copy_avail
    BY <1>8 DEF IsRecord, Fields
  <2> HIDE DEF c
  <2>4. /\ IsRecord(b) /\ b.in_loop = c.in_loop
        /\ b.sched = [c.sched EXCEPT ![q] = sched_add_rc(c.sched[q], x.rc)]
        /\ b.msg_id = c.msg_id - 1 /\ b.next_avail = c.next_avail
        /\ b.rng = c.rng /\ b.copy_avail = c.copy_avail
    BY <2>3 DEF IsRecord, Fields
  <2> HIDE DEF b
  <2>5. sched_add_rc(c.sched[q], x.rc) = s.sched[q]
    <3>1. RcLevel(x.rc) = prio_of(e.m)
      BY <1>4, <1>10, <1>12, <1>13, <1>16 DEF IssuedOK
    <3>. QED
      BY <3>1, <2>3, <1>4, <1>10
  <2>6. b.sched = s.sched
    BY <2>3, <2>4, <2>5, <1>1, <1>8, StateFacts
  <2>7. b.in_loop = s.in_loop
    <3>1. s.in_loop \in [Queues -> BOOLEAN] /\ s.in_loop[q] = FALSE
      BY <1>1, StateFacts
    <3>. QED
      BY <3>1, <2>3, <2>4, <1>1, <1>8
  <2>8. b.msg_id = s.msg_id
    BY <2>3, <2>4, <1>8, StateFacts
  <2>9. b = s
    BY <2>3, <2>4, <2>6, <2>7, <2>8, <1>8, StateFacts, StateEqual
  <2>. QED
    BY <2>2, <2>9
<1>17. PICK f \in Event : /\ i.sent = {f} /\ EventOK(f) /\ f.type # "NEW_MSG" /\ f.q = q
                          /\ FlagsClear => ~f.created_in_surrogate
  BY <1>1, <1>11, <1>12, WakeupFacts DEF IssuedOK
<1>18. OutcomeOK(s, e, o)
  <2>1. o.ns \in State /\ StateOK(o.ns) /\ o.rc \in Rc
    BY <1>12, <1>13 DEF IssuedOK
  <2>2. o.sent \subseteq Event /\ (\A g \in o.sent : EventOK(g)) /\ o.save_ts \in Nat
    BY <1>13, <1>17
  <2>. QED
    BY <2>1, <2>2, <1>14, <1>15, <1>16 DEF OutcomeOK
<1>19. o.ns.in_loop = [s.in_loop EXCEPT ![e.q] = TRUE]
  BY <1>1, <1>8, <1>12, <1>13 DEF IssuedOK
<1>. QED
  BY <1>1, <1>13, <1>17, <1>18, <1>19

LEMMA FinishOutcome ==
  ASSUME NEW s \in State, StateOK(s),
         NEW e \in Event, e.type = "SCHED_NEXT", ~e.created_in_surrogate,
         s.in_loop[e.q], sched_empty(s.sched[e.q])
  PROVE  LET o == sched_next_finish(s, e.q, NoRc)
         IN  /\ OutcomeOK(s, e, o)
             /\ o.ns.in_loop = [s.in_loop EXCEPT ![e.q] = FALSE]
             /\ o.sent = {}
<1> DEFINE q == e.q
           p == s.sched[q]
           r == sched_next_rcrec(p, NoRc)
           t == [s EXCEPT !.in_loop[q] = FALSE]
           o == sched_next_finish(s, q, NoRc)
<1>1. q \in Queues /\ p \in SchedState /\ s.in_loop[q] /\ sched_empty(p)
  BY StateFacts DEF Event
<1>2. /\ r \in Rc
      /\ SchedType = "prio" => r.prio = -1
      /\ SchedType # "prio" => r.rtn = -1
      /\ sched_next_rc(p, r) = p
  BY <1>1, NoneFacts, SchedNextEmpty
<1>3. /\ o.ns = t /\ o.rc = r /\ o.save_ts = 0 /\ o.sent = {} /\ o.did = << >>
      /\ o.bf = [c0 |-> TRUE, c30 |-> FALSE, c31 |-> FALSE]
  BY DEF sched_next_finish, Nothing, NoBits
<1>4. o.bf \in Bits /\ o.bf.c0 = TRUE
  BY <1>3 DEF Bits
<1>5. ~RcIssued(r)
  BY <1>2 DEF RcIssued
<1> HIDE DEF q, p, r, o
<1>6. /\ IsRecord(t) /\ t.in_loop = [s.in_loop EXCEPT ![q] = FALSE]
      /\ t.sched = s.sched /\ t.msg_id = s.msg_id /\ t.next_avail = s.next_avail
      /\ t.copy_avail = s.copy_avail /\ t.rng = s.rng
  <2>1. IsRecord(s)
    BY StateFacts
  <2>. QED
    BY <2>1 DEF IsRecord, Fields
<1> HIDE DEF t
<1>7. t.in_loop \in [Queues -> BOOLEAN]
  <2>1. s.in_loop \in [Queues -> BOOLEAN]
    BY StateFacts
  <2>. QED
    BY <2>1, <1>1, <1>6
<1>8. t \in State
  BY <1>6, <1>7, StateFacts, StateFromFields
<1>9. StateOK(t)
  <2>1. ASSUME NEW k \in Queues
        PROVE  SchedOK(t.sched[k]) /\ (~t.in_loop[k] => sched_empty(t.sched[k]))
    <3>1. SchedOK(s.sched[k]) /\ (~s.in_loop[k] => sched_empty(s.sched[k]))
      BY DEF StateOK
    <3>2. CASE k = q
      BY <3>1, <3>2, <1>1, <1>6 DEF p
    <3>3. CASE k # q
      BY <3>1, <3>3, <1>6, StateFacts
    <3>. QED
      BY <3>2, <3>3
  <2>. QED
    BY <2>1 DEF StateOK
<1>10. ASSUME NEW x, x.ev = e, x.bf = o.bf, x.rc = r
       PROVE  base_event_rc(t, x) = s
  <2> DEFINE u == [t EXCEPT !.sched[q] = sched_next_rc(@, r), !.rng = @]
             b == [u EXCEPT !.in_loop[q] = TRUE]
  <2>1. base_event_rc(t, x) = b
    BY <1>4, <1>5, <1>10, RcPaths, ZenonT(30) DEF handle_sched_next_rc, q
  <2>2. /\ IsRecord(u) /\ u.in_loop = t.in_loop
        /\ u.sched = [t.sched EXCEPT ![q] = sched_next_rc(t.sched[q], r)]
        /\ u.msg_id = t.msg_id /\ u.next_avail = t.next_avail
        /\ u.copy_avail = t.copy_avail /\ u.rng = t.rng
    BY <1>6 DEF IsRecord, Fields
  <2> HIDE DEF u
  <2>3. /\ IsRecord(b) /\ b.in_loop = [u.in_loop EXCEPT ![q] = TRUE]
        /\ b.sched = u.sched /\ b.msg_id = u.msg_id /\ b.next_avail = u.next_avail
        /\ b.copy_avail = u.copy_avail /\ b.rng = u.rng
    BY <2>2 DEF IsRecord, Fields
  <2> HIDE DEF b
  <2>4. b.sched = s.sched
    BY <2>2, <2>3, <1>1, <1>2, <1>6, StateFacts DEF p
  <2>5. b.in_loop = s.in_loop
    <3>1. s.in_loop \in [Queues -> BOOLEAN] /\ s.in_loop[q] = TRUE
      BY <1>1, StateFacts
    <3>. QED
      BY <3>1, <2>2, <2>3, <1>1, <1>6
  <2>6. b = s
    BY <2>2, <2>3, <2>4, <2>5, <1>6, StateFacts, StateEqual
  <2>. QED
    BY <2>1, <2>6, SMTT(30)
<1>11. OutcomeOK(s, e, o)
  <2>1. << >> \in Seq(Did_)
    BY EmptySeq
  <2>2. \A x : x.ev = e /\ x.bf = o.bf /\ x.rc = o.rc /\ x.save_ts = o.save_ts
              => base_event_rc(o.ns, x) = s
    BY <1>3, <1>10
  <2>3. o.ns \in State /\ StateOK(o.ns) /\ o.rc \in Rc /\ o.save_ts \in Nat
    BY <1>2, <1>3, <1>8, <1>9
  <2>4. o.sent \subseteq Event /\ (\A f \in o.sent : EventOK(f)) /\ o.did \in Seq(Did_)
    BY <2>1, <1>3
  <2>. QED
    BY <2>2, <2>3, <2>4, <1>4 DEF OutcomeOK
<1>. QED
  BY <1>3, <1>6, <1>11 DEF o, q

LEMMA DropOutcome ==
  ASSUME NEW s \in State, StateOK(s),
         NEW e \in Event, e.type = "SCHED_NEXT", e.created_in_surrogate
  PROVE  /\ OutcomeOK(s, e, Nothing(s))
         /\ Nothing(s).ns = s /\ Nothing(s).sent = {}
<1> DEFINE o == Nothing(s)
<1>1. /\ o.ns = s /\ o.bf = NoBits /\ o.rc = NoRc /\ o.save_ts = 0
      /\ o.sent = {} /\ o.did = << >>
  BY DEF Nothing
<1> HIDE DEF o
<1>2. o.did \in Seq(Did_)
  BY <1>1, EmptySeq
<1>3. \A x : x.ev = e => base_event_rc(o.ns, x) = s
  BY <1>1, RcPaths
<1>4. OutcomeOK(s, e, o)
  BY <1>1, <1>2, <1>3, NoneFacts DEF OutcomeOK
<1>. QED
  BY <1>1, <1>4 DEF o

LEMMA IdleOutcome ==
  ASSUME Method # "multirail",
         NEW s \in State, StateOK(s), NEW n \in Nat \ {0},
         NEW e \in Event, e.type = "PASS"
  PROVE  LET o == method_idle(s, e, n)
         IN  /\ OutcomeOK(s, e, o)
             /\ o.ns = s
             /\ \E f \in Event : /\ o.sent = {f} /\ f.type # "NEW_MSG" /\ f.q = e.q
                                 /\ ~f.created_in_surrogate
<1> DEFINE o == method_idle(s, e, n)
           at == e.ts + IdleDelay
           f == SchedNext(e.q, at, n, FALSE)
<1>1. e.q \in Queues /\ at \in Nat
  BY LPAssumption DEF Event
<1>2. /\ o.ns = s /\ o.bf = NoBits /\ o.rc = NoRc /\ o.save_ts = 0 /\ o.did = << >>
      /\ o.sent = {SchedNext(j, at, n, FALSE) : j \in IdleQueues(e.q)}
  BY DEF method_idle, Nothing
<1> HIDE DEF o, at
<1>3. o.sent = {f}
  BY <1>2 DEF IdleQueues
<1>4. /\ f \in Event /\ EventOK(f) /\ f.type # "NEW_MSG" /\ f.q = e.q
      /\ f.created_in_surrogate = FALSE
  BY <1>1, SchedNextFacts, ZenonT(30)
<1> HIDE DEF f
<1>5. o.did \in Seq(Did_)
  BY <1>2, EmptySeq
<1>6. \A x : x.ev = e => base_event_rc(o.ns, x) = s
  BY <1>2, RcPaths
<1>7. OutcomeOK(s, e, o)
  <2>1. o.sent \subseteq Event /\ (\A g \in o.sent : EventOK(g))
    BY <1>3, <1>4
  <2>2. o.ns \in State /\ StateOK(o.ns) /\ o.bf \in Bits /\ o.rc \in Rc /\ o.save_ts \in Nat
    BY <1>2, NoneFacts
  <2>. QED
    BY <2>1, <2>2, <1>5, <1>6 DEF OutcomeOK
<1>. QED
  BY <1>2, <1>3, <1>4, <1>7 DEF o

-----------------------------------------------------------------------------
(* The invariant is inductive.                                             *)

LEMMA TokensFacts ==
  ASSUME IndInv
  PROVE  /\ IsLoopEvents(Tokens(pending))
         /\ LoopOK(ns, Tokens(pending))
         /\ \A e \in pending : e.type # "NEW_MSG" => e \in Tokens(pending)
  BY DEF IndInv, TypeOK, IsLoopEvents, Tokens

LEMMA TypeFacts ==
  ASSUME TypeOK
  PROVE  /\ ns \in State /\ pending \subseteq Event /\ log \in Seq(Entry)
         /\ trace \in Seq(Did_) /\ arrived \subseteq Msgs /\ committed \in Nat
         /\ gvt \in Nat /\ rollbacks \in 0 .. MaxRollbacks
         /\ Len(log) \in Nat /\ Len(trace) \in Nat
         /\ Step \in Nat \ {0}
<1>1. ns \in State /\ pending \subseteq Event /\ log \in Seq(Entry)
      /\ trace \in Seq(Did_) /\ arrived \subseteq Msgs /\ committed \in Nat
      /\ gvt \in Nat /\ rollbacks \in 0 .. MaxRollbacks
  BY DEF TypeOK
<1>2. Len(log) \in Nat /\ Len(trace) \in Nat
  BY <1>1, LenProperties
<1>. QED
  BY <1>1, <1>2 DEF Step

\* an event is processed
LEMMA ProcessInv ==
  ASSUME IndInv, NEW e \in pending, NEW o, OutcomeOK(ns, e, o),
         LoopStepOK(ns, Tokens(pending), e, o), Process(e, o)
  PROVE  IndInv'
<1> DEFINE x == [ev |-> e, bf |-> o.bf, rc |-> o.rc, save_ts |-> o.save_ts,
                 sent |-> o.sent, before |-> ns, tokens |-> Tokens(pending),
                 mark |-> Len(trace)]
           n == Len(log)
<1>1. /\ ns \in State /\ pending \subseteq Event /\ log \in Seq(Entry)
      /\ trace \in Seq(Did_) /\ n \in Nat /\ Len(trace) \in Nat /\ e \in Event /\ EventOK(e)
  BY TypeFacts DEF IndInv
<1>2. /\ ns' = o.ns /\ pending' = (pending \ {e}) \cup o.sent
      /\ log' = Append(log, x) /\ trace' = trace \o o.did
      /\ arrived' = arrived /\ committed' = committed /\ gvt' = gvt /\ rollbacks' = rollbacks
  BY DEF Process
<1>3. /\ o.ns \in State /\ StateOK(o.ns) /\ o.bf \in Bits /\ o.rc \in Rc /\ o.save_ts \in Nat
      /\ o.sent \subseteq Event /\ (\A f \in o.sent : EventOK(f)) /\ o.did \in Seq(Did_)
  BY DEF OutcomeOK
<1>4. /\ x.ev = e /\ x.bf = o.bf /\ x.rc = o.rc /\ x.save_ts = o.save_ts /\ x.sent = o.sent
      /\ x.before = ns /\ x.tokens = Tokens(pending) /\ x.mark = Len(trace)
  OBVIOUS
<1>5. x \in Entry
  <2>1. Tokens(pending) \subseteq Event
    BY <1>1 DEF Tokens
  <2>. QED
    BY <2>1, <1>1, <1>3 DEF Entry, Bits
<1> HIDE DEF x
<1>6. /\ log' \in Seq(Entry) /\ Len(log') = n + 1
      /\ (\A i \in 1 .. n : log'[i] = log[i]) /\ log'[n + 1] = x
  BY <1>1, <1>2, <1>5, AppendProperties
<1>7. trace' \in Seq(Did_) /\ Len(trace') = Len(trace) + Len(o.did) /\ Len(o.did) \in Nat
  BY <1>1, <1>2, <1>3, ConcatProperties, LenProperties
<1>8. TypeOK'
  <2>1. ns' \in State /\ pending' \subseteq Event
    BY <1>1, <1>2, <1>3
  <2>2. arrived' \subseteq Msgs /\ committed' \in Nat /\ gvt' \in Nat
        /\ rollbacks' \in 0 .. MaxRollbacks
    BY <1>2 DEF IndInv, TypeOK
  <2>. QED
    BY <2>1, <2>2, <1>6, <1>7 DEF TypeOK
<1>9. \A f \in pending' : EventOK(f)
  BY <1>2, <1>3 DEF IndInv
<1>10. Tokens(pending)' = TokensNext(Tokens(pending), e, o)
  BY <1>2 DEF Tokens, TokensNext
<1>11. StateOK(ns') /\ LoopOK(ns', Tokens(pending)')
  BY <1>2, <1>3, <1>10 DEF LoopStepOK
<1>12. ASSUME NEW i \in 1 .. (n + 1)
       PROVE  EntryOK(log'[i], StateAfter(i)', TokensAfter(i)', MarkAfter(i)')
  <2>1. CASE i = n + 1
    <3>1. /\ log'[i] = x /\ StateAfter(i)' = o.ns
          /\ TokensAfter(i)' = TokensNext(Tokens(pending), e, o)
          /\ MarkAfter(i)' = Len(trace')
      BY <2>1, <1>2, <1>6, <1>10 DEF StateAfter, TokensAfter, MarkAfter
    <3>2. StateOK(ns) /\ LoopOK(ns, Tokens(pending))
      BY DEF IndInv
    <3>3. base_event_rc(o.ns, x) = ns
      BY <1>4 DEF OutcomeOK
    <3>4. (TokensNext(Tokens(pending), e, o) \ o.sent) \cup Tokens({e}) = Tokens(pending)
      BY DEF LoopStepOK
    <3>5. Len(trace) <= Len(trace')
      BY <1>1, <1>7
    <3>. QED
      BY <3>1, <3>2, <3>3, <3>4, <3>5, <1>1, <1>4 DEF EntryOK
  <2>2. CASE i \in 1 .. n
    <3>1. i # Len(log') /\ i + 1 \in 1 .. (n + 1)
      BY <2>2, <1>1, <1>6
    <3>2. EntryOK(log[i], StateAfter(i), TokensAfter(i), MarkAfter(i))
      BY <2>2 DEF IndInv
    <3>3. CASE i = n
      <4>1. log'[i + 1] = x
        BY <3>3, <1>6
      <4>2. StateAfter(i)' = StateAfter(i) /\ TokensAfter(i)' = TokensAfter(i)
            /\ MarkAfter(i)' = MarkAfter(i)
        BY <4>1, <3>1, <3>3, <1>4 DEF StateAfter, TokensAfter, MarkAfter
      <4>. QED
        BY <4>2, <3>2, <2>2, <1>6
    <3>4. CASE i # n
      <4>1. log'[i + 1] = log[i + 1]
        BY <3>4, <2>2, <1>1, <1>6
      <4>2. StateAfter(i)' = StateAfter(i) /\ TokensAfter(i)' = TokensAfter(i)
            /\ MarkAfter(i)' = MarkAfter(i)
        BY <4>1, <3>1, <3>4 DEF StateAfter, TokensAfter, MarkAfter
      <4>. QED
        BY <4>2, <3>2, <2>2, <1>6
    <3>. QED
      BY <3>3, <3>4
  <2>. QED
    BY <2>1, <2>2, <1>1
<1>. QED
  BY <1>6, <1>8, <1>9, <1>11, <1>12 DEF IndInv

LEMMA NewMsgInv ==
  ASSUME IndInv, NEW e \in pending,
         NewMsgLocal(e) \/ NewMsgNic(e) \/ NewMsgQueue(e) \/ NewMsgStart(e)
  PROVE  IndInv'
<1> DEFINE T == Tokens(pending)
<1>1. /\ ns \in State /\ StateOK(ns) /\ e \in Event /\ EventOK(e) /\ Step \in Nat \ {0}
      /\ IsLoopEvents(T) /\ LoopOK(ns, T)
      /\ e.q \in Queues
  BY TypeFacts, TokensFacts DEF IndInv, Event
<1>2. e.type = "NEW_MSG"
  BY DEF NewMsgLocal, NewMsgNic, NewMsgQueue, NewMsgStart, ReadyNewMsg
<1> HIDE DEF T
<1>3. CASE NewMsgLocal(e)
  <2> DEFINE o == new_msg_local(ns, e)
  <2>1. Req[e.m].loopback /\ Process(e, o)
    BY <1>3 DEF NewMsgLocal
  <2>2. OutcomeOK(ns, e, o) /\ o.ns.in_loop = ns.in_loop /\ o.sent = {}
    BY <2>1, <1>1, <1>2, LocalOutcome
  <2> HIDE DEF o
  <2>3. LoopStepOK(ns, T, e, o)
    BY <2>2, <1>1, <1>2, LoopUntouched
  <2>. QED
    BY <2>1, <2>2, <2>3, ProcessInv DEF T
<1>4. CASE NewMsgNic(e)
  <2> DEFINE o == new_msg_nic(ns, e, Step)
  <2>1. ~Req[e.m].loopback /\ e.isQueueReq /\ Process(e, o)
    BY <1>4 DEF NewMsgNic
  <2>2. OutcomeOK(ns, e, o) /\ o.ns.in_loop = ns.in_loop
        /\ \A f \in o.sent : f.type = "NEW_MSG"
    BY <2>1, <1>1, <1>2, NicOutcome
  <2> HIDE DEF o
  <2>3. LoopStepOK(ns, T, e, o)
    BY <2>2, <1>1, <1>2, LoopUntouched
  <2>. QED
    BY <2>1, <2>2, <2>3, ProcessInv DEF T
<1>5. CASE NewMsgQueue(e)
  <2> DEFINE o == new_msg_queue(ns, e)
  <2>1. ~Req[e.m].loopback /\ ~e.isQueueReq /\ ns.in_loop[e.q] /\ Process(e, o)
    BY <1>5 DEF NewMsgQueue
  <2>2. OutcomeOK(ns, e, o) /\ o.ns.in_loop = ns.in_loop /\ o.sent = {}
    BY <2>1, <1>1, <1>2, QueueOutcome
  <2> HIDE DEF o
  <2>3. LoopStepOK(ns, T, e, o)
    BY <2>2, <1>1, <1>2, LoopUntouched
  <2>. QED
    BY <2>1, <2>2, <2>3, ProcessInv DEF T
<1>6. CASE NewMsgStart(e)
  <2>1. ~Req[e.m].loopback /\ ~e.isQueueReq /\ ~ns.in_loop[e.q]
    BY <1>6 DEF NewMsgStart
  <2>2. PICK o \in new_msg_start(ns, e, Step) : Process(e, o)
    BY <1>6 DEF NewMsgStart
  <2>3. /\ OutcomeOK(ns, e, o)
        /\ o.ns.in_loop = [ns.in_loop EXCEPT ![e.q] = TRUE]
        /\ \E f \in Event : /\ o.sent = {f} /\ f.type # "NEW_MSG" /\ f.q = e.q
                            /\ FlagsClear => ~f.created_in_surrogate
    BY <2>1, <1>1, <1>2, StartOutcome
  <2>4. LoopStepOK(ns, T, e, o)
    BY <2>1, <2>3, <1>1, <1>2, LoopStarts
  <2>. QED
    BY <2>2, <2>3, <2>4, ProcessInv DEF T
<1>. QED
  BY <1>3, <1>4, <1>5, <1>6

LEMMA SchedNextInv ==
  ASSUME Method # "multirail", IndInv, NEW e \in pending,
         SchedNextIssue(e) \/ SchedNextFinish(e) \/ SchedNextDrop(e) \/ MethodIdle(e)
  PROVE  IndInv'
<1> DEFINE T == Tokens(pending)
<1>1. /\ ns \in State /\ StateOK(ns) /\ e \in Event /\ EventOK(e) /\ Step \in Nat \ {0}
      /\ IsLoopEvents(T) /\ LoopOK(ns, T)
      /\ e.q \in Queues /\ e.ts \in Nat
  BY TypeFacts, TokensFacts DEF IndInv, Event
<1>2. e \in T
  BY TokensFacts
    DEF SchedNextIssue, SchedNextFinish, SchedNextDrop, MethodIdle, ReadySchedNext
<1> HIDE DEF T
<1>3. ns.in_loop[e.q]
  BY <1>1, <1>2 DEF LoopOK
<1>4. CASE SchedNextIssue(e)
  <2>1. e.type = "SCHED_NEXT" /\ ~e.created_in_surrogate /\ ~sched_empty(ns.sched[e.q])
    BY <1>4 DEF SchedNextIssue, ReadySchedNext
  <2>2. PICK o \in sched_next_issue(ns, e.q, e.ts, NoRc, Step) : Process(e, o)
    BY <1>4 DEF SchedNextIssue
  <2>3. OutcomeOK(ns, e, o) /\ o.ns.in_loop = ns.in_loop
        /\ o.sent \in Wakeups(ns, e.q, e.ts, Step)
    BY <2>1, <1>1, <1>3, IssueOutcome
  <2>4. \E f \in Event : /\ o.sent = {f} /\ f.type # "NEW_MSG" /\ f.q = e.q
                         /\ FlagsClear => ~f.created_in_surrogate
    BY <2>3, <1>1, WakeupFacts
  <2>5. LoopStepOK(ns, T, e, o)
    BY <2>3, <2>4, <1>1, <1>2, LoopContinues
  <2>. QED
    BY <2>2, <2>3, <2>5, ProcessInv DEF T
<1>5. CASE SchedNextFinish(e)
  <2> DEFINE o == sched_next_finish(ns, e.q, NoRc)
  <2>1. /\ e.type = "SCHED_NEXT" /\ ~e.created_in_surrogate /\ sched_empty(ns.sched[e.q])
        /\ Process(e, o)
    BY <1>5 DEF SchedNextFinish, ReadySchedNext
  <2>2. OutcomeOK(ns, e, o) /\ o.ns.in_loop = [ns.in_loop EXCEPT ![e.q] = FALSE] /\ o.sent = {}
    BY <2>1, <1>1, <1>3, FinishOutcome
  <2> HIDE DEF o
  <2>3. LoopStepOK(ns, T, e, o)
    BY <2>2, <1>1, <1>2, LoopEnds
  <2>. QED
    BY <2>1, <2>2, <2>3, ProcessInv DEF T
<1>6. CASE SchedNextDrop(e)
  <2> DEFINE o == Nothing(ns)
  <2>1. e.type = "SCHED_NEXT" /\ e.created_in_surrogate /\ Process(e, o)
    BY <1>6 DEF SchedNextDrop, ReadySchedNext
  <2>2. OutcomeOK(ns, e, o) /\ o.ns = ns /\ o.sent = {}
    BY <2>1, <1>1, DropOutcome
  <2> HIDE DEF o
  <2>3. LoopStepOK(ns, T, e, o)
    BY <2>1, <2>2, <1>1, <1>2, LoopLost
  <2>. QED
    BY <2>1, <2>2, <2>3, ProcessInv DEF T
<1>7. CASE MethodIdle(e)
  <2> DEFINE o == method_idle(ns, e, Step)
  <2>1. e.type = "PASS" /\ Process(e, o)
    BY <1>7 DEF MethodIdle
  <2>2. /\ OutcomeOK(ns, e, o) /\ o.ns = ns
        /\ \E f \in Event : /\ o.sent = {f} /\ f.type # "NEW_MSG" /\ f.q = e.q
                            /\ ~f.created_in_surrogate
    BY <2>1, <1>1, IdleOutcome
  <2> HIDE DEF o
  <2>3. LoopStepOK(ns, T, e, o)
    BY <2>2, <1>1, <1>2, LoopContinues
  <2>. QED
    BY <2>1, <2>2, <2>3, ProcessInv DEF T
<1>. QED
  BY <1>4, <1>5, <1>6, <1>7

\* events come and go that are no loop events; the rest stays as it is
LEMMA ArrivalInv ==
  ASSUME IndInv, NEW P, P \subseteq Event, \A e \in P : EventOK(e),
         Tokens(P) = Tokens(pending), pending' = P,
         arrived' \subseteq Msgs, rollbacks' \in 0 .. MaxRollbacks,
         UNCHANGED <<ns, log, trace, committed, gvt>>
  PROVE  IndInv'
<1>1. TypeOK'
  BY DEF IndInv, TypeOK
<1>2. StateOK(ns') /\ LoopOK(ns', Tokens(pending)') /\ \A e \in pending' : EventOK(e)
  BY DEF IndInv, Tokens
<1>3. ASSUME NEW i \in 1 .. Len(log)
      PROVE  EntryOK(log[i], StateAfter(i)', TokensAfter(i)', MarkAfter(i)')
  <2>1. EntryOK(log[i], StateAfter(i), TokensAfter(i), MarkAfter(i))
    BY DEF IndInv
  <2>2. Tokens(pending)' = Tokens(pending)
    BY DEF Tokens
  <2>3. StateAfter(i)' = StateAfter(i) /\ TokensAfter(i)' = TokensAfter(i)
        /\ MarkAfter(i)' = MarkAfter(i)
    BY <2>2 DEF StateAfter, TokensAfter, MarkAfter
  <2>. QED
    BY <2>1, <2>3
<1>. QED
  BY <1>1, <1>2, <1>3 DEF IndInv

LEMMA ArriveInv ==
  ASSUME IndInv, NEW m \in Msgs, NEW ts \in Times, Arrive(m, ts)
  PROVE  IndInv'
<1>1. PICK isq \in ArrivalFlags(m) : pending' = pending \cup {NewMsg(m, ts, 0, isq)}
  BY DEF Arrive
<1> DEFINE f == NewMsg(m, ts, 0, isq)
<1>2. isq \in BOOLEAN /\ ts \in Nat
  BY LPAssumption, TWAssumption DEF ArrivalFlags
<1>3. f \in Event /\ EventOK(f) /\ f.type = "NEW_MSG"
  BY <1>2, NewMsgFacts
<1> HIDE DEF f
<1>4. Tokens(pending \cup {f}) = Tokens(pending)
  BY <1>3 DEF Tokens
<1>5. pending \cup {f} \subseteq Event /\ \A e \in pending \cup {f} : EventOK(e)
  BY <1>3 DEF IndInv, TypeOK
<1>6. arrived' \subseteq Msgs /\ rollbacks' \in 0 .. MaxRollbacks
      /\ UNCHANGED <<ns, log, trace, committed, gvt>>
  BY DEF Arrive, IndInv, TypeOK
<1>7. pending' = pending \cup {f}
  BY <1>1 DEF f
<1>. QED
  BY <1>4, <1>5, <1>6, <1>7, ArrivalInv

LEMMA CancelInv ==
  ASSUME IndInv, NEW e \in pending, Cancel(e)
  PROVE  IndInv'
<1>1. e.type = "NEW_MSG"
  BY DEF Cancel, IndInv, EventOK
<1>2. Tokens(pending \ {e}) = Tokens(pending)
  BY <1>1 DEF Tokens
<1>3. pending \ {e} \subseteq Event /\ \A f \in pending \ {e} : EventOK(f)
  BY DEF IndInv, TypeOK
<1>4. arrived' \subseteq Msgs /\ rollbacks' \in 0 .. MaxRollbacks /\ pending' = pending \ {e}
      /\ UNCHANGED <<ns, log, trace, committed, gvt>>
  BY TWAssumption DEF Cancel, IndInv, TypeOK
<1>. QED
  BY <1>2, <1>3, <1>4, ArrivalInv

\* the last processed event is undone
LEMMA UndoInv ==
  ASSUME IndInv, Undo
  PROVE  IndInv'
<1> DEFINE n == Len(log)
           x == log[n]
<1>1. /\ log \in Seq(Entry) /\ n \in Nat \ {0} /\ trace \in Seq(Did_) /\ Len(trace) \in Nat
      /\ pending \subseteq Event /\ log # << >>
  BY TypeFacts, EmptySeq DEF IndInv, Undo
<1>2. x \in Entry
  BY <1>1, ElementOfSeq
<1>3. /\ ns' = base_event_rc(ns, x) /\ pending' = (pending \ x.sent) \cup {x.ev}
      /\ trace' = SubSeq(trace, 1, x.mark) /\ log' = AllButLast(log)
      /\ UNCHANGED <<arrived, committed, gvt>>
      /\ rollbacks' \in 0 .. MaxRollbacks
  BY TWAssumption DEF Undo, LastOf, IndInv, TypeOK
<1>4. EntryOK(x, ns, Tokens(pending), Len(trace))
  <2>1. n \in 1 .. n
    BY <1>1
  <2>. QED
    BY <2>1 DEF IndInv, StateAfter, TokensAfter, MarkAfter
<1>5. /\ x.before \in State /\ x.ev \in Event /\ x.mark \in Nat
  BY <1>2 DEF Entry
<1>6. /\ log' \in Seq(Entry) /\ Len(log') = n - 1
      /\ \A i \in 1 .. (n - 1) : log'[i] = log[i]
  BY <1>1, <1>3, PopBackProperties
<1> HIDE DEF x
<1>7. /\ ns' = x.before /\ EventOK(x.ev) /\ StateOK(x.before) /\ LoopOK(x.before, x.tokens)
      /\ x.mark <= Len(trace)
  BY <1>3, <1>4 DEF EntryOK
<1>8. Tokens(pending)' = x.tokens
  <2>1. Tokens(pending)' = (Tokens(pending) \ x.sent) \cup Tokens({x.ev})
    BY <1>3 DEF Tokens
  <2>. QED
    BY <2>1, <1>4 DEF EntryOK
<1>9. trace' \in Seq(Did_) /\ Len(trace') = x.mark
  <2>1. \A i \in 1 .. x.mark : trace[i] \in Did_
    BY <1>1, <1>5, <1>7, ElementOfSeq
  <2>2. /\ SubSeq(trace, 1, x.mark) \in Seq(Did_)
        /\ Len(SubSeq(trace, 1, x.mark)) = (IF 1 <= x.mark THEN x.mark - 1 + 1 ELSE 0)
    BY <2>1, <1>5, SubSeqProperties
  <2>. QED
    BY <2>2, <1>3, <1>5
<1>10. TypeOK'
  <2>1. pending' \subseteq Event
    BY <1>1, <1>3, <1>5
  <2>. QED
    BY <2>1, <1>3, <1>5, <1>6, <1>7, <1>9 DEF IndInv, TypeOK
<1>11. \A e \in pending' : EventOK(e)
  BY <1>3, <1>7 DEF IndInv
<1>12. ASSUME NEW i \in 1 .. (n - 1)
       PROVE  EntryOK(log'[i], StateAfter(i)', TokensAfter(i)', MarkAfter(i)')
  <2>1. EntryOK(log[i], StateAfter(i), TokensAfter(i), MarkAfter(i)) /\ i # n /\ log'[i] = log[i]
    <3>1. i \in 1 .. n /\ i # n
      BY <1>1
    <3>. QED
      BY <3>1, <1>6 DEF IndInv
  <2>2. CASE i = n - 1
    <3>1. i + 1 = n
      BY <2>2, <1>1
    <3>2. /\ StateAfter(i) = x.before /\ TokensAfter(i) = x.tokens /\ MarkAfter(i) = x.mark
      BY <3>1, <2>1 DEF StateAfter, TokensAfter, MarkAfter, x
    <3>3. StateAfter(i)' = ns' /\ TokensAfter(i)' = Tokens(pending)' /\ MarkAfter(i)' = Len(trace')
      BY <2>2, <1>6 DEF StateAfter, TokensAfter, MarkAfter
    <3>. QED
      BY <2>1, <3>2, <3>3, <1>7, <1>8, <1>9
  <2>3. CASE i # n - 1
    <3>1. log'[i + 1] = log[i + 1] /\ i # Len(log')
      BY <2>3, <1>1, <1>6
    <3>2. StateAfter(i)' = StateAfter(i) /\ TokensAfter(i)' = TokensAfter(i)
          /\ MarkAfter(i)' = MarkAfter(i)
      BY <3>1, <2>1 DEF StateAfter, TokensAfter, MarkAfter
    <3>. QED
      BY <3>2, <2>1
  <2>. QED
    BY <2>2, <2>3
<1>. QED
  BY <1>6, <1>7, <1>8, <1>10, <1>11, <1>12 DEF IndInv

\* the oldest processed event is collected
LEMMA CommitInv ==
  ASSUME IndInv, Commit
  PROVE  IndInv'
<1> DEFINE n == Len(log)
<1>1. log \in Seq(Entry) /\ n \in Nat \ {0} /\ log # << >> /\ log[1] \in Entry
      /\ committed \in Nat
  <2>1. log \in Seq(Entry) /\ n \in Nat \ {0} /\ log # << >> /\ committed \in Nat
    BY TypeFacts, EmptySeq DEF IndInv, Commit
  <2>. QED
    BY <2>1, ElementOfSeq
<1>2. /\ log' = Tail(log) /\ committed' = committed + 1 /\ gvt' = log[1].ev.ts
      /\ UNCHANGED <<ns, pending, trace, arrived, rollbacks>>
  BY DEF Commit
<1>3. /\ log' \in Seq(Entry) /\ Len(log') = n - 1
      /\ \A i \in 1 .. (n - 1) : log'[i] = log[i + 1]
  BY <1>1, <1>2, HeadTailProperties
<1>4. gvt' \in Nat /\ committed' \in Nat
  BY <1>1, <1>2 DEF Entry, Event
<1>5. TypeOK'
  BY <1>2, <1>3, <1>4 DEF IndInv, TypeOK
<1>6. Tokens(pending)' = Tokens(pending)
  BY <1>2 DEF Tokens
<1>7. ASSUME NEW i \in 1 .. (n - 1)
      PROVE  EntryOK(log'[i], StateAfter(i)', TokensAfter(i)', MarkAfter(i)')
  <2>1. i + 1 \in 1 .. n /\ log'[i] = log[i + 1] /\ (i = n - 1 <=> i + 1 = n)
    BY <1>1, <1>3
  <2>2. EntryOK(log[i + 1], StateAfter(i + 1), TokensAfter(i + 1), MarkAfter(i + 1))
    BY <2>1 DEF IndInv
  <2>3. CASE i = n - 1
    <3>1. StateAfter(i)' = StateAfter(i + 1) /\ TokensAfter(i)' = TokensAfter(i + 1)
          /\ MarkAfter(i)' = MarkAfter(i + 1)
      BY <2>1, <2>3, <1>2, <1>3, <1>6 DEF StateAfter, TokensAfter, MarkAfter
    <3>. QED
      BY <3>1, <2>1, <2>2
  <2>4. CASE i # n - 1
    <3>1. log'[i + 1] = log[i + 1 + 1] /\ i # Len(log') /\ i + 1 # n
      BY <2>1, <2>4, <1>1, <1>3
    <3>2. StateAfter(i)' = StateAfter(i + 1) /\ TokensAfter(i)' = TokensAfter(i + 1)
          /\ MarkAfter(i)' = MarkAfter(i + 1)
      BY <3>1 DEF StateAfter, TokensAfter, MarkAfter
    <3>. QED
      BY <3>2, <2>1, <2>2
  <2>. QED
    BY <2>3, <2>4
<1>8. StateOK(ns') /\ LoopOK(ns', Tokens(pending)') /\ \A e \in pending' : EventOK(e)
  BY <1>2, <1>6 DEF IndInv
<1>. QED
  BY <1>3, <1>5, <1>7, <1>8 DEF IndInv

\* model_net_base_lp_init leaves empty schedulers and no loop running
LEMMA InitInv == Init => IndInv
<1> SUFFICES ASSUME Init PROVE IndInv
  OBVIOUS
<1>1. /\ ns = base_lp_init /\ pending = {} /\ log = << >> /\ trace = << >> /\ arrived = {}
      /\ committed = 0 /\ gvt = 0 /\ rollbacks = 0
  BY DEF Init
<1>2. fcfs_init \in Queue /\ QueueOK(fcfs_init) /\ fcfs_init.reqs = << >>
  <2>1. << >> \in Seq(QItem) /\ Len(<< >>) = 0
    BY EmptySeq
  <2>. QED
    BY <2>1 DEF fcfs_init, Queue, QueueOK
<1>3. sched_init \in SchedState /\ SchedOK(sched_init) /\ sched_empty(sched_init)
  BY <1>2 DEF sched_init, SchedState, SchedOK, sched_empty, Busy
<1>4. /\ IsRecord(base_lp_init)
      /\ base_lp_init.in_loop = [q \in Queues |-> FALSE]
      /\ base_lp_init.sched = [q \in Queues |-> sched_init]
      /\ base_lp_init.msg_id = 0 /\ base_lp_init.next_avail = 0
      /\ base_lp_init.copy_avail = [c \in CopyQueues |-> 0] /\ base_lp_init.rng = 0
  BY DEF base_lp_init, IsRecord, Fields
<1>5. base_lp_init \in State
  <2>1. [q \in Queues |-> FALSE] \in [Queues -> BOOLEAN]
    OBVIOUS
  <2>2. [q \in Queues |-> sched_init] \in [Queues -> SchedState]
    BY <1>3
  <2>3. [c \in CopyQueues |-> 0] \in [CopyQueues -> Nat]
    OBVIOUS
  <2> DEFINE b == base_lp_init
  <2>4. IsRecord(b) /\ b.in_loop \in [Queues -> BOOLEAN] /\ b.sched \in [Queues -> SchedState]
    BY <2>1, <2>2, <1>4
  <2>5. b.copy_avail \in [CopyQueues -> Nat] /\ b.msg_id \in Nat /\ b.next_avail \in Nat
        /\ b.rng \in Nat
    BY <2>3, <1>4
  <2> HIDE DEF b
  <2>6. b \in State
    BY <2>4, <2>5, StateFromFields
  <2>. QED
    BY <2>6 DEF b
<1>6. StateOK(base_lp_init)
  BY <1>3, <1>4 DEF StateOK
<1>7. Tokens(pending) = {}
  BY <1>1 DEF Tokens
<1>8. LoopOK(base_lp_init, {})
  BY <1>4 DEF LoopOK
<1>9. TypeOK
  <2>1. log \in Seq(Entry) /\ trace \in Seq(Did_)
    BY <1>1, EmptySeq
  <2>. QED
    BY <2>1, <1>1, <1>5, TWAssumption DEF TypeOK
<1>10. 1 .. Len(log) = {}
  <2>1. Len(log) = 0
    BY <1>1, EmptySeq
  <2>. QED
    BY <2>1
<1>11. \A i \in 1 .. Len(log) :
         EntryOK(log[i], StateAfter(i), TokensAfter(i), MarkAfter(i))
  BY <1>10, Zenon
<1>12. StateOK(ns) /\ LoopOK(ns, Tokens(pending)) /\ \A e \in pending : EventOK(e)
  BY <1>1, <1>6, <1>7, <1>8
<1>. QED
  BY <1>9, <1>11, <1>12 DEF IndInv

LEMMA StepInv ==
  ASSUME Method # "multirail", IndInv, [Next]_vars
  PROVE  IndInv'
<1>1. CASE HandleEvent
  <2>1. PICK e \in pending :
          \/ NewMsgLocal(e) \/ NewMsgNic(e) \/ NewMsgQueue(e) \/ NewMsgStart(e)
          \/ SchedNextIssue(e) \/ SchedNextFinish(e) \/ SchedNextDrop(e)
          \/ MethodIdle(e)
    BY <1>1 DEF HandleEvent
  <2>. QED
    BY <2>1, NewMsgInv, SchedNextInv
<1>2. ASSUME NEW m \in Msgs, NEW ts \in Times, Arrive(m, ts) PROVE IndInv'
  BY <1>2, ArriveInv
<1>3. ASSUME NEW e \in pending, Cancel(e) PROVE IndInv'
  BY <1>3, CancelInv
<1>4. CASE Undo
  BY <1>4, UndoInv
<1>5. CASE Commit
  BY <1>5, CommitInv
<1>6. CASE UNCHANGED vars
  BY <1>6 DEF vars, IndInv, TypeOK, StateAfter, TokensAfter, MarkAfter, Tokens
<1>. QED
  BY <1>1, <1>2, <1>3, <1>4, <1>5, <1>6 DEF Next, Terminated

LEMMA Inductive ==
  ASSUME Method # "multirail"
  PROVE  Spec => []IndInv
<1>1. Init => IndInv
  BY InitInv
<1>2. IndInv /\ [Next]_vars => IndInv'
  BY StepInv
<1>. QED
  BY <1>1, <1>2, PTL DEF Spec

-----------------------------------------------------------------------------
(* The theorems.                                                           *)

\* Every variable stays in its type, in every optimistic execution: the
\* reverse handlers of model-net-lp.c never drive a clock, a counter, the
\* random stream or the bytes left of a message below zero.
THEOREM TypeCorrect ==
  ASSUME Method # "multirail"
  PROVE  Spec => []TypeOK
<1>1. IndInv => TypeOK
  BY DEF IndInv
<1>. QED
  BY <1>1, Inductive, PTL

\* model_net_base_event_rc gives back exactly the state in which the event it
\* undoes found the LP, and cancelling what the event sent gives back the loop
\* events there were: for every scheduler, packet size and number of queues.
THEOREM RollbackCorrect ==
  ASSUME Method # "multirail"
  PROVE  Spec => []RollbackRestores
<1>1. IndInv => RollbackRestores
  <2> SUFFICES ASSUME IndInv, log # << >>
               PROVE  /\ base_event_rc(ns, LastOf(log)) = LastOf(log).before
                      /\ Tokens((pending \ LastOf(log).sent) \cup {LastOf(log).ev})
                           = LastOf(log).tokens
    BY DEF RollbackRestores
  <2> DEFINE n == Len(log)
             x == log[n]
  <2>1. n \in Nat \ {0}
    BY TypeFacts, EmptySeq DEF IndInv
  <2>2. EntryOK(x, ns, Tokens(pending), Len(trace))
    <3>1. n \in 1 .. n
      BY <2>1
    <3>. QED
      BY <3>1 DEF IndInv, StateAfter, TokensAfter, MarkAfter
  <2>3. LastOf(log) = x
    BY DEF LastOf
  <2> HIDE DEF x
  <2>4. Tokens((pending \ x.sent) \cup {x.ev}) = (Tokens(pending) \ x.sent) \cup Tokens({x.ev})
    BY DEF Tokens
  <2>. QED
    BY <2>2, <2>3, <2>4 DEF EntryOK
<1>. QED
  BY <1>1, Inductive, PTL

\* A queue whose scheduler loop is not running holds no request, also after
\* rollbacks.  handle_new_msg, which lets handle_sched_next overwrite the rc
\* record of the event it is processing, depends on it.
THEOREM IdleQueuesAreEmpty ==
  ASSUME Method # "multirail"
  PROVE  Spec => []IdleQueueIsEmpty
<1>1. IndInv => IdleQueueIsEmpty
  BY DEF IndInv, StateOK, IdleQueueIsEmpty
<1>. QED
  BY <1>1, Inductive, PTL

\* As long as the flags of recycled events read as zero, in_sched_send_loop and
\* in_sched_recv_loop are set exactly when one event is under way that continues
\* the loop of the queue.
THEOREM LoopFlagsAreTrue ==
  ASSUME Method # "multirail", FlagsClear
  PROVE  Spec => []OneLoopPerQueue
<1>1. IndInv => OneLoopPerQueue
  <2> SUFFICES ASSUME IndInv, NEW q \in Queues
               PROVE  IF ns.in_loop[q] THEN \E e \in Wakeup(q) : Wakeup(q) = {e}
                                       ELSE Wakeup(q) = {}
    BY DEF OneLoopPerQueue
  <2>1. LoopOK(ns, Tokens(pending)) /\ pending \subseteq Event
    BY DEF IndInv, TypeOK
  <2>2. \A e : e \in Wakeup(q) <=> e \in Tokens(pending) /\ e.q = q
    <3>1. \A e \in pending : e.type # "NEW_MSG" <=> e.type \in {"SCHED_NEXT", "PASS"}
      BY <2>1 DEF Event
    <3>2. \A e \in Tokens(pending) : ~e.created_in_surrogate
      BY <2>1 DEF LoopOK
    <3>. QED
      BY <3>1, <3>2 DEF Wakeup, Tokens
  <2>3. CASE ns.in_loop[q]
    <3>1. PICK t \in Tokens(pending) : t.q = q
      BY <2>1, <2>3 DEF LoopOK
    <3>2. Wakeup(q) = {t}
      BY <3>1, <2>1, <2>2 DEF LoopOK
    <3>. QED
      BY <2>3, <3>2
  <2>4. CASE ~ns.in_loop[q]
    BY <2>1, <2>2, <2>4 DEF LoopOK
  <2>. QED
    BY <2>3, <2>4
<1>. QED
  BY <1>1, Inductive, PTL

\* ... and then no request that waits in a scheduler is ever forgotten.
THEOREM NoRequestIsStranded ==
  ASSUME Method # "multirail", FlagsClear
  PROVE  Spec => []NoStrandedRequest
<1>1. OneLoopPerQueue /\ IdleQueueIsEmpty => NoStrandedRequest
  BY DEF OneLoopPerQueue, IdleQueueIsEmpty, NoStrandedRequest
<1>. QED
  BY <1>1, LoopFlagsAreTrue, IdleQueuesAreEmpty, PTL

-----------------------------------------------------------------------------
(* The optimistic execution implements the sequential one: whatever was    *)
(* speculated, rolled back, withdrawn and executed again, the committed    *)
(* events, the LP's state behind them and what it did are those of an      *)
(* execution of ModelNetSeq.                                               *)
(*                                                                         *)
(* The sequential state is the one before the oldest event that is not     *)
(* committed.  So a commit is a sequential step, and everything else       *)
(* leaves the sequential state alone.  What is needed for that is where    *)
(* events come from (Provenance): that no event is there twice, that what  *)
(* an uncommitted event sent is still there, to be processed or processed, *)
(* and was sent by nobody else; that the list of processed events is in    *)
(* timestamp order; and that each of its entries holds an outcome of the   *)
(* handler (EntryDone).                                                    *)

-----------------------------------------------------------------------------
(* The handlers of both specifications are the same.                       *)

Outcomes(s, e, n) ==
  CASE e.type = "PASS" -> {method_idle(s, e, n)}
    [] e.type = "SCHED_NEXT" ->
         (IF e.created_in_surrogate THEN {Nothing(s)}
          ELSE IF sched_empty(s.sched[e.q]) THEN {sched_next_finish(s, e.q, NoRc)}
          ELSE sched_next_issue(s, e.q, e.ts, NoRc, n))
    [] e.type = "NEW_MSG" ->
         (IF Req[e.m].loopback THEN {new_msg_local(s, e)}
          ELSE IF e.isQueueReq THEN {new_msg_nic(s, e, n)}
          ELSE IF s.in_loop[e.q] THEN {new_msg_queue(s, e)}
          ELSE new_msg_start(s, e, n))

LEMMA SameIssue ==
  ASSUME NEW s, NEW q, NEW ts, NEW rc, NEW n
  PROVE  Sequential!sched_next_issue(s, q, ts, rc, n) = sched_next_issue(s, q, ts, rc, n)
  BY DEF sched_next_issue, Sequential!sched_next_issue, sched_next_pkt, Sequential!sched_next_pkt,
         NextLevel, Sequential!NextLevel, Busy, Sequential!Busy, Levels, Sequential!Levels,
         NextPacket, Sequential!NextPacket, is_last_packet, Sequential!is_last_packet,
         sched_next, Sequential!sched_next, Draws, Sequential!Draws, NoBits, Sequential!NoBits,
         QueueNext, Sequential!QueueNext, Discipline, Sequential!Discipline,
         rr_next, Sequential!rr_next, fcfs_next, Sequential!fcfs_next,
         RotateBack, Sequential!RotateBack, sched_next_rcrec, Sequential!sched_next_rcrec,
         sched_empty, Sequential!sched_empty, NextRtn, Sequential!NextRtn,
         Did, Sequential!Did, Wakeups, Sequential!Wakeups,
         codes_local_latency, Sequential!codes_local_latency,
         SchedNext, Sequential!SchedNext, Pass, Sequential!Pass

LEMMA SameEmpty ==
  ASSUME NEW s
  PROVE  Sequential!sched_empty(s) = sched_empty(s)
  BY DEF sched_empty, Sequential!sched_empty, Busy, Sequential!Busy, Levels, Sequential!Levels

LEMMA SameRecords ==
  /\ Sequential!NoRc = NoRc
  /\ \A s : Sequential!Nothing(s) = Nothing(s)
  /\ \A m : Sequential!Whole(m) = Whole(m)
  /\ \A m, rc : Sequential!sched_add_rcrec(m, rc) = sched_add_rcrec(m, rc)
  /\ \A m : Sequential!queue_of(m) = queue_of(m)
  /\ \A s, e : Sequential!Queued(s, e) = Queued(s, e)
<1>1. Sequential!NoRc = NoRc
  BY DEF NoRc, Sequential!NoRc
<1>2. ASSUME NEW s PROVE Sequential!Nothing(s) = Nothing(s)
  BY DEF Nothing, Sequential!Nothing, NoBits, Sequential!NoBits, NoRc, Sequential!NoRc
<1>3. ASSUME NEW m PROVE Sequential!Whole(m) = Whole(m)
  BY DEF Whole, Sequential!Whole
<1>4. ASSUME NEW m, NEW rc PROVE Sequential!sched_add_rcrec(m, rc) = sched_add_rcrec(m, rc)
  BY DEF sched_add_rcrec, Sequential!sched_add_rcrec, prio_of, Sequential!prio_of
<1>5. ASSUME NEW m PROVE Sequential!queue_of(m) = queue_of(m)
  BY DEF queue_of, Sequential!queue_of, RecvQueue, Sequential!RecvQueue,
         servers_per_node, Sequential!servers_per_node, AtLeastOne, Sequential!AtLeastOne
<1>6. ASSUME NEW s, NEW e PROVE Sequential!Queued(s, e) = Queued(s, e)
  BY DEF Queued, Sequential!Queued, sched_add, Sequential!sched_add, prio_of, Sequential!prio_of,
         fcfs_add, Sequential!fcfs_add, queue_of, Sequential!queue_of,
         RecvQueue, Sequential!RecvQueue, servers_per_node, Sequential!servers_per_node,
         AtLeastOne, Sequential!AtLeastOne
<1>. QED
  BY <1>1, <1>2, <1>3, <1>4, <1>5, <1>6

LEMMA SameHandlers ==
  ASSUME NEW s, NEW e, NEW n
  PROVE  /\ Sequential!method_idle(s, e, n) = method_idle(s, e, n)
         /\ Sequential!sched_next_finish(s, e.q, NoRc) = sched_next_finish(s, e.q, NoRc)
         /\ Sequential!new_msg_local(s, e) = new_msg_local(s, e)
         /\ Sequential!new_msg_nic(s, e, n) = new_msg_nic(s, e, n)
         /\ Sequential!new_msg_queue(s, e) = new_msg_queue(s, e)
         /\ Sequential!new_msg_start(s, e, n) = new_msg_start(s, e, n)
<1>1. Sequential!method_idle(s, e, n) = method_idle(s, e, n)
  BY DEF method_idle, Sequential!method_idle, IdleQueues, Sequential!IdleQueues,
         SendQueues, Sequential!SendQueues, SchedNext, Sequential!SchedNext,
         Nothing, Sequential!Nothing, NoBits, Sequential!NoBits, NoRc, Sequential!NoRc
<1>2. Sequential!sched_next_finish(s, e.q, NoRc) = sched_next_finish(s, e.q, NoRc)
  BY DEF sched_next_finish, Sequential!sched_next_finish, NextLevel, Sequential!NextLevel,
         sched_next_rcrec, Sequential!sched_next_rcrec, NextRtn, Sequential!NextRtn,
         is_last_packet, Sequential!is_last_packet,
         sched_empty, Sequential!sched_empty, Busy, Sequential!Busy, Levels, Sequential!Levels,
         Nothing, Sequential!Nothing, NoBits, Sequential!NoBits, NoRc, Sequential!NoRc
<1>3. Sequential!new_msg_local(s, e) = new_msg_local(s, e)
  BY DEF new_msg_local, Sequential!new_msg_local, copy_queue, Sequential!copy_queue,
         servers_per_node_queue, Sequential!servers_per_node_queue,
         AtLeastOne, Sequential!AtLeastOne, Later, Sequential!Later,
         Did, Sequential!Did, Whole, Sequential!Whole,
         Nothing, Sequential!Nothing, NoBits, Sequential!NoBits, NoRc, Sequential!NoRc
<1>4. Sequential!new_msg_nic(s, e, n) = new_msg_nic(s, e, n)
  BY DEF new_msg_nic, Sequential!new_msg_nic, Later, Sequential!Later,
         codes_local_latency, Sequential!codes_local_latency, NewMsg, Sequential!NewMsg,
         queue_of, Sequential!queue_of, RecvQueue, Sequential!RecvQueue,
         servers_per_node, Sequential!servers_per_node, AtLeastOne, Sequential!AtLeastOne,
         Did, Sequential!Did, Whole, Sequential!Whole,
         Nothing, Sequential!Nothing, NoBits, Sequential!NoBits, NoRc, Sequential!NoRc
<1>5. Sequential!new_msg_queue(s, e) = new_msg_queue(s, e)
  BY SameRecords DEF new_msg_queue, Sequential!new_msg_queue, Did, Sequential!Did
<1>6. Sequential!new_msg_start(s, e, n) = new_msg_start(s, e, n)
  BY SameRecords, SameIssue DEF new_msg_start, Sequential!new_msg_start, Did, Sequential!Did
<1>. QED
  BY <1>1, <1>2, <1>3, <1>4, <1>5, <1>6

LEMMA SameOutcomes ==
  ASSUME NEW s, NEW e, NEW n
  PROVE  Sequential!Outcomes(s, e, n) = Outcomes(s, e, n)
  BY SameHandlers, SameIssue, SameEmpty, SameRecords DEF Sequential!Outcomes, Outcomes

-----------------------------------------------------------------------------
(* What handling an event amounts to.                                      *)

LEMMA SentBy ==
  ASSUME NEW s, NEW e \in Event, NEW n, NEW o \in Outcomes(s, e, n)
  PROVE  \A f \in o.sent : f.src = n
<1>1. ASSUME NEW q, NEW ts, NEW w \in Wakeups(s, q, ts, n) PROVE \A f \in w : f.src = n
  BY DEF Wakeups, SchedNext, Pass
<1>2. ASSUME NEW t, NEW q, NEW ts, NEW rc, NEW p \in sched_next_issue(t, q, ts, rc, n)
      PROVE  \A f \in p.sent : f.src = n
  <2>1. PICK w \in Wakeups(t, q, ts, n) : p.sent = w
    BY DEF sched_next_issue
  <2>. QED
    BY <2>1 DEF Wakeups, SchedNext, Pass
<1>3. CASE e.type = "PASS"
  <2>1. o = method_idle(s, e, n)
    BY <1>3 DEF Outcomes
  <2>2. o.sent = {SchedNext(j, e.ts + IdleDelay, n, FALSE) : j \in IdleQueues(e.q)}
    BY <2>1 DEF method_idle, Nothing
  <2>. QED
    BY <2>2 DEF SchedNext
<1>4. CASE e.type = "SCHED_NEXT"
  <2>1. CASE e.created_in_surrogate
    <3>1. o = Nothing(s)
      BY <1>4, <2>1 DEF Outcomes
    <3>. QED
      BY <3>1 DEF Nothing
  <2>2. CASE ~e.created_in_surrogate /\ sched_empty(s.sched[e.q])
    <3>1. o = sched_next_finish(s, e.q, NoRc)
      BY <1>4, <2>2 DEF Outcomes
    <3>2. o.sent = {}
      BY <3>1 DEF sched_next_finish, Nothing
    <3>. QED
      BY <3>2
  <2>3. CASE ~e.created_in_surrogate /\ ~sched_empty(s.sched[e.q])
    <3>1. o \in sched_next_issue(s, e.q, e.ts, NoRc, n)
      BY <1>4, <2>3 DEF Outcomes
    <3>. QED
      BY <3>1, <1>2
  <2>. QED
    BY <2>1, <2>2, <2>3
<1>5. CASE e.type = "NEW_MSG"
  <2>1. CASE Req[e.m].loopback
    <3>1. o = new_msg_local(s, e)
      BY <1>5, <2>1 DEF Outcomes
    <3>2. o.sent = {}
      BY <3>1 DEF new_msg_local, Nothing
    <3>. QED
      BY <3>2
  <2>2. CASE ~Req[e.m].loopback /\ e.isQueueReq
    <3>1. o = new_msg_nic(s, e, n)
      BY <1>5, <2>2 DEF Outcomes
    <3> DEFINE free == Later(s.next_avail, e.ts) + NicSeqDelay + codes_local_latency(s.rng)
    <3>2. o.sent = {NewMsg(e.m, free, n, FALSE)}
      BY <3>1 DEF new_msg_nic, Nothing
    <3>. QED
      BY <3>2 DEF NewMsg
  <2>3. CASE ~Req[e.m].loopback /\ ~e.isQueueReq /\ s.in_loop[e.q]
    <3>1. o = new_msg_queue(s, e)
      BY <1>5, <2>3 DEF Outcomes
    <3>2. o.sent = {}
      BY <3>1 DEF new_msg_queue, Nothing
    <3>. QED
      BY <3>2
  <2>4. CASE ~Req[e.m].loopback /\ ~e.isQueueReq /\ ~s.in_loop[e.q]
    <3>1. o \in new_msg_start(s, e, n)
      BY <1>5, <2>4 DEF Outcomes
    <3> DEFINE q == queue_of(e.m)
               t == [Queued(s, e) EXCEPT !.in_loop[q] = TRUE]
    <3>2. PICK p \in sched_next_issue(t, q, e.ts, sched_add_rcrec(e.m, NoRc), n) :
            o = [p EXCEPT !.bf.c30 = TRUE, !.bf.c31 = TRUE,
                          !.did = <<Did("queued", q, e.ts, Whole(e.m))>> \o @]
      BY <3>1 DEF new_msg_start
    <3>3. "sent" \in DOMAIN p
      BY <3>2 DEF sched_next_issue
    <3>4. o.sent = p.sent
      BY <3>2, <3>3
    <3>. QED
      BY <1>2, <3>2, <3>4
  <2>. QED
    BY <2>1, <2>2, <2>3, <2>4
<1>. QED
  BY <1>3, <1>4, <1>5 DEF Event

LEMMA Handled ==
  ASSUME Method # "multirail", IndInv, HandleEvent
  PROVE  \E e \in pending : \E o \in Outcomes(ns, e, Step) :
           Ready(e) /\ OutcomeOK(ns, e, o) /\ Process(e, o)
<1>1. PICK e \in pending :
        \/ NewMsgLocal(e) \/ NewMsgNic(e) \/ NewMsgQueue(e) \/ NewMsgStart(e)
        \/ SchedNextIssue(e) \/ SchedNextFinish(e) \/ SchedNextDrop(e)
        \/ MethodIdle(e)
  BY DEF HandleEvent
<1> DEFINE T == Tokens(pending)
<1>2. /\ ns \in State /\ StateOK(ns) /\ e \in Event /\ EventOK(e) /\ Step \in Nat \ {0}
      /\ LoopOK(ns, T) /\ e.q \in Queues /\ e.ts \in Nat
  BY TypeFacts, TokensFacts DEF IndInv, Event
<1>3. e.type # "NEW_MSG" => ns.in_loop[e.q]
  BY <1>2, TokensFacts DEF LoopOK
<1> HIDE DEF T
<1> SUFFICES \E o \in Outcomes(ns, e, Step) : Ready(e) /\ OutcomeOK(ns, e, o) /\ Process(e, o)
  OBVIOUS
<1>4. CASE NewMsgLocal(e)
  <2> DEFINE o == new_msg_local(ns, e)
  <2>1. e.type = "NEW_MSG" /\ Ready(e) /\ Req[e.m].loopback /\ Process(e, o)
    BY <1>4 DEF NewMsgLocal, ReadyNewMsg
  <2>2. OutcomeOK(ns, e, o)
    BY <1>2, <2>1, LocalOutcome
  <2>3. o \in Outcomes(ns, e, Step)
    BY <2>1 DEF Outcomes
  <2>. QED
    BY <2>1, <2>2, <2>3
<1>5. CASE NewMsgNic(e)
  <2> DEFINE o == new_msg_nic(ns, e, Step)
  <2>1. e.type = "NEW_MSG" /\ Ready(e) /\ ~Req[e.m].loopback /\ e.isQueueReq /\ Process(e, o)
    BY <1>5 DEF NewMsgNic, ReadyNewMsg
  <2>2. OutcomeOK(ns, e, o)
    BY <1>2, <2>1, NicOutcome
  <2>3. o \in Outcomes(ns, e, Step)
    BY <2>1 DEF Outcomes
  <2>. QED
    BY <2>1, <2>2, <2>3
<1>6. CASE NewMsgQueue(e)
  <2> DEFINE o == new_msg_queue(ns, e)
  <2>1. /\ e.type = "NEW_MSG" /\ Ready(e) /\ ~Req[e.m].loopback /\ ~e.isQueueReq
        /\ ns.in_loop[e.q] /\ Process(e, o)
    BY <1>6 DEF NewMsgQueue, ReadyNewMsg
  <2>2. OutcomeOK(ns, e, o)
    BY <1>2, <2>1, QueueOutcome
  <2>3. o \in Outcomes(ns, e, Step)
    BY <2>1 DEF Outcomes
  <2>. QED
    BY <2>1, <2>2, <2>3
<1>7. CASE NewMsgStart(e)
  <2>1. /\ e.type = "NEW_MSG" /\ Ready(e) /\ ~Req[e.m].loopback /\ ~e.isQueueReq
        /\ ~ns.in_loop[e.q]
    BY <1>7 DEF NewMsgStart, ReadyNewMsg
  <2>2. PICK o \in new_msg_start(ns, e, Step) : Process(e, o)
    BY <1>7 DEF NewMsgStart
  <2>3. OutcomeOK(ns, e, o)
    BY <1>2, <2>1, StartOutcome
  <2>4. o \in Outcomes(ns, e, Step)
    BY <2>1 DEF Outcomes
  <2>. QED
    BY <2>1, <2>2, <2>3, <2>4
<1>8. CASE SchedNextIssue(e)
  <2>1. /\ e.type = "SCHED_NEXT" /\ Ready(e) /\ ~e.created_in_surrogate
        /\ ~sched_empty(ns.sched[e.q])
    BY <1>8 DEF SchedNextIssue, ReadySchedNext
  <2>2. PICK o \in sched_next_issue(ns, e.q, e.ts, NoRc, Step) : Process(e, o)
    BY <1>8 DEF SchedNextIssue
  <2>3. OutcomeOK(ns, e, o)
    BY <1>2, <1>3, <2>1, IssueOutcome
  <2>4. o \in Outcomes(ns, e, Step)
    BY <2>1 DEF Outcomes
  <2>. QED
    BY <2>1, <2>2, <2>3, <2>4
<1>9. CASE SchedNextFinish(e)
  <2> DEFINE o == sched_next_finish(ns, e.q, NoRc)
  <2>1. /\ e.type = "SCHED_NEXT" /\ Ready(e) /\ ~e.created_in_surrogate
        /\ sched_empty(ns.sched[e.q]) /\ Process(e, o)
    BY <1>9 DEF SchedNextFinish, ReadySchedNext
  <2>2. OutcomeOK(ns, e, o)
    BY <1>2, <1>3, <2>1, FinishOutcome
  <2>3. o \in Outcomes(ns, e, Step)
    BY <2>1 DEF Outcomes
  <2>. QED
    BY <2>1, <2>2, <2>3
<1>10. CASE SchedNextDrop(e)
  <2> DEFINE o == Nothing(ns)
  <2>1. e.type = "SCHED_NEXT" /\ Ready(e) /\ e.created_in_surrogate /\ Process(e, o)
    BY <1>10 DEF SchedNextDrop, ReadySchedNext
  <2>2. OutcomeOK(ns, e, o)
    BY <1>2, <2>1, DropOutcome
  <2>3. o \in Outcomes(ns, e, Step)
    BY <2>1 DEF Outcomes
  <2>. QED
    BY <2>1, <2>2, <2>3
<1>11. CASE MethodIdle(e)
  <2> DEFINE o == method_idle(ns, e, Step)
  <2>1. e.type = "PASS" /\ Ready(e) /\ Process(e, o)
    BY <1>11 DEF MethodIdle
  <2>2. OutcomeOK(ns, e, o)
    BY <1>2, <2>1, IdleOutcome
  <2>3. o \in Outcomes(ns, e, Step)
    BY <2>1 DEF Outcomes
  <2>. QED
    BY <2>1, <2>2, <2>3
<1>. QED
  BY <1>1, <1>4, <1>5, <1>6, <1>7, <1>8, <1>9, <1>10, <1>11

-----------------------------------------------------------------------------
(* The invariant.                                                          *)

\* the events of this LP that are still to come, or not committed
Around == pending \cup {log[i].ev : i \in 1 .. Len(log)}

\* e is as another LP may send it
External(e) ==
  \E m \in Msgs, ts \in Times : \E isq \in ArrivalFlags(m) : e = NewMsg(m, ts, 0, isq)

\* who sent an event, and what became of the events sent
SourceInv ==
  /\ \A e \in Around : e.src <= committed + Len(log)
  /\ \A i \in 1 .. Len(log) : log[i].ev.src < committed + i
  /\ \A i \in 1 .. Len(log) : \A e \in Around : e.src = committed + i => e \in log[i].sent
  /\ \A i \in 1 .. Len(log) : \A f \in log[i].sent :
       /\ f.src = committed + i
       /\ f \in pending \/ \E j \in 1 .. Len(log) : i < j /\ f = log[j].ev

\* no event is there twice, and no message
OnceInv ==
  /\ \A i \in 1 .. Len(log) : log[i].ev \notin pending
  /\ \A i, j \in 1 .. Len(log) : log[i].ev = log[j].ev => i = j
  /\ \A e \in Around : e.src = 0 => External(e) /\ e.m \in arrived
  /\ \A e, f \in Around : e.src = 0 /\ f.src = 0 /\ e.m = f.m => e = f

OrderInv ==
  /\ \A i \in 1 .. Len(log) : gvt <= log[i].ev.ts /\ log[i].mark <= Len(trace)
  /\ \A i, j \in 1 .. Len(log) :
       i < j => log[i].ev.ts <= log[j].ev.ts /\ log[i].mark <= log[j].mark

\* entry x, the n-th event, led to state s and to a trace of length k
EntryDone(x, s, n, k, tr) ==
  \E o \in Outcomes(x.before, x.ev, n) :
    /\ s = o.ns /\ x.sent = o.sent /\ o.did \in Seq(Did_)
    /\ k = x.mark + Len(o.did)
    /\ \A p \in 1 .. Len(o.did) : tr[x.mark + p] = o.did[p]

DoneInv ==
  \A i \in 1 .. Len(log) :
    EntryDone(log[i], StateAfter(i), committed + i, MarkAfter(i), trace)

RefInv == SourceInv /\ OnceInv /\ OrderInv /\ DoneInv

LEMMA AroundFacts ==
  ASSUME IndInv
  PROVE  /\ pending \subseteq Around /\ \A i \in 1 .. Len(log) : log[i].ev \in Around
         /\ \A e \in Around : e \in pending \/ \E i \in 1 .. Len(log) : e = log[i].ev
         /\ \A e \in Around : e \in Event /\ e.src \in Nat /\ e.ts \in Nat
         /\ \A i \in 1 .. Len(log) : log[i] \in Entry /\ log[i].mark \in Nat
                                     /\ log[i].ev \in Event /\ log[i].ev.ts \in Nat
<1>1. log \in Seq(Entry) /\ pending \subseteq Event
  BY DEF IndInv, TypeOK
<1>2. \A i \in 1 .. Len(log) : log[i] \in Entry
  BY <1>1, ElementOfSeq
<1>3. \A e \in Event : e.src \in Nat /\ e.ts \in Nat
  BY DEF Event
<1>4. \A i \in 1 .. Len(log) : log[i].mark \in Nat /\ log[i].ev \in Event
  BY <1>2 DEF Entry
<1>5. \A e \in Around : e \in pending \/ \E i \in 1 .. Len(log) : e = log[i].ev
  BY DEF Around
<1>6. pending \subseteq Around /\ \A i \in 1 .. Len(log) : log[i].ev \in Around
  BY DEF Around
<1>7. Around \subseteq Event
  BY <1>1, <1>4, <1>5
<1>. QED
  BY <1>2, <1>3, <1>4, <1>5, <1>6, <1>7

\* the log after an event e with outcome o
LEMMA ProcessFacts ==
  ASSUME IndInv, NEW e \in pending, NEW o, OutcomeOK(ns, e, o), Process(e, o)
  PROVE  /\ Len(log) \in Nat /\ committed \in Nat /\ Len(trace) \in Nat /\ gvt \in Nat
         /\ log' \in Seq(Entry) /\ Len(log') = Len(log) + 1
         /\ \A i \in 1 .. Len(log) : log'[i] = log[i]
         /\ log'[Len(log) + 1].ev = e /\ log'[Len(log) + 1].before = ns
         /\ log'[Len(log) + 1].mark = Len(trace) /\ log'[Len(log) + 1].sent = o.sent
         /\ ns' = o.ns /\ pending' = (pending \ {e}) \cup o.sent
         /\ Len(o.did) \in Nat /\ o.did \in Seq(Did_)
         /\ trace' \in Seq(Did_) /\ Len(trace') = Len(trace) + Len(o.did)
         /\ \A p \in 1 .. Len(trace) : trace'[p] = trace[p]
         /\ \A p \in 1 .. Len(o.did) : trace'[Len(trace) + p] = o.did[p]
         /\ UNCHANGED <<arrived, committed, gvt, rollbacks>>
<1> DEFINE x == [ev |-> e, bf |-> o.bf, rc |-> o.rc, save_ts |-> o.save_ts,
                 sent |-> o.sent, before |-> ns, tokens |-> Tokens(pending),
                 mark |-> Len(trace)]
<1>1. /\ ns \in State /\ pending \subseteq Event /\ log \in Seq(Entry)
      /\ trace \in Seq(Did_) /\ Len(log) \in Nat /\ Len(trace) \in Nat /\ e \in Event
      /\ committed \in Nat /\ gvt \in Nat
  BY TypeFacts DEF IndInv
<1>2. /\ ns' = o.ns /\ pending' = (pending \ {e}) \cup o.sent
      /\ log' = Append(log, x) /\ trace' = trace \o o.did
      /\ UNCHANGED <<arrived, committed, gvt, rollbacks>>
  BY DEF Process
<1>3. /\ o.ns \in State /\ o.bf \in Bits /\ o.rc \in Rc /\ o.save_ts \in Nat
      /\ o.sent \subseteq Event /\ o.did \in Seq(Did_)
  BY DEF OutcomeOK
<1>4. x.ev = e /\ x.sent = o.sent /\ x.before = ns /\ x.mark = Len(trace)
  OBVIOUS
<1>5. x \in Entry
  <2>1. Tokens(pending) \subseteq Event
    BY <1>1 DEF Tokens
  <2>. QED
    BY <2>1, <1>1, <1>3 DEF Entry, Bits
<1> HIDE DEF x
<1>6. /\ log' \in Seq(Entry) /\ Len(log') = Len(log) + 1
      /\ (\A i \in 1 .. Len(log) : log'[i] = log[i]) /\ log'[Len(log) + 1] = x
  BY <1>1, <1>2, <1>5, AppendProperties
<1>7. trace' \in Seq(Did_) /\ Len(trace') = Len(trace) + Len(o.did) /\ Len(o.did) \in Nat
  BY <1>1, <1>2, <1>3, ConcatProperties, LenProperties
<1>8. /\ \A p \in 1 .. Len(trace) : trace'[p] = trace[p]
      /\ \A p \in 1 .. Len(o.did) : trace'[Len(trace) + p] = o.did[p]
  <2>1. \A p \in 1 .. (Len(trace) + Len(o.did)) :
          trace'[p] = IF p <= Len(trace) THEN trace[p] ELSE o.did[p - Len(trace)]
    BY <1>1, <1>2, <1>3, ConcatProperties
  <2>2. ASSUME NEW p \in 1 .. Len(o.did) PROVE trace'[Len(trace) + p] = o.did[p]
    <3>1. /\ Len(trace) + p \in 1 .. (Len(trace) + Len(o.did))
          /\ ~(Len(trace) + p <= Len(trace)) /\ (Len(trace) + p) - Len(trace) = p
      BY <1>1, <1>7
    <3>. QED
      BY <2>1, <3>1
  <2>3. ASSUME NEW p \in 1 .. Len(trace) PROVE trace'[p] = trace[p]
    <3>1. p \in 1 .. (Len(trace) + Len(o.did)) /\ p <= Len(trace)
      BY <1>1, <1>7
    <3>. QED
      BY <2>1, <3>1
  <2>. QED
    BY <2>2, <2>3
<1>. QED
  BY <1>1, <1>2, <1>3, <1>4, <1>6, <1>7, <1>8

\* the log after the last event was undone
LEMMA UndoFacts ==
  ASSUME IndInv, Undo, NEW x, x = log[Len(log)]
  PROVE  /\ Len(log) \in Nat \ {0} /\ committed \in Nat /\ Len(trace) \in Nat /\ gvt \in Nat
         /\ log' \in Seq(Entry) /\ Len(log') = Len(log) - 1
         /\ \A i \in 1 .. (Len(log) - 1) : log'[i] = log[i]
         /\ ns' = x.before /\ pending' = (pending \ x.sent) \cup {x.ev}
         /\ x.mark \in 0 .. Len(trace)
         /\ trace \in Seq(Did_) /\ trace' = SubSeq(trace, 1, x.mark)
         /\ trace' \in Seq(Did_) /\ Len(trace') = x.mark
         /\ \A p \in 1 .. x.mark : trace'[p] = trace[p]
         /\ UNCHANGED <<arrived, committed, gvt>>
<1> DEFINE n == Len(log)
<1>1. /\ log \in Seq(Entry) /\ n \in Nat \ {0} /\ trace \in Seq(Did_) /\ Len(trace) \in Nat
      /\ pending \subseteq Event /\ log # << >> /\ committed \in Nat /\ gvt \in Nat
  BY TypeFacts, EmptySeq DEF IndInv, Undo
<1>2. x \in Entry
  BY <1>1, ElementOfSeq
<1>3. /\ ns' = base_event_rc(ns, x) /\ pending' = (pending \ x.sent) \cup {x.ev}
      /\ trace' = SubSeq(trace, 1, x.mark) /\ log' = AllButLast(log)
      /\ UNCHANGED <<arrived, committed, gvt>>
  BY DEF Undo, LastOf
<1>4. EntryOK(x, ns, Tokens(pending), Len(trace))
  <2>1. n \in 1 .. n
    BY <1>1
  <2>. QED
    BY <2>1 DEF IndInv, StateAfter, TokensAfter, MarkAfter
<1>5. x.mark \in Nat /\ x.mark <= Len(trace) /\ base_event_rc(ns, x) = x.before
  BY <1>2, <1>4 DEF Entry, EntryOK
<1>6. /\ log' \in Seq(Entry) /\ Len(log') = n - 1
      /\ \A i \in 1 .. (n - 1) : log'[i] = log[i]
  BY <1>1, <1>3, PopBackProperties
<1>7. trace' \in Seq(Did_) /\ Len(trace') = x.mark /\ \A p \in 1 .. x.mark : trace'[p] = trace[p]
  <2>1. \A i \in 1 .. x.mark : trace[i] \in Did_
    BY <1>1, <1>5, ElementOfSeq
  <2>2. /\ SubSeq(trace, 1, x.mark) \in Seq(Did_)
        /\ Len(SubSeq(trace, 1, x.mark)) = (IF 1 <= x.mark THEN x.mark - 1 + 1 ELSE 0)
        /\ \A i \in 1 .. (x.mark - 1 + 1) : SubSeq(trace, 1, x.mark)[i] = trace[1 + i - 1]
    BY <2>1, <1>5, SubSeqProperties
  <2>3. \A i \in 1 .. x.mark : i \in 1 .. (x.mark - 1 + 1) /\ 1 + i - 1 = i
    BY <1>5
  <2>. QED
    BY <2>2, <2>3, <1>3, <1>5
<1>. QED
  BY <1>1, <1>3, <1>5, <1>6, <1>7

-----------------------------------------------------------------------------
(* An event is processed.                                                  *)

LEMMA ProcessAround ==
  ASSUME IndInv, NEW e \in pending, NEW o, OutcomeOK(ns, e, o), Process(e, o)
  PROVE  Around' = Around \cup o.sent
<1> DEFINE n == Len(log)
<1>1. /\ n \in Nat /\ Len(log') = n + 1 /\ log'[n + 1].ev = e
      /\ \A i \in 1 .. n : log'[i] = log[i]
      /\ pending' = (pending \ {e}) \cup o.sent
  BY ProcessFacts
<1>2. ASSUME NEW f PROVE f \in Around' <=> f \in pending' \/ \E i \in 1 .. (n + 1) : f = log'[i].ev
  BY <1>1 DEF Around
<1>3. ASSUME NEW f PROVE f \in Around <=> f \in pending \/ \E i \in 1 .. n : f = log[i].ev
  BY DEF Around
<1>4. ASSUME NEW f PROVE (\E i \in 1 .. (n + 1) : f = log'[i].ev) <=> f = e \/ \E i \in 1 .. n : f = log[i].ev
  <2>1. \A i \in 1 .. (n + 1) : i = n + 1 \/ i \in 1 .. n
    BY <1>1
  <2>2. n + 1 \in 1 .. (n + 1) /\ 1 .. n \subseteq 1 .. (n + 1)
    BY <1>1
  <2> HIDE DEF n
  <2>. QED
    BY <1>1, <2>1, <2>2
<1>. QED
  BY <1>1, <1>2, <1>3, <1>4

LEMMA ProcessSource ==
  ASSUME IndInv, RefInv, NEW e \in pending, NEW o, OutcomeOK(ns, e, o), Process(e, o),
         \A f \in o.sent : f.src = Step
  PROVE  SourceInv'
<1> DEFINE n == Len(log)
<1>1. /\ n \in Nat /\ committed \in Nat /\ Len(log') = n + 1
      /\ \A i \in 1 .. n : log'[i] = log[i]
      /\ log'[n + 1].ev = e /\ log'[n + 1].sent = o.sent
      /\ pending' = (pending \ {e}) \cup o.sent /\ committed' = committed
  BY ProcessFacts
<1>2. Around' = Around \cup o.sent
  BY ProcessAround
<1>3. \A f \in o.sent : f.src = committed + n + 1
  BY DEF Step
<1>4. SourceInv /\ e \in Around /\ \A f \in Around : f.src \in Nat
  BY AroundFacts DEF RefInv
<1> HIDE DEF n
<1>5. \A f \in Around : f.src <= committed + n
  BY <1>4 DEF SourceInv, n
<1>6. \A f \in Around' : f.src <= committed' + Len(log')
  BY <1>1, <1>2, <1>3, <1>4, <1>5
<1>7. ASSUME NEW i \in 1 .. (n + 1)
      PROVE  /\ log'[i].ev.src < committed + i
             /\ \A f \in Around' : f.src = committed + i => f \in log'[i].sent
             /\ \A f \in log'[i].sent :
                  /\ f.src = committed + i
                  /\ f \in pending' \/ \E j \in 1 .. (n + 1) : i < j /\ f = log'[j].ev
  <2>1. CASE i = n + 1
    <3>1. log'[i].ev.src < committed + i
      BY <1>1, <1>4, <1>5, <2>1
    <3>2. \A f \in Around' : f.src = committed + i => f \in log'[i].sent
      BY <1>1, <1>2, <1>4, <1>5, <2>1
    <3>3. \A f \in log'[i].sent : f.src = committed + i /\ f \in pending'
      BY <1>1, <1>3, <2>1
    <3>. QED
      BY <3>1, <3>2, <3>3
  <2>2. CASE i # n + 1
    <3>1. i \in 1 .. n /\ log'[i] = log[i]
      BY <1>1, <2>2
    <3>2. /\ log[i].ev.src < committed + i
          /\ \A f \in Around : f.src = committed + i => f \in log[i].sent
          /\ \A f \in log[i].sent : f.src = committed + i
      BY <1>4, <3>1 DEF SourceInv, n
    <3>3. \A f \in o.sent : f.src # committed + i
      BY <1>1, <1>3, <3>1
    <3>4. ASSUME NEW f \in log[i].sent
          PROVE  f \in pending' \/ \E j \in 1 .. (n + 1) : i < j /\ f = log'[j].ev
      <4>1. f \in pending \/ \E j \in 1 .. n : i < j /\ f = log[j].ev
        BY <1>4, <3>1 DEF SourceInv, n
      <4>2. CASE f = e
        <5>1. n + 1 \in 1 .. (n + 1) /\ i < n + 1
          BY <1>1, <3>1
        <5>. QED
          BY <1>1, <4>2, <5>1
      <4>3. CASE f \in pending /\ f # e
        BY <1>1, <4>3
      <4>4. CASE \E j \in 1 .. n : i < j /\ f = log[j].ev
        <5>1. 1 .. n \subseteq 1 .. (n + 1)
          BY <1>1
        <5>. QED
          BY <1>1, <4>4, <5>1
      <4>. QED
        BY <4>1, <4>2, <4>3, <4>4
    <3>. QED
      BY <1>2, <3>1, <3>2, <3>3, <3>4
  <2>. QED
    BY <2>1, <2>2
<1>. QED
  BY <1>1, <1>6, <1>7 DEF SourceInv

LEMMA ProcessOnce ==
  ASSUME IndInv, RefInv, NEW e \in pending, NEW o, OutcomeOK(ns, e, o), Process(e, o),
         \A f \in o.sent : f.src = Step
  PROVE  OnceInv'
<1> DEFINE n == Len(log)
<1>1. /\ n \in Nat /\ committed \in Nat /\ Len(log') = n + 1
      /\ \A i \in 1 .. n : log'[i] = log[i]
      /\ log'[n + 1].ev = e
      /\ pending' = (pending \ {e}) \cup o.sent /\ arrived' = arrived
  BY ProcessFacts
<1>2. Around' = Around \cup o.sent
  BY ProcessAround
<1>3. \A f \in o.sent : f.src = committed + n + 1
  BY DEF Step
<1>4. /\ SourceInv /\ OnceInv /\ e \in Around /\ \A f \in Around : f.src \in Nat
      /\ \A i \in 1 .. n : log[i].ev \in Around
  BY AroundFacts DEF RefInv
<1> HIDE DEF n
<1>5. \A f \in Around : f \notin o.sent
  BY <1>1, <1>3, <1>4 DEF SourceInv, n
<1>6. \A f \in Around' : f.src = 0 => f \in Around
  BY <1>1, <1>2, <1>3
<1>7. \A i \in 1 .. (n + 1) : log'[i].ev \notin pending'
  <2>1. \A i \in 1 .. (n + 1) : i = n + 1 \/ i \in 1 .. n
    BY <1>1
  <2>2. \A i \in 1 .. n : log[i].ev \notin pending
    BY <1>4 DEF OnceInv, n
  <2>. QED
    BY <1>1, <1>4, <1>5, <2>1, <2>2
<1>8. \A i, j \in 1 .. (n + 1) : log'[i].ev = log'[j].ev => i = j
  <2>1. \A i \in 1 .. (n + 1) : i = n + 1 \/ i \in 1 .. n
    BY <1>1
  <2>2. \A i \in 1 .. n : log[i].ev \notin pending
    BY <1>4 DEF OnceInv, n
  <2>3. \A i, j \in 1 .. n : log[i].ev = log[j].ev => i = j
    BY <1>4 DEF OnceInv, n
  <2>. QED
    BY <1>1, <2>1, <2>2, <2>3
<1>9. \A f \in Around' : f.src = 0 => External(f) /\ f.m \in arrived'
  BY <1>1, <1>4, <1>6 DEF OnceInv
<1>10. \A f, g \in Around' : f.src = 0 /\ g.src = 0 /\ f.m = g.m => f = g
  BY <1>4, <1>6 DEF OnceInv
<1>11. OnceInv' <=> /\ \A i \in 1 .. (n + 1) : log'[i].ev \notin pending'
                    /\ \A i, j \in 1 .. (n + 1) : log'[i].ev = log'[j].ev => i = j
                    /\ \A f \in Around' : f.src = 0 => External(f) /\ f.m \in arrived'
                    /\ \A f, g \in Around' : f.src = 0 /\ g.src = 0 /\ f.m = g.m => f = g
  BY <1>1 DEF OnceInv, External
<1>. QED
  BY <1>7, <1>8, <1>9, <1>10, <1>11

LEMMA ProcessOrder ==
  ASSUME IndInv, RefInv, NEW e \in pending, NEW o, OutcomeOK(ns, e, o), Process(e, o), Ready(e)
  PROVE  OrderInv'
<1> DEFINE n == Len(log)
<1>1. /\ n \in Nat /\ Len(log') = n + 1 /\ Len(trace) \in Nat /\ gvt \in Nat
      /\ \A i \in 1 .. n : log'[i] = log[i]
      /\ log'[n + 1].ev = e /\ log'[n + 1].mark = Len(trace)
      /\ Len(trace') = Len(trace) + Len(o.did) /\ Len(o.did) \in Nat /\ gvt' = gvt
  BY ProcessFacts
<1>2. OrderInv /\ log \in Seq(Entry)
  BY DEF RefInv, IndInv, TypeOK
<1>3. /\ \A i \in 1 .. n : log[i].mark \in Nat /\ log[i].ev.ts \in Nat
      /\ e.ts \in Nat
  BY AroundFacts
<1>4. /\ \A i \in 1 .. n : gvt <= log[i].ev.ts /\ log[i].mark <= Len(trace)
      /\ \A i, j \in 1 .. n : i < j => log[i].ev.ts <= log[j].ev.ts /\ log[i].mark <= log[j].mark
  BY <1>2 DEF OrderInv
<1>5. /\ gvt <= e.ts
      /\ \A i \in 1 .. n : log[i].ev.ts <= e.ts
  <2>1. CASE log = << >>
    <3>1. n = 0 /\ Now = gvt
      BY <2>1, EmptySeq DEF Now
    <3>. QED
      BY <1>1, <1>3, <3>1 DEF Ready
  <2>2. CASE log # << >>
    <3>1. n # 0 /\ Now = log[n].ev.ts
      BY <1>2, <2>2, EmptySeq DEF Now, LastOf
    <3>2. n \in 1 .. n /\ \A i \in 1 .. n : i = n \/ i < n
      BY <1>1, <3>1
    <3>3. log[n].ev.ts <= e.ts
      BY <3>1 DEF Ready
    <3> HIDE DEF n
    <3>4. gvt <= e.ts
      BY <1>1, <1>3, <1>4, <3>2, <3>3
    <3>5. ASSUME NEW i \in 1 .. n PROVE log[i].ev.ts <= e.ts
      BY <1>3, <1>4, <3>2, <3>3
    <3>. QED
      BY <3>4, <3>5
  <2>. QED
    BY <2>1, <2>2
<1> HIDE DEF n
<1>6. \A i \in 1 .. (n + 1) : i = n + 1 \/ i \in 1 .. n
  BY <1>1
<1>7. \A i \in 1 .. (n + 1) : gvt <= log'[i].ev.ts /\ log'[i].mark <= Len(trace')
  <2> TAKE i \in 1 .. (n + 1)
  <2>1. CASE i = n + 1
    BY <1>1, <1>5, <2>1
  <2>2. CASE i \in 1 .. n
    <3>1. log'[i] = log[i] /\ gvt <= log[i].ev.ts /\ log[i].mark <= Len(trace)
          /\ log[i].mark \in Nat
      BY <1>1, <1>3, <1>4, <2>2
    <3>. QED
      BY <1>1, <3>1
  <2>. QED
    BY <1>6, <2>1, <2>2
<1>8. ASSUME NEW i \in 1 .. (n + 1), NEW j \in 1 .. (n + 1), i < j
      PROVE  log'[i].ev.ts <= log'[j].ev.ts /\ log'[i].mark <= log'[j].mark
  <2>1. i \in 1 .. n /\ log'[i] = log[i]
    BY <1>1, <1>8
  <2>2. CASE j = n + 1
    BY <1>1, <1>4, <1>5, <2>1, <2>2
  <2>3. CASE j \in 1 .. n
    BY <1>1, <1>4, <1>8, <2>1, <2>3
  <2>. QED
    BY <1>6, <2>2, <2>3
<1>. QED
  BY <1>1, <1>7, <1>8 DEF OrderInv

LEMMA ProcessDone ==
  ASSUME IndInv, RefInv, NEW e \in pending, NEW o \in Outcomes(ns, e, Step),
         OutcomeOK(ns, e, o), Process(e, o)
  PROVE  DoneInv'
<1> DEFINE n == Len(log)
<1>1. /\ n \in Nat /\ committed \in Nat /\ Len(log') = n + 1 /\ Len(trace) \in Nat
      /\ \A i \in 1 .. n : log'[i] = log[i]
      /\ log'[n + 1].ev = e /\ log'[n + 1].before = ns
      /\ log'[n + 1].mark = Len(trace) /\ log'[n + 1].sent = o.sent
      /\ ns' = o.ns /\ committed' = committed
      /\ Len(o.did) \in Nat /\ o.did \in Seq(Did_)
      /\ Len(trace') = Len(trace) + Len(o.did)
      /\ \A p \in 1 .. Len(trace) : trace'[p] = trace[p]
      /\ \A p \in 1 .. Len(o.did) : trace'[Len(trace) + p] = o.did[p]
  BY ProcessFacts
<1>2. DoneInv /\ OrderInv /\ \A i \in 1 .. n : log[i].mark \in Nat
  BY AroundFacts DEF RefInv
<1>3. Step = committed + (n + 1)
  BY <1>1 DEF Step
<1>4. ASSUME NEW i \in 1 .. (n + 1)
      PROVE  EntryDone(log'[i], StateAfter(i)', committed + i, MarkAfter(i)', trace')
  <2>1. CASE i = n + 1
    <3>1. StateAfter(i)' = o.ns /\ MarkAfter(i)' = Len(trace) + Len(o.did)
      BY <1>1, <2>1 DEF StateAfter, MarkAfter
    <3>2. o \in Outcomes(log'[i].before, log'[i].ev, committed + i)
      BY <1>1, <1>3, <2>1
    <3>3. /\ log'[i].sent = o.sent /\ log'[i].mark = Len(trace)
          /\ \A p \in 1 .. Len(o.did) : trace'[Len(trace) + p] = o.did[p]
      BY <1>1, <2>1
    <3>. QED
      BY <1>1, <3>1, <3>2, <3>3 DEF EntryDone
  <2>2. CASE i # n + 1
    <3>1. i \in 1 .. n /\ log'[i] = log[i] /\ i # n + 1
      BY <1>1, <2>2
    <3>2. EntryDone(log[i], StateAfter(i), committed + i, MarkAfter(i), trace)
      BY <1>2, <3>1 DEF DoneInv
    <3>3. StateAfter(i)' = StateAfter(i) /\ MarkAfter(i)' = MarkAfter(i)
      <4>1. CASE i = n
        <5>1. log'[i + 1].before = ns /\ log'[i + 1].mark = Len(trace)
          BY <1>1, <4>1
        <5>. QED
          BY <1>1, <3>1, <4>1, <5>1 DEF StateAfter, MarkAfter
      <4>2. CASE i # n
        <5>1. log'[i + 1] = log[i + 1]
          BY <1>1, <3>1, <4>2
        <5>. QED
          BY <1>1, <3>1, <4>2, <5>1 DEF StateAfter, MarkAfter
      <4>. QED
        BY <4>1, <4>2
    <3>4. MarkAfter(i) \in Nat /\ MarkAfter(i) <= Len(trace)
      <4>1. CASE i = n
        BY <1>1, <4>1 DEF MarkAfter
      <4>2. CASE i # n
        <5>1. i + 1 \in 1 .. n
          BY <1>1, <3>1, <4>2
        <5>. QED
          BY <1>2, <4>2, <5>1 DEF MarkAfter, OrderInv
      <4>. QED
        BY <4>1, <4>2
    <3>5. PICK p \in Outcomes(log[i].before, log[i].ev, committed + i) :
            /\ StateAfter(i) = p.ns /\ log[i].sent = p.sent /\ p.did \in Seq(Did_)
            /\ MarkAfter(i) = log[i].mark + Len(p.did)
            /\ \A k \in 1 .. Len(p.did) : trace[log[i].mark + k] = p.did[k]
      BY <3>2 DEF EntryDone
    <3>6. Len(p.did) \in Nat /\ log[i].mark \in Nat
      BY <1>2, <3>1, <3>5, LenProperties
    <3>7. \A k \in 1 .. Len(p.did) : log[i].mark + k \in 1 .. Len(trace)
      <4>1. log[i].mark + Len(p.did) <= Len(trace) /\ Len(trace) \in Nat
        BY <1>1, <3>4, <3>5
      <4>. QED
        BY <3>6, <4>1
    <3>8. ASSUME NEW k \in 1 .. Len(p.did) PROVE trace'[log[i].mark + k] = p.did[k]
      <4>1. trace[log[i].mark + k] = p.did[k] /\ log[i].mark + k \in 1 .. Len(trace)
        BY <3>5, <3>7
      <4>2. \A j \in 1 .. Len(trace) : trace'[j] = trace[j]
        BY <1>1
      <4>. QED
        BY <4>1, <4>2
    <3>9. EntryDone(log[i], StateAfter(i), committed + i, MarkAfter(i), trace')
      BY <3>5, <3>8 DEF EntryDone
    <3>. QED
      BY <3>1, <3>3, <3>9
  <2>. QED
    BY <2>1, <2>2
<1>. QED
  BY <1>1, <1>4 DEF DoneInv

LEMMA ProcessRef ==
  ASSUME IndInv, RefInv, NEW e \in pending, NEW o \in Outcomes(ns, e, Step),
         OutcomeOK(ns, e, o), Process(e, o), Ready(e)
  PROVE  RefInv'
<1>1. \A f \in o.sent : f.src = Step
  BY SentBy, AroundFacts
<1>. QED
  BY <1>1, ProcessSource, ProcessOnce, ProcessOrder, ProcessDone DEF RefInv

-----------------------------------------------------------------------------
(* Other LPs send and withdraw messages.                                   *)

\* the entries of the log keep what they have when only pending changes
LEMMA SameLog ==
  ASSUME UNCHANGED <<ns, log, trace, committed, gvt>>
  PROVE  /\ OrderInv => OrderInv'
         /\ DoneInv => DoneInv'
<1>1. OrderInv => OrderInv'
  BY DEF OrderInv
<1>2. \A i : StateAfter(i)' = StateAfter(i) /\ MarkAfter(i)' = MarkAfter(i)
  BY DEF StateAfter, MarkAfter
<1>3. DoneInv => DoneInv'
  BY <1>2 DEF DoneInv
<1>. QED
  BY <1>1, <1>3

LEMMA ArriveRef ==
  ASSUME IndInv, RefInv, NEW m \in Msgs, NEW ts \in Times, Arrive(m, ts)
  PROVE  /\ RefInv'
         /\ \E f : f.src = 0 /\ f.m = m /\ Around' = Around \cup {f}
<1>1. PICK isq \in ArrivalFlags(m) : pending' = pending \cup {NewMsg(m, ts, 0, isq)}
  BY DEF Arrive
<1> DEFINE f == NewMsg(m, ts, 0, isq)
<1>2. /\ f.src = 0 /\ f.m = m /\ External(f)
  BY DEF External, NewMsg
<1> HIDE DEF f
<1>3. /\ pending' = pending \cup {f} /\ m \notin arrived /\ arrived' = arrived \cup {m}
      /\ UNCHANGED <<ns, log, trace, committed, gvt, rollbacks>>
  BY <1>1 DEF Arrive, f
<1>4. Around' = Around \cup {f}
  BY <1>3 DEF Around
<1>5. /\ SourceInv /\ OnceInv /\ OrderInv /\ DoneInv
      /\ Len(log) \in Nat /\ committed \in Nat
      /\ \A i \in 1 .. Len(log) : log[i].ev \in Around
  BY TypeFacts, AroundFacts DEF RefInv, IndInv
<1>6. SourceInv'
  <2>1. \A e \in Around' : e.src <= committed' + Len(log')
    BY <1>2, <1>3, <1>4, <1>5 DEF SourceInv
  <2>2. \A i \in 1 .. Len(log) : committed + i # 0
    BY <1>5
  <2>3. \A i \in 1 .. Len(log) : \A e \in Around' : e.src = committed + i => e \in log[i].sent
    BY <1>2, <1>4, <1>5, <2>2 DEF SourceInv
  <2>4. \A i \in 1 .. Len(log) : log[i].ev.src < committed + i
    BY <1>5 DEF SourceInv
  <2>5. \A i \in 1 .. Len(log) : \A g \in log[i].sent :
          /\ g.src = committed + i
          /\ g \in pending' \/ \E j \in 1 .. Len(log) : i < j /\ g = log[j].ev
    BY <1>3, <1>5 DEF SourceInv
  <2>6. UNCHANGED <<log, committed>>
    BY <1>3
  <2>. QED
    BY <2>1, <2>3, <2>4, <2>5, <2>6 DEF SourceInv
<1>7. f \notin Around
  BY <1>2, <1>3, <1>5 DEF OnceInv
<1>8. OnceInv'
  <2>1. \A i \in 1 .. Len(log) : log[i].ev \notin pending'
    BY <1>3, <1>5, <1>7 DEF OnceInv
  <2>2. \A i, j \in 1 .. Len(log) : log[i].ev = log[j].ev => i = j
    BY <1>5 DEF OnceInv
  <2>3. \A e \in Around' : e.src = 0 => External(e) /\ e.m \in arrived'
    BY <1>2, <1>3, <1>4, <1>5 DEF OnceInv
  <2>4. \A e, g \in Around' : e.src = 0 /\ g.src = 0 /\ e.m = g.m => e = g
    BY <1>2, <1>3, <1>4, <1>5 DEF OnceInv
  <2>5. UNCHANGED log
    BY <1>3
  <2>. QED
    BY <2>1, <2>2, <2>3, <2>4, <2>5 DEF OnceInv, External
<1>9. OrderInv' /\ DoneInv'
  BY <1>3, <1>5, SameLog
<1>. QED
  BY <1>2, <1>4, <1>6, <1>8, <1>9 DEF RefInv

LEMMA CancelRef ==
  ASSUME IndInv, RefInv, NEW e \in pending, Cancel(e)
  PROVE  RefInv' /\ e \in Around /\ Around' = Around \ {e}
<1>1. /\ pending' = pending \ {e} /\ e.src = 0 /\ arrived' = arrived \ {e.m}
      /\ UNCHANGED <<ns, log, trace, committed, gvt>>
  BY DEF Cancel
<1>2. /\ SourceInv /\ OnceInv /\ OrderInv /\ DoneInv
      /\ Len(log) \in Nat /\ committed \in Nat /\ e \in Around
      /\ \A i \in 1 .. Len(log) : log[i].ev \in Around
  BY TypeFacts, AroundFacts DEF RefInv, IndInv
<1>3. \A i \in 1 .. Len(log) : log[i].ev # e
  BY <1>2 DEF OnceInv
<1>4. Around' = Around \ {e}
  BY <1>1, <1>3 DEF Around
<1>5. SourceInv'
  <2>1. \A i \in 1 .. Len(log) : committed + i # 0
    BY <1>2
  <2>2. \A i \in 1 .. Len(log) : \A g \in log[i].sent :
          /\ g.src = committed + i
          /\ g \in pending' \/ \E j \in 1 .. Len(log) : i < j /\ g = log[j].ev
    BY <1>1, <1>2, <2>1 DEF SourceInv
  <2>3. \A f \in Around' : f.src <= committed + Len(log)
    BY <1>2, <1>4 DEF SourceInv
  <2>4. \A i \in 1 .. Len(log) : log[i].ev.src < committed + i
    BY <1>2 DEF SourceInv
  <2>5. \A i \in 1 .. Len(log) : \A f \in Around' : f.src = committed + i => f \in log[i].sent
    BY <1>2, <1>4 DEF SourceInv
  <2>6. UNCHANGED <<log, committed>>
    BY <1>1
  <2>. QED
    BY <2>2, <2>3, <2>4, <2>5, <2>6 DEF SourceInv
<1>6. OnceInv'
  <2>1. \A i \in 1 .. Len(log) : log[i].ev \notin pending'
    BY <1>1, <1>2 DEF OnceInv
  <2>2. \A i, j \in 1 .. Len(log) : log[i].ev = log[j].ev => i = j
    BY <1>2 DEF OnceInv
  <2>3. \A f \in Around' : f.src = 0 => External(f) /\ f.m \in arrived'
    BY <1>1, <1>2, <1>4 DEF OnceInv
  <2>4. \A f, g \in Around' : f.src = 0 /\ g.src = 0 /\ f.m = g.m => f = g
    BY <1>2, <1>4 DEF OnceInv
  <2>5. UNCHANGED log
    BY <1>1
  <2>. QED
    BY <2>1, <2>2, <2>3, <2>4, <2>5 DEF OnceInv, External
<1>7. OrderInv' /\ DoneInv'
  BY <1>1, <1>2, SameLog
<1>. QED
  BY <1>2, <1>4, <1>5, <1>6, <1>7 DEF RefInv

-----------------------------------------------------------------------------
(* The last processed event is undone.                                     *)

LEMMA UndoAround ==
  ASSUME IndInv, RefInv, Undo, NEW x, x = log[Len(log)]
  PROVE  Around' = Around \ x.sent /\ x.sent \subseteq pending
<1> DEFINE n == Len(log)
<1>1. /\ n \in Nat \ {0} /\ Len(log') = n - 1 /\ committed \in Nat
      /\ \A i \in 1 .. (n - 1) : log'[i] = log[i]
      /\ pending' = (pending \ x.sent) \cup {x.ev}
  BY UndoFacts
<1>2. /\ SourceInv /\ OnceInv /\ n \in 1 .. n
      /\ \A f \in Around : f.src \in Nat
      /\ \A i \in 1 .. n : log[i].ev \in Around
  BY <1>1, AroundFacts DEF RefInv
<1>3. \A f \in x.sent : f.src = committed + n
  BY <1>2 DEF SourceInv
<1>4. x.sent \subseteq pending
  <2> SUFFICES ASSUME NEW f \in x.sent PROVE f \in pending
    OBVIOUS
  <2>1. f \in pending \/ \E j \in 1 .. n : n < j /\ f = log[j].ev
    BY <1>2 DEF SourceInv
  <2>2. \A j \in 1 .. n : ~(n < j)
    BY <1>1
  <2>. QED
    BY <2>1, <2>2
<1>5. \A i \in 1 .. n : log[i].ev \notin x.sent
  <2> SUFFICES ASSUME NEW i \in 1 .. n PROVE log[i].ev \notin x.sent
    OBVIOUS
  <2>1. log[i].ev.src < committed + i /\ log[i].ev.src \in Nat
    BY <1>2 DEF SourceInv
  <2>2. log[i].ev.src # committed + n
    BY <1>1, <2>1
  <2>. QED
    BY <1>3, <2>2
<1>6. ASSUME NEW f
      PROVE  (\E i \in 1 .. n : f = log[i].ev) <=> (f = x.ev \/ \E i \in 1 .. (n - 1) : f = log'[i].ev)
  <2>1. \A i \in 1 .. n : i = n \/ i \in 1 .. (n - 1)
    BY <1>1
  <2>2. 1 .. (n - 1) \subseteq 1 .. n
    BY <1>1
  <2>. QED
    BY <1>1, <1>2, <2>1, <2>2
<1>7. ASSUME NEW f PROVE f \in Around' <=> f \in pending' \/ \E i \in 1 .. (n - 1) : f = log'[i].ev
  BY <1>1 DEF Around
<1>8. ASSUME NEW f PROVE f \in Around <=> f \in pending \/ \E i \in 1 .. n : f = log[i].ev
  BY DEF Around
<1>9. ASSUME NEW f PROVE f \in Around' <=> f \in Around /\ f \notin x.sent
  <2>1. (\E i \in 1 .. n : f = log[i].ev) => f \notin x.sent
    BY <1>5
  <2>2. x.ev \notin x.sent
    BY <1>2, <1>5
  <2>. QED
    BY <1>1, <1>6, <1>7, <1>8, <2>1, <2>2
<1>. QED
  BY <1>4, <1>9

LEMMA UndoRef ==
  ASSUME IndInv, RefInv, Undo
  PROVE  RefInv'
<1> DEFINE n == Len(log)
           x == log[n]
<1>1. /\ n \in Nat \ {0} /\ Len(log') = n - 1 /\ committed \in Nat
      /\ \A i \in 1 .. (n - 1) : log'[i] = log[i]
      /\ pending' = (pending \ x.sent) \cup {x.ev}
      /\ ns' = x.before /\ x.mark \in 0 .. Len(trace) /\ Len(trace) \in Nat
      /\ Len(trace') = x.mark /\ \A p \in 1 .. x.mark : trace'[p] = trace[p]
      /\ UNCHANGED <<arrived, committed, gvt>>
  BY UndoFacts
<1>2. Around' = Around \ x.sent /\ x.sent \subseteq pending
  BY UndoAround
<1>3. /\ SourceInv /\ OnceInv /\ OrderInv /\ DoneInv /\ n \in 1 .. n
      /\ \A f \in Around : f.src \in Nat
      /\ \A i \in 1 .. n : log[i].ev \in Around /\ log[i].mark \in Nat
  BY <1>1, AroundFacts DEF RefInv
<1> HIDE DEF n, x
<1>4. 1 .. (n - 1) \subseteq 1 .. n /\ \A i \in 1 .. (n - 1) : i < n
  BY <1>1
<1>5. SourceInv'
  <2>1. \A f \in Around' : f.src <= committed + (n - 1)
    <3> SUFFICES ASSUME NEW f \in Around' PROVE f.src <= committed + (n - 1)
      OBVIOUS
    <3>1. f \in Around /\ f.src \in Nat /\ f.src <= committed + n /\ f.src # committed + n
      BY <1>2, <1>3 DEF SourceInv, n, x
    <3>. QED
      BY <1>1, <3>1
  <2>2. ASSUME NEW i \in 1 .. (n - 1)
        PROVE  /\ log'[i].ev.src < committed + i
               /\ \A f \in Around' : f.src = committed + i => f \in log'[i].sent
               /\ \A f \in log'[i].sent :
                    /\ f.src = committed + i
                    /\ f \in pending' \/ \E j \in 1 .. (n - 1) : i < j /\ f = log'[j].ev
    <3>1. /\ log'[i] = log[i] /\ i \in 1 .. n
          /\ log[i].ev.src < committed + i
          /\ \A f \in Around : f.src = committed + i => f \in log[i].sent
          /\ \A f \in log[i].sent : f.src = committed + i
      BY <1>1, <1>3, <1>4 DEF SourceInv, n
    <3>2. ASSUME NEW f \in log[i].sent
          PROVE  f \in pending' \/ \E j \in 1 .. (n - 1) : i < j /\ f = log'[j].ev
      <4>1. f \in pending \/ \E j \in 1 .. n : i < j /\ f = log[j].ev
        BY <1>3, <3>1 DEF SourceInv, n
      <4>2. f \notin x.sent
        <5>1. \A g \in x.sent : g.src = committed + n
          BY <1>3 DEF SourceInv, n, x
        <5>2. committed + i # committed + n
          BY <1>1, <1>4
        <5>. QED
          BY <3>1, <5>1, <5>2
      <4>3. CASE f \in pending
        BY <1>1, <4>2, <4>3
      <4>4. CASE \E j \in 1 .. n : i < j /\ f = log[j].ev
        <5>1. PICK j \in 1 .. n : i < j /\ f = log[j].ev
          BY <4>4
        <5>2. CASE j = n
          BY <1>1, <5>1, <5>2 DEF x
        <5>3. CASE j # n
          <6>1. j \in 1 .. (n - 1)
            BY <1>1, <5>3
          <6>. QED
            BY <1>1, <5>1, <6>1
        <5>. QED
          BY <5>2, <5>3
      <4>. QED
        BY <4>1, <4>3, <4>4
    <3>. QED
      BY <1>2, <3>1, <3>2
  <2>. QED
    BY <1>1, <2>1, <2>2 DEF SourceInv
<1>6. OnceInv'
  <2>1. \A i \in 1 .. (n - 1) : log'[i].ev \notin pending'
    <3>1. \A i \in 1 .. (n - 1) : i # n /\ i \in 1 .. n
      BY <1>4
    <3>. QED
      BY <1>1, <1>3, <3>1 DEF OnceInv, n, x
  <2>2. \A i, j \in 1 .. (n - 1) : log'[i].ev = log'[j].ev => i = j
    BY <1>1, <1>3, <1>4 DEF OnceInv, n
  <2>3. \A f \in Around' : f.src = 0 => External(f) /\ f.m \in arrived'
    BY <1>1, <1>2, <1>3 DEF OnceInv
  <2>4. \A f, g \in Around' : f.src = 0 /\ g.src = 0 /\ f.m = g.m => f = g
    BY <1>2, <1>3 DEF OnceInv
  <2>. QED
    BY <1>1, <2>1, <2>2, <2>3, <2>4 DEF OnceInv, External
<1>7. OrderInv'
  <2>1. \A i \in 1 .. (n - 1) : gvt <= log'[i].ev.ts /\ log'[i].mark <= Len(trace')
    BY <1>1, <1>3, <1>4 DEF OrderInv, n, x
  <2>2. \A i, j \in 1 .. (n - 1) :
          i < j => log'[i].ev.ts <= log'[j].ev.ts /\ log'[i].mark <= log'[j].mark
    BY <1>1, <1>3, <1>4 DEF OrderInv, n
  <2>. QED
    BY <1>1, <2>1, <2>2 DEF OrderInv
<1>8. DoneInv'
  <2>1. ASSUME NEW i \in 1 .. (n - 1)
        PROVE  EntryDone(log'[i], StateAfter(i)', committed + i, MarkAfter(i)', trace')
    <3>1. i \in 1 .. n /\ log'[i] = log[i] /\ i # n
      BY <1>1, <1>4
    <3>2. EntryDone(log[i], StateAfter(i), committed + i, MarkAfter(i), trace)
      BY <1>3, <3>1 DEF DoneInv, n
    <3>3. StateAfter(i)' = StateAfter(i) /\ MarkAfter(i)' = MarkAfter(i)
      <4>1. CASE i = n - 1
        <5>1. i + 1 = n
          BY <1>1, <4>1
        <5>. QED
          BY <1>1, <3>1, <4>1, <5>1 DEF StateAfter, MarkAfter, n, x
      <4>2. CASE i # n - 1
        <5>1. log'[i + 1] = log[i + 1]
          BY <1>1, <3>1, <4>2
        <5>. QED
          BY <1>1, <3>1, <4>2, <5>1 DEF StateAfter, MarkAfter, n
      <4>. QED
        BY <4>1, <4>2
    <3>4. MarkAfter(i) \in Nat /\ MarkAfter(i) <= x.mark
      <4>1. i + 1 \in 1 .. n /\ (i + 1 = n \/ i + 1 < n)
        BY <1>1, <3>1
      <4>2. log[i + 1].mark \in Nat /\ log[i + 1].mark <= x.mark
        BY <1>1, <1>3, <4>1 DEF OrderInv, n, x
      <4>. QED
        BY <3>1, <4>2 DEF MarkAfter, n
    <3>5. PICK p \in Outcomes(log[i].before, log[i].ev, committed + i) :
            /\ StateAfter(i) = p.ns /\ log[i].sent = p.sent /\ p.did \in Seq(Did_)
            /\ MarkAfter(i) = log[i].mark + Len(p.did)
            /\ \A k \in 1 .. Len(p.did) : trace[log[i].mark + k] = p.did[k]
      BY <3>2 DEF EntryDone
    <3>6. Len(p.did) \in Nat /\ log[i].mark \in Nat
      BY <1>3, <3>1, <3>5, LenProperties
    <3>7. \A k \in 1 .. Len(p.did) : log[i].mark + k \in 1 .. x.mark
      <4>1. log[i].mark + Len(p.did) <= x.mark /\ x.mark \in Nat
        BY <1>1, <3>4, <3>5
      <4>. QED
        BY <3>6, <4>1
    <3>8. ASSUME NEW k \in 1 .. Len(p.did) PROVE trace'[log[i].mark + k] = p.did[k]
      <4>1. trace[log[i].mark + k] = p.did[k] /\ log[i].mark + k \in 1 .. x.mark
        BY <3>5, <3>7
      <4>2. \A j \in 1 .. x.mark : trace'[j] = trace[j]
        BY <1>1
      <4>. QED
        BY <4>1, <4>2
    <3>9. EntryDone(log[i], StateAfter(i), committed + i, MarkAfter(i), trace')
      BY <3>5, <3>8 DEF EntryDone
    <3>. QED
      BY <3>1, <3>3, <3>9
  <2>. QED
    BY <1>1, <2>1 DEF DoneInv
<1>. QED
  BY <1>5, <1>6, <1>7, <1>8 DEF RefInv

-----------------------------------------------------------------------------
(* The oldest processed event is committed.                                *)

LEMMA CommitFacts ==
  ASSUME IndInv, Commit
  PROVE  /\ Len(log) \in Nat \ {0} /\ Len(log') = Len(log) - 1
         /\ committed \in Nat /\ Len(trace) \in Nat /\ gvt \in Nat
         /\ log \in Seq(Entry) /\ log' \in Seq(Entry) /\ log[1] \in Entry
         /\ \A i \in 1 .. (Len(log) - 1) : i + 1 \in 1 .. Len(log) /\ log'[i] = log[i + 1]
         /\ \A i \in 1 .. Len(log) : i = 1 \/ \E j \in 1 .. (Len(log) - 1) : i = j + 1
         /\ \A e \in pending : e.ts > log[1].ev.ts
         /\ committed' = committed + 1 /\ gvt' = log[1].ev.ts
         /\ UNCHANGED <<ns, pending, trace, arrived, rollbacks>>
<1> DEFINE n == Len(log)
<1>1. /\ log \in Seq(Entry) /\ n \in Nat \ {0} /\ log # << >>
      /\ committed \in Nat /\ gvt \in Nat /\ Len(trace) \in Nat
  BY TypeFacts, EmptySeq DEF IndInv, Commit
<1>2. /\ log' = Tail(log) /\ committed' = committed + 1 /\ gvt' = log[1].ev.ts
      /\ \A e \in pending : e.ts > log[1].ev.ts
      /\ UNCHANGED <<ns, pending, trace, arrived, rollbacks>>
  BY DEF Commit
<1>3. /\ log' \in Seq(Entry) /\ Len(log') = n - 1
      /\ \A i \in 1 .. (n - 1) : log'[i] = log[i + 1]
  BY <1>1, <1>2, HeadTailProperties
<1>4. log[1] \in Entry
  BY <1>1, ElementOfSeq
<1>5. \A i \in 1 .. (n - 1) : i + 1 \in 1 .. n
  BY <1>1
<1>6. ASSUME NEW i \in 1 .. n PROVE i = 1 \/ \E j \in 1 .. (n - 1) : i = j + 1
  <2>1. i # 1 => i - 1 \in 1 .. (n - 1) /\ i = (i - 1) + 1
    BY <1>1
  <2>. QED
    BY <2>1
<1>. QED
  BY <1>1, <1>2, <1>3, <1>4, <1>5, <1>6

LEMMA CommitAround ==
  ASSUME IndInv, RefInv, Commit
  PROVE  Around' = Around \ {log[1].ev} /\ log[1].ev \in Around
<1> DEFINE n == Len(log)
<1>1. /\ n \in Nat \ {0} /\ Len(log') = n - 1 /\ pending' = pending
      /\ \A i \in 1 .. (n - 1) : i + 1 \in 1 .. n /\ log'[i] = log[i + 1]
      /\ \A i \in 1 .. n : i = 1 \/ \E j \in 1 .. (n - 1) : i = j + 1
  BY CommitFacts
<1>2. OnceInv /\ 1 \in 1 .. n /\ \A j \in 1 .. (n - 1) : j + 1 # 1
  BY <1>1 DEF RefInv
<1>3. ASSUME NEW f PROVE f \in Around' <=> f \in pending \/ \E i \in 1 .. (n - 1) : f = log[i + 1].ev
  BY <1>1 DEF Around
<1>4. ASSUME NEW f PROVE f \in Around <=> f \in pending \/ \E i \in 1 .. n : f = log[i].ev
  BY DEF Around
<1>5. log[1].ev \notin pending /\ \A j \in 1 .. (n - 1) : log[j + 1].ev # log[1].ev
  BY <1>1, <1>2 DEF OnceInv
<1>6. ASSUME NEW f
      PROVE  (\E i \in 1 .. n : f = log[i].ev) <=> (f = log[1].ev \/ \E j \in 1 .. (n - 1) : f = log[j + 1].ev)
  <2>1. \A j \in 1 .. (n - 1) : j + 1 \in 1 .. n
    BY <1>1
  <2>2. 1 \in 1 .. n /\ \A i \in 1 .. n : i = 1 \/ \E j \in 1 .. (n - 1) : i = j + 1
    BY <1>1, <1>2
  <2> HIDE DEF n
  <2>. QED
    BY ONLY <2>1, <2>2
<1> HIDE DEF n
<1>7. ASSUME NEW f PROVE f \in Around' <=> f \in Around /\ f # log[1].ev
  BY <1>3, <1>4, <1>5, <1>6
<1>8. log[1].ev \in Around
  BY <1>4, <1>6
<1>. QED
  BY <1>7, <1>8

LEMMA CommitRef ==
  ASSUME IndInv, RefInv, Commit
  PROVE  RefInv'
<1> DEFINE n == Len(log)
<1>1. /\ n \in Nat \ {0} /\ Len(log') = n - 1 /\ pending' = pending /\ committed \in Nat
      /\ \A i \in 1 .. (n - 1) : i + 1 \in 1 .. n /\ log'[i] = log[i + 1]
      /\ \A i \in 1 .. n : i = 1 \/ \E j \in 1 .. (n - 1) : i = j + 1
      /\ committed' = committed + 1 /\ gvt' = log[1].ev.ts
      /\ UNCHANGED <<ns, trace, arrived>>
  BY CommitFacts
<1>2. Around' = Around \ {log[1].ev} /\ log[1].ev \in Around
  BY CommitAround
<1>3. /\ SourceInv /\ OnceInv /\ OrderInv /\ DoneInv /\ 1 \in 1 .. n
      /\ \A f \in Around : f.src \in Nat
      /\ \A i \in 1 .. n : log[i].ev \in Around /\ log[i].mark \in Nat
  BY <1>1, AroundFacts DEF RefInv
<1> HIDE DEF n
<1>4. \A i \in 1 .. (n - 1) : /\ i \in Nat /\ (committed + 1) + i = committed + (i + 1)
                              /\ 1 < i + 1
  BY <1>1
<1>5. SourceInv'
  <2>1. \A f \in Around' : f.src <= (committed + 1) + (n - 1)
    <3>1. (committed + 1) + (n - 1) = committed + n
      BY <1>1
    <3>. QED
      BY <1>2, <1>3, <3>1 DEF SourceInv, n
  <2>2. ASSUME NEW i \in 1 .. (n - 1)
        PROVE  /\ log'[i].ev.src < (committed + 1) + i
               /\ \A f \in Around' : f.src = (committed + 1) + i => f \in log'[i].sent
               /\ \A f \in log'[i].sent :
                    /\ f.src = (committed + 1) + i
                    /\ f \in pending \/ \E j \in 1 .. (n - 1) : i < j /\ f = log'[j].ev
    <3>1. /\ log'[i] = log[i + 1] /\ i + 1 \in 1 .. n
          /\ (committed + 1) + i = committed + (i + 1)
      BY <1>1, <1>4
    <3>2. /\ log[i + 1].ev.src < committed + (i + 1)
          /\ \A f \in Around : f.src = committed + (i + 1) => f \in log[i + 1].sent
          /\ \A f \in log[i + 1].sent : f.src = committed + (i + 1)
      BY <1>3, <3>1 DEF SourceInv, n
    <3>3. ASSUME NEW f \in log[i + 1].sent
          PROVE  f \in pending \/ \E j \in 1 .. (n - 1) : i < j /\ f = log'[j].ev
      <4>1. f \in pending \/ \E j \in 1 .. n : i + 1 < j /\ f = log[j].ev
        BY <1>3, <3>1 DEF SourceInv, n
      <4>2. ASSUME NEW j \in 1 .. n, i + 1 < j
            PROVE  j - 1 \in 1 .. (n - 1) /\ i < j - 1 /\ (j - 1) + 1 = j
        BY <1>1, <4>2
      <4>3. CASE \E j \in 1 .. n : i + 1 < j /\ f = log[j].ev
        <5>1. PICK j \in 1 .. n : i + 1 < j /\ f = log[j].ev
          BY <4>3
        <5>2. j - 1 \in 1 .. (n - 1) /\ i < j - 1 /\ (j - 1) + 1 = j
          BY <4>2, <5>1
        <5>3. log'[j - 1] = log[j]
          BY <1>1, <5>2
        <5>. QED
          BY <5>1, <5>2, <5>3
      <4>. QED
        BY <4>1, <4>3
    <3>. QED
      BY <1>2, <3>1, <3>2, <3>3
  <2>. QED
    BY <1>1, <2>1, <2>2 DEF SourceInv
<1>6. OnceInv'
  <2>1. \A i \in 1 .. (n - 1) : log'[i].ev \notin pending'
    BY <1>1, <1>3 DEF OnceInv, n
  <2>2. \A i, j \in 1 .. (n - 1) : log'[i].ev = log'[j].ev => i = j
    <3> SUFFICES ASSUME NEW i \in 1 .. (n - 1), NEW j \in 1 .. (n - 1), log'[i].ev = log'[j].ev
                 PROVE  i = j
      OBVIOUS
    <3>1. /\ i + 1 \in 1 .. n /\ j + 1 \in 1 .. n /\ i \in Nat /\ j \in Nat
          /\ log'[i] = log[i + 1] /\ log'[j] = log[j + 1]
      BY <1>1, <1>4
    <3>2. i + 1 = j + 1
      BY <1>3, <3>1 DEF OnceInv, n
    <3>. QED
      BY <3>1, <3>2
  <2>3. \A f \in Around' : f.src = 0 => External(f) /\ f.m \in arrived'
    BY <1>1, <1>2, <1>3 DEF OnceInv
  <2>4. \A f, g \in Around' : f.src = 0 /\ g.src = 0 /\ f.m = g.m => f = g
    BY <1>2, <1>3 DEF OnceInv
  <2>. QED
    BY <1>1, <2>1, <2>2, <2>3, <2>4 DEF OnceInv, External
<1>7. OrderInv'
  <2>1. \A i \in 1 .. (n - 1) : log[1].ev.ts <= log'[i].ev.ts /\ log'[i].mark <= Len(trace)
    BY <1>1, <1>3, <1>4 DEF OrderInv, n
  <2>2. ASSUME NEW i \in 1 .. (n - 1), NEW j \in 1 .. (n - 1), i < j
        PROVE  log'[i].ev.ts <= log'[j].ev.ts /\ log'[i].mark <= log'[j].mark
    <3>1. i + 1 < j + 1
      BY <2>2
    <3>. QED
      BY <1>1, <1>3, <3>1 DEF OrderInv, n
  <2>. QED
    BY <1>1, <2>1, <2>2 DEF OrderInv
<1>8. DoneInv'
  <2>1. ASSUME NEW i \in 1 .. (n - 1)
        PROVE  EntryDone(log'[i], StateAfter(i)', (committed + 1) + i, MarkAfter(i)', trace)
    <3>1. /\ i + 1 \in 1 .. n /\ log'[i] = log[i + 1] /\ (i = n - 1 <=> i + 1 = n)
          /\ (committed + 1) + i = committed + (i + 1)
      BY <1>1, <1>4
    <3>2. EntryDone(log[i + 1], StateAfter(i + 1), committed + (i + 1), MarkAfter(i + 1), trace)
      BY <1>3, <3>1 DEF DoneInv, n
    <3>3. StateAfter(i)' = StateAfter(i + 1) /\ MarkAfter(i)' = MarkAfter(i + 1)
      <4>1. CASE i = n - 1
        BY <1>1, <3>1, <4>1 DEF StateAfter, MarkAfter, n
      <4>2. CASE i # n - 1
        <5>1. log'[i + 1] = log[i + 1 + 1] /\ i # Len(log') /\ i + 1 # n
          BY <1>1, <3>1, <4>2
        <5>. QED
          BY <5>1 DEF StateAfter, MarkAfter, n
      <4>. QED
        BY <4>1, <4>2
    <3>. QED
      BY <3>1, <3>2, <3>3
  <2>. QED
    BY <1>1, <2>1 DEF DoneInv
<1>. QED
  BY <1>5, <1>6, <1>7, <1>8 DEF RefInv

-----------------------------------------------------------------------------
(* The invariant holds throughout.                                         *)

LEMMA InitRef ==
  ASSUME Init
  PROVE  RefInv
<1>1. log = << >> /\ pending = {} /\ Len(log) = 0
  BY DEF Init
<1>2. 1 .. Len(log) = {}
  BY <1>1
<1>3. Around = {}
  BY <1>1, <1>2 DEF Around
<1>. QED
  BY <1>2, <1>3 DEF RefInv, SourceInv, OnceInv, OrderInv, DoneInv

LEMMA StepRef ==
  ASSUME Method # "multirail", IndInv, RefInv, [Next]_vars
  PROVE  RefInv'
<1>1. CASE HandleEvent
  <2>1. PICK e \in pending : \E o \in Outcomes(ns, e, Step) :
                               Ready(e) /\ OutcomeOK(ns, e, o) /\ Process(e, o)
    BY <1>1, Handled
  <2>2. PICK o \in Outcomes(ns, e, Step) : Ready(e) /\ OutcomeOK(ns, e, o) /\ Process(e, o)
    BY <2>1
  <2>. QED
    BY <2>2, ProcessRef
<1>2. ASSUME NEW m \in Msgs, NEW ts \in Times, Arrive(m, ts) PROVE RefInv'
  BY <1>2, ArriveRef
<1>3. ASSUME NEW e \in pending, Cancel(e) PROVE RefInv'
  BY <1>3, CancelRef
<1>4. CASE Undo
  BY <1>4, UndoRef
<1>5. CASE Commit
  BY <1>5, CommitRef
<1>6. CASE UNCHANGED vars
  <2>1. UNCHANGED <<ns, pending, log, trace, arrived, committed, gvt>>
    BY <1>6 DEF vars
  <2>2. OrderInv' /\ DoneInv'
    BY <2>1, SameLog DEF RefInv
  <2>3. Around' = Around
    BY <2>1 DEF Around
  <2>4. SourceInv' /\ OnceInv'
    BY <2>1, <2>3 DEF RefInv, SourceInv, OnceInv, External
  <2>. QED
    BY <2>2, <2>4 DEF RefInv
<1>. QED
  BY <1>1, <1>2, <1>3, <1>4, <1>5, <1>6 DEF Next, Terminated

LEMMA RefInductive ==
  ASSUME Method # "multirail"
  PROVE  Spec => [](IndInv /\ RefInv)
<1>1. Init => IndInv /\ RefInv
  BY InitInv, InitRef
<1>2. (IndInv /\ RefInv) /\ [Next]_vars => (IndInv /\ RefInv)'
  BY StepInv, StepRef
<1>. QED
  BY <1>1, <1>2, PTL DEF Spec

-----------------------------------------------------------------------------
(* The sequential state.                                                   *)

\* What the LP knew at the last commit is what no uncommitted event sent.
LEMMA KnownFacts ==
  ASSUME IndInv, RefInv
  PROVE  \A f : f \in KnownAtCommit <=> f \in Around /\ f.src <= committed
<1>1. log \in Seq(Entry) /\ Len(log) \in Nat /\ committed \in Nat /\ SourceInv
  BY TypeFacts DEF IndInv, RefInv
<1>2. DOMAIN log = 1 .. Len(log)
  BY <1>1, LenProperties
<1>3. \A f : f \in KnownAtCommit <=> f \in Around /\ \A i \in 1 .. Len(log) : f \notin log[i].sent
  BY <1>2 DEF KnownAtCommit, Uncommitted, Around
<1>4. \A f \in Around : f.src \in Nat /\ f.src <= committed + Len(log)
  BY <1>1, AroundFacts DEF SourceInv
<1>5. ASSUME NEW f \in Around, f.src <= committed, NEW i \in 1 .. Len(log)
      PROVE  f \notin log[i].sent
  <2>1. f.src # committed + i
    BY <1>1, <1>4, <1>5
  <2>. QED
    BY <1>1, <2>1 DEF SourceInv
<1>6. ASSUME NEW f \in Around, ~(f.src <= committed)
      PROVE  \E i \in 1 .. Len(log) : f \in log[i].sent
  <2>1. f.src - committed \in 1 .. Len(log) /\ f.src = committed + (f.src - committed)
    BY <1>1, <1>4, <1>6
  <2>. QED
    BY <1>1, <2>1 DEF SourceInv
<1>. QED
  BY <1>3, <1>5, <1>6

\* the trace up to the last committed event
TraceAtCommit(l, tr) == IF l = << >> THEN tr ELSE SubSeq(tr, 1, l[1].mark)

LEMMA TraceFacts ==
  ASSUME NEW l \in Seq(Entry), NEW tr \in Seq(Did_), NEW k \in Nat, k <= Len(tr),
         k = IF l = << >> THEN Len(tr) ELSE l[1].mark
  PROVE  /\ TraceAtCommit(l, tr) \in Seq(Did_) /\ Len(TraceAtCommit(l, tr)) = k
         /\ \A p \in 1 .. k : TraceAtCommit(l, tr)[p] = tr[p]
<1>1. CASE l = << >>
  BY <1>1 DEF TraceAtCommit
<1>2. CASE l # << >>
  <2>1. TraceAtCommit(l, tr) = SubSeq(tr, 1, k)
    BY <1>2 DEF TraceAtCommit
  <2>2. \A i \in 1 .. k : tr[i] \in Did_
    <3>1. Len(tr) \in Nat
      BY LenProperties
    <3>2. 1 .. k \subseteq 1 .. Len(tr)
      BY <3>1
    <3>. QED
      BY <3>2, ElementOfSeq
  <2>3. /\ SubSeq(tr, 1, k) \in Seq(Did_)
        /\ Len(SubSeq(tr, 1, k)) = (IF 1 <= k THEN k - 1 + 1 ELSE 0)
        /\ \A i \in 1 .. (k - 1 + 1) : SubSeq(tr, 1, k)[i] = tr[1 + i - 1]
    BY <2>2, SubSeqProperties
  <2>4. \A i \in 1 .. k : i \in 1 .. (k - 1 + 1) /\ 1 + i - 1 = i
    OBVIOUS
  <2>5. Len(SubSeq(tr, 1, k)) = k
    BY <2>3
  <2>. QED
    BY <2>1, <2>3, <2>4, <2>5
<1>. QED
  BY <1>1, <1>2

LEMMA SameTrace ==
  ASSUME NEW a \in Seq(Did_), NEW b \in Seq(Did_), Len(a) = Len(b),
         \A p \in 1 .. Len(a) : a[p] = b[p]
  PROVE  a = b
  BY SeqEqual

\* the length of that trace
LEMMA FirstMark ==
  ASSUME IndInv, RefInv, NEW k, k = IF log = << >> THEN Len(trace) ELSE log[1].mark
  PROVE  k \in Nat /\ k <= Len(trace)
<1>1. log \in Seq(Entry) /\ Len(log) \in Nat /\ Len(trace) \in Nat /\ OrderInv
  BY TypeFacts DEF IndInv, RefInv
<1>2. CASE log = << >>
  BY <1>1, <1>2
<1>3. CASE log # << >>
  <2>1. 1 \in 1 .. Len(log)
    BY <1>1, <1>3, EmptySeq
  <2>2. log[1].mark \in Nat /\ log[1].mark <= Len(trace)
    BY <1>1, <2>1, AroundFacts DEF OrderInv
  <2>. QED
    BY <1>3, <2>2
<1>. QED
  BY <1>2, <1>3

\* the same after a step
LEMMA KnownNext ==
  (IndInv /\ RefInv)' => (\A f : f \in KnownAtCommit <=> f \in Around /\ f.src <= committed)'
<1>1. (IndInv /\ RefInv) => \A f : f \in KnownAtCommit <=> f \in Around /\ f.src <= committed
  BY KnownFacts
<1>. QED
  BY <1>1, PTL

\* the variables of the sequential execution
SeqNs == IF log = << >> THEN ns ELSE log[1].before
SeqSelf == {e \in KnownAtCommit : e.src # 0}
SeqUnsent == (Msgs \ arrived) \cup {e.m : e \in {f \in KnownAtCommit : f.src = 0}}
SeqTrace == TraceAtCommit(log, trace)
SeqVars == <<SeqNs, SeqSelf, SeqUnsent, SeqTrace, gvt, committed>>

LEMMA KnownKept ==
  ASSUME IndInv, RefInv, IndInv', RefInv', UNCHANGED <<arrived, committed>>,
         \A f : f \in Around' /\ f.src <= committed <=> f \in Around /\ f.src <= committed
  PROVE  SeqSelf' = SeqSelf /\ SeqUnsent' = SeqUnsent
<1>1. \A f : f \in KnownAtCommit' <=> f \in Around' /\ f.src <= committed'
  BY KnownNext
<1>2. \A f : f \in KnownAtCommit <=> f \in Around /\ f.src <= committed
  BY KnownFacts
<1>3. KnownAtCommit' = KnownAtCommit
  BY <1>1, <1>2
<1>. QED
  BY <1>3 DEF SeqSelf, SeqUnsent

-----------------------------------------------------------------------------
(* Everything but a commit leaves the sequential state alone.              *)

LEMMA ProcessStutters ==
  ASSUME IndInv, RefInv, IndInv', RefInv', NEW e \in pending, NEW o \in Outcomes(ns, e, Step),
         OutcomeOK(ns, e, o), Process(e, o)
  PROVE  UNCHANGED SeqVars
<1> DEFINE n == Len(log)
<1>1. /\ n \in Nat /\ committed \in Nat /\ Len(trace) \in Nat
      /\ log' \in Seq(Entry) /\ Len(log') = n + 1
      /\ \A i \in 1 .. n : log'[i] = log[i]
      /\ log'[n + 1].before = ns /\ log'[n + 1].mark = Len(trace)
      /\ trace' \in Seq(Did_) /\ Len(trace') = Len(trace) + Len(o.did) /\ Len(o.did) \in Nat
      /\ \A p \in 1 .. Len(trace) : trace'[p] = trace[p]
      /\ UNCHANGED <<arrived, committed, gvt, rollbacks>>
  BY ProcessFacts
<1>2. log \in Seq(Entry) /\ trace \in Seq(Did_)
  BY TypeFacts DEF IndInv
<1>3. log' # << >> /\ (log = << >> <=> n = 0)
  <2>1. n + 1 # 0
    BY <1>1
  <2>. QED
    BY <1>1, <1>2, <2>1, EmptySeq
<1>4. SeqSelf' = SeqSelf /\ SeqUnsent' = SeqUnsent
  <2>1. Around' = Around \cup o.sent
    BY ProcessAround
  <2>2. \A f \in o.sent : f.src = committed + n + 1
    <3>1. \A f \in o.sent : f.src = Step
      BY SentBy, AroundFacts
    <3>. QED
      BY <3>1 DEF Step
  <2>3. \A f \in o.sent : ~(f.src <= committed)
    BY <1>1, <2>2
  <2>4. \A f : f \in Around' /\ f.src <= committed <=> f \in Around /\ f.src <= committed
    BY <2>1, <2>3
  <2>. QED
    BY <1>1, <2>4, KnownKept
<1> DEFINE k == IF log = << >> THEN Len(trace) ELSE log[1].mark
<1>5. k \in Nat /\ k <= Len(trace)
  BY FirstMark
<1>6. log'[1].mark = k /\ log'[1].before = SeqNs
  <2>1. CASE log = << >>
    BY <1>1, <1>3, <2>1 DEF SeqNs
  <2>2. CASE log # << >>
    <3>1. 1 \in 1 .. n
      BY <1>1, <1>3, <2>2
    <3>. QED
      BY <1>1, <2>2, <3>1 DEF SeqNs
  <2>. QED
    BY <2>1, <2>2
<1>7. SeqNs' = SeqNs
  BY <1>3, <1>6 DEF SeqNs
<1>8. SeqTrace' = SeqTrace
  <2> DEFINE a == TraceAtCommit(log', trace')
             b == TraceAtCommit(log, trace)
  <2>1. k = (IF log' = << >> THEN Len(trace') ELSE log'[1].mark) /\ k <= Len(trace')
    BY <1>1, <1>3, <1>5, <1>6
  <2>2. a \in Seq(Did_) /\ Len(a) = k /\ \A p \in 1 .. k : a[p] = trace'[p]
    <3> HIDE DEF k
    <3>. QED
      BY <1>1, <1>5, <2>1, TraceFacts
  <2>3. b \in Seq(Did_) /\ Len(b) = k /\ \A p \in 1 .. k : b[p] = trace[p]
    <3>1. k = IF log = << >> THEN Len(trace) ELSE log[1].mark
      OBVIOUS
    <3> HIDE DEF k
    <3>. QED
      BY <1>2, <1>5, <3>1, TraceFacts
  <2> HIDE DEF k, a, b
  <2>4. \A p \in 1 .. k : p \in 1 .. Len(trace)
    BY <1>1, <1>5
  <2>5. \A p \in 1 .. k : a[p] = b[p]
    <3>1. \A p \in 1 .. Len(trace) : trace'[p] = trace[p]
      BY <1>1
    <3>. QED
      BY ONLY <2>2, <2>3, <2>4, <3>1
  <2>6. a = b
    BY ONLY <2>2, <2>3, <2>5, SameTrace
  <2>. QED
    BY <2>6 DEF SeqTrace, a, b
<1>. QED
  BY <1>1, <1>4, <1>7, <1>8 DEF SeqVars

LEMMA ArriveStutters ==
  ASSUME IndInv, RefInv, IndInv', RefInv', NEW m \in Msgs, NEW ts \in Times, Arrive(m, ts)
  PROVE  UNCHANGED SeqVars
<1>1. /\ arrived' = arrived \cup {m} /\ m \notin arrived
      /\ UNCHANGED <<ns, log, trace, committed, gvt>>
  BY DEF Arrive
<1>2. PICK f : f.src = 0 /\ f.m = m /\ Around' = Around \cup {f}
  BY ArriveRef
<1>3. \A g : g \in KnownAtCommit' <=> g \in Around' /\ g.src <= committed'
  BY KnownNext
<1>4. \A g : g \in KnownAtCommit <=> g \in Around /\ g.src <= committed
  BY KnownFacts
<1>5. f.src <= committed
  BY <1>2, TypeFacts DEF IndInv
<1>6. KnownAtCommit' = KnownAtCommit \cup {f}
  BY <1>1, <1>2, <1>3, <1>4, <1>5
<1>7. SeqSelf' = SeqSelf
  BY <1>2, <1>6 DEF SeqSelf
<1>8. SeqUnsent' = SeqUnsent
  BY <1>1, <1>2, <1>6 DEF SeqUnsent
<1>9. SeqNs' = SeqNs /\ SeqTrace' = SeqTrace
  BY <1>1 DEF SeqNs, SeqTrace, TraceAtCommit
<1>. QED
  BY <1>1, <1>7, <1>8, <1>9 DEF SeqVars

LEMMA CancelStutters ==
  ASSUME IndInv, RefInv, IndInv', RefInv', NEW e \in pending, Cancel(e)
  PROVE  UNCHANGED SeqVars
<1>1. /\ arrived' = arrived \ {e.m} /\ e.src = 0
      /\ UNCHANGED <<ns, log, trace, committed, gvt>>
  BY DEF Cancel
<1>2. e \in Around /\ Around' = Around \ {e}
  BY CancelRef
<1>3. \A g : g \in KnownAtCommit' <=> g \in Around' /\ g.src <= committed'
  BY KnownNext
<1>4. \A g : g \in KnownAtCommit <=> g \in Around /\ g.src <= committed
  BY KnownFacts
<1>5. e.src <= committed /\ e.m \in Msgs
  BY <1>1, <1>2, TypeFacts DEF IndInv, RefInv, OnceInv
<1>6. KnownAtCommit' = KnownAtCommit \ {e} /\ e \in KnownAtCommit
  BY <1>1, <1>2, <1>3, <1>4, <1>5
<1>7. SeqSelf' = SeqSelf
  BY <1>1, <1>6 DEF SeqSelf
<1>8. SeqUnsent' = SeqUnsent
  BY <1>1, <1>5, <1>6 DEF SeqUnsent
<1>9. SeqNs' = SeqNs /\ SeqTrace' = SeqTrace
  BY <1>1 DEF SeqNs, SeqTrace, TraceAtCommit
<1>. QED
  BY <1>1, <1>7, <1>8, <1>9 DEF SeqVars

LEMMA UndoStutters ==
  ASSUME IndInv, RefInv, IndInv', RefInv', Undo
  PROVE  UNCHANGED SeqVars
<1> DEFINE n == Len(log)
           x == log[n]
<1>1. /\ n \in Nat \ {0} /\ Len(log') = n - 1 /\ committed \in Nat
      /\ \A i \in 1 .. (n - 1) : log'[i] = log[i]
      /\ ns' = x.before /\ x.mark \in 0 .. Len(trace) /\ Len(trace) \in Nat
      /\ log' \in Seq(Entry) /\ trace \in Seq(Did_) /\ trace' \in Seq(Did_)
      /\ Len(trace') = x.mark /\ \A p \in 1 .. x.mark : trace'[p] = trace[p]
      /\ UNCHANGED <<arrived, committed, gvt>>
  BY UndoFacts
<1>2. log \in Seq(Entry) /\ SourceInv /\ OrderInv
  BY TypeFacts DEF IndInv, RefInv
<1>3. log # << >> /\ (log' = << >> <=> n = 1) /\ 1 \in 1 .. n /\ n \in 1 .. n
  <2>1. n # 0 /\ (n - 1 = 0 <=> n = 1) /\ 1 \in 1 .. n /\ n \in 1 .. n
    BY <1>1
  <2>. QED
    BY <1>1, <1>2, <2>1, EmptySeq
<1>4. SeqSelf' = SeqSelf /\ SeqUnsent' = SeqUnsent
  <2>1. Around' = Around \ x.sent
    BY UndoAround
  <2>2. \A f \in x.sent : f.src = committed + n
    BY <1>2, <1>3 DEF SourceInv
  <2>3. \A f \in x.sent : ~(f.src <= committed)
    BY <1>1, <2>2
  <2>4. \A f : f \in Around' /\ f.src <= committed <=> f \in Around /\ f.src <= committed
    BY <2>1, <2>3
  <2>. QED
    BY <1>1, <2>4, KnownKept
<1> DEFINE k == log[1].mark
<1>5. k \in Nat /\ k <= Len(trace) /\ k <= x.mark
  <2>1. k \in Nat /\ k <= Len(trace) /\ x.mark \in Nat
    BY <1>1, <1>2, <1>3, AroundFacts DEF OrderInv
  <2>2. n = 1 \/ 1 < n
    BY <1>1
  <2>3. n # 1 => k <= x.mark
    BY <1>2, <1>3, <2>2 DEF OrderInv
  <2>4. n = 1 => k <= x.mark
    BY <2>1
  <2>. QED
    BY <2>1, <2>3, <2>4
<1>6. n # 1 => log'[1] = log[1]
  <2>1. n # 1 => 1 \in 1 .. (n - 1)
    BY <1>1
  <2>. QED
    BY <1>1, <2>1
<1>7. SeqNs' = SeqNs
  BY <1>1, <1>3, <1>6 DEF SeqNs
<1>8. SeqTrace' = SeqTrace
  <2> DEFINE a == TraceAtCommit(log', trace')
             b == TraceAtCommit(log, trace)
  <2>1. k = (IF log' = << >> THEN Len(trace') ELSE log'[1].mark) /\ k <= Len(trace')
    BY <1>1, <1>3, <1>5, <1>6
  <2>2. k = IF log = << >> THEN Len(trace) ELSE log[1].mark
    BY <1>3
  <2> HIDE DEF k
  <2>3. a \in Seq(Did_) /\ Len(a) = k /\ \A p \in 1 .. k : a[p] = trace'[p]
    BY <1>1, <1>5, <2>1, TraceFacts
  <2>4. b \in Seq(Did_) /\ Len(b) = k /\ \A p \in 1 .. k : b[p] = trace[p]
    BY <1>1, <1>2, <1>5, <2>2, TraceFacts
  <2> HIDE DEF a, b
  <2>5. \A p \in 1 .. k : p \in 1 .. x.mark
    BY <1>1, <1>5
  <2>6. a = b
    <3>1. \A p \in 1 .. x.mark : trace'[p] = trace[p]
      BY <1>1
    <3>2. \A p \in 1 .. k : a[p] = b[p]
      BY ONLY <2>3, <2>4, <2>5, <3>1
    <3>. QED
      BY ONLY <2>3, <2>4, <3>2, SameTrace
  <2>. QED
    BY <2>6 DEF SeqTrace, a, b
<1>. QED
  BY <1>1, <1>4, <1>7, <1>8 DEF SeqVars

-----------------------------------------------------------------------------
(* A commit is a step of the sequential execution.                         *)

\* what a commit does to the events that are known
LEMMA CommitKnown ==
  ASSUME IndInv, RefInv, IndInv', RefInv', Commit
  PROVE  /\ log[1].ev \in KnownAtCommit
         /\ KnownAtCommit' = (KnownAtCommit \ {log[1].ev}) \cup log[1].sent
         /\ \A f \in log[1].sent : f.src = committed + 1 /\ f.src # 0
<1> DEFINE ev == log[1].ev
<1>1. committed \in Nat /\ committed' = committed + 1 /\ 1 \in 1 .. Len(log)
  BY CommitFacts
<1>2. SourceInv /\ \A f \in Around : f.src \in Nat
  BY AroundFacts DEF RefInv
<1>3. Around' = Around \ {ev} /\ ev \in Around
  BY CommitAround
<1>4. /\ ev.src < committed + 1
      /\ \A f \in Around : f.src = committed + 1 => f \in log[1].sent
      /\ \A f \in log[1].sent : f.src = committed + 1
      /\ \A f \in log[1].sent : f \in pending \/ \E j \in 1 .. Len(log) : 1 < j /\ f = log[j].ev
  BY <1>1, <1>2 DEF SourceInv
<1>5. log[1].sent \subseteq Around
  BY <1>4, AroundFacts
<1>6. \A f : f \in KnownAtCommit' <=> f \in Around' /\ f.src <= committed + 1
  BY <1>1, KnownNext
<1>7. \A f : f \in KnownAtCommit <=> f \in Around /\ f.src <= committed
  BY KnownFacts
<1>8. \A f \in Around : f.src <= committed + 1 <=> f.src <= committed \/ f.src = committed + 1
  BY <1>1, <1>2
<1>9. ev.src <= committed /\ ev.src # committed + 1 /\ committed + 1 # 0
  BY <1>1, <1>2, <1>3, <1>4
<1>10. committed + 1 <= committed + 1
  BY <1>1
<1> HIDE DEF ev
<1>11. ASSUME NEW f
       PROVE  f \in KnownAtCommit' <=> f \in (KnownAtCommit \ {ev}) \cup log[1].sent
  <2>1. CASE f \in log[1].sent
    <3>1. f \in Around /\ f # ev /\ f.src <= committed + 1
      BY <1>4, <1>5, <1>9, <1>10, <2>1
    <3>. QED
      BY <1>3, <1>6, <2>1, <3>1
  <2>2. CASE f \notin log[1].sent
    BY <1>3, <1>4, <1>6, <1>7, <1>8, <2>2
  <2>. QED
    BY <2>1, <2>2
<1>. QED
  BY <1>3, <1>4, <1>7, <1>9, <1>11 DEF ev

\* what a commit adds to the trace
LEMMA CommitTrace ==
  ASSUME IndInv, RefInv, IndInv', RefInv', Commit, NEW o, o.did \in Seq(Did_),
         MarkAfter(1) = log[1].mark + Len(o.did),
         \A p \in 1 .. Len(o.did) : trace[log[1].mark + p] = o.did[p]
  PROVE  SeqTrace' = SeqTrace \o o.did
<1> DEFINE n == Len(log)
           k == log[1].mark
           d == o.did
           a == TraceAtCommit(log', trace')
           b == TraceAtCommit(log, trace)
<1>1. /\ n \in Nat \ {0} /\ Len(log') = n - 1 /\ log' \in Seq(Entry) /\ log \in Seq(Entry)
      /\ \A i \in 1 .. (n - 1) : log'[i] = log[i + 1]
      /\ Len(trace) \in Nat /\ trace' = trace /\ trace \in Seq(Did_) /\ 1 \in 1 .. n
  BY CommitFacts, TypeFacts DEF IndInv
<1>2. log # << >> /\ (log' = << >> <=> n = 1)
  <2>1. n # 0 /\ (n - 1 = 0 <=> n = 1)
    BY <1>1
  <2>. QED
    BY <1>1, <2>1, EmptySeq
<1>3. k \in Nat /\ k <= Len(trace) /\ Len(d) \in Nat
  BY <1>1, AroundFacts, LenProperties DEF RefInv, OrderInv
<1>4. k + Len(d) = IF log' = << >> THEN Len(trace') ELSE log'[1].mark
  <2>1. CASE n = 1
    BY <1>1, <1>2, <2>1 DEF MarkAfter
  <2>2. CASE n # 1
    <3>1. 1 \in 1 .. (n - 1) /\ 1 + 1 = 2
      BY <1>1, <2>2
    <3>2. log'[1] = log[2]
      BY <1>1, <3>1
    <3>. QED
      BY <1>2, <2>2, <3>1, <3>2 DEF MarkAfter
  <2>. QED
    BY <2>1, <2>2
<1>5. k + Len(d) \in Nat /\ k + Len(d) <= Len(trace)
  <2>1. k + Len(d) \in Nat
    BY <1>3
  <2>2. CASE n = 1
    BY <1>1, <1>2, <1>4, <2>2
  <2>3. CASE n # 1
    <3>1. 1 \in 1 .. (n - 1) /\ 1 + 1 \in 1 .. n
      BY <1>1, <2>3
    <3>2. log'[1] = log[1 + 1] /\ log[1 + 1].mark <= Len(trace)
      BY <1>1, <3>1 DEF RefInv, OrderInv
    <3>. QED
      BY <1>2, <1>4, <2>1, <2>3, <3>2
  <2>. QED
    BY <2>1, <2>2, <2>3
<1>6. k = IF log = << >> THEN Len(trace) ELSE log[1].mark
  BY <1>2
<1>7. d \in Seq(Did_) /\ \A p \in 1 .. Len(d) : trace[k + p] = d[p]
  OBVIOUS
<1> HIDE DEF k, d, n
<1>8. a \in Seq(Did_) /\ Len(a) = k + Len(d) /\ \A p \in 1 .. (k + Len(d)) : a[p] = trace[p]
  BY <1>1, <1>4, <1>5, TraceFacts
<1>9. b \in Seq(Did_) /\ Len(b) = k /\ \A p \in 1 .. k : b[p] = trace[p]
  BY <1>1, <1>3, <1>6, TraceFacts
<1> HIDE DEF a, b
<1>10. /\ b \o d \in Seq(Did_) /\ Len(b \o d) = k + Len(d)
       /\ \A p \in 1 .. (k + Len(d)) : (b \o d)[p] = IF p <= k THEN b[p] ELSE d[p - k]
  <2>1. b \in Seq(Did_) /\ d \in Seq(Did_) /\ Len(b) = k
    BY <1>7, <1>9
  <2>2. /\ b \o d \in Seq(Did_) /\ Len(b \o d) = Len(b) + Len(d)
        /\ \A p \in 1 .. (Len(b) + Len(d)) :
             (b \o d)[p] = IF p <= Len(b) THEN b[p] ELSE d[p - Len(b)]
    BY ONLY <2>1, ConcatProperties
  <2>. QED
    BY <2>1, <2>2
<1>11. ASSUME NEW p \in 1 .. (k + Len(d)) PROVE a[p] = (b \o d)[p]
  <2>1. CASE p <= k
    <3>1. p \in 1 .. k
      BY <1>3, <2>1
    <3>. QED
      BY <1>8, <1>9, <1>10, <2>1, <3>1
  <2>2. CASE ~(p <= k)
    <3>1. p - k \in 1 .. Len(d) /\ k + (p - k) = p
      BY <1>3, <2>2
    <3>. QED
      BY <1>7, <1>8, <1>10, <2>2, <3>1
  <2>. QED
    BY <2>1, <2>2
<1>12. a = b \o d
  BY <1>8, <1>10, <1>11, SameTrace
<1>. QED
  BY <1>12 DEF a, b, d, SeqTrace

\* the messages still to be received
LEMMA CommitUnsent ==
  ASSUME IndInv, RefInv, IndInv', RefInv', Commit
  PROVE  /\ log[1].ev.src # 0 => SeqUnsent' = SeqUnsent
         /\ log[1].ev.src = 0 => /\ log[1].ev.m \in SeqUnsent
                                 /\ SeqUnsent' = SeqUnsent \ {log[1].ev.m}
<1> DEFINE ev == log[1].ev
           s == log[1].sent
<1>1. /\ ev \in KnownAtCommit /\ KnownAtCommit' = (KnownAtCommit \ {ev}) \cup s
      /\ \A f \in s : f.src # 0
  BY CommitKnown
<1>2. arrived' = arrived /\ arrived \subseteq Msgs
  BY CommitFacts, TypeFacts DEF IndInv
<1>3. \A f \in KnownAtCommit : f \in Around
  BY KnownFacts
<1>4. /\ \A f \in KnownAtCommit : f.src = 0 => f.m \in arrived
      /\ \A f, g \in KnownAtCommit : f.src = 0 /\ g.src = 0 /\ f.m = g.m => f = g
  BY <1>3 DEF RefInv, OnceInv
<1> HIDE DEF ev, s
<1>5. \A m : m \in SeqUnsent <=> (m \in Msgs /\ m \notin arrived) \/ \E f \in KnownAtCommit : f.src = 0 /\ m = f.m
  BY DEF SeqUnsent
<1>6. \A m : m \in SeqUnsent' <=> (m \in Msgs /\ m \notin arrived) \/ \E f \in KnownAtCommit' : f.src = 0 /\ m = f.m
  BY <1>2 DEF SeqUnsent
<1>7. ev.src # 0 => \A m : m \in SeqUnsent' <=> m \in SeqUnsent
  BY <1>1, <1>5, <1>6
<1>8. ev.src = 0 => ev.m \in SeqUnsent /\ \A m : m \in SeqUnsent' <=> m \in SeqUnsent /\ m # ev.m
  BY <1>1, <1>4, <1>5, <1>6
<1>9. ev.src # 0 => SeqUnsent' = SeqUnsent
  BY <1>7
<1>10. ev.src = 0 => SeqUnsent' = SeqUnsent \ {ev.m}
  BY <1>8
<1>. QED
  BY <1>8, <1>9, <1>10 DEF ev

\* the events still to come are not earlier than the one that is committed
LEMMA CommitTime ==
  ASSUME IndInv, RefInv, Commit
  PROVE  gvt <= log[1].ev.ts /\ \A f \in Around : log[1].ev.ts <= f.ts
<1>1. /\ Len(log) \in Nat \ {0} /\ 1 \in 1 .. Len(log) /\ OrderInv
      /\ \A f \in pending : f.ts > log[1].ev.ts
  BY CommitFacts DEF RefInv
<1>2. log[1].ev.ts \in Nat /\ \A f \in Around : f.ts \in Nat
  BY <1>1, AroundFacts
<1>3. ASSUME NEW f \in pending PROVE log[1].ev.ts <= f.ts
  BY <1>1, <1>2, AroundFacts
<1>4. ASSUME NEW i \in 1 .. Len(log) PROVE log[1].ev.ts <= log[i].ev.ts
  <2>1. i = 1 \/ 1 < i
    OBVIOUS
  <2>. QED
    BY <1>1, <1>2, <2>1 DEF OrderInv
<1>. QED
  BY <1>1, <1>3, <1>4, AroundFacts DEF OrderInv

LEMMA SameArrivals ==
  /\ \A m : Sequential!ArrivalFlags(m) = ArrivalFlags(m)
  /\ \A m, ts, src, isq : Sequential!NewMsg(m, ts, src, isq) = NewMsg(m, ts, src, isq)
<1>1. \A m : Sequential!ArrivalFlags(m) = ArrivalFlags(m)
  BY DEF ArrivalFlags, Sequential!ArrivalFlags
<1>2. ASSUME NEW m, NEW ts, NEW src, NEW isq
      PROVE  Sequential!NewMsg(m, ts, src, isq) = NewMsg(m, ts, src, isq)
  BY SameRecords DEF NewMsg, Sequential!NewMsg
<1>. QED
  BY <1>1, <1>2

LEMMA CommitSteps ==
  ASSUME IndInv, RefInv, IndInv', RefInv', Commit
  PROVE  Sequential!Next
<1> DEFINE n == Len(log)
           ev == log[1].ev
<1>1. /\ n \in Nat \ {0} /\ Len(log') = n - 1 /\ 1 \in 1 .. n
      /\ log \in Seq(Entry) /\ log' \in Seq(Entry)
      /\ \A i \in 1 .. (n - 1) : log'[i] = log[i + 1]
      /\ committed' = committed + 1 /\ gvt' = ev.ts /\ ns' = ns
  BY CommitFacts
<1>2. EntryDone(log[1], StateAfter(1), committed + 1, MarkAfter(1), trace)
  BY <1>1 DEF RefInv, DoneInv
<1>3. PICK o \in Outcomes(log[1].before, ev, committed + 1) :
        /\ StateAfter(1) = o.ns /\ log[1].sent = o.sent /\ o.did \in Seq(Did_)
        /\ MarkAfter(1) = log[1].mark + Len(o.did)
        /\ \A p \in 1 .. Len(o.did) : trace[log[1].mark + p] = o.did[p]
  BY <1>2 DEF EntryDone
<1>4. log # << >> /\ (log' = << >> <=> n = 1)
  <2>1. n # 0 /\ (n - 1 = 0 <=> n = 1)
    BY <1>1
  <2>. QED
    BY <1>1, <2>1, EmptySeq
<1>5. SeqNs = log[1].before /\ SeqNs' = o.ns
  <2>1. CASE n = 1
    BY <1>1, <1>3, <1>4, <2>1 DEF SeqNs, StateAfter
  <2>2. CASE n # 1
    <3>1. 1 \in 1 .. (n - 1)
      BY <1>1, <2>2
    <3>2. log'[1] = log[1 + 1]
      BY <1>1, <3>1
    <3>. QED
      BY <1>3, <1>4, <2>2, <3>2 DEF SeqNs, StateAfter
  <2>. QED
    BY <2>1, <2>2
<1>6. SeqTrace' = SeqTrace \o o.did
  BY <1>3, CommitTrace
<1>7. /\ ev \in KnownAtCommit /\ KnownAtCommit' = (KnownAtCommit \ {ev}) \cup o.sent
      /\ \A f \in o.sent : f.src # 0
  BY <1>3, CommitKnown
<1>8. SeqSelf' = (SeqSelf \ {ev}) \cup o.sent
  BY <1>7 DEF SeqSelf
<1>9. gvt <= ev.ts /\ \A f \in SeqSelf : ev.ts <= f.ts
  <2>1. \A f \in SeqSelf : f \in Around
    BY KnownFacts DEF SeqSelf
  <2>. QED
    BY <2>1, CommitTime
<1>10. o \in Sequential!Outcomes(SeqNs, ev, committed + 1)
  BY <1>3, <1>5, SameOutcomes
<1> HIDE DEF n, ev
<1>11. ASSUME NEW e, e = ev PROVE Sequential!Process(e)
  <2>1. \E p \in Sequential!Outcomes(SeqNs, ev, committed + 1) :
          SeqNs' = p.ns /\ SeqSelf' = (SeqSelf \ {ev}) \cup p.sent /\ SeqTrace' = SeqTrace \o p.did
    BY <1>5, <1>6, <1>8, <1>10
  <2>. QED
    BY <1>1, <1>9, <1>11, <2>1
    DEF Sequential!Process, SeqNs, SeqSelf, SeqTrace, TraceAtCommit
<1>12. CASE ev.src = 0
  <2>1. PICK m \in Msgs, ts \in Times : \E isq \in ArrivalFlags(m) : ev = NewMsg(m, ts, 0, isq)
    <3>1. ev \in Around
      BY <1>7, KnownFacts
    <3>. QED
      BY <1>12, <3>1 DEF RefInv, OnceInv, External
  <2>2. PICK isq \in ArrivalFlags(m) : ev = NewMsg(m, ts, 0, isq)
    BY <2>1
  <2>3. ev.m = m
    BY <2>2 DEF NewMsg
  <2>4. m \in SeqUnsent /\ SeqUnsent' = SeqUnsent \ {m}
    BY <1>12, <2>3, CommitUnsent DEF ev
  <2>5. \E i \in Sequential!ArrivalFlags(m) : Sequential!Process(Sequential!NewMsg(m, ts, 0, i))
    BY <1>11, <2>2, SameArrivals
  <2>6. Sequential!Receive(m, ts)
    BY <2>4, <2>5 DEF Sequential!Receive, SeqUnsent
  <2>. QED
    BY <2>6 DEF Sequential!Next
<1>13. CASE ev.src # 0
  <2>1. SeqUnsent' = SeqUnsent
    BY <1>13, CommitUnsent DEF ev
  <2>2. ev \in SeqSelf
    BY <1>7, <1>13 DEF SeqSelf
  <2>3. PICK e : e = ev
    OBVIOUS
  <2>4. Sequential!Continue(e) /\ e \in SeqSelf
    BY <1>11, <2>1, <2>2, <2>3 DEF Sequential!Continue, SeqUnsent
  <2>. QED
    BY <2>4 DEF Sequential!Next, SeqSelf
<1>. QED
  BY <1>12, <1>13

-----------------------------------------------------------------------------
(* The refinement.                                                         *)

LEMMA InitMaps ==
  ASSUME Init
  PROVE  Sequential!Init
<1>1. /\ log = << >> /\ pending = {} /\ arrived = {} /\ ns = base_lp_init /\ trace = << >>
      /\ gvt = 0 /\ committed = 0
  BY DEF Init
<1>2. KnownAtCommit = {}
  <2>1. DOMAIN log = {}
    BY <1>1
  <2>. QED
    BY <1>1, <2>1 DEF KnownAtCommit, Uncommitted
<1>3. Sequential!base_lp_init = base_lp_init
  BY DEF base_lp_init, Sequential!base_lp_init, Queues, Sequential!Queues,
         CopyQueues, Sequential!CopyQueues, sched_init, Sequential!sched_init,
         fcfs_init, Sequential!fcfs_init, Levels, Sequential!Levels
<1>. QED
  BY <1>1, <1>2, <1>3 DEF Sequential!Init

LEMMA StepMaps ==
  ASSUME Method # "multirail", IndInv, RefInv, IndInv', RefInv', [Next]_vars
  PROVE  Sequential!Next \/ UNCHANGED SeqVars
<1>1. CASE HandleEvent
  <2>1. PICK e \in pending : \E o \in Outcomes(ns, e, Step) :
                               Ready(e) /\ OutcomeOK(ns, e, o) /\ Process(e, o)
    BY <1>1, Handled
  <2>2. PICK o \in Outcomes(ns, e, Step) : Ready(e) /\ OutcomeOK(ns, e, o) /\ Process(e, o)
    BY <2>1
  <2>. QED
    BY <2>2, ProcessStutters
<1>2. ASSUME NEW m \in Msgs, NEW ts \in Times, Arrive(m, ts) PROVE UNCHANGED SeqVars
  BY <1>2, ArriveStutters
<1>3. ASSUME NEW e \in pending, Cancel(e) PROVE UNCHANGED SeqVars
  BY <1>3, CancelStutters
<1>4. CASE Undo
  BY <1>4, UndoStutters
<1>5. CASE Commit
  BY <1>5, CommitSteps
<1>6. CASE UNCHANGED vars
  BY <1>6 DEF vars, SeqVars, SeqNs, SeqSelf, SeqUnsent, SeqTrace, TraceAtCommit,
              KnownAtCommit, Uncommitted
<1>. QED
  BY <1>1, <1>2, <1>3, <1>4, <1>5, <1>6 DEF Next, Terminated

\* The committed part of every optimistic execution of the base LP is an
\* execution under the sequential scheduler, where no event is ever undone: the
\* handlers of model-net-lp.c and their reverse handlers leave no trace of
\* speculation, of stragglers and withdrawn messages, or of the order in which
\* they came, in the committed state, in the events to come or in the packets.
THEOREM CommitsAreSequential ==
  ASSUME Method # "multirail"
  PROVE  Spec => CommitsSequentially
<1>1. Init => Sequential!Init
  BY InitMaps
<1>2. (IndInv /\ RefInv) /\ (IndInv /\ RefInv)' /\ [Next]_vars => [Sequential!Next]_Sequential!vars
  <2> SUFFICES ASSUME IndInv, RefInv, IndInv', RefInv', [Next]_vars
               PROVE  Sequential!Next \/ UNCHANGED Sequential!vars
    OBVIOUS
  <2>1. Sequential!Next \/ UNCHANGED SeqVars
    BY StepMaps
  <2>2. UNCHANGED SeqVars => UNCHANGED Sequential!vars
    BY DEF Sequential!vars, SeqVars, SeqNs, SeqSelf, SeqUnsent, SeqTrace, TraceAtCommit
  <2>. QED
    BY <2>1, <2>2
<1>. QED
  BY <1>1, <1>2, RefInductive, PTL DEF Spec, CommitsSequentially, Sequential!Spec
=============================================================================
