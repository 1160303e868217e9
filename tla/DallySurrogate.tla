----------------------------- MODULE DallySurrogate -----------------------------
(***************************************************************************)
(* dragonfly-dally with a surrogate: at times given in the configuration   *)
(* the simulation switches between the detailed network and predicted      *)
(* latencies.  While the surrogate is on the detailed network is frozen,   *)
(* its events are put aside, and each packet is sent straight to its       *)
(* destination.  Packets that were in the network at the switch are        *)
(* delivered by prediction; what is left of them in the frozen network is  *)
(* a zombie, to be ignored when it arrives after all.                      *)
(*                                                                         *)
(* The switch happens at GVT: every event before its time is committed.    *)
(* Predictions are any of a set of latencies.                              *)
(*                                                                         *)
(* A definition named Fault_f is f with a seeded fault, for testing the    *)
(* properties; no specification uses it.                                   *)
(***************************************************************************)
EXTENDS DallyTW, SequencesExt

CONSTANTS
  Plans,        \* sequences of switch times
  Latencies,    \* what a predictor may answer
  PacketDelay,  \* predicted delay to the next packet
  None          \* no hidden state

ASSUME SurrogateAssumption ==
  /\ Notify
  /\ \A p \in Plans : p \in Seq(Nat) /\ \A i, j \in DOMAIN p : i < j => p[i] < p[j]
  /\ Latencies \subseteq Nat \ {0}
  /\ PacketDelay \in Nat \ {0}

VARIABLES
  plan,         \* switch_network_at
  switched,     \* switches so far
  surrogate,    \* is_dally_surrogate_on and is_freezing_on
  frozen,       \* events put aside
  switch_time,  \* frozen_events_switch_time
  pre,          \* sched_loop_pre_surrogate of each terminal's base LP
  hidden,       \* frozen_state of each terminal
  book          \* what commit handlers record at each terminal

surrVars == <<plan, switched, surrogate, frozen, switch_time, pre, hidden, book>>
modeVars == <<plan, switched, surrogate, frozen, switch_time, pre, hidden>>
vars == <<rossVars, surrVars>>

BookInit == [sent_packets |-> << >>, is_pending_local_send |-> {},
             last_packet_sent_id |-> -1, arrival_of_last_packet |-> -1]

SurrogateInit ==
  /\ Init
  /\ plan \in Plans
  /\ switched = 0
  /\ surrogate = FALSE
  /\ frozen = {}
  /\ switch_time = 0
  /\ pre = [t \in Terminals |-> FALSE]
  /\ hidden = [t \in Terminals |-> None]
  /\ book = [t \in Terminals |-> BookInit]

-----------------------------------------------------------------------------
(* Handlers that exist for the surrogate.                                  *)

PredictedEvent(ts, src, pid, pkt) ==
  [type |-> "T_ARRIVE_PREDICTED", ts |-> ts, to |-> Msg[pkt.msg].dest, src |-> src, pid |-> pid,
   pkt |-> pkt]
ZombieEvent(ts, src, pid, pkt) ==
  [type |-> "T_NOTIFY", ts |-> ts, to |-> Msg[pkt.msg].dest, notify |-> "ZOMBIE", src |-> src,
   pid |-> pid]

packet_generate_predicted(s, e, latency) ==
  Outcome(
    [s EXCEPT !.packet_counter = @ + 1, !.last_in_queue_time = e.ts],
    [c10 |-> TRUE, saved_last_in_queue_time |-> s.last_in_queue_time],
    {SchedNextEvent(e.to, e.ts + PacketDelay, <<"predicted", e.to, s.packet_counter, 0>>, TRUE),
     PredictedEvent(e.ts + latency, e.to, s.packet_counter, e.pkt)},
    IF e.pkt.last THEN Told("local", e.pkt.msg) ELSE << >>)

packet_generate_predicted_rc(s, en) ==
  [s EXCEPT !.packet_counter = @ - 1, !.last_in_queue_time = en.rc.saved_last_in_queue_time]

\* a message of one packet that has no entry in the table needs none
packet_arrive_predicted(s, e) ==
  LET m == e.pkt.msg
      has == m \in DOMAIN s.rank_tbl
      create == ~has /\ Msg[m].size > e.pkt.size
      old == IF has THEN s.rank_tbl[m] ELSE NewEntry(m)
      entry == [old EXCEPT !.remaining_packets = @ - 1]
      done == has \/ create => entry.remaining_packets = 0
  IN  Outcome(
        [s EXCEPT !.rank_tbl = IF ~has /\ ~create THEN @
                               ELSE IF done THEN Without(@, m)
                               ELSE With(@, m, entry)],
        [c5 |-> create, c6 |-> has \/ create, c8 |-> done /\ (has \/ create), popped |-> entry],
        {},
        IF done THEN Told("remote", m) ELSE << >>)

Fault_packet_arrive_predicted_rc(s, en) ==
  LET m == en.ev.pkt.msg
      rc == en.rc
  IN  IF rc.c5 THEN [s EXCEPT !.rank_tbl = Without(@, m)]
      ELSE IF rc.c8 THEN [s EXCEPT !.rank_tbl = With(@, m, rc.popped)]
      ELSE s

packet_arrive_predicted_rc(s, en) ==
  LET m == en.ev.pkt.msg
      rc == en.rc
      found == IF rc.c8 THEN rc.popped ELSE s.rank_tbl[m]
  IN  IF ~rc.c6 THEN s
      ELSE [s EXCEPT !.rank_tbl =
              IF rc.c5 THEN Without(@, m)
              ELSE With(@, m, [found EXCEPT !.remaining_packets = @ + 1])]

process_terminal_notification_event(s, e) ==
  Outcome([s EXCEPT !.zombies = IF e.notify = "ZOMBIE" THEN @ \cup {PacketId(e)} ELSE @],
          << >>, {}, << >>)

process_terminal_notification_event_rc(s, en) ==
  [s EXCEPT !.zombies = IF en.ev.notify = "ZOMBIE" THEN @ \ {PacketId(en.ev)} ELSE @]

\* model_net_base_event passes over an idle event of the surrogate's loop
Dropped(e) == ~surrogate /\ e.created_in_surrogate

-----------------------------------------------------------------------------
(* Events before the next switch are processed, in one mode or the other.  *)

Due(e) == switched < Len(plan) => e.ts < plan[switched + 1]

GeneratePredicted(e) ==
  /\ Ready(e, "T_GENERATE") /\ surrogate
  /\ \E l \in Latencies : Process(e, packet_generate_predicted(lps[e.to], e, l))

ArrivePredicted(e) ==
  /\ Ready(e, "T_ARRIVE_PREDICTED")
  /\ Process(e, packet_arrive_predicted(lps[e.to], e))

TNotify(e) ==
  /\ Ready(e, "T_NOTIFY")
  /\ Process(e, process_terminal_notification_event(lps[e.to], e))

DropNext(e) ==
  /\ Ready(e, "SCHED_NEXT") /\ Dropped(e)
  /\ Process(e, Outcome(lps[e.to], << >>, {}, << >>))

SurrogateHandle ==
  /\ \E e \in events : Due(e) /\
       \/ NewMsg(e)
       \/ SchedNext(e) /\ ~Dropped(e)
       \/ DropNext(e)
       \/ TGenerate(e) /\ ~surrogate
       \/ GeneratePredicted(e)
       \/ TSend(e) \/ TArrive(e) \/ TBuffer(e)
       \/ RArrive(e) \/ RSend(e) \/ RBuffer(e)
       \/ ArrivePredicted(e) \/ TNotify(e)
  /\ UNCHANGED surrVars

IsPredicted(en) == en.ev.type = "T_GENERATE" /\ "c10" \in DOMAIN en.rc

surrogate_reverse(s, en) ==
  CASE en.ev.type = "T_ARRIVE_PREDICTED" -> packet_arrive_predicted_rc(s, en)
    [] en.ev.type = "T_NOTIFY" -> process_terminal_notification_event_rc(s, en)
    [] en.ev.type = "T_GENERATE" /\ IsPredicted(en) -> packet_generate_predicted_rc(s, en)
    [] en.ev.type = "SCHED_NEXT" /\ Dropped(en.ev) -> s
    [] OTHER -> reverse(s, en)

SurrogateUndo == Undo(surrogate_reverse) /\ UNCHANGED surrVars

-----------------------------------------------------------------------------
(* terminal_dally_commit.                                                  *)

\* the latency of the last packet sent waits for the next packet to be fed
FeedLast(b) ==
  [b EXCEPT !.sent_packets = Without(@, b.arrival_of_last_packet),
            !.arrival_of_last_packet = -1]

terminal_commit_packet_generate(b, pid, pkt) ==
  FeedLast([b EXCEPT !.sent_packets = With(@, pid, pkt),
                     !.is_pending_local_send = IF pkt.last THEN @ \cup {pid} ELSE @])

Fault_CommitLatency(b, pid) ==
  IF pid \notin DOMAIN b.sent_packets THEN b
  ELSE [b EXCEPT !.arrival_of_last_packet = pid]

CommitLatency(b, pid) ==
  IF pid \notin DOMAIN b.sent_packets THEN b
  ELSE IF pid = b.last_packet_sent_id THEN [b EXCEPT !.arrival_of_last_packet = pid]
  ELSE [b EXCEPT !.sent_packets = Without(@, pid)]

terminal_dally_commit(b, en) ==
  CASE en.ev.type = "T_GENERATE" ->
         LET pid == en.before.packet_counter
         IN  [IF IsPredicted(en) THEN FeedLast(b)
              ELSE terminal_commit_packet_generate(b, pid, en.ev.pkt)
                EXCEPT !.last_packet_sent_id = pid]
    [] en.ev.type = "T_SEND" ->
         IF ~en.rc.c1 /\ en.rc.c16
         THEN [b EXCEPT !.is_pending_local_send = @ \ {en.rc.entry.pid}] ELSE b
    [] en.ev.type = "T_NOTIFY" ->
         IF en.ev.notify = "LATENCY" THEN CommitLatency(b, en.ev.pid) ELSE b
    [] OTHER -> b

SurrogateCommit ==
  /\ Commit
  /\ LET en == Head(log)
     IN  book' = IF en.ev.to \in Terminals
                 THEN [book EXCEPT ![en.ev.to] = terminal_dally_commit(@, en)] ELSE book
  /\ UNCHANGED modeVars

-----------------------------------------------------------------------------
(* The switches.  Nothing is left to be rolled back when they happen.      *)

AtSwitch ==
  /\ switched < Len(plan)
  /\ log = << >>
  /\ \A e \in events : e.ts >= plan[switched + 1]

should_event_be_frozen(e) == e.type # "NEW_MSG"
FrozenNow == {e \in events : should_event_be_frozen(e)}

\* packets whose latency is still on its way to terminal t
Reported(t) == {e.pid : e \in {e \in EventsOf("T_NOTIFY", t) : e.notify = "LATENCY"}}

Fault_pre_surrogate_switch_event_queue(b, t) == b

\* reports still on their way when the network is frozen count as received
pre_surrogate_switch_event_queue(b, t) ==
  [b EXCEPT !.sent_packets = Restrict(@, DOMAIN @ \ Reported(t))]

\* the packets of a terminal that are delivered by prediction
Undelivered(t) == FeedLast(pre_surrogate_switch_event_queue(book[t], t)).sent_packets

Fault_Exposed(from, to) ==
  [to EXCEPT !.sched = from.sched, !.in_sched_loop = from.in_sched_loop,
             !.packet_counter = from.packet_counter,
             !.last_in_queue_time = from.last_in_queue_time,
             !.zombies = from.zombies, !.remaining_sz = from.remaining_sz]

\* what a terminal does not hide from the surrogate: fields of the base LP and
\* fields copied to the new state and back
Exposed(from, to) ==
  [to EXCEPT !.sched = from.sched, !.in_sched_loop = from.in_sched_loop,
             !.packet_counter = from.packet_counter,
             !.last_in_queue_time = from.last_in_queue_time, !.rank_tbl = from.rank_tbl,
             !.zombies = from.zombies, !.remaining_sz = from.remaining_sz]

SelfEvents(t) ==
  {Undelivered(t)[pid].msg : pid \in DOMAIN Undelivered(t) \cap book[t].is_pending_local_send}

\* events a terminal sends at the switch: its base LP goes on with its loop, each
\* packet goes to its destination, which is told to expect a zombie
switch_to_surrogate_lp(t, now) ==
  IF lps[t].in_sched_loop
  THEN {SchedNextEvent(t, now, <<"surrogate", t, switched, 0>>, TRUE)} ELSE {}

Fault_terminal_highdef_to_surrogate(t, now, latency) ==
  LET p == Undelivered(t)
  IN  {PredictedEvent(now + latency[<<t, pid>>], t, pid, p[pid]) : pid \in DOMAIN p}

terminal_highdef_to_surrogate(t, now, latency) ==
  LET p == Undelivered(t)
  IN  {PredictedEvent(now + latency[<<t, pid>>], t, pid, p[pid]) : pid \in DOMAIN p}
      \cup {ZombieEvent(now, t, pid, p[pid]) : pid \in DOMAIN p}

\* a prediction for each packet, none of them in the past
PredictedLatencies ==
  [UNION {{<<t, pid>> : pid \in DOMAIN Undelivered(t)} : t \in Terminals}
     -> {0} \cup Latencies]

SwitchToSurrogate ==
  /\ AtSwitch
  /\ ~surrogate
  /\ events # {}
  /\ LET now == plan[switched + 1]
     IN  /\ \E l \in PredictedLatencies :
              events' = (events \ FrozenNow)
                \cup UNION {switch_to_surrogate_lp(t, now)
                            \cup terminal_highdef_to_surrogate(t, now, l) : t \in Terminals}
         /\ frozen' = FrozenNow
         /\ switch_time' = now
         /\ gvt' = now
  /\ lps' = [x \in DOMAIN lps |->
               IF x \in Terminals THEN Exposed(lps[x], TerminalInit) ELSE lps[x]]
  /\ hidden' = [t \in Terminals |-> lps[t]]
  /\ pre' = [t \in Terminals |-> lps[t].in_sched_loop]
  /\ book' = [t \in Terminals |->
                [book[t] EXCEPT !.sent_packets = << >>, !.arrival_of_last_packet = -1,
                                !.is_pending_local_send = @ \ DOMAIN Undelivered(t)]]
  /\ trace' = trace \o FlattenSeq(SetToSeq({Told("local", m) : m \in UNION {SelfEvents(t) : t \in Terminals}}))
  /\ surrogate' = TRUE
  /\ switched' = switched + 1
  /\ UNCHANGED <<plan, log, rollbacks>>

Fault_switch_to_highdef_lp(t, now) ==
  IF lps[t].in_sched_loop
  THEN {SchedNextEvent(t, now, <<"highdef", t, switched, 0>>, FALSE)} ELSE {}

switch_to_highdef_lp(t, now) ==
  IF ~pre[t] /\ lps[t].in_sched_loop
  THEN {SchedNextEvent(t, now, <<"highdef", t, switched, 0>>, FALSE)} ELSE {}

\* the network goes on as if the surrogate's time had not passed
unfreeze(now) == {[e EXCEPT !.ts = @ + (now - switch_time)] : e \in frozen}

SwitchToHighDef ==
  /\ AtSwitch
  /\ surrogate
  /\ LET now == plan[switched + 1]
     IN  /\ events' = events \cup unfreeze(now)
                      \cup UNION {switch_to_highdef_lp(t, now) : t \in Terminals}
         /\ gvt' = now
  /\ lps' = [x \in DOMAIN lps |->
               IF x \in Terminals
               THEN [Exposed(lps[x], hidden[x]) EXCEPT !.in_sched_loop = @ \/ pre[x]]
               ELSE lps[x]]
  /\ hidden' = [t \in Terminals |-> None]
  /\ frozen' = {}
  /\ switch_time' = 0
  /\ surrogate' = FALSE
  /\ switched' = switched + 1
  /\ UNCHANGED <<plan, pre, book, log, trace, rollbacks>>

SurrogateTerminated ==
  /\ events = {} /\ log = << >>
  /\ surrogate => switched = Len(plan)
  /\ UNCHANGED vars

SurrogateNext ==
  \/ SurrogateHandle
  \/ SurrogateUndo
  \/ SurrogateCommit
  \/ SwitchToSurrogate
  \/ SwitchToHighDef
  \/ SurrogateTerminated

SurrogateSpec == SurrogateInit /\ [][SurrogateNext]_vars

\* ROSS processes and commits events and calls the director when GVT reaches the
\* time of a switch.
SurrogateFairSpec ==
  /\ SurrogateSpec
  /\ WF_vars(SurrogateHandle) /\ WF_vars(SurrogateCommit)
  /\ WF_vars(SwitchToSurrogate) /\ WF_vars(SwitchToHighDef)

-----------------------------------------------------------------------------
(* Properties.                                                             *)

\* Types, and the assertions of the code on the packets a terminal remembers: what
\* waits for its local event or its successor is a packet sent and not reported,
\* packets are committed in the order of their numbers, a latency that is still on
\* its way at the switch is that of a packet remembered (feed_packet_to_predictor),
\* and nothing is hidden, frozen or remembered in the wrong mode.
SurrogateTypeOK ==
  /\ \A t \in Terminals :
       LET b == book[t]
       IN  /\ b.is_pending_local_send \subseteq DOMAIN b.sent_packets
           /\ b.arrival_of_last_packet # -1 =>
                /\ b.arrival_of_last_packet \in DOMAIN b.sent_packets
                /\ b.arrival_of_last_packet = b.last_packet_sent_id
           /\ (log = << >> => b.last_packet_sent_id = lps[t].packet_counter - 1)
           /\ (hidden[t] = None) = ~surrogate
           /\ surrogate => DOMAIN b.sent_packets = {}
           /\ AtSwitch /\ ~surrogate => Reported(t) \subseteq DOMAIN b.sent_packets
  /\ ~surrogate => frozen = {}

\* The reverse handler of the last event gives the LP back, in either mode.  The
\* packets of the run are whole numbers of chunks; RollbackRestores is about
\* those that are not.
SurrogateRollbackRestores ==
  log # << >> => Reversed(surrogate_reverse) = LastEntry.before

\* The loop of a base LP survives the switches: in each mode exactly one event or
\* note is there to ask for the next packet while the loop runs, whatever was
\* asked for in the other mode; and when the network thaws no credit is missing.
LoopsSurviveSwitches ==
  /\ \A t \in Terminals :
       Cardinality({e \in EventsOf("SCHED_NEXT", t) : ~Dropped(e)})
         + Cardinality(EventsOf("T_GENERATE", t))
         + (IF lps[t].issueIdle THEN 1 ELSE 0)
         = IF lps[t].in_sched_loop THEN 1 ELSE 0
  /\ ~surrogate => CreditsConserved /\ SendLoops

\* chunks of the detailed network, frozen or not
FrozenChunks ==
  {e.chunk : e \in {e \in frozen : e.type \in {"R_ARRIVE", "T_ARRIVE"}}}
  \cup UNION {Range(hidden[t].terminal_msgs) : t \in {t \in Terminals : hidden[t] # None}}

\* A message is delivered once, by the network or by prediction, and not before
\* all of it is on its way: what is left of it in the network is known to the
\* destination as a zombie.
DeliveredOnce ==
  \A m \in Msgs :
    /\ TimesTold("remote", m) <= 1
    /\ TimesTold("remote", m) = 1 =>
         /\ \A k \in ChunksInNetwork \cup FrozenChunks : k.msg = m =>
              \/ PacketId(k) \in lps[Msg[m].dest].zombies
              \/ \E e \in EventsOf("T_NOTIFY", Msg[m].dest) :
                   e.notify = "ZOMBIE" /\ PacketId(e) = PacketId(k)
         /\ \A e \in events \cup frozen :
              e.type \in {"T_GENERATE", "T_ARRIVE_PREDICTED"} => e.pkt.msg # m
         /\ m \notin DOMAIN lps[Msg[m].dest].rank_tbl

\* The other way around: a zombie is known only as long as some of it is still to
\* arrive, so that nothing else is taken for it.
ZombiesHaveRemains ==
  \A t \in Terminals : \A z \in lps[t].zombies :
    \E k \in ChunksInNetwork \cup FrozenChunks : PacketId(k) = z /\ k.rt.dest = t

\* The sender is told once that its message has left.
SelfEventOnce == \A m \in Msgs : TimesTold("local", m) <= 1

\* When the last switch is back to the network every message is delivered, and
\* network and zombies drain.
DeliveredInTheEnd ==
  (\A p \in Plans : Len(p) % 2 = 0) =>
    <>(/\ Drained /\ \A t \in Terminals : lps[t].zombies = {}
       /\ \A m \in Msgs : TimesTold("remote", m) = 1)
=============================================================================
