------------------------------ MODULE ResourceTW ------------------------------
(***************************************************************************)
(* The resource LP and its clients in one kernel process of ROSS, under    *)
(* the optimistic scheduler: events are processed in timestamp order as    *)
(* far as they are known, the most recent ones are undone with the reverse *)
(* handlers when something arrives in their past, and events older than    *)
(* everything still to come are committed.                                 *)
(*                                                                         *)
(* Clients behave as the interface asks: a client that was granted units   *)
(* releases them some time later, and one that made a reservation uses the *)
(* token it got.                                                           *)
(***************************************************************************)
EXTENDS ResourceLP, FiniteSetsExt

CONSTANTS
  Times,         \* timestamps at which requests on the general pool arrive
  Delays,        \* how long a client may take to react to an answer
  MaxRollbacks,  \* bound on cancelled requests and on events undone for others
  Word           \* number of values of a uint64_t

ASSUME TWAssumption ==
  /\ Times \subseteq Nat \ {0, 1}
  /\ Delays \subseteq Nat \ {0}
  /\ MaxRollbacks \in Nat
  /\ Word \in Nat /\ Capacity < Word

VARIABLES
  ns,         \* resource_state
  events,     \* events yet to be processed
  log,        \* processed, not yet committed events, oldest first
  trace,      \* what the LP did, in the timeline as it stands (history)
  arrived,    \* the requests sent from elsewhere
  committed,  \* number of committed events
  gvt,        \* timestamp of the last committed event
  rollbacks   \* cancelled requests and events undone for others so far

vars == <<ns, events, log, trace, arrived, committed, gvt, rollbacks>>

-----------------------------------------------------------------------------
Init ==
  /\ ns = resource_lp_ind_init
  /\ events = {}
  /\ log = << >>
  /\ trace = << >>
  /\ arrived = {}
  /\ committed = 0
  /\ gvt = 0
  /\ rollbacks = 0

LastEntry == log[Len(log)]
Now == IF log = << >> THEN gvt ELSE LastEntry.ev.ts
Step == committed + Len(log) + 1
Ready(e, type) == e.type = type /\ e.ts >= Now /\ \A f \in events : e.ts <= f.ts

Process(e, o) ==
  /\ ns' = o.ns
  /\ events' = (events \ {e}) \cup o.sent
  /\ log' = Append(log, [ev |-> e, rc |-> o.rc, sent |-> o.sent,
                         before |-> ns, mark |-> Len(trace)])
  /\ trace' = trace \o o.did
  /\ UNCHANGED <<arrived, committed, gvt, rollbacks>>

-----------------------------------------------------------------------------
(* resource_event_handler.  Where an assertion or tw_error would stop the  *)
(* simulation no action is enabled, which the deadlock check reports.      *)

GetGrant(e) ==
  /\ Ready(e, "GET")
  /\ get_ret(ns, e) = 0
  /\ Process(e, get_grant(ns, e, Step))

GetEnqueue(e) ==
  /\ Ready(e, "GET")
  /\ get_ret(ns, e) = 1
  /\ Script[e.k].block
  /\ Process(e, get_enqueue(ns, e))

GetRefuse(e) ==
  /\ Ready(e, "GET")
  /\ get_ret(ns, e) = 1
  /\ ~Script[e.k].block
  /\ Process(e, get_refuse(ns, e, Step))

Free(e) ==
  /\ Ready(e, "FREE")
  /\ Process(e, handle_resource_free(ns, e, Step))

DeqEmpty(e) ==
  /\ Ready(e, "DEQ")
  /\ ns.pending[e.tok] = << >>
  /\ Process(e, deq_empty(ns))

\* result of resource_get for the request that waits longest
deq_ret(e) == resource_get_ret(Script[Head(ns.pending[e.tok])].req, e.tok, ns.r)

DeqGrant(e) ==
  /\ Ready(e, "DEQ")
  /\ ns.pending[e.tok] # << >>
  /\ deq_ret(e) = 0
  /\ Process(e, deq_grant(ns, e, Step))

DeqWait(e) ==
  /\ Ready(e, "DEQ")
  /\ ns.pending[e.tok] # << >>
  /\ deq_ret(e) = 1
  /\ Process(e, deq_wait(ns, e))

\* resource_reserve returns 0: the number of tokens so far, as the code compares
\* it, and the units left in the general pool allow the reservation
Reserve(e) ==
  /\ Ready(e, "RESERVE")
  /\ num_tokens(ns.r) <= MAX_RESERVE
  /\ Script[e.k].req <= ns.r[0].avail
  /\ Process(e, handle_resource_reserve(ns, e, Step))

\* what a client does with an answer: release what it got, or use its token
Reactions(e) ==
  LET users == {k \in Reqs : Script[k].of = e.k}
  IN  IF Script[e.k].op = "reserve"
      THEN {{Ev("GET", e.ts + d[k], Step, k, e.tok, 0) : k \in users} :
              d \in [users -> Delays]}
      ELSE IF e.ret = 0
      THEN {{Ev("FREE", e.ts + d, Step, e.k, e.tok, 0)} : d \in Delays}
      ELSE {{}}

ClientAck(e) ==
  /\ Ready(e, "ACK")
  /\ \E sent \in Reactions(e) :
       Process(e, [ns |-> ns, rc |-> NoRc, sent |-> sent, did |-> << >>])

HandleEvent ==
  \E e \in events :
    \/ GetGrant(e) \/ GetEnqueue(e) \/ GetRefuse(e)
    \/ Free(e)
    \/ DeqEmpty(e) \/ DeqGrant(e) \/ DeqWait(e)
    \/ Reserve(e)
    \/ ClientAck(e)

-----------------------------------------------------------------------------
(* LPs elsewhere and ROSS.                                                 *)

\* reservations come first, as handle_resource_reserve_rc expects
RequestEvent(k, ts) ==
  IF Script[k].op = "reserve" THEN Ev("RESERVE", 1, 0, k, 0, 0)
                              ELSE Ev("GET", ts, 0, k, 0, 0)

Arrive(k, ts) ==
  /\ k \notin arrived
  /\ Script[k].of = NoReq
  /\ RequestEvent(k, ts).ts > gvt
  /\ events' = events \cup {RequestEvent(k, ts)}
  /\ arrived' = arrived \cup {k}
  /\ UNCHANGED <<ns, log, trace, committed, gvt, rollbacks>>

\* the sender rolls back: its request is withdrawn
Cancel(e) ==
  /\ rollbacks < MaxRollbacks
  /\ e.src = 0
  /\ events' = events \ {e}
  /\ arrived' = arrived \ {e.k}
  /\ rollbacks' = rollbacks + 1
  /\ UNCHANGED <<ns, log, trace, committed, gvt>>

Straggler == \E e \in events : e.ts < Now

Undo ==
  /\ log # << >>
  /\ Straggler \/ rollbacks < MaxRollbacks
  /\ LET x == LastEntry
     IN  /\ ns' = resource_rev_handler(ns, x)
         /\ events' = (events \ x.sent) \cup {x.ev}
         /\ trace' = SubSeq(trace, 1, x.mark)
  /\ log' = SubSeq(log, 1, Len(log) - 1)
  /\ rollbacks' = IF Straggler THEN rollbacks ELSE rollbacks + 1
  /\ UNCHANGED <<arrived, committed, gvt>>

Commit ==
  /\ log # << >>
  /\ \A e \in events : e.ts > log[1].ev.ts
  /\ log' = Tail(log)
  /\ committed' = committed + 1
  /\ gvt' = log[1].ev.ts
  /\ UNCHANGED <<ns, events, trace, arrived, rollbacks>>

Terminated == events = {} /\ log = << >> /\ UNCHANGED vars

Next ==
  \/ HandleEvent
  \/ \E k \in Reqs, ts \in Times : Arrive(k, ts)
  \/ \E e \in events : Cancel(e)
  \/ Undo
  \/ Commit
  \/ Terminated

Spec == Init /\ [][Next]_vars

\* ROSS goes on processing and collecting events, and rolls stragglers back
Fairness ==
  /\ WF_vars(HandleEvent)
  /\ WF_vars(Commit)
  /\ WF_vars(Straggler /\ Undo)

FairSpec == Spec /\ Fairness

-----------------------------------------------------------------------------
(* Properties.                                                             *)

\* Every variable stays in its type: no release, grant or rollback drives a
\* counter of a pool or the random stream below zero, or a pool out of range.
TypeOK ==
  /\ DOMAIN ns = {"r", "pending", "rng"}
  /\ DOMAIN ns.r = 0 .. num_tokens(ns.r)
  /\ \A t \in DOMAIN ns.r : ns.r[t] \in Pool /\ ns.r[t].avail <= ns.r[t].max
  /\ ns.pending \in [Toks -> Seq(Reqs)]
  /\ ns.rng \in Nat
  /\ events \subseteq Event
  /\ arrived \subseteq Reqs
  /\ gvt \in Nat /\ committed \in Nat
  /\ rollbacks \in 0 .. MaxRollbacks

\* The reverse handler of the event that a rollback would undo now gives back
\* the state in which the event found the LP: units, peak statistics, queues
\* and random stream.  In particular the resource_get by which
\* handle_resource_free_rc takes units back succeeds and leaves the statistics
\* alone.
RollbackRestores ==
  log # << >> => resource_rev_handler(ns, LastEntry) = LastEntry.before

\* the units of some requests, and of some pools
UnitsOf(ks) == UNION {{k} \X (1 .. Script[k].req) : k \in ks}
UnitsIn(r) == UNION {{t} \X (1 .. r[t].max) : t \in DOMAIN r}

\* the clients that hold units of pool t after the first i steps of timeline tr,
\* and how many units that is
Holders(tr, i, t) ==
  {k \in Reqs : /\ \E p \in 1 .. i : tr[p] = Did("granted", k, t)
                /\ ~\E p \in 1 .. i : tr[p] = Did("freed", k, t)}
Held(tr, i, t) == Cardinality(UnitsOf(Holders(tr, i, t)))

\* Units are neither lost nor made: what a pool has available and what its
\* clients hold is what it was given, and the pools share out the capacity.
UnitsConserved ==
  /\ \A t \in DOMAIN ns.r : ns.r[t].avail + Held(trace, Len(trace), t) = ns.r[t].max
  /\ Cardinality(UnitsIn(ns.r)) = Capacity

\* No lost wakeup: when the request that waits longest for a pool would fit,
\* a RESOURCE_DEQ event for that pool is on its way.  Releases and dequeues
\* are separate events, and a rollback may take either of them back alone.
NoLostWakeup ==
  \A t \in DOMAIN ns.r :
    ns.pending[t] # << >> /\ Script[Head(ns.pending[t])].req <= ns.r[t].avail =>
      \E e \in events : e.type = "DEQ" /\ e.tok = t

\* Requests on a pool that wait are served in the order they came, and nobody
\* who comes later is served before them (small requests do not overtake).
GrantsInOrder ==
  \A i, j \in DOMAIN trace :
    /\ i < j
    /\ trace[i].kind = "queued"
    /\ trace[j].kind \in {"queued", "granted"}
    /\ trace[i].tok = trace[j].tok
    /\ ~\E p \in 1 .. j - 1 : trace[p].k = trace[j].k
    => \A g \in DOMAIN trace :
         trace[g] = Did("granted", trace[j].k, trace[j].tok) =>
           \E f \in 1 .. g - 1 : trace[f] = Did("granted", trace[i].k, trace[i].tok)

\* what resource_finalize prints for pool t, computed in a uint64_t
ReportedPeak(t) == (ns.r[t].max - ns.r[t].min_avail) % Word

Peak(t) == Max({Held(trace, i, t) : i \in 0 .. Len(trace)})

\* The peak usage resource_finalize reports for a reserved pool is the most its
\* clients held at any time, whatever was granted and rolled back in between.
PeakOfReservedPools == \A t \in DOMAIN ns.r \ {0} : ReportedPeak(t) = Peak(t)

\* request k, or the reservation it depends on, was sent and not withdrawn
Asked(k) == k \in arrived \/ Script[k].of \in arrived

\* the answer to k is final
Answered(k) ==
  log = << >> /\ \E i \in DOMAIN trace : trace[i].k = k /\ trace[i].kind # "queued"

\* Every request is answered, the ones that have to wait included, as long as
\* clients release what they hold.
EveryRequestAnswered == \A k \in Reqs : Asked(k) ~> (Answered(k) \/ ~Asked(k))
=============================================================================
