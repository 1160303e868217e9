------------------------------ MODULE ResourceLP ------------------------------
(***************************************************************************)
(* The resource LP (util/resource.c, util/resource-lp.c): a number of      *)
(* units that client LPs acquire and release, part of which can be set     *)
(* aside in reserved pools.  Token 0 is the general pool, tokens 1, 2, ... *)
(* are the reservations in the order they were made.  A request that does  *)
(* not fit is refused, or waits in the queue of its pool.                  *)
(*                                                                         *)
(* As in ModelNetLP, a forward handler yields the new state, what it wrote *)
(* into the event for its reversal, the events it sent and what it did; a  *)
(* reverse handler yields the state it leaves.                             *)
(*                                                                         *)
(* A definition named Fault_f is f with a seeded fault.  It is used by no  *)
(* specification: it serves to confirm that a property notices the fault.  *)
(***************************************************************************)
EXTENDS Integers, Sequences, FiniteSets

CONSTANTS
  Reqs,          \* the get and reserve requests of the run
  NoReq,         \* not a request
  Script,        \* Script[k]: the parameters of request k
  Capacity,      \* "available" of the configuration
  MAX_RESERVE,   \* number of reservations
  LatencyRange,  \* number of values codes_local_latency can return
  NDEBUG         \* whether the build compiles assert() away (Release preset)

\* units, and for a get block_on_unavail and the reservation it draws on
ReqType == [op: {"get", "reserve"}, req: Nat, block: BOOLEAN, of: Reqs \cup {NoReq}]

ASSUME ResourceAssumption ==
  /\ IsFiniteSet(Reqs)
  /\ NoReq \notin Reqs
  /\ Script \in [Reqs -> ReqType]
  /\ Capacity \in Nat \ {0}
  /\ MAX_RESERVE \in Nat
  /\ LatencyRange \in Nat \ {0}
  /\ NDEBUG \in BOOLEAN

\* reservations draw on the general pool, other requests on a reservation
ASSUME ScriptAssumption ==
  \A k \in Reqs :
    /\ Script[k].op = "reserve" => Script[k].of = NoReq
    /\ Script[k].of # NoReq => Script[Script[k].of].op = "reserve"

-----------------------------------------------------------------------------
(* struct resource: one pool per token in use.                             *)

Toks == 0 .. MAX_RESERVE
Pool == [avail: Nat, max: Nat, min_avail: Nat]

FullPool(n) == [avail |-> n, max |-> n, min_avail |-> n]

resource_init == [t \in {0} |-> FullPool(Capacity)]

num_tokens(r) == CHOOSE n \in DOMAIN r : \A t \in DOMAIN r : t <= n

min_u64(a, b) == IF a < b THEN a ELSE b

\* the result of resource_get
resource_get_ret(req, tok, r) ==
  IF tok \notin DOMAIN r THEN 2
  ELSE IF req > r[tok].avail THEN 1
  ELSE IF req > r[tok].max THEN -1
  ELSE 0

\* and the pools it leaves
resource_get(req, tok, r) ==
  IF resource_get_ret(req, tok, r) # 0 THEN r
  ELSE [r EXCEPT ![tok].avail = @ - req,
                 ![tok].min_avail = min_u64(r[tok].avail - req, @)]

resource_free(req, tok, r) == [r EXCEPT ![tok].avail = @ + req]

resource_restore_min_avail(tok, v, r) == [r EXCEPT ![tok].min_avail = v]

Fault_resource_reserve(req, r) ==
  [t \in DOMAIN r \cup {num_tokens(r) + 1} |->
     IF t \notin DOMAIN r THEN FullPool(req)
     ELSE IF t = 0 THEN [r[0] EXCEPT !.max = @ - req]
     ELSE r[t]]

\* resource_reserve, when it returns 0
resource_reserve(req, r) ==
  [t \in DOMAIN r \cup {num_tokens(r) + 1} |->
     IF t \notin DOMAIN r THEN FullPool(req)
     ELSE IF t = 0 THEN [r[0] EXCEPT !.max = @ - req, !.avail = @ - req]
     ELSE r[t]]

\* what handle_resource_reserve_rc does instead of calling an inverse of it
Unreserve(req, r) ==
  [t \in DOMAIN r \ {num_tokens(r)} |->
     IF t = 0 THEN [r[0] EXCEPT !.max = @ + req, !.avail = @ + req] ELSE r[t]]

\* assert(!f(...)) calls f only in a build that keeps assertions
Asserted(called, r) == IF NDEBUG THEN r ELSE called

-----------------------------------------------------------------------------
(* Events, LP state, and the outcome of a handler.                         *)

\* src numbers the event that sent it; 0 is an LP elsewhere.  ret is set in
\* an ACK, the event resource_response sends to the client.
Event == [type: {"GET", "FREE", "DEQ", "RESERVE", "ACK"}, ts: Nat, src: Nat,
          k: Reqs \cup {NoReq}, tok: Toks, ret: {0, 1}]

Ev(type, ts, src, k, tok, ret) ==
  [type |-> type, ts |-> ts, src |-> src, k |-> k, tok |-> tok, ret |-> ret]

\* resource_state, and the position of the LP's random stream
State == [r: UNION {[0 .. n -> Pool] : n \in Toks}, pending: [Toks -> Seq(Reqs)], rng: Nat]

resource_lp_ind_init ==
  [r |-> resource_init, pending |-> [t \in Toks |-> << >>], rng |-> 0]

\* the bits of tw_bf the handlers use, and the two fields saved for reversal
NoRc == [c0 |-> FALSE, c1 |-> FALSE, c2 |-> FALSE, i_rc |-> NoReq, min_avail_rc |-> 0]

Did(kind, k, tok) == [kind |-> kind, k |-> k, tok |-> tok]

codes_local_latency(i) == 1 + (i % LatencyRange)

\* resource_response: one random draw, one event to the client
resource_response(s, e, n, k, tok, ret) ==
  Ev("ACK", e.ts + codes_local_latency(s.rng), n, k, tok, ret)

\* the self event that looks at the queue again
DeqEvent(e, n, rng) == Ev("DEQ", e.ts + codes_local_latency(rng), n, NoReq, e.tok, 0)

-----------------------------------------------------------------------------
(* Forward handlers.  n is the number of this event among the events       *)
(* processed.                                                              *)

Fault_get_ret(s, e) == resource_get_ret(Script[e.k].req, e.tok, s.r)

\* ret of handle_resource_get: nobody overtakes a waiting request
get_ret(s, e) ==
  IF s.pending[e.tok] # << >> THEN 1
  ELSE resource_get_ret(Script[e.k].req, e.tok, s.r)

get_grant(s, e, n) ==
  [ns   |-> [s EXCEPT !.r = resource_get(Script[e.k].req, e.tok, @), !.rng = @ + 1],
   rc   |-> [NoRc EXCEPT !.c1 = TRUE, !.c2 = TRUE, !.min_avail_rc = s.r[e.tok].min_avail],
   sent |-> {resource_response(s, e, n, e.k, e.tok, 0)},
   did  |-> <<Did("granted", e.k, e.tok)>>]

get_enqueue(s, e) ==
  [ns   |-> [s EXCEPT !.pending[e.tok] = Append(@, e.k)],
   rc   |-> [NoRc EXCEPT !.c0 = TRUE, !.min_avail_rc = s.r[e.tok].min_avail],
   sent |-> {},
   did  |-> <<Did("queued", e.k, e.tok)>>]

get_refuse(s, e, n) ==
  [ns   |-> [s EXCEPT !.rng = @ + 1],
   rc   |-> [NoRc EXCEPT !.c1 = TRUE, !.min_avail_rc = s.r[e.tok].min_avail],
   sent |-> {resource_response(s, e, n, e.k, e.tok, 1)},
   did  |-> <<Did("refused", e.k, e.tok)>>]

Fault_handle_resource_free(s, e, n) ==
  [ns   |-> [s EXCEPT !.r = Asserted(resource_free(Script[e.k].req, e.tok, @), @)],
   rc   |-> NoRc,
   sent |-> {},
   did  |-> <<Did("freed", e.k, e.tok)>>]

handle_resource_free(s, e, n) ==
  [ns   |-> [s EXCEPT !.r = Asserted(resource_free(Script[e.k].req, e.tok, @), @),
                      !.rng = @ + 1],
   rc   |-> NoRc,
   sent |-> {DeqEvent(e, n, s.rng)},
   did  |-> <<Did("freed", e.k, e.tok)>>]

\* handle_resource_deq: nobody waits
deq_empty(s) == [ns |-> s, rc |-> [NoRc EXCEPT !.c0 = TRUE], sent |-> {}, did |-> << >>]

\* ... the first request fits: answer it and look at the next one
Fault_deq_grant(s, e, n) ==
  LET k == Head(s.pending[e.tok])
  IN  [ns   |-> [s EXCEPT !.r = resource_get(Script[k].req, e.tok, @),
                          !.pending[e.tok] = Tail(@), !.rng = @ + 1],
       rc   |-> [NoRc EXCEPT !.c1 = TRUE, !.i_rc = k, !.min_avail_rc = s.r[e.tok].min_avail],
       sent |-> {resource_response(s, e, n, k, e.tok, 0)},
       did  |-> <<Did("granted", k, e.tok)>>]

deq_grant(s, e, n) ==
  LET k == Head(s.pending[e.tok])
  IN  [ns   |-> [s EXCEPT !.r = resource_get(Script[k].req, e.tok, @),
                          !.pending[e.tok] = Tail(@), !.rng = @ + 2],
       rc   |-> [NoRc EXCEPT !.c1 = TRUE, !.i_rc = k, !.min_avail_rc = s.r[e.tok].min_avail],
       sent |-> {resource_response(s, e, n, k, e.tok, 0), DeqEvent(e, n, s.rng + 1)},
       did  |-> <<Did("granted", k, e.tok)>>]

\* ... it does not: the next release looks again
deq_wait(s, e) ==
  [ns |-> s, rc |-> [NoRc EXCEPT !.min_avail_rc = s.r[e.tok].min_avail],
   sent |-> {}, did |-> << >>]

handle_resource_reserve(s, e, n) ==
  LET tok == num_tokens(s.r) + 1
  IN  [ns   |-> [s EXCEPT !.r = resource_reserve(Script[e.k].req, @), !.rng = @ + 1],
       rc   |-> NoRc,
       sent |-> {resource_response(s, e, n, e.k, tok, 0)},
       did  |-> <<Did("reserved", e.k, tok)>>]

-----------------------------------------------------------------------------
(* Reverse handlers.  x is an entry of the list of processed events.       *)

Fault_handle_resource_get_rc(s, x) ==
  LET e == x.ev
      t == [s EXCEPT !.rng = @ - 1]
  IN  IF x.rc.c0 THEN [t EXCEPT !.pending[e.tok] = SubSeq(@, 1, Len(@) - 1)]
      ELSE IF x.rc.c2
      THEN [t EXCEPT !.r = Asserted(resource_free(Script[e.k].req, e.tok,
                             resource_restore_min_avail(e.tok, x.rc.min_avail_rc, @)), @)]
      ELSE t

\* the minimum is not restored
Fault2_handle_resource_get_rc(s, x) ==
  LET e == x.ev
      t == IF x.rc.c1 THEN [s EXCEPT !.rng = @ - 1] ELSE s
  IN  IF x.rc.c0 THEN [t EXCEPT !.pending[e.tok] = SubSeq(@, 1, Len(@) - 1)]
      ELSE IF x.rc.c2
      THEN [t EXCEPT !.r = Asserted(resource_free(Script[e.k].req, e.tok, @), @)]
      ELSE t

handle_resource_get_rc(s, x) ==
  LET e == x.ev
      t == IF x.rc.c1 THEN [s EXCEPT !.rng = @ - 1] ELSE s
  IN  IF x.rc.c0 THEN [t EXCEPT !.pending[e.tok] = SubSeq(@, 1, Len(@) - 1)]
      ELSE IF x.rc.c2
      THEN [t EXCEPT !.r = Asserted(resource_free(Script[e.k].req, e.tok,
                             resource_restore_min_avail(e.tok, x.rc.min_avail_rc, @)), @)]
      ELSE t

handle_resource_free_rc(s, x) ==
  [s EXCEPT !.r = Asserted(resource_get(Script[x.ev.k].req, x.ev.tok, @), @),
            !.rng = @ - 1]

\* the request goes back to the tail of its queue
Fault_handle_resource_deq_rc(s, x) ==
  LET tok == x.ev.tok
      k   == x.rc.i_rc
  IN  IF x.rc.c0 \/ ~x.rc.c1 THEN s
      ELSE [s EXCEPT !.pending[tok] = Append(@, k),
                     !.r = Asserted(resource_free(Script[k].req, tok,
                             resource_restore_min_avail(tok, x.rc.min_avail_rc, @)), @),
                     !.rng = @ - 2]

handle_resource_deq_rc(s, x) ==
  LET tok == x.ev.tok
      k   == x.rc.i_rc
  IN  IF x.rc.c0 \/ ~x.rc.c1 THEN s
      ELSE [s EXCEPT !.pending[tok] = <<k>> \o @,
                     !.r = Asserted(resource_free(Script[k].req, tok,
                             resource_restore_min_avail(tok, x.rc.min_avail_rc, @)), @),
                     !.rng = @ - 2]

handle_resource_reserve_rc(s, x) ==
  [s EXCEPT !.r = Unreserve(Script[x.ev.k].req, @), !.rng = @ - 1]

\* an ACK is handled by the client LP
resource_rev_handler(s, x) ==
  CASE x.ev.type = "GET"     -> handle_resource_get_rc(s, x)
    [] x.ev.type = "FREE"    -> handle_resource_free_rc(s, x)
    [] x.ev.type = "DEQ"     -> handle_resource_deq_rc(s, x)
    [] x.ev.type = "RESERVE" -> handle_resource_reserve_rc(s, x)
    [] x.ev.type = "ACK"     -> s
=============================================================================
