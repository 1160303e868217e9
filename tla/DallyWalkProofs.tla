---------------------------- MODULE DallyWalkProofs ----------------------------
(***************************************************************************)
(* Proofs about the way of a packet through a dragonfly, for every set of  *)
(* groups and routers, every choice of global links and each of the three  *)
(* routing algorithms.                                                     *)
(*                                                                         *)
(* That channels ascend depends on where the packet is: a local hop must   *)
(* be followed by a global one, unless it was the last.  The invariant     *)
(* names the stages of the way and keeps for each of them what the         *)
(* routing of the stage before has seen to: after a local hop inside the   *)
(* source or the intermediate group, the router the packet is at has a     *)
(* link to the group it was sent there for.                                *)
(***************************************************************************)
EXTENDS DallyWalk, TLAPS

-----------------------------------------------------------------------------
(* The inductive invariant.                                                *)

Route ==
  [dest: Terminals, origin: Routers, last_hop: {"TERMINAL", "LOCAL", "GLOBAL"},
   path_type: {"NONE", "MINIMAL", "NON_MINIMAL"}, intm: Groups \cup {NoGroup},
   visited: BOOLEAN, l_hop: Nat]

HopType == [kind: {"INJECTION", "LOCAL", "GLOBAL", "TERMINAL"}, chan: 0 .. NumVcs - 1]

Linked(r, g) == get_connections_to_group(r, g) # {}

\* the algorithm allows the path the packet is on
PathOf(alg, m) ==
  /\ alg = "MINIMAL" => m.path_type = "MINIMAL"
  /\ alg = "NON_MINIMAL" => m.path_type = "NON_MINIMAL"

\* injected at its first router
AtOrigin(r, m, h) ==
  /\ h = NoHop
  /\ r = m.origin
  /\ m.last_hop = "TERMINAL"
  /\ m.path_type = "NONE"
  /\ m.intm = NoGroup
  /\ ~m.visited
  /\ m.l_hop = 0

\* one local hop inside the source group, to a router with the link it needs
AtSourceExit(alg, r, m, h) ==
  /\ h.kind = "LOCAL" /\ h.chan = 0
  /\ Group[r] = SrcGroup(m)
  /\ SrcGroup(m) # DestGroup(m)
  /\ r # m.origin
  /\ m.last_hop = "LOCAL"
  /\ m.l_hop = 1
  /\ ~m.visited
  /\ m.intm \in Groups \ {SrcGroup(m), DestGroup(m)}
  /\ m.path_type # "NONE"
  /\ PathOf(alg, m)
  /\ Linked(r, IF m.path_type = "MINIMAL" THEN DestGroup(m) ELSE m.intm)

\* in the intermediate group
Intermediate(alg, r, m) ==
  /\ SrcGroup(m) # DestGroup(m)
  /\ Group[r] \notin {SrcGroup(m), DestGroup(m)}
  /\ m.intm = Group[r]
  /\ m.path_type = "NON_MINIMAL"
  /\ PathOf(alg, m)

\* ... at the router its link leads to
AtIntermediate(alg, r, m, h) ==
  /\ h.kind = "GLOBAL" /\ h.chan <= 1
  /\ Intermediate(alg, r, m)
  /\ m.last_hop = "GLOBAL"

\* ... and after a local hop, at a router with a link to the destination's group
AtIntermediateExit(alg, r, m, h) ==
  /\ h.kind = "LOCAL" /\ h.chan = 2
  /\ Intermediate(alg, r, m)
  /\ m.last_hop = "LOCAL"
  /\ m.visited
  /\ Linked(r, DestGroup(m))

\* in the destination's group, where at most one local hop is left
AtDestination(r, m, h) ==
  /\ Group[r] = DestGroup(m)
  /\ h.kind \in {"LOCAL", "GLOBAL"} /\ h.chan <= 3
  /\ r # DestRouter(m) => SrcGroup(m) # DestGroup(m) /\ Rank(h) < 6
  /\ m.last_hop # "TERMINAL"
  /\ SrcGroup(m) = DestGroup(m) => m.l_hop <= 1

Stage(alg, r, m, h) ==
  \/ AtOrigin(r, m, h)
  \/ AtSourceExit(alg, r, m, h)
  \/ AtIntermediate(alg, r, m, h)
  \/ AtIntermediateExit(alg, r, m, h)
  \/ AtDestination(r, m, h)

WalkInv ==
  /\ routing \in Algorithms
  /\ at \in Routers \cup Terminals
  /\ msg \in Route
  /\ hop \in HopType
  /\ at \in Routers => Stage(routing, at, msg, hop)

-----------------------------------------------------------------------------
(* Groups and connections.                                                 *)

LEMMA GroupFacts ==
  /\ \A r \in Routers : Group[r] \in Groups /\ Group[r] # NoGroup
  /\ \A m \in Route : /\ DestRouter(m) \in Routers
                      /\ SrcGroup(m) \in Groups /\ DestGroup(m) \in Groups
  /\ NoGroup \notin Groups
  BY RouteAssumption DEF Groups, Route, DestRouter, SrcGroup, DestGroup

LEMMA DirectFacts ==
  ASSUME NEW r \in Routers, NEW g, NEW c \in get_connections_to_group(r, g)
  PROVE  /\ c.kind = "GLOBAL" /\ c.to \in Routers
         /\ Group[c.to] = g /\ g # Group[r]
<1>1. PICK q \in Routers : <<r, q>> \in Global /\ Group[q] = g /\ c = Conn("GLOBAL", q)
  BY DEF get_connections_to_group
<1>2. <<r, q>>[1] = r /\ <<r, q>>[2] = q
  OBVIOUS
<1>3. Group[r] # Group[q]
  BY <1>1, <1>2, RouteAssumption
<1>. QED
  BY <1>1, <1>3 DEF Conn

LEMMA RoutedFacts ==
  ASSUME NEW r \in Routers, NEW g, NEW c \in get_routed_connections_to_group(r, g)
  PROVE  /\ c.kind = "LOCAL" /\ c.to \in Routers \ {r}
         /\ Group[c.to] = Group[r] /\ Linked(c.to, g)
  BY DEF get_routed_connections_to_group, local_conns, Conn, Linked

\* towards g: over a link of r, or over one hop inside the group to a router that
\* has one
Towards(r, g, c) ==
  \/ c.kind = "GLOBAL" /\ c.to \in Routers /\ Group[c.to] = g /\ g # Group[r]
  \/ /\ ~Linked(r, g)
     /\ c.kind = "LOCAL" /\ c.to \in Routers \ {r} /\ Group[c.to] = Group[r] /\ Linked(c.to, g)

LEMMA DirectTowards ==
  ASSUME NEW r \in Routers, NEW g, NEW c \in get_connections_to_group(r, g)
  PROVE  Towards(r, g, c)
  BY DirectFacts DEF Towards

LEMMA RoutedTowards ==
  ASSUME NEW r \in Routers, NEW g, ~Linked(r, g), NEW c \in get_routed_connections_to_group(r, g)
  PROVE  Towards(r, g, c)
  BY RoutedFacts DEF Towards

LEMMA MinimalStops ==
  ASSUME NEW r \in Routers, NEW m, NEW c \in legal_minimal_stops(r, m)
  PROVE  Towards(r, DestGroup(m), c)
  BY DirectTowards, RoutedTowards DEF legal_minimal_stops, Linked

-----------------------------------------------------------------------------
(* What routing decides.  The fields it may change are the path, the       *)
(* intermediate group and whether that was visited.                        *)

\* a stop s for a packet with fields m: the same packet, on a path the algorithm
\* allows, sent towards its destination or its intermediate group
StopOK(alg, r, m, s) ==
  /\ s.msg \in Route
  /\ s.msg.dest = m.dest /\ s.msg.origin = m.origin
  /\ s.msg.last_hop = m.last_hop /\ s.msg.l_hop = m.l_hop
  /\ s.msg.path_type # "NONE" /\ PathOf(alg, s.msg)

\* routing outside of the destination's group, before the intermediate group has
\* been visited
FirstStopOK(alg, r, m, s) ==
  /\ StopOK(alg, r, m, s)
  /\ s.msg.visited = m.visited
  /\ Towards(r, IF s.msg.path_type = "MINIMAL" THEN DestGroup(m) ELSE s.msg.intm, s.conn)

LEMMA RouteEqual ==
  ASSUME NEW a \in Route, NEW b \in Route, a.dest = b.dest, a.origin = b.origin,
         a.last_hop = b.last_hop, a.path_type = b.path_type, a.intm = b.intm,
         a.visited = b.visited, a.l_hop = b.l_hop
  PROVE  a = b
  BY DEF Route

LEMMA MinimalRouting ==
  ASSUME NEW r \in Routers, NEW m \in Route, m.path_type = "MINIMAL",
         NEW s \in minimal_routing(r, m)
  PROVE  /\ FirstStopOK("MINIMAL", r, m, s)
         /\ s.msg = m
<1>1. PICK c \in legal_minimal_stops(r, m) : s = [conn |-> c, msg |-> m]
  BY DEF minimal_routing
<1>2. s.msg = m /\ s.conn = c
  BY <1>1
<1>. QED
  BY <1>2, MinimalStops DEF FirstStopOK, StopOK, PathOf

\* a packet that still has to visit its intermediate group
LEMMA NonminimalRouting ==
  ASSUME NEW r \in Routers, NEW m \in Route, ~m.visited, Group[r] # m.intm,
         NEW s \in nonminimal_routing(r, m)
  PROVE  /\ FirstStopOK("NON_MINIMAL", r, m, s)
         /\ s.msg.intm = m.intm
<1> DEFINE v == [m EXCEPT !.path_type = "NON_MINIMAL"]
<1>1. /\ v \in Route /\ v.path_type = "NON_MINIMAL" /\ v.dest = m.dest /\ v.origin = m.origin
      /\ v.last_hop = m.last_hop /\ v.l_hop = m.l_hop /\ v.visited = FALSE /\ v.visited = m.visited
      /\ v.intm = m.intm
  BY DEF Route
<1>2. Visit(r, v) = v
  <2> HIDE DEF v
  <2>1. Visit(r, v) = [v EXCEPT !.visited = v.visited]
    BY <1>1 DEF Visit
  <2> DEFINE w == [v EXCEPT !.visited = v.visited]
  <2>2. /\ w \in Route /\ w.dest = v.dest /\ w.origin = v.origin /\ w.last_hop = v.last_hop
        /\ w.path_type = v.path_type /\ w.intm = v.intm /\ w.visited = v.visited
        /\ w.l_hop = v.l_hop
    BY <1>1 DEF Route
  <2> HIDE DEF w
  <2>3. w = v
    BY <2>2, <1>1, RouteEqual
  <2>. QED
    BY <2>1, <2>3 DEF w
<1> HIDE DEF v
<1>3. \E c : /\ s = [conn |-> c, msg |-> v]
             /\ c \in IF get_connections_to_group(r, m.intm) # {}
                      THEN get_connections_to_group(r, m.intm)
                      ELSE get_routed_connections_to_group(r, m.intm)
  BY <1>1, <1>2 DEF nonminimal_routing, v
<1>4. PICK c : /\ s = [conn |-> c, msg |-> v]
               /\ c \in IF get_connections_to_group(r, m.intm) # {}
                        THEN get_connections_to_group(r, m.intm)
                        ELSE get_routed_connections_to_group(r, m.intm)
  BY <1>3
<1>5. s.msg = v /\ s.conn = c
  BY <1>4
<1>6. Towards(r, m.intm, c)
  BY <1>4, DirectTowards, RoutedTowards DEF Linked
<1>. QED
  BY <1>1, <1>5, <1>6 DEF FirstStopOK, StopOK, PathOf

\* a packet that has visited it, or does so now
LEMMA NonminimalOnward ==
  ASSUME NEW r \in Routers, NEW m \in Route, Group[r] = m.intm,
         NEW s \in nonminimal_routing(r, m)
  PROVE  /\ StopOK("NON_MINIMAL", r, m, s)
         /\ s.msg.intm = m.intm /\ s.msg.visited /\ s.msg.path_type = "NON_MINIMAL"
         /\ Towards(r, DestGroup(m), s.conn)
<1> DEFINE v == [m EXCEPT !.path_type = "NON_MINIMAL"]
           w == [v EXCEPT !.visited = TRUE]
<1>1. v \in Route /\ v.intm = m.intm /\ v.visited \in BOOLEAN
  BY DEF Route
<1>2. Visit(r, v) = w
  <2> HIDE DEF v
  <2>. QED
    BY <1>1 DEF Visit
<1>3. /\ w \in Route /\ w.path_type = "NON_MINIMAL" /\ w.dest = m.dest /\ w.origin = m.origin
      /\ w.last_hop = m.last_hop /\ w.l_hop = m.l_hop /\ w.visited = TRUE /\ w.intm = m.intm
  BY DEF Route
<1> HIDE DEF v, w
<1>4. \E c : /\ s = [conn |-> c, msg |-> w]
             /\ c \in IF get_connections_to_group(r, DestGroup(m)) # {}
                      THEN get_connections_to_group(r, DestGroup(m))
                      ELSE get_routed_connections_to_group(r, DestGroup(m))
  BY <1>2, <1>3 DEF nonminimal_routing, v
<1>5. PICK c : /\ s = [conn |-> c, msg |-> w]
               /\ c \in IF get_connections_to_group(r, DestGroup(m)) # {}
                        THEN get_connections_to_group(r, DestGroup(m))
                        ELSE get_routed_connections_to_group(r, DestGroup(m))
  BY <1>4
<1>6. s.msg = w /\ s.conn = c
  BY <1>5
<1>7. Towards(r, DestGroup(m), c)
  BY <1>5, DirectTowards, RoutedTowards DEF Linked
<1>. QED
  BY <1>3, <1>6, <1>7 DEF StopOK, PathOf

LEMMA VisitFacts ==
  ASSUME NEW r \in Routers, NEW m \in Route
  PROVE  /\ Visit(r, m) \in Route
         /\ Visit(r, m).dest = m.dest /\ Visit(r, m).origin = m.origin
         /\ Visit(r, m).last_hop = m.last_hop /\ Visit(r, m).l_hop = m.l_hop
         /\ Visit(r, m).path_type = m.path_type /\ Visit(r, m).intm = m.intm
         /\ Visit(r, m).visited = (m.visited \/ Group[r] = m.intm)
         /\ Group[r] = m.intm => Visit(r, m).visited = TRUE
  BY DEF Visit, Route

LEMMA SelectFacts ==
  ASSUME NEW r \in Routers, NEW m \in Route, NEW g \in select_intermediate_group(r, m)
  PROVE  /\ g \in Groups
         /\ m.intm = NoGroup => g \notin {SrcGroup(m), DestGroup(m)}
<1>1. {Group[l[2]] : l \in {l \in Global : l[1] = r}} \subseteq Groups
  BY RouteAssumption DEF Groups
<1>. QED
  BY <1>1 DEF select_intermediate_group

LEMMA NonminimalStops ==
  ASSUME NEW r \in Routers, NEW m \in Route, Group[r] = SrcGroup(m), m.intm \in Groups,
         NEW n \in legal_nonminimal_stops(r, m)
  PROVE  /\ n[1] \in Groups
         /\ r = m.origin => n[1] = m.intm
         /\ \A c \in n[2] : /\ Towards(r, n[1], c)
                            /\ r # m.origin => c.kind = "GLOBAL"
<1> DEFINE direct == get_connections_to_group(r, m.intm)
<1>1. CASE direct # {}
  <2>1. n = <<m.intm, direct>>
    BY <1>1 DEF legal_nonminimal_stops
  <2>2. n[1] = m.intm /\ n[2] = direct
    BY <2>1
  <2>. QED
    BY <2>2, DirectTowards, DirectFacts
<1>2. CASE direct = {} /\ r = m.origin
  <2>1. n = <<m.intm, get_routed_connections_to_group(r, m.intm)>>
    BY <1>2 DEF legal_nonminimal_stops
  <2>2. n[1] = m.intm /\ n[2] = get_routed_connections_to_group(r, m.intm)
    BY <2>1
  <2>. QED
    BY <1>2, <2>2, RoutedTowards DEF Linked
<1>3. CASE direct = {} /\ r # m.origin
  <2>1. PICK g \in select_intermediate_group(r, m) : n = <<g, get_connections_to_group(r, g)>>
    BY <1>3 DEF legal_nonminimal_stops
  <2>2. n[1] = g /\ n[2] = get_connections_to_group(r, g)
    BY <2>1
  <2>3. g \in Groups
    BY <2>1, SelectFacts
  <2>. QED
    BY <1>3, <2>2, <2>3, DirectTowards, DirectFacts
<1>. QED
  BY <1>1, <1>2, <1>3

\* the outcome of prog_adaptive_routing, with its local definitions written out
ProgStop(r, m, v, s) ==
  \E n \in legal_nonminimal_stops(r, v) :
    \/ /\ m.path_type = "NON_MINIMAL" /\ ~v.visited
       /\ \E c \in n[2] :
            s = [conn |-> c, msg |-> [v EXCEPT !.intm = n[1], !.path_type = m.path_type]]
    \/ /\ ~(m.path_type = "NON_MINIMAL" /\ ~v.visited)
       /\ \/ \E c \in legal_minimal_stops(r, m) :
               s = [conn |-> c, msg |-> [v EXCEPT !.intm = n[1]]]
          \/ \E c \in n[2] :
               s = [conn |-> c, msg |-> [v EXCEPT !.intm = n[1], !.path_type = "NON_MINIMAL"]]

LEMMA ProgStops ==
  ASSUME NEW r, NEW m, NEW s \in prog_adaptive_routing(r, m)
  PROVE  ProgStop(r, m, Visit(r, m), s)
<1> DEFINE v == Visit(r, m)
           Nonmin(n, path) ==
             {[conn |-> c, msg |-> [v EXCEPT !.intm = n[1], !.path_type = path]] : c \in n[2]}
           Min(n) ==
             {[conn |-> c, msg |-> [v EXCEPT !.intm = n[1]]] : c \in legal_minimal_stops(r, m)}
           onway == m.path_type = "NON_MINIMAL" /\ ~v.visited
<1>1. \E n \in legal_nonminimal_stops(r, v) :
        s \in IF onway THEN Nonmin(n, m.path_type) ELSE Min(n) \cup Nonmin(n, "NON_MINIMAL")
  BY DEF prog_adaptive_routing
<1>2. PICK n \in legal_nonminimal_stops(r, v) :
        s \in IF onway THEN Nonmin(n, m.path_type) ELSE Min(n) \cup Nonmin(n, "NON_MINIMAL")
  BY <1>1
<1> HIDE DEF v
<1>3. CASE onway
  BY <1>2, <1>3 DEF ProgStop, v
<1>4. CASE ~onway
  BY <1>2, <1>4 DEF ProgStop, v
<1>. QED
  BY <1>3, <1>4

LEMMA ProgRouting ==
  ASSUME NEW r \in Routers, NEW m \in Route, Group[r] = SrcGroup(m), ~m.visited,
         m.intm \in Groups, m.intm # Group[r], m.path_type # "NONE",
         NEW s \in prog_adaptive_routing(r, m)
  PROVE  /\ FirstStopOK("PROG_ADAPTIVE", r, m, s)
         /\ s.msg.intm \in Groups
         /\ r = m.origin => s.msg.intm = m.intm
         /\ m.path_type = "NON_MINIMAL" => s.msg.path_type = "NON_MINIMAL"
         /\ r # m.origin /\ s.msg.path_type = "NON_MINIMAL" => s.conn.kind = "GLOBAL"
<1> DEFINE Goal ==
      /\ FirstStopOK("PROG_ADAPTIVE", r, m, s)
      /\ s.msg.intm \in Groups
      /\ r = m.origin => s.msg.intm = m.intm
      /\ m.path_type = "NON_MINIMAL" => s.msg.path_type = "NON_MINIMAL"
      /\ r # m.origin /\ s.msg.path_type = "NON_MINIMAL" => s.conn.kind = "GLOBAL"
<1> DEFINE v == Visit(r, m)
<1>1. /\ v \in Route /\ v.dest = m.dest /\ v.origin = m.origin /\ v.last_hop = m.last_hop
      /\ v.l_hop = m.l_hop /\ v.path_type = m.path_type /\ v.intm = m.intm
      /\ v.visited = m.visited /\ v.visited = FALSE
  <2>1. m.visited \in BOOLEAN
    BY DEF Route
  <2>. QED
    BY <2>1, VisitFacts
<1>2. SrcGroup(v) = SrcGroup(m) /\ DestGroup(v) = DestGroup(m)
  BY <1>1 DEF SrcGroup, DestGroup, DestRouter
<1> HIDE DEF v
<1>3. ASSUME NEW g \in Groups, NEW p \in {"MINIMAL", "NON_MINIMAL"}
      PROVE  LET w == [v EXCEPT !.intm = g, !.path_type = p]
             IN  /\ w \in Route /\ w.dest = m.dest /\ w.origin = m.origin
                 /\ w.last_hop = m.last_hop /\ w.l_hop = m.l_hop /\ w.path_type = p
                 /\ w.intm = g /\ w.visited = m.visited
  BY <1>1, <1>3 DEF Route
<1>4. ASSUME NEW g \in Groups
      PROVE  LET w == [v EXCEPT !.intm = g]
             IN  /\ w \in Route /\ w.dest = m.dest /\ w.origin = m.origin
                 /\ w.last_hop = m.last_hop /\ w.l_hop = m.l_hop /\ w.path_type = m.path_type
                 /\ w.intm = g /\ w.visited = m.visited
  BY <1>1, <1>4 DEF Route
<1>5. m.path_type \in {"MINIMAL", "NON_MINIMAL"}
  BY DEF Route
<1>6. PICK n \in legal_nonminimal_stops(r, v) :
        \/ /\ m.path_type = "NON_MINIMAL"
           /\ \E c \in n[2] :
                s = [conn |-> c, msg |-> [v EXCEPT !.intm = n[1], !.path_type = m.path_type]]
        \/ /\ m.path_type = "MINIMAL"
           /\ \/ \E c \in legal_minimal_stops(r, m) :
                   s = [conn |-> c, msg |-> [v EXCEPT !.intm = n[1]]]
              \/ \E c \in n[2] :
                   s = [conn |-> c, msg |-> [v EXCEPT !.intm = n[1],
                                                      !.path_type = "NON_MINIMAL"]]
  <2>1. ProgStop(r, m, v, s)
    BY ProgStops DEF v
  <2>. QED
    BY <1>1, <1>5, <2>1 DEF ProgStop
<1>7. /\ n[1] \in Groups
      /\ r = m.origin => n[1] = m.intm
      /\ \A c \in n[2] : /\ Towards(r, n[1], c)
                         /\ r # m.origin => c.kind = "GLOBAL"
  BY <1>1, <1>2, <1>6, NonminimalStops, SMTT(30)
<1>8. ASSUME NEW c \in n[2],
             s = [conn |-> c, msg |-> [v EXCEPT !.intm = n[1], !.path_type = "NON_MINIMAL"]]
      PROVE  Goal
  <2> DEFINE w == [v EXCEPT !.intm = n[1], !.path_type = "NON_MINIMAL"]
  <2>1. /\ w \in Route /\ w.dest = m.dest /\ w.origin = m.origin
        /\ w.last_hop = m.last_hop /\ w.l_hop = m.l_hop /\ w.path_type = "NON_MINIMAL"
        /\ w.intm = n[1] /\ w.visited = m.visited
    BY <1>3, <1>7
  <2>2. s.msg = w /\ s.conn = c
    BY <1>8
  <2> HIDE DEF w
  <2>. QED
    BY <2>1, <2>2, <1>7, <1>8, SMTT(30) DEF FirstStopOK, StopOK, PathOf
<1>9. ASSUME NEW c \in legal_minimal_stops(r, m), m.path_type = "MINIMAL",
             s = [conn |-> c, msg |-> [v EXCEPT !.intm = n[1]]]
      PROVE  Goal
  <2> DEFINE w == [v EXCEPT !.intm = n[1]]
  <2>1. /\ w \in Route /\ w.dest = m.dest /\ w.origin = m.origin
        /\ w.last_hop = m.last_hop /\ w.l_hop = m.l_hop /\ w.path_type = "MINIMAL"
        /\ w.intm = n[1] /\ w.visited = m.visited
    BY <1>4, <1>7, <1>9
  <2>2. s.msg = w /\ s.conn = c
    BY <1>9
  <2> HIDE DEF w
  <2>3. Towards(r, DestGroup(m), c)
    BY <1>9, MinimalStops
  <2>. QED
    BY <2>1, <2>2, <2>3, <1>7, <1>9 DEF FirstStopOK, StopOK, PathOf
<1>. QED
  BY <1>6, <1>8, <1>9

LEMMA ProgOnward ==
  ASSUME NEW r \in Routers, NEW m \in Route, Group[r] = m.intm,
         Group[r] # SrcGroup(m), m.path_type = "NON_MINIMAL",
         NEW s \in prog_adaptive_routing(r, m)
  PROVE  /\ StopOK("PROG_ADAPTIVE", r, m, s)
         /\ s.msg.intm = m.intm /\ s.msg.visited /\ s.msg.path_type = "NON_MINIMAL"
         /\ Towards(r, DestGroup(m), s.conn)
<1> DEFINE v == Visit(r, m)
<1>1. /\ v \in Route /\ v.dest = m.dest /\ v.origin = m.origin /\ v.last_hop = m.last_hop
      /\ v.l_hop = m.l_hop /\ v.path_type = m.path_type /\ v.intm = m.intm
      /\ v.visited = TRUE
  BY VisitFacts
<1>2. SrcGroup(v) = SrcGroup(m)
  BY <1>1 DEF SrcGroup
<1> HIDE DEF v
<1>3. legal_nonminimal_stops(r, v) = {<<m.intm, {}>>}
  BY <1>1, <1>2 DEF legal_nonminimal_stops
<1>4. PICK c \in legal_minimal_stops(r, m) : s = [conn |-> c, msg |-> [v EXCEPT !.intm = m.intm]]
  <2>1. <<m.intm, {}>>[1] = m.intm /\ <<m.intm, {}>>[2] = {}
    OBVIOUS
  <2>2. PICK n \in legal_nonminimal_stops(r, v) :
          /\ ~(m.path_type = "NON_MINIMAL" /\ ~v.visited)
          /\ \/ \E c \in legal_minimal_stops(r, m) :
                  s = [conn |-> c, msg |-> [v EXCEPT !.intm = n[1]]]
             \/ \E c \in n[2] :
                  s = [conn |-> c, msg |-> [v EXCEPT !.intm = n[1],
                                                     !.path_type = "NON_MINIMAL"]]
    <3>1. ProgStop(r, m, v, s)
      BY ProgStops DEF v
    <3>. QED
      BY <1>1, <3>1 DEF ProgStop
  <2>3. n[1] = m.intm /\ n[2] = {}
    BY <2>1, <2>2, <1>3
  <2>. QED
    BY <2>2, <2>3
<1> DEFINE w == [v EXCEPT !.intm = m.intm]
<1>5. /\ w \in Route /\ w.dest = m.dest /\ w.origin = m.origin
      /\ w.last_hop = m.last_hop /\ w.l_hop = m.l_hop /\ w.path_type = "NON_MINIMAL"
      /\ w.intm = m.intm /\ w.visited = TRUE
  BY <1>1 DEF Route
<1>6. s.msg = w /\ s.conn = c
  BY <1>4
<1> HIDE DEF w
<1>. QED
  BY <1>4, <1>5, <1>6, MinimalStops DEF StopOK, PathOf

-----------------------------------------------------------------------------
(* One hop, from each of the stages.                                       *)

HopOf(n) == [kind |-> n.conn.kind, chan |-> n.chan]
MsgOf(n) == IF n.conn.kind = "TERMINAL" THEN n.msg ELSE Hop(n.msg, n.conn.kind)

\* n is a good hop for a packet that came over hop h
HopOK(alg, h, n) ==
  /\ HopOf(n) \in HopType
  /\ Rank(HopOf(n)) > Rank(h)
  /\ MsgOf(n) \in Route
  /\ n.conn.to \in Routers \cup Terminals
  /\ n.conn.to \in Routers => Stage(alg, n.conn.to, MsgOf(n), HopOf(n))

LEMMA HopRank ==
  ASSUME NEW n
  PROVE  /\ HopOf(n).kind = n.conn.kind /\ HopOf(n).chan = n.chan
         /\ n.conn.kind = "LOCAL" => Rank(HopOf(n)) = 2 * n.chan
         /\ n.conn.kind = "GLOBAL" => Rank(HopOf(n)) = 2 * n.chan + 1
         /\ n.conn.kind = "TERMINAL" => Rank(HopOf(n)) = 2 * NumVcs
  BY DEF HopOf, Rank

LEMMA HopTypeFacts ==
  ASSUME NEW n, n.conn.kind \in {"LOCAL", "GLOBAL", "TERMINAL"}, n.chan \in 0 .. 3
  PROVE  HopOf(n) \in HopType
  BY VcsAssumption DEF HopOf, HopType

\* the fields a packet goes on with over a link between routers
LEMMA OnwardFacts ==
  ASSUME NEW s, NEW n, s.msg \in Route, n.conn = s.conn, n.msg = GoOn(s),
         s.conn.kind \in {"LOCAL", "GLOBAL"}
  PROVE  /\ MsgOf(n) \in Route
         /\ MsgOf(n).dest = s.msg.dest /\ MsgOf(n).origin = s.msg.origin
         /\ MsgOf(n).path_type = s.msg.path_type /\ MsgOf(n).intm = s.msg.intm
         /\ MsgOf(n).visited = s.msg.visited
         /\ MsgOf(n).last_hop = s.conn.kind
         /\ MsgOf(n).l_hop = IF s.conn.kind = "LOCAL" THEN s.msg.l_hop + 1 ELSE s.msg.l_hop
<1>1. CASE s.conn.kind = "LOCAL"
  <2> DEFINE w == [s.msg EXCEPT !.l_hop = s.msg.l_hop + 1]
  <2>1. /\ w \in Route /\ w.dest = s.msg.dest /\ w.origin = s.msg.origin
        /\ w.path_type = s.msg.path_type /\ w.intm = s.msg.intm /\ w.visited = s.msg.visited
        /\ w.l_hop = s.msg.l_hop + 1
    BY DEF Route
  <2>2. MsgOf(n) = [w EXCEPT !.last_hop = "LOCAL"]
    BY <1>1 DEF MsgOf, Hop, GoOn
  <2> HIDE DEF w
  <2>. QED
    BY <1>1, <2>1, <2>2 DEF Route
<1>2. CASE s.conn.kind = "GLOBAL"
  <2>1. MsgOf(n) = [s.msg EXCEPT !.last_hop = "GLOBAL"]
    BY <1>2 DEF MsgOf, Hop, GoOn
  <2>. QED
    BY <1>2, <2>1 DEF Route
<1>. QED
  BY <1>1, <1>2

LEMMA FirstRouterFacts ==
  ASSUME NEW m \in Route
  PROVE  /\ FirstRouter(m) \in Route
         /\ FirstRouter(m).dest = m.dest /\ FirstRouter(m).origin = m.origin
         /\ FirstRouter(m).last_hop = m.last_hop /\ FirstRouter(m).intm = m.intm
         /\ FirstRouter(m).visited = m.visited /\ FirstRouter(m).l_hop = m.l_hop
         /\ FirstRouter(m).path_type
              = IF m.last_hop = "TERMINAL" THEN "MINIMAL" ELSE m.path_type
         /\ m.last_hop # "TERMINAL" => FirstRouter(m) = m
  BY DEF FirstRouter, Route

LEMMA NextHopFacts ==
  ASSUME NEW alg, NEW r, NEW m, NEW n \in NextHops(alg, r, m)
  PROVE  \E s \in do_dfdally_routing(alg, r, FirstRouter(m)) :
           n.conn = s.conn /\ n.chan = output_chan(r, m) /\ n.msg = GoOn(s)
  BY DEF NextHops

\* in the destination's group
LEMMA LastGroup ==
  ASSUME NEW alg \in Algorithms, NEW r \in Routers, NEW m \in Route, NEW h \in HopType,
         Group[r] = DestGroup(m), AtOrigin(r, m, h) \/ AtDestination(r, m, h),
         NEW n \in NextHops(alg, r, m)
  PROVE  HopOK(alg, h, n)
<1> DEFINE f == FirstRouter(m)
<1>1. f \in Route /\ f.dest = m.dest /\ f.origin = m.origin /\ f.l_hop = m.l_hop
  BY FirstRouterFacts
<1>2. DestRouter(f) = DestRouter(m) /\ DestGroup(f) = DestGroup(m) /\ DestRouter(m) \in Routers
  BY <1>1, GroupFacts DEF DestRouter, DestGroup
<1> HIDE DEF f
<1>3. PICK s \in do_dfdally_routing(alg, r, f) :
        n.conn = s.conn /\ n.chan = output_chan(r, m) /\ n.msg = GoOn(s)
  BY NextHopFacts DEF f
<1>4. n.chan \in 0 .. 3 /\ (SrcGroup(m) # DestGroup(m) => n.chan = 3)
  BY <1>3 DEF output_chan, AtOrigin, AtDestination, Route
<1>5. CASE r = DestRouter(m)
  <2>1. s = [conn |-> Conn("TERMINAL", f.dest), msg |-> f]
    BY <1>2, <1>3, <1>5 DEF do_dfdally_routing
  <2>2. n.conn.kind = "TERMINAL" /\ n.conn.to = m.dest /\ n.msg = f
    BY <1>1, <1>3, <2>1 DEF Conn, GoOn
  <2>3. Rank(HopOf(n)) > Rank(h)
    BY <2>2, HopRank, VcsAssumption DEF AtOrigin, AtDestination, Rank, NoHop, HopType
  <2>4. m.dest \in Terminals /\ m.dest \notin Routers
    BY RouteAssumption DEF Route
  <2>5. MsgOf(n) = f
    BY <2>2 DEF MsgOf
  <2>. QED
    BY <1>1, <1>4, <2>2, <2>3, <2>4, <2>5, HopTypeFacts DEF HopOK
<1>6. CASE r # DestRouter(m)
  <2>1. s = [conn |-> Conn("LOCAL", DestRouter(m)), msg |-> f]
    BY <1>2, <1>3, <1>6 DEF do_dfdally_routing
  <2>2. s.conn.kind = "LOCAL" /\ s.conn.to = DestRouter(m) /\ s.msg = f
    BY <2>1 DEF Conn
  <2>3. /\ MsgOf(n) \in Route /\ MsgOf(n).dest = m.dest /\ MsgOf(n).origin = m.origin
        /\ MsgOf(n).last_hop = "LOCAL" /\ MsgOf(n).l_hop = m.l_hop + 1
    BY <1>1, <1>3, <2>2, OnwardFacts
  <2>4. /\ DestRouter(MsgOf(n)) = DestRouter(m) /\ DestGroup(MsgOf(n)) = DestGroup(m)
        /\ SrcGroup(MsgOf(n)) = SrcGroup(m)
    BY <2>3 DEF DestRouter, DestGroup, SrcGroup
  <2>5. n.conn.kind = "LOCAL" /\ n.conn.to = DestRouter(m)
    BY <1>3, <2>2
  <2>6. Rank(HopOf(n)) > Rank(h)
    <3>1. CASE AtOrigin(r, m, h)
      BY <1>4, <2>5, <3>1, HopRank DEF AtOrigin, Rank, NoHop
    <3>2. CASE AtDestination(r, m, h)
      <4>1. Rank(h) < 6 /\ n.chan = 3
        BY <1>4, <1>6, <3>2 DEF AtDestination
      <4>2. Rank(HopOf(n)) = 6
        BY <4>1, <2>5, HopRank
      <4>3. Rank(h) \in Int
        BY <3>2 DEF AtDestination, Rank, HopType
      <4>. QED
        BY <4>1, <4>2, <4>3
    <3>. QED
      BY <3>1, <3>2
  <2>7. AtDestination(DestRouter(m), MsgOf(n), HopOf(n))
    <3>1. SrcGroup(m) = DestGroup(m) => m.l_hop = 0
      BY <1>6 DEF AtOrigin, AtDestination
    <3>2. Group[DestRouter(m)] = DestGroup(m)
      BY DEF DestGroup
    <3>. QED
      BY <1>4, <2>3, <2>4, <2>5, <3>1, <3>2, HopRank DEF AtDestination
  <2>. QED
    BY <1>2, <1>4, <2>3, <2>5, <2>6, <2>7, HopTypeFacts DEF HopOK, Stage
<1>. QED
  BY <1>5, <1>6

\* routing in another group than the destination's is up to the algorithm
LEMMA AlgorithmStop ==
  ASSUME NEW alg \in Algorithms, NEW r \in Routers, NEW m \in Route,
         Group[r] # DestGroup(m), m.last_hop # "TERMINAL",
         NEW s \in do_dfdally_routing(alg, r, m)
  PROVE  \/ alg = "MINIMAL" /\ s \in minimal_routing(r, m)
         \/ alg = "NON_MINIMAL" /\ s \in nonminimal_routing(r, m)
         \/ alg = "PROG_ADAPTIVE" /\ s \in prog_adaptive_routing(r, m)
<1>1. r # DestRouter(m)
  BY DEF DestGroup
<1>. QED
  BY <1>1 DEF do_dfdally_routing, Algorithms

\* at the first router an intermediate group is chosen before
LEMMA OriginStop ==
  ASSUME NEW alg \in Algorithms, NEW r \in Routers, NEW m \in Route,
         Group[r] # DestGroup(m), m.last_hop = "TERMINAL",
         NEW s \in do_dfdally_routing(alg, r, m)
  PROVE  \E g \in select_intermediate_group(r, m) :
           LET x == [m EXCEPT !.intm = g]
           IN  \/ alg = "MINIMAL" /\ s \in minimal_routing(r, x)
               \/ alg = "NON_MINIMAL" /\ s \in nonminimal_routing(r, x)
               \/ alg = "PROG_ADAPTIVE" /\ s \in prog_adaptive_routing(r, x)
<1>1. r # DestRouter(m)
  BY DEF DestGroup
<1>. QED
  BY <1>1 DEF do_dfdally_routing, Algorithms

LEMMA FromOrigin ==
  ASSUME NEW alg \in Algorithms, NEW r \in Routers, NEW m \in Route, NEW h \in HopType,
         Group[r] # DestGroup(m), AtOrigin(r, m, h),
         NEW n \in NextHops(alg, r, m)
  PROVE  HopOK(alg, h, n)
<1> DEFINE f == FirstRouter(m)
<1>1. /\ f \in Route /\ f.dest = m.dest /\ f.origin = m.origin /\ f.l_hop = 0
      /\ f.last_hop = "TERMINAL" /\ f.path_type = "MINIMAL" /\ f.intm = NoGroup
      /\ f.visited = m.visited
  BY FirstRouterFacts DEF AtOrigin
<1>2. DestGroup(f) = DestGroup(m) /\ SrcGroup(f) = SrcGroup(m)
  BY <1>1 DEF DestGroup, DestRouter, SrcGroup
<1> HIDE DEF f
<1>3. PICK s \in do_dfdally_routing(alg, r, f) :
        n.conn = s.conn /\ n.chan = output_chan(r, m) /\ n.msg = GoOn(s)
  BY NextHopFacts DEF f
<1>4. Group[r] = SrcGroup(m) /\ r = m.origin
  BY DEF AtOrigin, SrcGroup
<1>5. n.chan = 0
  BY <1>3, <1>4 DEF AtOrigin, output_chan
<1>6. PICK g \in select_intermediate_group(r, f) :
        LET x == [f EXCEPT !.intm = g]
        IN  \/ alg = "MINIMAL" /\ s \in minimal_routing(r, x)
            \/ alg = "NON_MINIMAL" /\ s \in nonminimal_routing(r, x)
            \/ alg = "PROG_ADAPTIVE" /\ s \in prog_adaptive_routing(r, x)
  BY <1>1, <1>2, <1>3, OriginStop
<1>7. g \in Groups \ {SrcGroup(m), DestGroup(m)}
  BY <1>1, <1>2, SelectFacts
<1> DEFINE x == [f EXCEPT !.intm = g]
<1>8. /\ x \in Route /\ x.dest = m.dest /\ x.origin = m.origin /\ x.l_hop = 0
      /\ x.last_hop = "TERMINAL" /\ x.path_type = "MINIMAL" /\ x.intm = g
      /\ x.visited = m.visited
  BY <1>1, <1>7 DEF Route
<1>9. DestGroup(x) = DestGroup(m) /\ SrcGroup(x) = SrcGroup(m)
  BY <1>8 DEF DestGroup, DestRouter, SrcGroup
<1>10. \/ alg = "MINIMAL" /\ s \in minimal_routing(r, x)
       \/ alg = "NON_MINIMAL" /\ s \in nonminimal_routing(r, x)
       \/ alg = "PROG_ADAPTIVE" /\ s \in prog_adaptive_routing(r, x)
  BY <1>6
<1> HIDE DEF x
<1>11. ~x.visited /\ x.intm # Group[r]
  BY <1>4, <1>7, <1>8 DEF AtOrigin
<1>12. FirstStopOK(alg, r, x, s) /\ s.msg.intm = g
  <2>1. CASE alg = "MINIMAL"
    BY <1>8, <1>10, <2>1, MinimalRouting
  <2>2. CASE alg = "NON_MINIMAL"
    BY <1>8, <1>10, <1>11, <2>2, NonminimalRouting
  <2>3. CASE alg = "PROG_ADAPTIVE"
    BY <1>4, <1>7, <1>8, <1>9, <1>10, <1>11, <2>3, ProgRouting
  <2>. QED
    BY <2>1, <2>2, <2>3 DEF Algorithms
<1> DEFINE goal == IF s.msg.path_type = "MINIMAL" THEN DestGroup(m) ELSE g
<1>13. /\ s.msg \in Route /\ s.msg.dest = m.dest /\ s.msg.origin = m.origin
       /\ s.msg.l_hop = 0 /\ s.msg.path_type # "NONE" /\ PathOf(alg, s.msg)
       /\ s.msg.visited = m.visited
       /\ Towards(r, goal, s.conn)
  BY <1>8, <1>9, <1>12 DEF FirstStopOK, StopOK
<1> HIDE DEF goal
<1>14. s.conn.kind \in {"LOCAL", "GLOBAL"} /\ s.conn.to \in Routers
  BY <1>13 DEF Towards
<1> DEFINE w == MsgOf(n)
<1>15. /\ w \in Route /\ w.dest = m.dest /\ w.origin = m.origin /\ w.visited = m.visited
       /\ w.path_type = s.msg.path_type /\ w.intm = g /\ w.last_hop = n.conn.kind
       /\ w.l_hop = IF n.conn.kind = "LOCAL" THEN 1 ELSE 0
  BY <1>3, <1>12, <1>13, <1>14, OnwardFacts
<1>16. DestGroup(w) = DestGroup(m) /\ SrcGroup(w) = SrcGroup(m) /\ DestRouter(w) = DestRouter(m)
  BY <1>15 DEF DestGroup, DestRouter, SrcGroup
<1>17. Rank(HopOf(n)) > Rank(h)
  BY <1>3, <1>5, <1>14, HopRank DEF AtOrigin, Rank, NoHop
<1>18. PathOf(alg, w)
  BY <1>13, <1>15 DEF PathOf
<1> HIDE DEF w
<1>19. Stage(alg, n.conn.to, w, HopOf(n))
  <2>1. CASE n.conn.kind = "LOCAL"
    <3>1. /\ n.conn.to \in Routers \ {r} /\ Group[n.conn.to] = Group[r]
          /\ Linked(n.conn.to, goal)
      BY <1>3, <1>13, <2>1 DEF Towards
    <3>2. goal = IF w.path_type = "MINIMAL" THEN DestGroup(w) ELSE w.intm
      BY <1>15, <1>16 DEF goal
    <3>3. ~w.visited /\ w.path_type # "NONE" /\ r = w.origin
      BY <1>4, <1>13, <1>15 DEF AtOrigin
    <3>. QED
      BY <1>4, <1>5, <1>7, <1>15, <1>16, <1>18, <2>1, <3>1, <3>2, <3>3, HopRank
         DEF Stage, AtSourceExit
  <2>2. CASE n.conn.kind = "GLOBAL" /\ w.path_type = "MINIMAL"
    <3>1. Group[n.conn.to] = DestGroup(m)
      BY <1>3, <1>13, <1>15, <2>2 DEF Towards, goal
    <3>2. Rank(HopOf(n)) = 1
      BY <1>5, <2>2, HopRank
    <3>. QED
      BY <1>4, <1>5, <1>15, <1>16, <2>2, <3>1, <3>2, HopRank DEF Stage, AtDestination
  <2>3. CASE n.conn.kind = "GLOBAL" /\ w.path_type # "MINIMAL"
    <3>1. Group[n.conn.to] = g
      BY <1>3, <1>13, <1>15, <2>3 DEF Towards, goal
    <3>2. w.path_type = "NON_MINIMAL"
      BY <1>13, <1>15, <2>3 DEF Route
    <3>. QED
      BY <1>4, <1>5, <1>7, <1>15, <1>16, <1>18, <2>3, <3>1, <3>2, HopRank
         DEF Stage, AtIntermediate, Intermediate
  <2>. QED
    BY <1>3, <1>14, <2>1, <2>2, <2>3
<1>20. HopOf(n) \in HopType
  BY <1>3, <1>5, <1>14, HopTypeFacts
<1>. QED
  BY <1>3, <1>14, <1>15, <1>17, <1>19, <1>20 DEF HopOK, w

LEMMA FromSourceExit ==
  ASSUME NEW alg \in Algorithms, NEW r \in Routers, NEW m \in Route, NEW h \in HopType,
         AtSourceExit(alg, r, m, h),
         NEW n \in NextHops(alg, r, m)
  PROVE  HopOK(alg, h, n)
<1>1. FirstRouter(m) = m
  BY FirstRouterFacts DEF AtSourceExit
<1>2. PICK s \in do_dfdally_routing(alg, r, m) :
        n.conn = s.conn /\ n.chan = output_chan(r, m) /\ n.msg = GoOn(s)
  BY <1>1, NextHopFacts
<1>3. n.chan = 1
  BY <1>2 DEF AtSourceExit, output_chan
<1>4. \/ alg = "MINIMAL" /\ s \in minimal_routing(r, m)
      \/ alg = "NON_MINIMAL" /\ s \in nonminimal_routing(r, m)
      \/ alg = "PROG_ADAPTIVE" /\ s \in prog_adaptive_routing(r, m)
  BY <1>2, AlgorithmStop DEF AtSourceExit
<1>5. /\ ~m.visited /\ Group[r] = SrcGroup(m) /\ m.intm # Group[r] /\ m.intm \in Groups
      /\ m.path_type \in {"MINIMAL", "NON_MINIMAL"} /\ PathOf(alg, m) /\ r # m.origin
      /\ SrcGroup(m) # DestGroup(m)
  BY DEF AtSourceExit, Route
\* the link that the packet came for is there, and so it leaves the group
<1>6. FirstStopOK(alg, r, m, s) /\ s.conn.kind = "GLOBAL"
  <2>1. CASE alg = "MINIMAL"
    <3>1. m.path_type = "MINIMAL" /\ Linked(r, DestGroup(m))
      BY <1>5, <2>1 DEF AtSourceExit, PathOf
    <3>2. FirstStopOK(alg, r, m, s) /\ s.msg = m
      BY <1>4, <2>1, <3>1, MinimalRouting
    <3>. QED
      BY <3>1, <3>2 DEF FirstStopOK, Towards
  <2>2. CASE alg = "NON_MINIMAL"
    <3>1. m.path_type = "NON_MINIMAL" /\ Linked(r, m.intm)
      BY <1>5, <2>2 DEF AtSourceExit, PathOf
    <3>2. FirstStopOK(alg, r, m, s) /\ s.msg.intm = m.intm
      BY <1>4, <1>5, <2>2, NonminimalRouting
    <3>3. s.msg.path_type = "NON_MINIMAL"
      BY <2>2, <3>2 DEF FirstStopOK, StopOK, PathOf
    <3>. QED
      BY <3>1, <3>2, <3>3 DEF FirstStopOK, Towards
  <2>3. CASE alg = "PROG_ADAPTIVE"
    <3>1. /\ FirstStopOK(alg, r, m, s)
          /\ m.path_type = "NON_MINIMAL" => s.msg.path_type = "NON_MINIMAL"
          /\ s.msg.path_type = "NON_MINIMAL" => s.conn.kind = "GLOBAL"
      BY <1>4, <1>5, <2>3, ProgRouting
    <3>2. CASE s.msg.path_type = "NON_MINIMAL"
      BY <3>1, <3>2
    <3>3. CASE s.msg.path_type # "NON_MINIMAL"
      <4>1. s.msg.path_type = "MINIMAL"
        BY <3>1, <3>3 DEF FirstStopOK, StopOK, Route
      <4>2. m.path_type = "MINIMAL"
        BY <1>5, <3>1, <3>3
      <4>3. Linked(r, DestGroup(m))
        BY <4>2 DEF AtSourceExit
      <4>. QED
        BY <3>1, <4>1, <4>3 DEF FirstStopOK, Towards
    <3>. QED
      BY <3>2, <3>3
  <2>. QED
    BY <2>1, <2>2, <2>3 DEF Algorithms
<1> DEFINE goal == IF s.msg.path_type = "MINIMAL" THEN DestGroup(m) ELSE s.msg.intm
<1>7. /\ s.msg \in Route /\ s.msg.dest = m.dest /\ s.msg.origin = m.origin
      /\ s.msg.path_type # "NONE" /\ PathOf(alg, s.msg)
      /\ s.conn.to \in Routers /\ Group[s.conn.to] = goal
  BY <1>6 DEF FirstStopOK, StopOK, Towards
\* no link leads back into the own group
<1>8. goal # SrcGroup(m)
  BY <1>5, <1>6 DEF FirstStopOK, Towards
<1> DEFINE w == MsgOf(n)
<1>9. /\ w \in Route /\ w.dest = m.dest /\ w.origin = m.origin
      /\ w.path_type = s.msg.path_type /\ w.intm = s.msg.intm /\ w.last_hop = "GLOBAL"
  BY <1>2, <1>6, <1>7, OnwardFacts
<1>10. DestGroup(w) = DestGroup(m) /\ SrcGroup(w) = SrcGroup(m)
  BY <1>9 DEF DestGroup, DestRouter, SrcGroup
<1>11. n.conn.kind = "GLOBAL" /\ n.conn.to = s.conn.to
  BY <1>2, <1>6
<1>12. Rank(HopOf(n)) = 3 /\ Rank(h) = 0
  BY <1>3, <1>11, HopRank DEF AtSourceExit, Rank
<1>13. PathOf(alg, w)
  BY <1>7, <1>9 DEF PathOf
<1> HIDE DEF w
<1>14. Stage(alg, n.conn.to, w, HopOf(n))
  <2>1. CASE goal = DestGroup(m)
    BY <1>3, <1>5, <1>7, <1>9, <1>10, <1>11, <1>12, <2>1, HopRank DEF Stage, AtDestination
  <2>2. CASE goal # DestGroup(m)
    <3>1. w.path_type = "NON_MINIMAL" /\ w.intm = goal
      BY <1>7, <1>9, <2>2 DEF Route
    <3>. QED
      BY <1>3, <1>5, <1>7, <1>8, <1>9, <1>10, <1>11, <1>13, <2>2, <3>1, HopRank
         DEF Stage, AtIntermediate, Intermediate
  <2>. QED
    BY <2>1, <2>2
<1>15. HopOf(n) \in HopType
  BY <1>3, <1>11, HopTypeFacts
<1>. QED
  BY <1>7, <1>9, <1>11, <1>12, <1>14, <1>15 DEF HopOK, w

\* in the intermediate group: on to the destination's group
LEMMA FromIntermediate ==
  ASSUME NEW alg \in Algorithms, NEW r \in Routers, NEW m \in Route, NEW h \in HopType,
         AtIntermediate(alg, r, m, h) \/ AtIntermediateExit(alg, r, m, h),
         NEW n \in NextHops(alg, r, m)
  PROVE  HopOK(alg, h, n)
<1>1. /\ Intermediate(alg, r, m) /\ m.last_hop # "TERMINAL"
      /\ Group[r] \notin {SrcGroup(m), DestGroup(m)} /\ m.intm = Group[r]
      /\ m.path_type = "NON_MINIMAL" /\ alg # "MINIMAL"
  BY DEF AtIntermediate, AtIntermediateExit, Intermediate, PathOf
<1>2. PICK s \in do_dfdally_routing(alg, r, m) :
        n.conn = s.conn /\ n.chan = output_chan(r, m) /\ n.msg = GoOn(s)
  BY <1>1, FirstRouterFacts, NextHopFacts
<1>3. n.chan = 2
  BY <1>1, <1>2 DEF output_chan
<1>4. /\ StopOK(alg, r, m, s)
      /\ s.msg.intm = m.intm /\ s.msg.visited /\ s.msg.path_type = "NON_MINIMAL"
      /\ Towards(r, DestGroup(m), s.conn)
  <2>1. CASE alg = "NON_MINIMAL"
    BY <1>1, <1>2, <2>1, AlgorithmStop, NonminimalOnward
  <2>2. CASE alg = "PROG_ADAPTIVE"
    BY <1>1, <1>2, <2>2, AlgorithmStop, ProgOnward
  <2>. QED
    BY <1>1, <2>1, <2>2 DEF Algorithms
<1>5. s.msg \in Route /\ s.msg.dest = m.dest /\ s.msg.origin = m.origin /\ PathOf(alg, s.msg)
  BY <1>4 DEF StopOK
<1>6. s.conn.kind \in {"LOCAL", "GLOBAL"} /\ s.conn.to \in Routers
  BY <1>4 DEF Towards
<1> DEFINE w == MsgOf(n)
<1>7. /\ w \in Route /\ w.dest = m.dest /\ w.origin = m.origin /\ w.visited
      /\ w.path_type = "NON_MINIMAL" /\ w.intm = m.intm /\ w.last_hop = n.conn.kind
  BY <1>2, <1>4, <1>5, <1>6, OnwardFacts
<1>8. DestGroup(w) = DestGroup(m) /\ SrcGroup(w) = SrcGroup(m)
  BY <1>7 DEF DestGroup, DestRouter, SrcGroup
<1>9. PathOf(alg, w)
  BY <1>4, <1>5, <1>7 DEF PathOf
<1> HIDE DEF w
<1>10. HopOf(n) \in HopType
  BY <1>2, <1>3, <1>6, HopTypeFacts
<1>11. CASE n.conn.kind = "LOCAL"
  <2>1. /\ ~Linked(r, DestGroup(m)) /\ Group[n.conn.to] = Group[r]
        /\ Linked(n.conn.to, DestGroup(m))
    BY <1>2, <1>4, <1>11 DEF Towards
  <2>2. Rank(h) \in Int /\ Rank(h) <= 3
    BY <2>1 DEF AtIntermediate, AtIntermediateExit, Rank, HopType
  <2>3. Rank(HopOf(n)) = 4
    BY <1>3, <1>11, HopRank
  <2>4. AtIntermediateExit(alg, n.conn.to, w, HopOf(n))
    BY <1>1, <1>3, <1>7, <1>8, <1>9, <1>11, <2>1, HopRank DEF AtIntermediateExit, Intermediate
  <2>. QED
    BY <1>2, <1>6, <1>7, <1>10, <2>2, <2>3, <2>4 DEF HopOK, Stage, w
<1>12. CASE n.conn.kind = "GLOBAL"
  <2>1. Group[n.conn.to] = DestGroup(m)
    BY <1>2, <1>4, <1>12 DEF Towards
  <2>2. Rank(h) \in Int /\ Rank(h) <= 4
    BY DEF AtIntermediate, AtIntermediateExit, Rank, HopType
  <2>3. Rank(HopOf(n)) = 5
    BY <1>3, <1>12, HopRank
  <2>4. SrcGroup(m) # DestGroup(m)
    BY <1>1 DEF Intermediate
  <2>5. AtDestination(n.conn.to, w, HopOf(n))
    BY <1>3, <1>7, <1>8, <1>12, <2>1, <2>3, <2>4, HopRank DEF AtDestination
  <2>. QED
    BY <1>2, <1>6, <1>7, <1>10, <2>2, <2>3, <2>5 DEF HopOK, Stage, w
<1>. QED
  BY <1>2, <1>6, <1>11, <1>12

LEMMA EveryHop ==
  ASSUME NEW alg \in Algorithms, NEW r \in Routers, NEW m \in Route, NEW h \in HopType,
         Stage(alg, r, m, h), NEW n \in NextHops(alg, r, m)
  PROVE  HopOK(alg, h, n)
<1>1. CASE AtOrigin(r, m, h)
  BY <1>1, LastGroup, FromOrigin
<1>2. CASE AtSourceExit(alg, r, m, h)
  BY <1>2, FromSourceExit
<1>3. CASE AtIntermediate(alg, r, m, h) \/ AtIntermediateExit(alg, r, m, h)
  BY <1>3, FromIntermediate
<1>4. CASE AtDestination(r, m, h)
  <2>1. Group[r] = DestGroup(m)
    BY <1>4 DEF AtDestination
  <2>. QED
    BY <1>4, <2>1, LastGroup
<1>. QED
  BY <1>1, <1>2, <1>3, <1>4 DEF Stage

-----------------------------------------------------------------------------
(* Whatever the stage: a hop goes to a port of the router and keeps what   *)
(* routing does not choose.                                                *)

PortsOf(r) ==
  local_conns(r)
  \cup {Conn("GLOBAL", l[2]) : l \in {l \in Global : l[1] = r}}
  \cup {Conn("TERMINAL", t) : t \in {t \in Terminals : RouterOf[t] = r}}

LEMMA LinksArePorts ==
  ASSUME NEW r, NEW g
  PROVE  /\ get_connections_to_group(r, g) \subseteq PortsOf(r)
         /\ get_routed_connections_to_group(r, g) \subseteq PortsOf(r)
<1>1. ASSUME NEW c \in get_connections_to_group(r, g)
      PROVE  c \in PortsOf(r)
  <2>1. PICK q \in Routers : <<r, q>> \in Global /\ c = Conn("GLOBAL", q)
    BY DEF get_connections_to_group
  <2>2. <<r, q>>[1] = r /\ <<r, q>>[2] = q
    OBVIOUS
  <2>. QED
    BY <2>1, <2>2 DEF PortsOf
<1>. QED
  BY <1>1 DEF get_routed_connections_to_group, PortsOf

\* the connection is a port, and only path, intermediate group and visit change
Keeps(r, m, s) ==
  /\ s.conn \in PortsOf(r)
  /\ s.msg \in Route
  /\ s.msg.dest = m.dest /\ s.msg.last_hop = m.last_hop

LEMMA MinimalKeeps ==
  ASSUME NEW r \in Routers, NEW m \in Route, NEW s \in minimal_routing(r, m)
  PROVE  Keeps(r, m, s)
  BY LinksArePorts DEF minimal_routing, legal_minimal_stops, Keeps

LEMMA NonminimalKeeps ==
  ASSUME NEW r \in Routers, NEW m \in Route, NEW s \in nonminimal_routing(r, m)
  PROVE  Keeps(r, m, s)
<1> DEFINE w == [m EXCEPT !.path_type = "NON_MINIMAL"]
           v == Visit(r, w)
           next == IF v.visited THEN DestGroup(m) ELSE v.intm
           direct == get_connections_to_group(r, next)
<1>1. w \in Route /\ w.dest = m.dest /\ w.last_hop = m.last_hop
  BY DEF Route
<1>2. v \in Route /\ v.dest = m.dest /\ v.last_hop = m.last_hop
  <2> HIDE DEF w
  <2>. QED
    BY <1>1, VisitFacts
<1>3. PICK c \in IF direct # {} THEN direct ELSE get_routed_connections_to_group(r, next) :
        s = [conn |-> c, msg |-> v]
  BY DEF nonminimal_routing
<1>4. c \in PortsOf(r)
  BY <1>3, LinksArePorts
<1> HIDE DEF v
<1>. QED
  BY <1>2, <1>3, <1>4 DEF Keeps

LEMMA StopsAreLinks ==
  ASSUME NEW r \in Routers, NEW v \in Route, NEW n \in legal_nonminimal_stops(r, v)
  PROVE  n[1] \in Groups \cup {NoGroup} /\ n[2] \subseteq PortsOf(r)
<1>1. v.intm \in Groups \cup {NoGroup}
  BY DEF Route
<1>2. CASE Group[r] # SrcGroup(v)
  <2>1. n = <<v.intm, {}>>
    BY <1>2 DEF legal_nonminimal_stops
  <2>. QED
    BY <1>1, <2>1
<1>3. CASE Group[r] = SrcGroup(v) /\ get_connections_to_group(r, v.intm) # {}
  <2>1. n = <<v.intm, get_connections_to_group(r, v.intm)>>
    BY <1>3 DEF legal_nonminimal_stops
  <2>. QED
    BY <1>1, <2>1, LinksArePorts
<1>4. CASE /\ Group[r] = SrcGroup(v) /\ ~(get_connections_to_group(r, v.intm) # {})
           /\ r = v.origin
  <2>1. n = <<v.intm, get_routed_connections_to_group(r, v.intm)>>
    BY <1>4 DEF legal_nonminimal_stops
  <2>. QED
    BY <1>1, <2>1, LinksArePorts
<1>5. CASE /\ Group[r] = SrcGroup(v) /\ ~(get_connections_to_group(r, v.intm) # {})
           /\ r # v.origin
  <2>1. PICK g \in select_intermediate_group(r, v) : n = <<g, get_connections_to_group(r, g)>>
    BY <1>5 DEF legal_nonminimal_stops
  <2>2. g \in Groups
    BY <2>1, SelectFacts
  <2>. QED
    BY <2>1, <2>2, LinksArePorts
<1>. QED
  BY <1>2, <1>3, <1>4, <1>5

LEMMA ProgKeeps ==
  ASSUME NEW r \in Routers, NEW m \in Route, NEW s \in prog_adaptive_routing(r, m)
  PROVE  Keeps(r, m, s)
<1> DEFINE v == Visit(r, m)
<1>1. v \in Route /\ v.dest = m.dest /\ v.last_hop = m.last_hop
  BY VisitFacts
<1>2. ProgStop(r, m, v, s)
  BY ProgStops
<1> HIDE DEF v
<1>3. PICK n \in legal_nonminimal_stops(r, v) :
        \E c \in n[2] \cup legal_minimal_stops(r, m) :
          \/ s = [conn |-> c, msg |-> [v EXCEPT !.intm = n[1]]]
          \/ \E p \in {"NON_MINIMAL", m.path_type} :
               s = [conn |-> c, msg |-> [v EXCEPT !.intm = n[1], !.path_type = p]]
  BY <1>2 DEF ProgStop
<1>4. n[1] \in Groups \cup {NoGroup} /\ n[2] \subseteq PortsOf(r)
  BY <1>1, <1>3, StopsAreLinks
<1>5. legal_minimal_stops(r, m) \subseteq PortsOf(r)
  BY LinksArePorts DEF legal_minimal_stops
<1>6. PICK c \in n[2] \cup legal_minimal_stops(r, m) :
          \/ s = [conn |-> c, msg |-> [v EXCEPT !.intm = n[1]]]
          \/ \E p \in {"NON_MINIMAL", m.path_type} :
               s = [conn |-> c, msg |-> [v EXCEPT !.intm = n[1], !.path_type = p]]
  BY <1>3
<1>7. c \in PortsOf(r) /\ m.path_type \in {"NONE", "MINIMAL", "NON_MINIMAL"}
  BY <1>4, <1>5, <1>6 DEF Route
<1>8. ASSUME NEW g \in Groups \cup {NoGroup}
      PROVE  LET w == [v EXCEPT !.intm = g]
             IN  w \in Route /\ w.dest = m.dest /\ w.last_hop = m.last_hop
  BY <1>1 DEF Route
<1>9. ASSUME NEW g \in Groups \cup {NoGroup}, NEW p \in {"NONE", "MINIMAL", "NON_MINIMAL"}
      PROVE  LET w == [v EXCEPT !.intm = g, !.path_type = p]
             IN  w \in Route /\ w.dest = m.dest /\ w.last_hop = m.last_hop
  BY <1>1 DEF Route
<1>10. CASE s = [conn |-> c, msg |-> [v EXCEPT !.intm = n[1]]]
  BY <1>4, <1>7, <1>8, <1>10 DEF Keeps
<1>11. ASSUME NEW p \in {"NON_MINIMAL", m.path_type},
              s = [conn |-> c, msg |-> [v EXCEPT !.intm = n[1], !.path_type = p]]
       PROVE  Keeps(r, m, s)
  BY <1>4, <1>7, <1>9, <1>11 DEF Keeps
<1>. QED
  BY <1>6, <1>10, <1>11

LEMMA EveryStop ==
  ASSUME NEW alg \in Algorithms, NEW r \in Routers, NEW m \in Route,
         NEW n \in NextHops(alg, r, m)
  PROVE  /\ n.conn \in PortsOf(r)
         /\ n.msg \in Route
         /\ n.msg.dest = m.dest /\ n.msg.last_hop = m.last_hop
<1> DEFINE f == FirstRouter(m)
<1>1. f \in Route /\ f.dest = m.dest /\ f.last_hop = m.last_hop
  BY FirstRouterFacts
<1>2. PICK s \in do_dfdally_routing(alg, r, f) : n.conn = s.conn /\ n.msg = GoOn(s)
  BY NextHopFacts
<1> HIDE DEF f
<1>3. Keeps(r, f, s)
  <2>1. CASE r = DestRouter(f)
    <3>1. s = [conn |-> Conn("TERMINAL", f.dest), msg |-> f]
      BY <1>2, <2>1 DEF do_dfdally_routing
    <3>2. f.dest \in Terminals /\ RouterOf[f.dest] = r
      BY <1>1, <2>1 DEF Route, DestRouter
    <3>. QED
      BY <1>1, <3>1, <3>2 DEF Keeps, PortsOf
  <2>2. CASE r # DestRouter(f) /\ Group[r] = DestGroup(f)
    <3>1. s = [conn |-> Conn("LOCAL", DestRouter(f)), msg |-> f]
      BY <1>2, <2>2 DEF do_dfdally_routing
    <3>2. Conn("LOCAL", DestRouter(f)) \in local_conns(r)
      BY <1>1, <2>2, GroupFacts DEF local_conns, DestGroup
    <3>. QED
      BY <1>1, <3>1, <3>2 DEF Keeps, PortsOf
  <2>3. CASE r # DestRouter(f) /\ Group[r] # DestGroup(f)
    <3>1. PICK x : /\ x = f \/ \E g \in select_intermediate_group(r, f) : x = [f EXCEPT !.intm = g]
                   /\ \/ s \in minimal_routing(r, x)
                      \/ s \in nonminimal_routing(r, x)
                      \/ s \in prog_adaptive_routing(r, x)
      <4>1. CASE f.last_hop = "TERMINAL"
        BY <1>1, <1>2, <2>3, <4>1, OriginStop
      <4>2. CASE f.last_hop # "TERMINAL"
        BY <1>1, <1>2, <2>3, <4>2, AlgorithmStop
      <4>. QED
        BY <4>1, <4>2
    <3>2. x \in Route /\ x.dest = f.dest /\ x.last_hop = f.last_hop
      <4>1. ASSUME NEW g \in select_intermediate_group(r, f)
            PROVE  LET w == [f EXCEPT !.intm = g]
                   IN  w \in Route /\ w.dest = f.dest /\ w.last_hop = f.last_hop
        <5>1. g \in Groups
          BY <1>1, SelectFacts
        <5>. QED
          BY <1>1, <5>1 DEF Route
      <4>. QED
        BY <1>1, <3>1, <4>1
    <3>3. Keeps(r, x, s)
      BY <3>1, <3>2, MinimalKeeps, NonminimalKeeps, ProgKeeps
    <3>. QED
      BY <3>2, <3>3 DEF Keeps
  <2>. QED
    BY <2>1, <2>2, <2>3
<1>4. GoOn(s) \in Route /\ GoOn(s).dest = s.msg.dest /\ GoOn(s).last_hop = s.msg.last_hop
  BY <1>3 DEF GoOn, Keeps, Route
<1>. QED
  BY <1>1, <1>2, <1>3, <1>4 DEF Keeps

-----------------------------------------------------------------------------
(* The theorems.                                                           *)

LEMMA InitWalk == Init => WalkInv
<1> SUFFICES ASSUME Init PROVE WalkInv
  OBVIOUS
<1>1. PICK src \in Terminals, dest \in Terminals : msg = NewRoute(src, dest) /\ at = RouterOf[src]
  BY DEF Init
<1>2. RouterOf[src] \in Routers
  BY RouteAssumption
<1>3. /\ msg \in Route
      /\ AtOrigin(at, msg, NoHop)
  BY <1>1, <1>2 DEF NewRoute, Route, AtOrigin
<1>4. hop = NoHop /\ NoHop \in HopType /\ routing \in Algorithms
  BY VcsAssumption DEF Init, NoHop, HopType
<1>. QED
  BY <1>1, <1>2, <1>3, <1>4 DEF WalkInv, Stage

LEMMA ForwardHop ==
  ASSUME WalkInv, Forward
  PROVE  /\ WalkInv'
         /\ Rank(hop') > Rank(hop)
         /\ hop'.chan \in 0 .. NumVcs - 1
<1>1. PICK n \in NextHops(routing, at, msg) :
        /\ at' = n.conn.to /\ msg' = MsgOf(n) /\ hop' = HopOf(n)
  BY DEF Forward, MsgOf, HopOf
<1>2. routing' = routing /\ at \in Routers
  BY DEF Forward
<1>3. HopOK(routing, hop, n)
  BY <1>1, <1>2, EveryHop DEF WalkInv
<1>4. hop'.chan \in 0 .. NumVcs - 1
  BY <1>1, <1>3 DEF HopOK, HopType
<1>. QED
  BY <1>1, <1>2, <1>3, <1>4 DEF HopOK, WalkInv

LEMMA WalkStep == WalkInv /\ [Next]_vars => WalkInv'
<1> SUFFICES ASSUME WalkInv, [Next]_vars PROVE WalkInv'
  OBVIOUS
<1>1. CASE Forward
  BY <1>1, ForwardHop
<1>2. CASE UNCHANGED vars
  BY <1>2 DEF vars, WalkInv
<1>. QED
  BY <1>1, <1>2 DEF Next, Terminated

\* Whatever the groups, the links and the routing algorithm: each hop that
\* router_packet_receive gives a packet takes a channel of higher rank than the
\* one it came over, and one that exists.  So the channels' credits cannot be
\* waited for in a circle.
THEOREM ChannelsAlwaysAscend == Spec => ChannelsAscend
<1>1. WalkInv /\ [Next]_vars =>
        [Rank(hop') > Rank(hop) /\ hop'.chan \in 0 .. NumVcs - 1]_<<at, msg, hop>>
  <2> SUFFICES ASSUME WalkInv, [Next]_vars
               PROVE  [Rank(hop') > Rank(hop) /\ hop'.chan \in 0 .. NumVcs - 1]_<<at, msg, hop>>
    OBVIOUS
  <2>1. CASE Forward
    BY <2>1, ForwardHop
  <2>2. CASE UNCHANGED vars
    BY <2>2 DEF vars
  <2>. QED
    BY <2>1, <2>2 DEF Next, Terminated
<1>. QED
  BY <1>1, InitWalk, WalkStep, PTL DEF Spec, ChannelsAscend

\* Outside of its own two groups a packet is in the intermediate group chosen for
\* it and on a non-minimal path: the assertion of router_packet_receive before it
\* uses channel 2 cannot fail, for any topology.
THEOREM IntermediateGroupsArePlanned == Spec => []IntermediateGroupIsPlanned
<1>1. WalkInv => IntermediateGroupIsPlanned
  BY DEF WalkInv, Stage, IntermediateGroupIsPlanned, AtOrigin, AtSourceExit, AtIntermediate,
         AtIntermediateExit, AtDestination, Intermediate, SrcGroup
<1>. QED
  BY <1>1, InitWalk, WalkStep, PTL DEF Spec

-----------------------------------------------------------------------------
(* No dead ends.                                                           *)

\* every group has a link to every other one, and there is a third group to any two
FullyLinked ==
  /\ \A r \in Routers, g \in Groups :
       Group[r] # g => \E q \in Routers : Group[q] = Group[r] /\ Linked(q, g)
  /\ \A g, k \in Groups : Groups \ {g, k} # {}

\* at every router there is a hop to take: no tw_error and no port -1
NoDeadEnd == at \in Routers => NextHops(routing, at, msg) # {}

LEMMA StopsExist ==
  ASSUME FullyLinked, NEW r \in Routers, NEW g \in Groups, g # Group[r]
  PROVE  get_connections_to_group(r, g) = {} => get_routed_connections_to_group(r, g) # {}
<1> SUFFICES ASSUME get_connections_to_group(r, g) = {}
             PROVE  get_routed_connections_to_group(r, g) # {}
  OBVIOUS
<1>1. PICK q \in Routers : Group[q] = Group[r] /\ Linked(q, g)
  BY DEF FullyLinked
<1>2. q # r
  BY <1>1 DEF Linked
<1>3. Conn("LOCAL", q) \in local_conns(r)
  BY <1>1, <1>2 DEF local_conns
<1>4. Conn("LOCAL", q).to = q
  BY DEF Conn
<1>. QED
  BY <1>1, <1>3, <1>4 DEF get_routed_connections_to_group, Linked

LEMMA MinimalExists ==
  ASSUME FullyLinked, NEW r \in Routers, NEW m \in Route, Group[r] # DestGroup(m)
  PROVE  legal_minimal_stops(r, m) # {}
  BY StopsExist, GroupFacts DEF legal_minimal_stops

LEMMA NonminimalExists ==
  ASSUME FullyLinked, NEW r \in Routers, NEW m \in Route, Group[r] # DestGroup(m),
         m.intm \in Groups
  PROVE  nonminimal_routing(r, m) # {}
<1> DEFINE v == Visit(r, [m EXCEPT !.path_type = "NON_MINIMAL"])
           next == IF v.visited THEN DestGroup(m) ELSE v.intm
<1>1. next \in Groups /\ next # Group[r]
  <2> DEFINE u == [m EXCEPT !.path_type = "NON_MINIMAL"]
  <2>1. u \in Route /\ u.intm = m.intm /\ u.visited = m.visited
    BY DEF Route
  <2> HIDE DEF u
  <2>2. /\ Visit(r, u).intm = m.intm
        /\ Group[r] = m.intm => Visit(r, u).visited = TRUE
    <3>1. u \in Route
      BY <2>1
    <3>2. /\ Visit(r, u).intm = u.intm
          /\ Group[r] = u.intm => Visit(r, u).visited = TRUE
      BY <3>1, VisitFacts
    <3>. QED
      BY <2>1, <3>2
  <2>3. v = Visit(r, u)
    BY DEF u
  <2> HIDE DEF v
  <2>. QED
    BY <2>2, <2>3, GroupFacts
<1> HIDE DEF next
<1> DEFINE stops == IF get_connections_to_group(r, next) # {}
                    THEN get_connections_to_group(r, next)
                    ELSE get_routed_connections_to_group(r, next)
<1>2. stops # {}
  BY <1>1, StopsExist
<1>3. nonminimal_routing(r, m) = {[conn |-> c, msg |-> v] : c \in stops}
  BY DEF nonminimal_routing, next
<1>. QED
  BY <1>2, <1>3

\* some non-minimal stop is considered, and it has a connection if the packet
\* depends on it
LEMMA NonminimalStopsExist ==
  ASSUME NEW r \in Routers, NEW m \in Route, m.intm \in Groups
  PROVE  /\ legal_nonminimal_stops(r, m) # {}
         /\ Group[r] = SrcGroup(m) /\ Linked(r, m.intm) =>
              \A n \in legal_nonminimal_stops(r, m) : n[2] # {}
<1>1. select_intermediate_group(r, m) # {}
  BY GroupFacts DEF select_intermediate_group
<1>2. <<m.intm, get_connections_to_group(r, m.intm)>>[2] = get_connections_to_group(r, m.intm)
  OBVIOUS
<1>3. Group[r] = SrcGroup(m) /\ Linked(r, m.intm) =>
        legal_nonminimal_stops(r, m) = {<<m.intm, get_connections_to_group(r, m.intm)>>}
  BY DEF legal_nonminimal_stops, Linked
<1>4. legal_nonminimal_stops(r, m) # {}
  BY <1>1 DEF legal_nonminimal_stops
<1>. QED
  BY <1>2, <1>3, <1>4 DEF Linked

LEMMA ProgExists ==
  ASSUME FullyLinked, NEW r \in Routers, NEW m \in Route, Group[r] # DestGroup(m),
         m.intm \in Groups,
         m.path_type = "NON_MINIMAL" /\ ~Visit(r, m).visited =>
           Group[r] = SrcGroup(m) /\ Linked(r, m.intm)
  PROVE  prog_adaptive_routing(r, m) # {}
<1> DEFINE v == Visit(r, m)
<1>1. v \in Route /\ v.intm = m.intm /\ v.origin = m.origin
  BY VisitFacts
<1>2. SrcGroup(v) = SrcGroup(m)
  BY <1>1 DEF SrcGroup
<1>3. PICK n : n \in legal_nonminimal_stops(r, v)
  BY <1>1, NonminimalStopsExist
<1>4. PICK c : c \in legal_minimal_stops(r, m)
  BY MinimalExists
<1> DEFINE Nonmin(k, path) ==
             {[conn |-> d, msg |-> [v EXCEPT !.intm = k[1], !.path_type = path]] : d \in k[2]}
           Min(k) ==
             {[conn |-> d, msg |-> [v EXCEPT !.intm = k[1]]] : d \in legal_minimal_stops(r, m)}
           onway == m.path_type = "NON_MINIMAL" /\ ~v.visited
           Stops(k) == IF onway THEN Nonmin(k, m.path_type)
                       ELSE Min(k) \cup Nonmin(k, "NON_MINIMAL")
<1>5. prog_adaptive_routing(r, m) = UNION {Stops(k) : k \in legal_nonminimal_stops(r, v)}
  BY DEF prog_adaptive_routing
<1>6. Stops(n) # {}
  <2>1. CASE onway
    <3>1. n[2] # {}
      <4>1. Group[r] = SrcGroup(v) /\ Linked(r, v.intm)
        BY <1>1, <1>2, <2>1
      <4> HIDE DEF v
      <4>. QED
        BY <1>1, <1>3, <4>1, NonminimalStopsExist
    <3>. QED
      BY <2>1, <3>1
  <2>2. CASE ~onway
    <3>1. Min(n) # {}
      BY <1>4
    <3>. QED
      BY <2>2, <3>1
  <2>. QED
    BY <2>1, <2>2
<1> HIDE DEF Stops, v
<1>. QED
  BY <1>3, <1>5, <1>6

LEMMA AlgorithmExists ==
  ASSUME FullyLinked, NEW alg \in Algorithms, NEW r \in Routers, NEW m \in Route,
         Group[r] # DestGroup(m), m.intm \in Groups,
         alg = "PROG_ADAPTIVE" /\ m.path_type = "NON_MINIMAL" /\ ~Visit(r, m).visited =>
           Group[r] = SrcGroup(m) /\ Linked(r, m.intm)
  PROVE  (CASE alg = "MINIMAL" -> minimal_routing(r, m)
            [] alg = "NON_MINIMAL" -> nonminimal_routing(r, m)
            [] alg = "PROG_ADAPTIVE" -> prog_adaptive_routing(r, m)) # {}
<1>1. minimal_routing(r, m) # {}
  BY MinimalExists DEF minimal_routing
<1>2. nonminimal_routing(r, m) # {}
  BY NonminimalExists
<1>3. alg = "PROG_ADAPTIVE" => prog_adaptive_routing(r, m) # {}
  BY ProgExists
<1>. QED
  BY <1>1, <1>2, <1>3 DEF Algorithms

LEMMA HopExists ==
  ASSUME FullyLinked, NEW alg \in Algorithms, NEW r \in Routers, NEW m \in Route,
         NEW h \in HopType, Stage(alg, r, m, h)
  PROVE  NextHops(alg, r, m) # {}
<1> DEFINE f == FirstRouter(m)
           chosen == IF f.last_hop = "TERMINAL"
                     THEN {[f EXCEPT !.intm = g] : g \in select_intermediate_group(r, f)}
                     ELSE {f}
           Alg(x) == CASE alg = "MINIMAL" -> minimal_routing(r, x)
                       [] alg = "NON_MINIMAL" -> nonminimal_routing(r, x)
                       [] alg = "PROG_ADAPTIVE" -> prog_adaptive_routing(r, x)
<1>1. /\ f \in Route /\ f.dest = m.dest /\ f.origin = m.origin /\ f.last_hop = m.last_hop
      /\ f.intm = m.intm /\ f.visited = m.visited
      /\ f.path_type = IF m.last_hop = "TERMINAL" THEN "MINIMAL" ELSE m.path_type
      /\ m.last_hop # "TERMINAL" => f = m
  BY FirstRouterFacts
<1>2. /\ DestGroup(f) = DestGroup(m) /\ SrcGroup(f) = SrcGroup(m) /\ DestRouter(f) = DestRouter(m)
      /\ DestGroup(m) \in Groups /\ SrcGroup(m) \in Groups
  BY <1>1, GroupFacts DEF DestGroup, DestRouter, SrcGroup
<1>3. do_dfdally_routing(alg, r, f) # {} => NextHops(alg, r, m) # {}
  BY DEF NextHops
<1>4. CASE Group[r] = DestGroup(m)
  <2>1. do_dfdally_routing(alg, r, f) # {}
    BY <1>2, <1>4 DEF do_dfdally_routing
  <2>. QED
    BY <1>3, <2>1
<1>5. CASE Group[r] # DestGroup(m)
  <2>1. r # DestRouter(m)
    BY <1>5 DEF DestGroup
  <2>2. do_dfdally_routing(alg, r, f) = UNION {Alg(x) : x \in chosen}
    BY <1>2, <1>5, <2>1 DEF do_dfdally_routing
  <2>3. \E x \in chosen : Alg(x) # {}
    <3>1. CASE AtOrigin(r, m, h)
      <4>1. PICK g : g \in select_intermediate_group(r, f)
        <5>1. f.intm = NoGroup
          BY <1>1, <3>1 DEF AtOrigin
        <5>. QED
          BY <1>2, <5>1 DEF select_intermediate_group, FullyLinked
      <4> DEFINE x == [f EXCEPT !.intm = g]
      <4>2. g \in Groups
        BY <1>1, <4>1, SelectFacts
      <4>3. /\ x \in Route /\ x.dest = f.dest /\ x.intm = g /\ x.path_type = f.path_type
        BY <1>1, <4>2 DEF Route
      <4>4. x \in chosen /\ f.path_type = "MINIMAL"
        BY <1>1, <3>1, <4>1 DEF AtOrigin
      <4>5. DestGroup(x) = DestGroup(m)
        BY <1>1, <4>3 DEF DestGroup, DestRouter
      <4> HIDE DEF x, chosen
      <4>6. Alg(x) # {}
        BY <1>5, <4>2, <4>3, <4>4, <4>5, AlgorithmExists
      <4>. QED
        BY <4>4, <4>6
    <3>2. CASE ~AtOrigin(r, m, h)
      <4>1. /\ m.last_hop # "TERMINAL" /\ m.intm \in Groups
            /\ m.path_type = "NON_MINIMAL" /\ ~Visit(r, m).visited =>
                 Group[r] = SrcGroup(m) /\ Linked(r, m.intm)
        <5>1. CASE AtSourceExit(alg, r, m, h)
          BY <5>1 DEF AtSourceExit
        <5>2. CASE Intermediate(alg, r, m) /\ m.last_hop # "TERMINAL"
          BY <5>2, VisitFacts, GroupFacts DEF Intermediate
        <5>. QED
          BY <1>5, <3>2, <5>1, <5>2
             DEF Stage, AtDestination, AtIntermediate, AtIntermediateExit
      <4>2. Alg(m) # {}
        BY <1>5, <4>1, AlgorithmExists
      <4>3. m \in chosen
        BY <1>1, <4>1
      <4>. QED
        BY <4>2, <4>3
    <3>. QED
      BY <3>1, <3>2
  <2> HIDE DEF chosen, Alg
  <2>. QED
    BY <1>3, <2>2, <2>3
<1>. QED
  BY <1>4, <1>5

\* In a dragonfly in which any two groups are linked and there is a third group to
\* go through, routing finds a hop at every router a packet can get to, also the
\* second choice of an intermediate group by prog_adaptive_routing.  With
\* ChannelsAlwaysAscend a way ends after at most 2 * NumVcs + 1 hops.
THEOREM NoPacketIsStuck ==
  ASSUME FullyLinked
  PROVE  Spec => []NoDeadEnd
<1>1. WalkInv => NoDeadEnd
  BY HopExists DEF WalkInv, NoDeadEnd
<1>. QED
  BY <1>1, InitWalk, WalkStep, PTL DEF Spec
=============================================================================
