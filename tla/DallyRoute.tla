------------------------------ MODULE DallyRoute ------------------------------
(***************************************************************************)
(* Routing of dragonfly-dally as a function of the router and of the       *)
(* routing fields of a packet: the connections do_dfdally_routing may      *)
(* choose, with the fields it changes, and the virtual channel that        *)
(* router_packet_receive gives the packet on the connection chosen.        *)
(* Random choices and choices by score are sets of alternatives.           *)
(*                                                                         *)
(* A definition named Fault_f is f with a seeded fault, for testing the    *)
(* properties; no specification uses it.                                   *)
(***************************************************************************)
EXTENDS Integers, FiniteSets

CONSTANTS
  Routers, Terminals,
  Group,     \* group of a router
  RouterOf,  \* router of a terminal
  Global,    \* global links, as pairs of routers
  NoGroup    \* -1 in intm_grp_id

Groups == {Group[r] : r \in Routers}

ASSUME RouteAssumption ==
  /\ RouterOf \in [Terminals -> Routers]
  /\ Routers \cap Terminals = {}
  /\ DOMAIN Group = Routers
  /\ NoGroup \notin Groups
  /\ Global \subseteq {l \in Routers \X Routers : Group[l[1]] # Group[l[2]]}

Algorithms == {"MINIMAL", "NON_MINIMAL", "PROG_ADAPTIVE"}

\* the routing fields of a packet as packet_send writes them
NewRoute(src, dest) ==
  [dest |-> dest, origin |-> RouterOf[src], last_hop |-> "TERMINAL",
   path_type |-> "NONE", intm |-> NoGroup, visited |-> FALSE, l_hop |-> 0]

Conn(kind, to) == [kind |-> kind, to |-> to]
DestRouter(m) == RouterOf[m.dest]
SrcGroup(m) == Group[m.origin]
DestGroup(m) == Group[DestRouter(m)]

-----------------------------------------------------------------------------
(* The connection manager of router r.  Groups are fully connected.        *)

local_conns(r) ==
  {Conn("LOCAL", q) : q \in {q \in Routers \ {r} : Group[q] = Group[r]}}
get_connections_to_group(r, g) ==
  {Conn("GLOBAL", q) : q \in {q \in Routers : <<r, q>> \in Global /\ Group[q] = g}}
get_routed_connections_to_group(r, g) ==
  {c \in local_conns(r) : get_connections_to_group(c.to, g) # {}}

-----------------------------------------------------------------------------
(* Routing.  A stop is a connection and the fields as routing leaves them. *)

\* A first choice takes any group but the packet's own two (no such group: the
\* program reads an empty vector and stops).  A second one takes a group this
\* router has a link to, or whatever lies behind the end of an empty set.
select_intermediate_group(r, m) ==
  LET own == {SrcGroup(m), DestGroup(m)}
      linked == {Group[l[2]] : l \in {l \in Global : l[1] = r}} \ own
  IN  IF m.intm = NoGroup THEN Groups \ own
      ELSE IF linked # {} THEN linked ELSE Groups

legal_minimal_stops(r, m) ==
  LET direct == get_connections_to_group(r, DestGroup(m))
  IN  IF direct # {} THEN direct
      ELSE get_routed_connections_to_group(r, DestGroup(m))

\* pairs of the intermediate group, which may be chosen again, and connections
legal_nonminimal_stops(r, m) ==
  LET direct == get_connections_to_group(r, m.intm)
  IN  IF Group[r] # SrcGroup(m) THEN {<<m.intm, {}>>}
      ELSE IF direct # {} THEN {<<m.intm, direct>>}
      ELSE IF r = m.origin
           THEN {<<m.intm, get_routed_connections_to_group(r, m.intm)>>}
           ELSE {<<g, get_connections_to_group(r, g)>> :
                   g \in select_intermediate_group(r, m)}

minimal_routing(r, m) ==
  {[conn |-> c, msg |-> m] : c \in legal_minimal_stops(r, m)}

Fault_Visit(r, m) == m

\* a packet counts its intermediate group as visited once a router of it routes it
Visit(r, m) == [m EXCEPT !.visited = @ \/ Group[r] = m.intm]

nonminimal_routing(r, m) ==
  LET v == Visit(r, [m EXCEPT !.path_type = "NON_MINIMAL"])
      next == IF v.visited THEN DestGroup(m) ELSE v.intm
      direct == get_connections_to_group(r, next)
  IN  {[conn |-> c, msg |-> v] :
         c \in IF direct # {} THEN direct
               ELSE get_routed_connections_to_group(r, next)}

Fault_prog_adaptive_routing(r, m) ==
  LET v == Visit(r, m)
  IN  UNION {minimal_routing(r, [v EXCEPT !.intm = n[1]])
             \cup {[conn |-> c, msg |-> [v EXCEPT !.intm = n[1]]] : c \in n[2]} :
               n \in legal_nonminimal_stops(r, v)}

\* scores decide between the best minimal and the best non-minimal connection
\* unless the packet is on its way to its intermediate group
prog_adaptive_routing(r, m) ==
  LET v == Visit(r, m)
      Nonmin(n, path) ==
        {[conn |-> c, msg |-> [v EXCEPT !.intm = n[1], !.path_type = path]] : c \in n[2]}
      Min(n) ==
        {[conn |-> c, msg |-> [v EXCEPT !.intm = n[1]]] : c \in legal_minimal_stops(r, m)}
  IN  UNION {IF m.path_type = "NON_MINIMAL" /\ ~v.visited
             THEN Nonmin(n, m.path_type)
             ELSE Min(n) \cup Nonmin(n, "NON_MINIMAL") :
               n \in legal_nonminimal_stops(r, v)}

do_dfdally_routing(algorithm, r, m) ==
  LET chosen == IF m.last_hop = "TERMINAL"
                THEN {[m EXCEPT !.intm = g] : g \in select_intermediate_group(r, m)}
                ELSE {m}
      Alg(x) == CASE algorithm = "MINIMAL" -> minimal_routing(r, x)
                  [] algorithm = "NON_MINIMAL" -> nonminimal_routing(r, x)
                  [] algorithm = "PROG_ADAPTIVE" -> prog_adaptive_routing(r, x)
  IN  IF r = DestRouter(m) THEN {[conn |-> Conn("TERMINAL", m.dest), msg |-> m]}
      ELSE IF Group[r] = DestGroup(m)
      THEN {[conn |-> Conn("LOCAL", DestRouter(m)), msg |-> m]}
      ELSE UNION {Alg(x) : x \in chosen}

-----------------------------------------------------------------------------
(* router_packet_receive: the channel, from the fields the packet came in  *)
(* with, and the fields it goes on with.                                   *)

FirstRouter(m) ==
  IF m.last_hop = "TERMINAL" THEN [m EXCEPT !.path_type = "MINIMAL"] ELSE m

Fault_output_chan(r, m) ==
  IF Group[r] = SrcGroup(m)
  THEN IF m.path_type = "NON_MINIMAL" THEN 1 ELSE m.l_hop
  ELSE IF Group[r] # DestGroup(m) THEN 1 ELSE 3

output_chan(r, m) ==
  IF Group[r] = SrcGroup(m)
  THEN IF m.path_type = "NON_MINIMAL" THEN 1 ELSE m.l_hop
  ELSE IF Group[r] # DestGroup(m) THEN 2 ELSE 3

GoOn(s) ==
  IF s.conn.kind = "LOCAL" THEN [s.msg EXCEPT !.l_hop = @ + 1] ELSE s.msg

\* where router r may send a packet that came in with fields m
NextHops(algorithm, r, m) ==
  {[conn |-> s.conn, chan |-> output_chan(r, m), msg |-> GoOn(s)] :
     s \in do_dfdally_routing(algorithm, r, FirstRouter(m))}

\* the fields the next router sees, written by router_packet_send
Hop(m, kind) == [m EXCEPT !.last_hop = kind]
=============================================================================
