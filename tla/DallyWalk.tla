------------------------------- MODULE DallyWalk -------------------------------
(***************************************************************************)
(* The way of one packet through a dragonfly: at each router any of the    *)
(* choices its routing can make.  What is proved of every way is what the  *)
(* credit protocol relies on: a packet that waits for a channel holds only *)
(* channels of lower rank, so that packets cannot wait for each other in a *)
(* circle.                                                                 *)
(***************************************************************************)
EXTENDS DallyRoute

CONSTANT NumVcs   \* virtual channels per port

\* p->num_vcs is 4, or that for each QoS level
ASSUME VcsAssumption == NumVcs \in Nat /\ NumVcs >= 4

VARIABLES
  routing,  \* the algorithm configured
  at,       \* the router or terminal the packet is at
  msg,      \* the packet's routing fields
  hop       \* kind and channel of the last hop; NoHop when it left its terminal

vars == <<routing, at, msg, hop>>

NoHop == [kind |-> "INJECTION", chan |-> 0]

Init ==
  /\ routing \in Algorithms
  /\ \E src, dest \in Terminals :
       /\ msg = NewRoute(src, dest)
       /\ at = RouterOf[src]
  /\ hop = NoHop

Forward ==
  /\ at \in Routers
  /\ \E n \in NextHops(routing, at, msg) :
       /\ at' = n.conn.to
       /\ msg' = IF n.conn.kind = "TERMINAL" THEN n.msg ELSE Hop(n.msg, n.conn.kind)
       /\ hop' = [kind |-> n.conn.kind, chan |-> n.chan]
  /\ UNCHANGED routing

Arrived == at \in Terminals
Terminated == Arrived /\ UNCHANGED vars

Next == Forward \/ Terminated
Spec == Init /\ [][Next]_vars
FairSpec == Spec /\ WF_vars(Forward)

-----------------------------------------------------------------------------
\* The order in which a packet may occupy channels: within a channel number local
\* before global, and the way out to the terminal last.
Rank(h) ==
  CASE h.kind = "INJECTION" -> -1
    [] h.kind = "LOCAL" -> 2 * h.chan
    [] h.kind = "GLOBAL" -> 2 * h.chan + 1
    [] h.kind = "TERMINAL" -> 2 * NumVcs

\* Every hop takes a channel of higher rank than the hop before, whatever the
\* routing decides (router_packet_receive's choice of output_chan).  Hence the
\* channels' credits cannot be waited for in a circle.  And there is such a channel.
ChannelsAscend == [][Rank(hop') > Rank(hop) /\ hop'.chan \in 0..NumVcs - 1]_<<at, msg, hop>>

\* Outside of its own two groups a packet is on a non-minimal path, as
\* router_packet_receive asserts before it uses channel 2; it is there in the
\* intermediate group chosen for it, and the way back to its own group is closed.
IntermediateGroupIsPlanned ==
  at \in Routers /\ Group[at] \notin {SrcGroup(msg), DestGroup(msg)} =>
    /\ msg.path_type = "NON_MINIMAL"
    /\ msg.intm = Group[at]

\* A packet whose hops are all chosen by do_dfdally_routing arrives at its
\* destination terminal: no dead end (tw_error, or an assertion on port -1) and no
\* endless way.
EveryPacketArrives == <>(at = msg.dest)
=============================================================================
