----------------------------- MODULE MCResourceTW -----------------------------
(* Instances of ResourceTW for TLC.                                        *)
EXTENDS ResourceTW

CONSTANTS v, a, b, c, g

R(op, req, block, of) == [op |-> op, req |-> req, block |-> block, of |-> of]

\* A reservation v of 2 units, on which a and b (1 unit) and c (2 units) draw;
\* g wants 3 units and does not wait: granted without the reservation, refused
\* with it.
ScriptReserve ==
  [k \in Reqs |-> CASE k = v -> R("reserve", 2, FALSE, NoReq)
                    [] k = a -> R("get", 1, TRUE, v)
                    [] k = b -> R("get", 1, TRUE, v)
                    [] k = c -> R("get", 2, TRUE, v)
                    [] k = g -> R("get", 3, FALSE, NoReq)]
=============================================================================
