------------------------------ MODULE MCDallyWalk ------------------------------
(***************************************************************************)
(* Four groups of three routers.  Links are sparse: some routers reach one *)
(* group only, so that a packet has to cross its own or the intermediate   *)
(* group, choose its intermediate group again, or finds none to choose.    *)
(***************************************************************************)
EXTENDS DallyWalk

MCRouters == 0..11
MCGroup == [r \in MCRouters |-> r \div 3]
MCTerminals == 100..111
MCRouterOf == [t \in MCTerminals |-> t - 100]
MCGlobal ==
  LET half == {<<0, 3>>, <<1, 6>>, <<2, 9>>, <<2, 4>>, <<1, 10>>, <<5, 7>>, <<4, 11>>, <<8, 9>>}
  IN  half \cup {<<l[2], l[1]>> : l \in half}
MCNoGroup == -1
=============================================================================
