---------------------------- MODULE MCDallySurrogate ----------------------------
(***************************************************************************)
(* Two routers of one group, a sender of two packets at the first and of   *)
(* one packet at the second, a receiver at the second.  Packets are one or *)
(* two whole chunks.  The surrogate is switched on at every possible time, *)
(* and off again after a short or a long while, in some plans twice.       *)
(***************************************************************************)
EXTENDS DallySurrogate

MCRouters == {0, 1}
MCTerminals == {10, 20, 21}
MCGroup == [r \in MCRouters |-> 0]
MCRouterOf == [t \in MCTerminals |-> IF t = 10 THEN 0 ELSE 1]
MCNoGroup == -1
MCMsgs == 1..2
MCMsg ==
  (1 :> [src |-> 10, dest |-> 20, size |-> 6])
  @@ (2 :> [src |-> 21, dest |-> 20, size |-> 2])
ByKind(local, terminal) == [LOCAL |-> local, GLOBAL |-> local, TERMINAL |-> terminal]
MCVcSize == ByKind(2, 2)
MCNsPerByte == ByKind(2, 1)
MCPropDelay == ByKind(3, 1)
MCCreditDelay == ByKind(2, 1)
MCPlans == {<<t, t + d>> : t \in 2..45, d \in {2, 9}}
           \cup {<<2 * t, 2 * t + 3, 2 * t + 9, 2 * t + 14>> : t \in 1..20}
=============================================================================
