------------------------------- MODULE MCDallyTW -------------------------------
(***************************************************************************)
(* Three groups: routers 0 and 1, router 2, router 3.  Terminals 10 and 11 *)
(* at router 0 send to terminal 20 at router 2: two packets, the first of  *)
(* a chunk and a half, and an empty message.  The short way is 0-1-2, the  *)
(* longer way around 0-3-2, so a packet's chunks can overtake each other.  *)
(* A local channel holds one chunk, so that the senders' chunks hold each  *)
(* other up; a global channel and a terminal's have room for two.          *)
(***************************************************************************)
EXTENDS DallyTW, TLC

MCRouters == 0..3
MCTerminals == {10, 11, 20}
MCGroup == [r \in MCRouters |-> IF r <= 1 THEN 0 ELSE r]
MCRouterOf == [t \in MCTerminals |-> IF t = 20 THEN 2 ELSE 0]
MCGlobal ==
  LET half == {<<1, 2>>, <<0, 3>>, <<3, 2>>}
  IN  half \cup {<<l[2], l[1]>> : l \in half}
MCNoGroup == -1
MCMsgs == 1..2
MCMsg ==
  (1 :> [src |-> 10, dest |-> 20, size |-> 5])
  @@ (2 :> [src |-> 11, dest |-> 20, size |-> 0])
ByKind(local, global, terminal) ==
  [LOCAL |-> local, GLOBAL |-> global, TERMINAL |-> terminal]
MCVcSize == ByKind(2, 4, 4)
MCNsPerByte == ByKind(2, 5, 3)
MCPropDelay == ByKind(1, 20, 2)
MCCreditDelay == ByKind(3, 11, 4)
=============================================================================
