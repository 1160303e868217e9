-------------------------------- MODULE MCMpiTW --------------------------------
(***************************************************************************)
(* Two jobs with programs, of ranks 0 and 1 and of rank 2, and rank 3,     *)
(* background traffic of a third job.  Ranks 0 and 1 exchange short (1)    *)
(* and long (9) messages with blocking and non-blocking operations.  The   *)
(* two short messages of rank 1 may overtake each other and arrive before  *)
(* or after rank 0, which sends a long one first, is ready for them; rank  *)
(* 1 has a receive for a later message posted before one for any source    *)
(* and tag.  ALLREDUCEs in pairs enclose a delay or a wait.  Either job    *)
(* may finish first.                                                       *)
(***************************************************************************)
EXTENDS MpiTW

MCRanks == 0..3
MCJob == [r \in MCRanks |-> CASE r \in {0, 1} -> 0 [] r = 2 -> 1 [] r = 3 -> 2]
MCRoot == (0 :> 0) @@ (1 :> 2) @@ (2 :> 3)

Op(op, peer, tag, bytes, req) ==
  [op |-> op, peer |-> peer, tag |-> tag, bytes |-> bytes, req |-> req]
Delay(n) == [op |-> "DELAY", nsecs |-> n]
Simply(op) == [op |-> op]
Wait(op, reqs) == [op |-> op, req |-> reqs[1], reqs |-> reqs]

MCLatencies == [eager |-> {9, 13}, announce |-> {2, 9}, ack |-> {2}, data |-> {2},
                background |-> {3}]
\* no silent period
MCJobTimer == [j \in DOMAIN MCRoot |-> <<0, 0>>]
MCRecvReqs == {-1}

MCTrace ==
  (0 :> << Op("SEND", 1, 2, 9, -1),
           Op("IRECV", 1, 1, 1, 3),
           Op("ISEND", 1, 4, 9, 2),
           Op("RECV", 1, 3, 1, -1),
           Wait("WAITALL", <<2, 3>>),
           Simply("ALLREDUCE"), Delay(4), Simply("ALLREDUCE"),
           Simply("MARK"), Simply("END") >>)
  @@ (1 :> << Op("SEND", 0, 3, 1, -1),
              Op("ISEND", 0, 1, 1, 2),
              Op("IRECV", 0, 4, 9, 3),
              Op("RECV", ANY, ANY, 9, -1),
              Simply("ALLREDUCE"), Wait("WAIT", <<3>>), Simply("ALLREDUCE"), Wait("WAIT", <<2>>),
              Simply("END") >>)
  @@ (2 :> << Delay(20), Simply("COL"), Delay(5), Simply("END") >>)
  @@ (3 :> << >>)

\* programs that end at once, for runs about the background traffic
MCNoPrograms == [r \in MCRanks |-> IF r = 3 THEN << >> ELSE <<Simply("END")>>]
=============================================================================
