----------------------------- MODULE MCModelNetTW -----------------------------
(* Instances of ModelNetTW for TLC.                                        *)
EXTENDS ModelNetTW

CONSTANTS m1, m2, m3, m4

R(size, prio, offset, remote, loopback) ==
  [msg_size |-> size, prio |-> prio, offset |-> offset,
   is_from_remote |-> remote, loopback |-> loopback]

\* One send queue with two priorities, and the receive queue.  m1 and m2 share
\* the low level (m1 by default) and need two packets each, m3 overtakes
\* them and is empty, m4 comes from the network.
ReqPrio == [m \in Msgs |-> CASE m = m1 -> R(3, -1, 0, FALSE, FALSE)
                             [] m = m2 -> R(4, 1, 0, FALSE, FALSE)
                             [] m = m3 -> R(0, 0, 0, FALSE, FALSE)
                             [] m = m4 -> R(2, -1, 0, TRUE, FALSE)]

\* Two send queues: m1 (three packets) and m2 share the first, m3 (an empty
\* message) has the other; m4 stays within the node.
ReqTwoQueues == [m \in Msgs |-> CASE m = m1 -> R(5, -1, 0, FALSE, FALSE)
                                  [] m = m2 -> R(2, -1, 1, FALSE, FALSE)
                                  [] m = m3 -> R(0, -1, 2, FALSE, FALSE)
                                  [] m = m4 -> R(2, -1, 3, FALSE, TRUE)]

\* One send queue, two messages of two packets and two copies within the node.
ReqOneQueue == [m \in Msgs |-> CASE m = m1 -> R(3, -1, 0, FALSE, FALSE)
                                 [] m = m2 -> R(4, -1, 0, FALSE, FALSE)
                                 [] m = m3 -> R(1, -1, 0, FALSE, TRUE)
                                 [] m = m4 -> R(2, -1, 0, FALSE, TRUE)]
=============================================================================
