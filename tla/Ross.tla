---------------------------------- MODULE Ross ----------------------------------
(***************************************************************************)
(* What the models of several LPs need of ROSS: events are processed in    *)
(* timestamp order and their effects logged, the latest one can be undone  *)
(* with its reverse handler, the oldest one is committed.  ROSS is not in  *)
(* this repository: this is what its handlers rely on.                     *)
(*                                                                         *)
(* Undoing is last-in first-out over all LPs.  That loses no behaviour     *)
(* that matters: if a reverse handler restores the LP, as the properties   *)
(* check, undoing an earlier event of one LP only and processing it again  *)
(* is a run without the rollback.                                          *)
(***************************************************************************)
EXTENDS Integers, Sequences

CONSTANTS
  Window,        \* bound on processed, not yet committed events
  MaxRollbacks   \* bound on undone events

ASSUME RossAssumption == Window \in Nat \ {0} /\ MaxRollbacks \in Nat

VARIABLES
  lps,       \* state of each LP
  events,    \* events yet to be processed
  log,       \* processed, uncommitted events, oldest first
  trace,     \* what LPs outside the model were told, in order (history)
  gvt,       \* timestamp of the last committed event
  rollbacks

rossVars == <<lps, events, log, trace, gvt, rollbacks>>

LastEntry == log[Len(log)]
Now == IF log = << >> THEN gvt ELSE LastEntry.ev.ts

\* events of one timestamp in any order
Ready(e, type) ==
  /\ Len(log) < Window
  /\ e.type = type
  /\ e.ts >= Now
  /\ \A f \in events : e.ts <= f.ts

\* a handler's outcome o: new LP state, what it saved, events it sent, and what
\* it told LPs outside
Process(e, outcome) ==
  \E o \in {outcome} :
    /\ lps' = [lps EXCEPT ![e.to] = o.ns]
    /\ events' = (events \ {e}) \cup o.sent
    /\ log' = Append(log, [ev |-> e, rc |-> o.rc, sent |-> o.sent,
                           before |-> lps[e.to], mark |-> Len(trace)])
    /\ trace' = trace \o o.did
    /\ UNCHANGED <<gvt, rollbacks>>

\* the LP after the reverse handler Rev of the last processed event
Reversed(Rev(_, _)) == Rev(lps[LastEntry.ev.to], LastEntry)

Undo(Rev(_, _)) ==
  /\ log # << >>
  /\ rollbacks < MaxRollbacks
  /\ lps' = [lps EXCEPT ![LastEntry.ev.to] = Reversed(Rev)]
  /\ events' = (events \ LastEntry.sent) \cup {LastEntry.ev}
  /\ log' = SubSeq(log, 1, Len(log) - 1)
  /\ trace' = SubSeq(trace, 1, LastEntry.mark)
  /\ rollbacks' = rollbacks + 1
  /\ UNCHANGED gvt

\* the oldest event leaves the log when the window is full or nothing is left
Commit ==
  /\ log # << >>
  /\ Len(log) = Window \/ events = {}
  /\ log' = Tail(log)
  /\ gvt' = Head(log).ev.ts
  /\ UNCHANGED <<lps, events, trace, rollbacks>>
=============================================================================
