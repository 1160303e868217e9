# TLA+ models of CODES

CODES simulates HPC networks and storage on top of ROSS, a parallel
discrete-event simulator.  A simulation is a set of logical processes (LPs) that
exchange time-stamped events.  ROSS runs them optimistically (Time Warp): an LP
processes the events it knows of, and when an event turns up in its past, or a
sender takes an event back, the LP's latest events are undone one by one with
hand-written *reverse handlers*.  Every forward handler of CODES therefore has an
`_rc` twin which must restore the LP exactly, from a few bits and fields saved in
the event.  Tests run a few schedules; whether a reverse handler is right in all
of them is what these models are for.

## 1. Inventory

| Part | State | Operations | Interaction |
|---|---|---|---|
| Packet schedulers (`networks/model-net/core/model-net-sched*.c`) | a list of requests with remaining bytes, per priority level | add, next, add_rc, next_rc | called by the base LP; `next` calls the network's packet_event or recv_msg_event |
| model-net base LP (`core/model-net-lp.c`, `core/model-net.c`) | a scheduler and a loop flag per injection queue and for receiving, NIC clock, copy clocks, message counter | handle_new_msg, handle_sched_next, pass-through to the network, their reversals, commit | gets messages from server LPs and from the network, sends itself MN_BASE_SCHED_NEXT; networks call model_net_method_idle_event |
| Resource LP (`util/resource.c`, `util/resource-lp.c`) | units available, maximum and minimum per pool; a queue of blocked requests per pool | get, free, dequeue, reserve and reversals | clients send requests and get an answer event; free sends a dequeue event to itself |
| dragonfly-dally (`networks/model-net/dragonfly-dally.cxx`, `network-managers/`) | terminal: chunks to send, credit, send-loop and idle flags, tables of unfinished packets and messages; router: per port and virtual channel chunks that have a place and chunks that wait for one, credit, send-loop flag; packet: path type, intermediate group, hops | T_GENERATE, T_SEND, T_ARRIVE, T_BUFFER, R_ARRIVE, R_SEND, R_BUFFER and reversals; routing | the base LP hands packets over; terminals send idle events back; chunks go downstream, credits upstream |
| Other networks (`networks/model-net/*.c*`) | the same with other topologies, or a link clock | send, receive, credit and reversals | seen from the base LP: `selfclocked` or `idle` |
| rc-stack (`util/rc-stack.c`) | saved values per LP | push, pop, collect | used by the reverse handlers of networks and workloads |
| Local storage model (`util/local-storage-model.c`) | queues per priority, disk position | read, write, next and reversals | like the resource LP |
| Congestion controller (`util/congestion-controller.cxx`) | stall and port statistics, epochs | detect, abate, restore | supervisory LP and local controllers in routers and terminals |
| Surrogate (`surrogate/*`, parts of dragonfly-dally and the base LP) | mode, frozen events, hidden terminal states, packets sent and not reported, predictors | switch at GVT, freeze and thaw, predicted packets, zombies, commit handlers | puts pending events aside and back; sends idle events to base LPs and packets to their destinations |
| MPI replay (`network-workloads/model-net-mpi-replay.c`) | per rank: posted receives, arrived messages, completed requests, the posted wait, finished ranks and jobs, counts of operations and bytes, times | match, eager and rendezvous sends, wait, wait-all, delay, ALLREDUCE, background traffic, and reversals | takes operations from a workload, messages over model-net, saved values in rc-stacks |
| Workloads, mapping, configuration, I/O | tables, streams | readers and lookups | |

What makes this code hard, and what correctness means for it:

* **rollback**: after any number of undone events the state is the one before;
* **loops kept alive by events**: a scheduler goes on because an event is on its
  way, and a flag says so.  Flag and event are changed in different handlers,
  either of which can be undone;
* **saved data shared by two handlers**: `handle_new_msg` may call
  `handle_sched_next` on the same event, and both save in the same rc record;
* **order**: fcfs, round robin, strict priorities, first come first served at the
  NIC and at the copy engine, no overtaking in the resource queues;
* **credits**: buffer space is counted where a chunk comes from and freed by an
  event from where it went; a loop without credit is restarted by that event;
* **no circle of waiting**: the virtual channels of a packet's hops must go up,
  although routing may change its mind on the way;
* **a change of mode** in the middle of everything: each packet is delivered once,
  by the network or by prediction;
* **matching**: messages and receives meet in either order, requests complete
  before or after the wait for them;
* **boundaries**: sizes that are multiples of a packet, empty messages, the last
  token, unsigned subtraction;
* **what is left unset**: event buffers are recycled, and some fields are not
  written before they are read.

`PROJECT.json` lists each hazard at its line with the properties that cover it.

## 2. Modules

| Module | Models |
|---|---|
| `ModelNetSched` | the schedulers as functions of their state: `fcfs_*`, `rr_*`, and `sched_*` for a whole scheduler, prio included |
| `ModelNetLP` | the handlers of the base LP as functions from state and event to an outcome (new state, bits and fields saved, events sent, what was done), and the reverse handlers |
| `ModelNetTW` | the LP under Time Warp: one action per path through the handlers, arrivals, cancellation, rollback, commit; the properties |
| `ModelNetSeq` | the same handlers under ROSS's sequential scheduler: the abstract specification |
| `ModelNetSchedProofs` | lemmas: each scheduler operation is undone by its twin |
| `ModelNetTWProofs` | the inductive invariant, the theorems, and that `ModelNetTW` implements `ModelNetSeq` |
| `ModelNetHistoryProofs` | the theorems about what the base LP did: copies, packets, order of service |
| `ResourceLP` | pools and handlers of the resource LP |
| `ResourceTW` | the resource LP and its clients under Time Warp; the properties |
| `ResourceTWProofs` | the invariant of every position of the timeline, and the theorems |
| `Ross` | what the models of several LPs need of ROSS: processing in timestamp order, undoing the latest event, committing the oldest |
| `DallyRoute` | the routing of dragonfly-dally: legal next stops, minimal, non-minimal and progressive-adaptive choice, virtual channel of a hop |
| `DallyWalk` | one packet that walks through a topology, hop by hop; the properties of routing |
| `DallyWalkProofs` | the stages of a way, and the theorems about channels and dead ends |
| `DallyNet` | the handlers of terminals and routers, with the base LP around a terminal (it uses the schedulers of `ModelNetSched`), and the reverse handlers |
| `DallyTW` | terminals and routers together, on `Ross`; the properties |
| `DallyTWProofs` | what each handler of a terminal and of a router keeps and how its twin undoes it, and the theorems about rollback and loops |
| `DallyCreditProofs` | where each chunk and each credit is, and the theorems about credits and the bounds of buffers |
| `DallySurrogate` | `DallyTW` with predicted packets, commit handlers and the switches between network and surrogate; the properties |
| `MpiReplay` | the handlers of a rank of the MPI replay and the reverse handlers, with rc-stack, the operations taken from a workload, and insertion into a quicklist |
| `MpiTW` | ranks that exchange messages, on `Ross`; the properties |
| `MpiTWProofs` | what each handler does to the queues of a rank and how its twin undoes it, and the theorem about matching |
| `MC...` | topologies, message sets, programs and request scripts for TLC |

How state and actions correspond to the code:

* `ns` is the LP state struct (`model_net_base_state`, `resource_state`), without
  parameters that never change, and with the position `rng` of the LP's random
  stream: reversing a draw (`tw_rand_reverse_unif` behind
  `codes_local_latency_reverse`) moves it back.  `codes_local_latency(k)` is a
  function of that position, as the code's value is a function of the generator
  state: a handler that draws once too often or reverses once too rarely gives
  different timestamps afterwards.
* `pending` (`events` in `ResourceTW`) holds the events not yet processed, `log`
  the processed ones that may still be undone.  An entry of `log` has what the
  handler saved in the event (`bf`, `rc`, `save_ts`; nothing else is used by the
  reverse handlers) and, for the properties, the state before it.
* Actions `NewMsgLocal`, `NewMsgNic`, `NewMsgQueue`, `NewMsgStart`,
  `SchedNextIssue`, `SchedNextFinish`, `SchedNextDrop` and `MethodIdle` are the
  paths of `model_net_base_event`; `GetGrant` ... `Reserve` those of
  `resource_event_handler`.  `Undo` calls the reverse handler of the last entry
  and cancels what it sent.  `Commit` is fossil collection.
* `Arrive`, `Cancel`, `Undo`, `Commit` and the rule that the earliest known event
  is processed next are ROSS, which is not in this repository: modelled from how
  the code relies on it.
* `trace` is a history variable: what the LP did in the timeline as it stands.
* A network is one of three methods.  `selfclocked` (SIMPLEP2P, TORUS): the LP
  schedules its own next packet.  `idle`: the network sends one idle event per
  packet.  `multirail`: dragonfly-dally with several injection queues, which sends
  an idle event to every queue for each packet (buffers never full).
* In `DallyTW`, `DallySurrogate` and `MpiTW` the variable `lps` holds the state of
  every LP, `events` what is on its way between them, and there is one action per
  event type of `terminal_dally_event`, `router_dally_event` and
  `nw_test_event_handler` (`MPI_OP_GET_NEXT` has one per kind of operation).  A
  handler `f(s, e)` gives an outcome (`ns`, `rc`, `sent`, `did`); its twin `f_rc(s,
  en)` gets the LP and the log entry, and uses of it only `ev` and `rc`: the fields
  of `rc` are the bits `c0`...`c31` and `saved_...` fields of the code.
* A chunk of dragonfly-dally is a record that carries its routing fields (`rt`) and
  where its credit has to go.  `pending` and `queued` of a port are
  `pending_msgs` and `queued_msgs`.  Where the code's adaptive routing compares
  queue lengths or draws a random number the model chooses any legal stop, so the
  properties hold for every outcome of the comparison.
* In `DallySurrogate`, `frozen` is the list of `freeze_events_to_separate_queue_pe`,
  `hidden` the `frozen_state` of terminals, `pre` the base LPs'
  `sched_loop_pre_surrogate`, `book` what `terminal_dally_commit` keeps.
  `SwitchToSurrogate` and `SwitchToHighDef` are the two branches of `switch_model`
  with everything they do to all LPs: ROSS calls it at GVT, with nothing left to
  roll back.
* In `MpiReplay` the queues of a rank are sequences in list order; `recv_req` is
  what a workload left in the request of a blocking receive.  `count` holds the
  counters of operations, the other counts and times have the code's names.
  `JobTimer` is the silent period of `job_timer1` and `job_timer2`, `MaxGenData` is
  `max_gen_data`.  The union of saved values is modelled where two of its members
  are used by one event: the elapsed time that the last message before the limit
  saves replaces the number of messages to take back.
* `NDEBUG` in `ResourceLP` says whether calls inside `assert()` happen.

Abstractions: virtual time is a natural number; payloads, categories and callbacks
are left out; positions of servers among the servers of a node are given with the
message.  Pools exist in the model only for tokens in use.  Reservations come
before other requests, as `handle_resource_reserve_rc` expects.  Clients of the
resource LP are correct: they release once what they were granted.  Two events
with equal timestamps may be processed in either order.  Undoing in `Ross` is
last-in first-out over all LPs: if reverse handlers restore an LP, as the
properties check, undoing one LP further than the others and processing its events
again is an execution without that rollback.  dragonfly-dally has one rail, one
injection queue and one QoS level, no noise on event times and no congestion
control; the random stream of its LPs is not modelled, since no value drawn decides
anything but routing.  The network under the MPI replay delivers each kind of
message after any of a set of latencies.  The packets delivered by prediction at a
switch take a latency of their own each, 0 included, since a prediction in the past
is moved to the present.  Background traffic of the MPI replay has the uniform
pattern and no iteration predictor; samples and message tracking, off by default,
are left out.

## 3. Runs

| Run | Instance | Shows |
|---|---|---|
| `prio` | prio over rr, idle network, two levels, send and receive queue, 4 messages of 2, 2, 1 and 1 packets, one of them empty | rollback restores the LP; flags tell the truth; packets tile messages; round robin is fair; requests keep the order the NIC took them in; no request is stranded; every message is served |
| `refine` | fcfs, selfclocked, unset event flags take both values, two copies within the node, two free rollbacks | the committed part of every optimistic execution is a sequential execution; copies never overlap |
| `multirail` | fcfs/2 queues, dragonfly-dally's idle events | **violated**: undoing an idle event that found an idle, empty queue sets a flag that was clear |
| `pools` | capacity 4, one reservation with three blocking requests, a non-blocking request, two free rollbacks | units conserved, wakeups not lost, no overtaking, peak of reserved pools right, every request answered |
| `release` | `NDEBUG` | **violated**: units released inside an assert never come back |
| `vcs` | 4 groups of 3 routers with 8 global links, 12 terminals, every pair, each of the three routings | channels go up on every hop and exist; the intermediate group is the planned one; every packet arrives |
| `dally` | 4 routers in 3 groups, two senders, messages of 2 packets and of 0 bytes to one receiver, local channels of one chunk, progressive-adaptive routing, 2 rollbacks | rollback restores terminals and routers, with what a packet misses counted in chunks; occupancy counts are exact; no lost wakeup and no second loop from the base LP to the last router; messages arrive once and whole; everything drains |
| `bytes` | as `dally`, packets of 3 bytes in chunks of 2 | **violated**: undoing the arrival of a short last chunk gives back a whole one |
| `surrogate` | 2 routers, 3 terminals, 3 packets of whole chunks; the surrogate on at each time from 2 to 45 for 2 or 9 units, or twice | rollback in both modes; loops survive the switches; each message delivered once; zombies are what is left of delivered packets; all delivered in the end |
| `selfevent` | as `surrogate` | **violated**: a sender is told twice that its message left |
| `mpi` | jobs of 2 ranks with 10 and 9 operations and of 1 rank with 4, one rank of background traffic, 1 or 2 latencies per kind of message, 2 rollbacks | rollback restores a rank, but for the count of collectives; no missed match; each rank at one place of its program; waits end when they should; bytes sent and received add up; ALLREDUCEs are measured in pairs; background traffic stops after the last job; every rank finishes |
| `maxgen` | as `mpi` with programs that end at once, `MaxGenData` of two messages | **violated**: the bytes of an undone last message stay counted as sent |

The five violations are disagreements between the code and its own comments or
checks; `PROJECT.json` quotes both sides under "findings".

**Bounds.**  Messages or requests (3 to 5), their arrival times (1 or 2 values) and
the rollbacks that happen for no reason visible here (`MaxRollbacks`, 1 or 2; the
other LPs of the simulation are that reason).  Rollbacks caused by stragglers are
not bounded.  Three messages, two of them on one level and with several packets,
are what round robin, overtaking and an idle-again-busy queue need; two arrival
times suffice for a straggler behind a straggler.  In `prio` all messages bear one
time and turn up at any later point, as stragglers or not; latencies spread what
follows from them.
In the models on `Ross`, `Window` (1 or 2) bounds the events processed and not
committed and `MaxRollbacks` (1 or 2) the undone ones: a handler is undone at every
point of every execution, and with two also below another one, which is where
saved values of one handler could be used by the next.  In `dally` a local channel
of one chunk makes every chunk wait, and packets that take the long way pass others.
In `surrogate` the switch times (`Plans`) cover the whole life of all packets, so
that each of them is caught in the terminal, in a router, on the wire, arrived and
not reported, and reported.  In `mpi` the latencies are chosen so that the two short
messages of rank 1 overtake each other and arrive before and after their receives;
acknowledgements and the data they ask for take one latency each, since the announcement
before them takes either of two, and background messages one, since they only add to
counts and times.  Each of these happens in the run: a match at the head and behind it,
in both queues; a wait posted before and after its request completes; a wait-all with some
requests complete; blocking sends and receives, eager and rendezvous.
`MaxBackground` bounds the messages of background traffic; it is above what is sent
before the traffic stops, as the deadlock check shows.  The third rank's program ends
before that of the second in some executions and after it in others, so either job
finishes first; a pair of ALLREDUCEs encloses a delay, or a wait for another rank.
`RollbackRestores` of the MPI replay is what `check_nw_lp_state` compares.  The code
does not keep it: not for an ALLREDUCE, not at the limit `MaxGenData` (run `maxgen`),
and not in a silent period.  `mpi` checks `RollbackRestoresButCols`, the same but for
`num_cols`, which may only be too large and only where there are ALLREDUCEs, with
`MaxGenData` and `JobTimer` at their default, 0.  In `surrogate` packets are whole
chunks, so that its rollback property is exact (the run `bytes` shows why).  With
latencies of one or two units (`LatencyRange = 2`) events of different origin meet
at equal and at crossed timestamps.  Nothing caps a counter: all are bounded by the
number of messages.  `Word` stands for 2^64 in the one place where wrap-around
matters.

**Deadlock** is checked in every passing run; a simulation that ran out of events
is the action `Terminated`.  In `ResourceTW` a failing assertion or `tw_error` is
an event no action processes, so the deadlock check shows that none fails.

**Fairness** (`FairSpec`): weak fairness on processing events, on undoing
stragglers and on committing.  ROSS's loop does all three as long as there are
events.  In the models on `Ross`, weak fairness on handling events and on
committing, and for the surrogate on the two switches, which ROSS's hook triggers at
their time.  Nothing is assumed of other LPs: they may never send, cancel or roll back.
The loop events themselves are not assumed fair; that one is always on its way is
what the code has to get right.

**Seeded faults.**  Each property of a passing run is broken by a plausible fault
in the code (operators named `Fault_...`), listed under "mutants".

## 4. Proofs

`ModelNetTWProofs` proves, for every set of messages, every size and packet size,
any number of queues and levels, every scheduler, and without bound on arrivals:

| Theorem | States |
|---|---|
| `TypeCorrect` | `Spec => []TypeOK` |
| `RollbackCorrect` | `Spec => []RollbackRestores` |
| `IdleQueuesAreEmpty` | `Spec => []IdleQueueIsEmpty` |
| `LoopFlagsAreTrue` | `Spec => []OneLoopPerQueue` |
| `NoRequestIsStranded` | `Spec => []NoStrandedRequest` |

Assumptions: `Method # "multirail"` for all five (the run `multirail` shows why),
and for the last two `FlagsClear`: unset flags are false, or the network sends idle
events itself.  With `Recycled = {FALSE, TRUE}` and a selfclocked network TLC finds both
properties violated.

The argument.  `RollbackRestores` alone is not inductive: after undoing one event
it speaks of the event before, about which the hypothesis says nothing.  The
invariant `IndInv` therefore says it of every entry of `log`, as a chain: an
entry's reverse handler maps the state after it (the next entry's `before`, or `ns`
for the last) to the entry's own `before` (`EntryOK`).  To establish it for a new
entry one needs what the handlers count on:

* `StateOK`: every scheduler queue is sound (`SchedOK`: `queue_len` is the length
  of the list, and what remains of a queued message
  is such that `LastRem` recomputes the size of its last packet), and a queue
  whose loop is not running is empty.  `handle_new_msg` needs the latter: the
  packet it serves is the request it just added, hence the rc record it shares
  with the scheduler is the right one;
* `LoopOK`: loop events exist only for queues marked running, at most one for each
  (so the flag `handle_sched_next_rc` sets was set), and under `FlagsClear` at
  least one;
* `EventOK`: the queue named in an event is the one its message belongs to, and
  loop events come from the LP itself.

The same invariant is carried for the state and the loop events before every
logged event, since a rollback makes them current again.

`ModelNetSchedProofs` has the algebra: `fcfs_add_rc` undoes `fcfs_add`,
`fcfs_next_rc` undoes `fcfs_next`, `rr_next_rc` undoes `rr_next`, level by level,
from which the same follows for `sched_*` under each discipline.

The second half of `ModelNetTWProofs` proves the refinement, with the same generality and the same
assumption:

| Theorem | States |
|---|---|
| `CommitsAreSequential` | `Spec => CommitsSequentially`, that is `Spec => Sequential!Spec` |

The argument.  The state of the sequential LP is the one before the oldest event
that is not committed, so `Commit` has to be a step of `ModelNetSeq` and every other
action has to leave that state alone.  `IndInv` says how entries are undone, not that
they are what the handlers do in the order of time; `RefInv` adds that:

* `SourceInv`, where events come from: each carries the number of the event that
  sent it, an entry's own event is older than the entry, and what an uncommitted
  event sent is still there, pending or processed later, and nobody else sent it.
  Then the events known at the last commit are exactly those with a number not above
  `committed` (`KnownFacts`), which processing and undoing do not touch;
* `OnceInv`: no event is there twice, and no message of another LP: a commit takes
  one message from those still to be received;
* `OrderInv`: the log is in the order of timestamps and of positions in the trace, so
  the event a commit takes is the one the sequential scheduler would have chosen;
* `DoneInv`: every entry is an outcome of the handler for the state before it, with
  the state after it and the piece of the trace it wrote.

The handlers of the two specifications are shown equal first (`SameOutcomes`).

`ModelNetHistoryProofs` proves what the LP did to be right, with the same generality
and the same assumption, `Method # "multirail"`:

| Theorem | States |
|---|---|
| `CopiesAreSerialised` | `Spec => []CopiesSerialised` |
| `MessagesStartInNicOrder` | `Spec => []NicOrder` |
| `ServiceIsOrdered` | `Spec => []ServiceOrder` |
| `PacketsCoverMessages` | `Spec => []PacketsTile` |
| `HighestLevelIsServed` | `Spec => HighestLevelFirst` |

The argument.  These properties speak of `trace` alone, and nothing in a trace says
what the next record may be: that is in the queues, the clocks and the events under
way.  `Good` relates them at a position of the timeline:

* `RecordsOK`, `LiveOK`: every record is of a message that arrived; a message on its
  way to the scheduler is there in one event only and has not been queued;
* `CopiesOK`: no copy on a copy queue ends after the clock of that queue;
* `ListsOK`, `WaitingOK`: a message waits in the list of its queue and level, in one
  place, exactly when it was queued and its last packet was not issued;
* `TilesOK`: what remains of a waiting message is its size less its packets so far;
* `NicsOK`: a request the NIC took was queued or is on its way with the time at which
  the NIC took it; these times go up, so the queueing follows them;
* `ServiceOK`: requests without a packet wait in the order of their queueing; under
  fcfs only the first of a list has packets; under rr a request that has waited since
  before a packet of another one is ahead of that one or has had its turn since.

A rollback makes a past position the present one, so `PastInv` says `Good` of every
position: the state before each entry of `log`, with the part of the trace and the
events under way that belong to it.  `RefInv` provides that those events are what
remains of them when later entries are taken away.  Each outcome of a handler leads
from a good position to a good one (the lemmas named `...Good`); arrivals and
withdrawals change the events of all positions; `Undo` and `Commit` choose among
positions.  TLC checked `PastInv` in the configuration of the run `refine` before it
was proved.

`ResourceTWProofs` proves, for every script of requests (reservations, blocking and
non-blocking requests, requests on a reservation made before), every capacity and
latency, and any number of arrivals, withdrawals and rollbacks:

| Theorem | States |
|---|---|
| `TypeCorrect` | `Spec => []TypeOK` |
| `RollbackCorrect` | `Spec => []RollbackRestores` |
| `UnitsAreConserved` | `Spec => []UnitsConserved` |
| `NoWakeupIsLost` | `Spec => []NoLostWakeup` |
| `GrantsAreInOrder` | `Spec => []GrantsInOrder` |
| `PeaksAreTrue` | `Spec => []PeakOfReservedPools` |

Assumptions: `NDEBUG = FALSE`, a build that keeps its assertions (the run `release`
shows that `UnitsConserved` fails in one that does not), and `ReservesFit`: the
script asks for no more reservations than there are tokens (`resource_reserve`
accepts one more, and writes past the last pool).

The argument.  The invariant `Good` describes a position of the timeline: the LP's
state, the events still to come there and what was done so far.  Beside the
properties themselves it has the life of a request (one event of it is on its way,
or it waits in one queue, or it holds its units: `LifeOfEvents`, `LifeOfWaiting`,
`LifeOfScript`), the queues as the queued and not yet granted requests in the order
of the timeline (`QueueHolds`, `QueueOnce`, `QueueOrder`), the tokens in use
(`EventsFit`), and that reservations precede everything else (`ReservesFirst`: the
general pool is divided while nothing of it is held).  A rollback makes the past
current, so `IndInv` says `Good` of *every* position of `log`, each with the part of
`trace` and the set of events that belong to it (`StateAt`, `MarkAt`, `LiveAt`).
Each handler is shown once to lead from a good position to a good one and to be
undone by its reverse handler (the lemmas named `...Outcome`); an arrival or a
withdrawal changes the events of all positions at a time (`GoodArrive`,
`GoodCancel`); rolling back and committing only choose among positions.  Sums of
units are cardinalities of sets of units (`UnitsOf`, `UnitsIn`), for which the
library has theorems.

`DallyWalkProofs` proves, for every set of groups, routers and links and every
routing algorithm of the model:

| Theorem | States |
|---|---|
| `ChannelsAlwaysAscend` | `Spec => ChannelsAscend` |
| `IntermediateGroupsArePlanned` | `Spec => []IntermediateGroupIsPlanned` |
| `NoPacketIsStuck` | `FullyLinked => (Spec => []NoDeadEnd)`: routing finds a next hop at every router |

Assumptions: `RouteAssumption` and `VcsAssumption` (at least four channels, as
`dragonfly_read_config` sets; checked by TLC in the run `vcs`); `NoPacketIsStuck`
needs any two groups to be linked and a third group to exist, which the files of a
real dragonfly provide and the code does not check.  The invariant `WalkInv` lists
the stages of a way (in the source group, at the entry, inside and at the exit of an
intermediate group, in the destination group) with the path type, the flags, the
group and the channel a packet can have in each; `ForwardHop` shows that a hop leads
from a stage to a stage and takes a higher channel.

`DallyTWProofs` and `DallyCreditProofs` prove, for every topology, set of messages, sizes and delays, every
routing algorithm of the model, every window and any number of rollbacks:

| Theorem | States |
|---|---|
| `RollbackRestored` | `Spec => []RollbackRestoresChunks` |
| `LoopsAlwaysRun` | `Spec => []LoopsRun` |
| `CreditsAreConserved` (in `DallyCreditProofs`) | `Spec => []CreditsConserved` |
| `BuffersStayBounded` (in `DallyCreditProofs`) | `Spec => []TypeOK` |

Assumptions: `RouteAssumption`, `NetAssumption`, `TimesAssumption` and
`RossAssumption`.  Of `NetAssumption` the proofs need the sizes (not zero), at least
four channels (`p->num_vcs` is 4, or 4 per QoS level) and that -1, which stands in the
rc record for "no request", is not a message.

The argument has two halves.  The first is local to an LP: `HandlerOK(x, s, F, e, o)`
says of an outcome `o` of event `e` at LP `x` in state `s`, where `F` are the events of
`x`'s loops, that the new state and the events sent are in order, that the loops are in
order with the loop events that result, that taking away what was sent and giving back
`e` gives `F` again, and that the reverse handler leads from *every* state that looks
like `o.ns` to one that looks like `s`.  "Looks like" is `InChunks`: a state may differ
from the one seen before in the bytes of an unfinished packet (the exact property fails,
run `bytes`), so a rollback may start from a state that the forward handler never
produced.  There is one such lemma per
handler (`NewMsgHandler`, `SchedNextHandler`, `GenerateHandler`, `SendHandler`,
`ArriveHandler`, `BufUpdate`, `ReceiveHandler`, `PortSendHandler`, `CreditHandler`).  "In
order" (`TermOK`, `RouterOK`, `EventOK`) is a type invariant that knows about routing: a
chunk in a channel leads to a router from which its route goes on (`OnWay`, from the
stages of `DallyWalkProofs`), and its credit goes to a port that exists (`Upstream`).

The second half is about all LPs.  A reverse handler runs on the present and gives back
the past, so loops and states of the past have to be in order too.  `IndInv` says that
there is a history: for each entry of `log` the views and loop events of all LPs before
it (`World`), which `Link` ties to the next ones.  Processing an event appends to the
history, `Undo` takes the last member away, `Commit` the first.

Credits (`DallyCreditProofs`) need more than that an occupancy grows and shrinks by the same amount: the
property counts *sets* of chunks and events, and two equal chunks or two equal credits
would count once.  A slot is a channel of a port (or a terminal's one channel), and a
token is a slot with the name of a chunk that holds a place in it.  `CreditInv` says
that there is a function `Pl` which gives each token the one place where it is: in the
buffer of its slot, in the queue of the next router, on an event that carries the chunk,
or on the event that brings the credit back.  Everything found in a place is the token
of that place and of no other (`PlacesOK`), no buffer holds a token twice (`QueuesOK`), a
slot's occupancy is the chunk size times the number of its tokens (`CountsOK`).  That a
chunk never enters a slot that still waits for that chunk's credit follows from
the ranks of channels (`RanksOK`: the slots of a chunk ascend to where it is, so a chunk
meets no slot twice; the channel numbers of `DallyWalkProofs` again), that a terminal
never injects a name that is in use from its packet counter (`OwnOK`).  `Flows` states
what a handler does to tokens, with one lemma per handler and branch (`FlowSendChunk`,
`FlowReceiveFits`, `FlowReceiveWaits`, `FlowCreditMoves`, ...); `CreditIndInv` adds to
the history the events that carried chunks and credits before each logged event
(`NetHistory`), so that a rollback leads back to a state in which the invariant held.
Bijections between the tokens of a slot and the sets of the property
(`ArrivingCount`, `WaitingCount`, `PendingCount`, `CreditCount`) finish the proof.

Bounds (`DallyCreditProofs`, last part) are not inductive in the present state either.
A credit or a send that ends a wait adds `now - last_buf_full` to `busy_time`, so
`busy_time` stays a natural number only if `last_buf_full` is not later than the event,
and a rollback puts saved values back and returns to an earlier time.  `BoundIndInv`
therefore says of *every* state of the history that it is within its bounds (`Fits`) at
the time of the entry before it (`BoundHistory`); `Undo` returns to a member of the
history.  Each handler keeps `Fits` forward, with one lemma for each.  The upper bound of
an occupancy comes from the test that precedes each increment; the lower bound cannot be
had locally (a credit subtracts unconditionally) and comes from `CreditIndInv`: an
occupancy is the chunk size times a number of tokens.

`MpiTWProofs` proves, for every set of ranks and jobs, every program of operations,
every set of latencies and any number of rollbacks:

| Theorem | States |
|---|---|
| `NoMatchIsMissed` | `Spec => []NoMissedMatch` |

Assumptions: `ReplayAssumption` (operations have the fields their kind needs, peers
are ranks, roots of jobs are ranks) and that `None` is neither a message nor a
receive.

The argument.  That two queues hold no pair that fits is kept by a handler, which
looks through one queue before it appends to the other, and not by a reverse handler:
it puts back whatever is on top of `processed_ops`.  The invariant says for each
uncommitted event what it did (`Effect`): which element it took from which place, and
that this element lies on the stack above what the event found there.  It relates the
rank the event found to the rank it left, which is the one the next uncommitted event
of that rank found, or the present one (`LinksOK`).  `rc_stack_gc` drops entries of
committed events at any later event, so stacks are compared as far as they would
survive a collection now (`SameStack`, `Pushed`); for the entries of uncommitted events
that is all of them, since the log is in the order of time (`LogOK`, `GcPush`,
`GcPop`), and it goes on to hold when the GVT advances (`GcAgain`, `EffectLater`).
Counts, bytes and times are changed by almost every handler and touch no queue
(`Kept`), so what holds of a rank's queues holds with any of them
(`EffectOnQueues`).  Undoing an event then gives the rank back the queues it had
(`ReverseBack`, from
`TakeOutPutBack`: what is taken from a list and inserted behind its predecessor is
where it was), which held no pair that fits.  The list of completed requests is not
part of the argument: `add_completed_reqs` is a fold, and that it undoes
`clear_completed_reqs` for every list needs induction.

Proved and checked in no run: that an idle queue is empty (`IdleQueueIsEmpty`), that
levels are strict (`HighestLevelFirst`), and `NoDeadEnd`.

Only model-checked: the liveness properties (`EveryMessageServed`,
`EveryRequestAnswered`, `EveryPacketArrives`, `EveryMessageDelivered`,
`DeliveredInTheEnd`, `EveryRankFinishes`; fairness is beyond the prover); of the network
`DeliveredWhole`; the safety properties of the surrogate; of the MPI replay the
rollback (the list of completed requests, see above) and the properties of waits,
operations, bytes, collectives and the end of jobs, which depend on the traces: they
hold of programs in which a rank waits for what it posted, not of every value of the
constant.

## 5. Not modelled, and plan

* Base LP: sampling, end notifications and congestion events (statistics),
  `model_net_noop_event`, the pull and sequence helpers.
* dragonfly-dally: QoS levels and bandwidth monitoring, several rails, the smart
  and the legacy adaptive routing, link failures, congestion control, snapshots.
* Surrogate: predictors (statistics, or an external service), the application
  surrogate that skips iterations, the director client, switching without freezing.
* MPI replay: message-size tracking, sampling, printed totals, synthetic patterns
  other than the uniform one (they differ in the destinations drawn and in how many
  there are), `CLI_BCKGND_CHANGE`, the iteration predictor and the events of the
  director.
* The other networks repeat the terminal and router of dragonfly-dally with other
  topologies; a model of each would be a module like `DallyNet`.
* Pure input and output, configuration, generated and third-party code stay out.

Seen while reading or in further instances, and not stated as a run:

* `handle_sched_next` sends itself an event without writing its `m_base` ("no need to
  set m_base here", `model-net-lp.c:870`), and `model_net_base_event` drops the event if
  `created_in_surrogate` reads as true there: then the loop flag stays set with nothing
  on its way.  `NoStrandedRequest` fails in `ModelNetTW` with `Method = "selfclocked"`
  and `Recycled = {FALSE, TRUE}`;
* `SWM_Recv` (`codes-online-comm-wrkld.cxx:257`) leaves the request of its operation
  unset; if it is not negative, the data of a long message completes a request nobody
  waits for and the rank never goes on.  `OneOperationAtATime` fails in `MpiTW` with
  `RecvReqs = {-1, 7}`;
* `get_next_mpi_operation_rc` leaves an ALLREDUCE counted in `num_cols`
  (`model-net-mpi-replay.c:2795-2804`, compared at 3446), and `gen_synthetic_tr` records
  the messages to take back before a silent period cancels them (1064 and 1092-1096), so
  that `num_bytes_sent` gets too small: `RollbackRestores` fails in `MpiTW` with an
  ALLREDUCE in a program, and with a `JobTimer` that covers a step of the traffic;
* the index of the copy queue is not reduced modulo `node_copy_queues`
  (`model-net-lp.c:676`); `num_servers` and `servers_per_node` are statics computed from
  the first sender (647); a message short enough to bypass the network leaves the
  scheduler parameters set for it to the next one (`model-net.c:303`);
* a reservation beyond the last token is accepted (`resource.c:107` tests `>` where `>=`
  is needed), and the minimum of a general pool is not lowered by a reservation;
* `msg->qos_reset1` is set to -1 for "no" and tested for being non-zero; WAITANY and
  WAITSOME do nothing and leave their requests in the list of completed ones; with two
  groups `dfdally_select_intermediate_group` draws from an empty list;
  `is_there_another_pckt_in_queue` looks at one level of the priority scheduler only.

Order of further work:

1. Proofs: `DeliveredWhole` of `DallyTW`; `OneOperationAtATime` and `StopsLast` of `MpiTW`.
2. An abstract specification of the network (a bag of messages on their way) that
   `DallyTW` and `DallySurrogate` implement.
3. Local storage model, congestion controller with the router it observes.
4. Mapping and job-mapping algorithms as operators against reference definitions
   over small configurations; the copy-queue index over all of them.
