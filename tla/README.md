# A specification of disaster-resistant-network

The program moves backups out of the way of a disaster.  A Ryu controller
routes the backup traffic of host pairs over OpenFlow switches.  It predicts
which links are about to fail and computes new routes every 30 seconds.  An
experiment driver builds the network in Mininet, breaks links and hosts, and a
client and a server per host pair transfer a file and record what arrived.

This directory holds TLA+ modules of the parts that carry the logic, TLC
configurations, and proofs for TLAPS.  Everything is translated from the code;
where a comment of the code and the code disagree, the model has what the code
does and a run shows the disagreement.

## The system

| part | code | state | operations |
|---|---|---|---|
| routing algorithm | `controller/route_calculator.py` `__calc_takahira`, `controller/components.py` `Path` | none | predict bandwidths, order pairs, widest paths, merge paths, subtract |
| route calculator | `controller/route_calculator.py` | switches, links, host pairs | add, remove, register failure time and data size, reset, compute |
| controller | `controller/disaster_resistant_network_controller.py` | datapaths, port map, host addresses, updating flag, number of updates, route priority, MAC table | REST requests, switch messages, timers |
| flow sending | `controller/flow_addable.py` | none | `_add_flow` to `Datapath.send_msg` |
| learning switch | `controller/learning_l2_switch_controller.py` | MAC table | packet-in, init |
| network (external) | Open vSwitch, Mininet, Ryu | connections, queues, flow tables, ports | connect, apply, notify, lose |
| topology | `experiment/disaster_resistant_network_topo.py` | links and pairs to register | build, register |
| disaster scheduler | `experiment/disaster_scheduler.py` | timers | delete the ports of a link, kill a client |
| experiment driver | `experiment/experiment.py`, `main.py` | the run | start, register, sleep, stop |
| backup over TCP | `benchmark/tcp` | client: offset; server: total | dial, send, receive, record |
| backup over QUIC | `benchmark/quic` | the same | the same, over streams |
| database | `benchmark/db.go`, `db/init.sql` | a row per experiment and pair | insert |

How they interact.  The driver talks to the controller over REST: links and
host pairs, then `POST /disaster`, then failure times, at the end `PUT /init`.
Ryu calls the controller's handlers for switch messages from one event loop;
REST requests and `threading.Timer` callbacks are greenlets of their own.  All of
them share the controller's attributes without a lock.  They are cooperative:
a greenlet gives way where it waits, which in this code is `Datapath.send_msg`
when the 16 slots of a switch's send queue are taken.  The scheduler acts on
the network directly, so the controller learns of a failure from two port
notices, one per end.  The backup client and server only meet the controller
through the routes they get.

What is hard in it: an update that waits in the middle of its flows while
everything else goes on; exceptions that end an update after some of its flows;
two structures (links, ports) that must agree and are changed in different
places; timers that outlive `PUT /init`; notices in either order; a
widest-path computation that depends on the order of a list; an event loop that
sends, and so may wait for a full queue while packets it has not answered yet
arrive; two programs that count the same ports, and a third that knows the
result by heart; sessions of a transfer that overlap over one unlocked counter,
with deadlines on both sides, and streams whose reads end anywhere.
`PROJECT.json` lists each of these hazards with its line.

What makes each part correct:

- routing algorithm: predictions of consecutive intervals add up; the most
  urgent pair is served first; a route is a simple path, as wide as possible,
  and there is one whenever there can be one.  Where it is not, a route still does
  not leave the part of the network it starts in, takes no link twice, and takes
  of a link no more than its bandwidth.
- calculator: nothing registered is lost by registering something else.
- controller: links, ports and addresses agree; in a chain of updates a later
  routing wins over an earlier one; updates go on; a restart starts from zero; the
  network heals.
- learning switch: no entry and no flow leads away from its host; every packet
  arrives, once.
- topology: the ports that are registered are those that exist.
- experiments: each starts from a clean controller, updates begin with the
  disaster, and failures are predicted before they happen.
- backup: what is counted was sent, once; an undisturbed transfer over TCP is
  complete; whatever happens, both sides end and a row is written.

## The modules

| module | models | how |
|---|---|---|
| `Takahira` | `__calc_takahira`, `Path.merge` | operators; the greedy loop and the three loops over switches are folds |
| `WidestPath` | reference definitions | connected, simple path, widest, by quantifiers over sets of links |
| `RouteCalculator` | class `RouteCalculator` | `switches`, `hostPairs` as sequences (their order matters), `links` as a set; one action per method |
| `Controller` | the controller, its REST interface, the switches as it sees them | extends `RouteCalculator`; see below |
| `Experiment` | `main.py`, `experiment.py`, the scheduler | extends `Controller`; a program as a list of steps, with the time |
| `Topology` | `disaster_resistant_network_topo.py`, the list of failures | the loops of `build()`, step by step, next to Mininet's ports |
| `Wire` | (abstract) | what a network of switches promises to its hosts |
| `LearningSwitch` | `learning_l2_switch_controller.py`, `packet_in_handler` of the controller | controller, switches and hosts; implements `Wire` |
| `BackupTransfer` | `benchmark/tcp`, `benchmark/quic`, the insert of `benchmark/db.go` | client states, sessions with what is in flight, handlers of the server |
| `MCRouteCalculator`, `MCGrid`, `MCController`, `MCExperiment`, `MCLearning`, `MCTopology`, `MCBackup` | instances for TLC | constants, initial states, environments and fairness of the runs |
| `RouteCalculator_proof`, `Controller_proof`, `LearningSwitch_proof`, `Topology_proof`, `BackupTransfer_proof` | theorems | one lemma per action that can disturb the invariant |
| `Counting_proof`, `Experiment_proof`, `Links_proof` | theorems about what a transfer counts, about experiments one after another, about the links they leave known, the updates after a disaster and the failures these foresee | the same, each with an invariant of its own |

Operators whose name starts with `Slip` are not part of the model.  Each is the
definition that follows it with a plausible mistake; `PROJECT.json` says which
property notices it when it takes the place of the original.

### Takahira

Bandwidths times the interval replace bandwidths times a ratio, so that all
numbers are integers (no property depends on the unit).  The quotient
`datasize / fail_at` is compared by cross multiplication, negative values
(unknown data, -1) included.  Python's `sort(reverse=True)` is stable and so is
`ByUrgency`.  The bottleneck subtracted is the one of the nominal bandwidths, as
in the code.  Where the code would raise (a switch that has not connected, a
division by zero) `CalcRaises` of `RouteCalculator` holds.

The loops are folds over the list of switches (`WidestPaths`, `ByAll`) and of
pairs (`CalcTakahira`); so is the filtering of a path (`Without`).  The matrices
are functions of functions, a row per switch.

### Controller

A greenlet runs until it waits, so a handler that sends nothing is one action.
A handler that sends becomes `running`, a task with the list of its remaining
steps; no other greenlet moves until the task ends (`FinishUpdate`,
`FinishHosts`), fails (`Raise`) or meets a full queue (`Wait`).  A task that
waits is in `waiting` with the flow in its hand, in the order the semaphore of
the queue serves (`Resume`).  Lookups of ports, datapaths and the priority
happen at the step, not when the task starts, as in the code.

| action | code |
|---|---|
| `PutInit`, `PostLink`, `PutLink`, `PostHostPair`, `PutHostClient`, `PostDisaster` | the REST requests that change state |
| `TimerFires`, `UpdatePath` | `__update_path` |
| `SwitchFeatures`, `PortStatus` | the two switch handlers |
| `TakeStep`, `Wait`, `Resume`, `Raise` | `__set_route_by_path`, `__add_flow_for_host`, `_add_flow` |
| `Apply`, `DeletePort`, `LoseSwitch`, `Tick` | the network and the time |

Connections are numbered: `datapaths` keeps the old object of a switch that
has reconnected, `__find_dp` returns it, and what is sent to it is thrown away.
One flow stands for the two, IP and ARP, that the code sends; `QueueCap` is in
flows, so 8 is Ryu's queue.  A wait can therefore fall between two hops and not
between the two sends of one hop (lines 141 to 144), where the code reads the
priority and the datapath again and the port not.  `age` and `timers` count a small
interval; a timer may fire late.  `table` keeps, per switch and destination, the
flow that decides; that tables grow is not seen.

`routings` is history: the number of routings begun since `PUT /init`.  A task and
its flows carry the number (`nr`) of their routing, so that `NewestWins` can say
which flow is the later one without looking at its priority.

### Experiment

An experiment is a straight program, so the driver is a list `todo` of the steps
it still has to take: `Run` is the `try` clause, `Cleanup` the `finally` clause.
Each action of the driver takes one step; a request is the action of `Controller`
with its answer, which the code reads for an error message at most.  `Interrupt`
is an exception anywhere in `run`: it skips to `Cleanup`, and the operator
may start the next experiment without the pause after it.

| action | code |
|---|---|
| `Begin` | the loops of `main.py` |
| `Request`, `Disaster` | `register_links`, `register_host_pairs`, `__start_backup`, `__register_disaster_info`, `__init_controller` |
| `Start`, `Stop`, `Sleep` | Mininet started and stopped, `sleep` |
| `Schedule`, `LinkFails` | `DisasterScheduler.run` and `__fail`, a timer per link and one port after the other |
| `TimersFire`, `SystemStep` | the controller's timers, tasks and handlers, the switches |
| `TimePasses` | one unit of time, for sleeps, timers and failures alike |

Stopping Mininet deletes all ports; `Stop` chooses which switches still tell the
controller.  It also empties `fuse`: nobody cancels the timers of the scheduler, but
one that is left over finds a switch without a shell (`Mininet.stop` terminates them),
so that `vsctl` raises in the timer's own thread and nothing else happens.

Time passes only when controller and switches have nothing to do (`Settled`): timers
that have run out have fired, notices are handled, queues are empty, and all switches
of a network that is up have connected.  They keep up, while driver and scheduler may
be late without limit.  `SystemStep` has no `Resuming`: an update that meets a full
queue, which eight flows for a ring do not fill, would stay where it is.

`foreseen` is history: the links that an update counted for less than a whole
interval because of a known failure (`Weighted`).  To know of a failure that comes
after the interval is not enough: the ratio is 1 then, and the route ignores it.  Failures of hosts kill a client and do not touch the controller;
they are `Kill` of `BackupTransfer`.

### Topology

`ports` is what Mininet numbers, `counts` what `build()` counts by itself,
`links` and `hosts` what it notes to register later.  One turn of the inner loop
is two steps, to the right and to the bottom.  The properties hold after every
step, and `LinkFailures` is the list of `experiment.py`.

### LearningSwitch and Wire

The handler is as in `Controller`: one greenlet that runs until it waits in
`send_msg` for a full queue (`SendMsg`), and takes the next packet only after
(`Handle`).  What it sends for one packet is the list `sending`.  Switches
forward packets, report them (table-miss) and take messages in order (`Take`).
`PutInit` clears the MAC table at any moment, the flows stay.  A port is named by
what it leads to; `Toward` gives the way to each host, and `TreeAssumption` says
that this is a tree, because flooded packets would circulate on a cycle for ever
(the grid of the experiments has cycles, see below).

`Wire` has four variables: whether the network is ready, what was sent, which
arrivals are owed, what arrived.  Hosts send, packets arrive at most once, and
what is owed arrives.  The refinement mapping takes `ready` to "every switch has
its table-miss flow" and the other variables to themselves.  `ImplementsWire` is
`Wire!Spec`, fairness included: safety (no duplicates, whatever is flooded and
whatever flows appear in between) and liveness (nothing is forgotten in a
queue, an event or a flow that was installed before the packet it answers left).
`ArrivesOnce` is its safety half alone (`Wire!Safety`), which is proved.

### BackupTransfer

`transport` is chosen at the start.  A session has what is in flight (the records
of TLS, or single bytes for QUIC), whether the client has closed it, whether it
is stalled and what its handler does.  When the network goes down all open
sessions stall; after it is up each goes on at a time of its own, while the client
may have a new one already.  `total += nr` is a load and a store, because all
handlers share `total` without a lock.  A read that does not fill the buffer ends
the session.  The deferred `Record` inserts the total of its moment; the first
insert has the key.

Over TCP a buffer of 1024 bytes is one record, and `Conn.Read` returns one record
at most; only a stalled session meets a deadline; a session that the server has
closed ends for the client by the answer or by a reset, whichever comes first.
Two things are coarser than the code: a client of QUIC is in its handshake until the
server has the stream, though `OpenStreamSync` returns at once, so that an outage at
that moment is met by the handshake and not by the first write; and `Record` is one
step, in which the total is read and inserted.
Over QUIC a read returns any number of bytes up to the buffer (`ReadLens`), also
across the boundary of two writes; a write that meets its deadline has written
what had room, and `offset` counts that; the server closes its side of the stream
only, so that the client writes on until the stream takes no more; the last
bytes are lost to the count when the end of the stream comes with them; an idle
session is given up with all that was on its way (`IdleTimesOut`).
Failures of the database are not modelled.

## The runs

| run | question | bounds | distinct states |
|---|---|---|---|
| `calc_ops` | all methods in all orders | 3 switches, 2 pairs that share a server, 2 bandwidths, updates 0 and 1, failures at the end of the first interval and inside the second | 288,000 |
| `calc_quality` | routes on every graph, for every order of switches | 4 switches, 2 competing pairs, 2 bandwidths | 17,500 |
| `ctl_setup` | do links, ports and addresses agree, from power-on, under everything | 2 switches, queue of 1 flow, one connection each, 1 update | 1.8 million |
| `ctl_updates` | updates over full queues while a link fails and a switch is lost: does the newest win | 3 switches, queue of 1, 1 chain, 2 updates that end and any that fail, one reconnection | 107,000 |
| `ctl_heals` | does the network heal, do updates go on | 3 switches, all links may fail, queue of 8 | 85,000 |
| `experiment` | two experiments, whole or interrupted anywhere | ring of 3 switches, 1 pair, 1 failing link, 2 connections each, 3 updates per run; the unit is 10 s, times in the order of the code's (below) | 2.4 million |
| `learning` | do learning switches implement a wire | 2 switches, 3 hosts, 3 packets (there, back, to all), queue of 1 | 55,000 |
| `topology` | are the noted ports real, do the failures cut links | sizes 3 to 7 | 290 |
| `backup` | a transfer with outages, over TCP and QUIC | 2 blocks and 2 blocks and a bit, blocks of 2 bytes, window 2, 2 outages | 880,000 |

Why the bounds are enough.  Three switches are the smallest network with an
alternative route, four the smallest in which the three loops over switches
compose merged paths; two pairs compete for what is left, and a link both take
is overbooked (`LeftIsAccounted`).  `RoutesKeepToTheirPart` and `LinksTakenOnce` hold
as well on the grid of `grid_cut`, with any links removed (4,096 states, checked on
the side), where routes are missing; both are proved for every graph.  From update
`MaxUpdates` on every known failure lies behind (`BoundAssumption`), so later
predictions are alike and the counters may stop.  A queue of one flow makes every send a
possible wait.  In `ctl_updates` the only chain may end in the middle of its flows
(a port is gone) and be started again by another `POST /disaster`, so that flows of
a routing that failed, with the priority that the next one uses again, lie in the
tables and queues it meets.  In
`backup`, a window of two records fills with two blocks, and two
outages make three sessions, of which two overlap with the third; a file of two
blocks and one byte is the one whose last bytes and "fin" fill a buffer.

In `experiment` the ring has for each pair a second way, and the two experiments
are the least number in which something is left over.  Times keep the order and
the ratios of the code that matter: an update interval of 3 units (30 s), 1 before
links are registered (10 s), 3 for the servers (30 s), 6 before the next
experiment (60 s) and 6 as the earliest failure (60 s); an experiment lasts 8
units after its disaster instead of 66, since predictions are alike from update
`MaxUpdates` on.  The one failure is after 6 units, on the second of an update, or
after 7, inside an interval; 2 is there for the mutant, a failure before the second
update.

In `learning`, a packet for all comes to two hosts at one switch at once, and
waits in either queue; answers cross what they answer.  Longer trees are covered
by the proof as far as safety of the tables goes.  A line of three switches, with packets
from end to end and one from the middle to all, passes as well (1.1 million states,
four minutes).  In `topology` size 3 is
the least that the code allows, 5 the one of the failures, and even and odd sizes
place `h2c` differently.

Runs that find a violation, each of a sentence in the repository:

- `grid_cut`: on the 3x3 grid, with the switches in one order, two link
  failures leave a connected pair without a route.  The intermediate
  switch is the middle loop of `route_calculator.py:229`, where Floyd-Warshall
  has it outermost.
- `updates_stop`: a port is deleted while an update waits; the exception ends
  it before the next timer is started, and no update follows.
- `backup_record`: after an outage the row of a transfer has what the first
  session received, not the total; the inserts of later sessions fail.

Known and not given a run:

- `fail_at_sec = 0` is allowed by `components.py:26` and raises in the calculation.
- A link that has failed is preferred to one that is overbooked, because what is
  left of the latter is negative.  `LeftIsAccounted` bounds how negative.
- A route on the grid may be no walk: with the switches in the order 4, 3, 1, 9, 2,
  7, 6, 5, 8 and two links gone, the links of a route do not lead to the server.
  On four switches every route is a simple path (`RoutesServe` in `calc_quality`).
- A link that is registered after one of its ports was deleted stays known for ever,
  as does one whose notices are lost with the connection: no other notice comes.  In
  the experiments failures come later (`KnowsNothingElse`).
- A second `POST /disaster` starts a second chain of timers over the same
  counters, and predictions run ahead of the time.  Worse, the two chains overtake
  each other: the priority is read for each flow and counted when all are sent
  (lines 141, 151 and 156), so that a routing that waited for a queue, while one of
  the other chain came and went, sends the rest of its old flows with a priority
  that overrules the newer ones.  `ctl_updates` with `MaxChains = 2` finds this,
  with `NewestWins` violated.  The driver posts once, and no text of the repository
  speaks of a second post.
- A link that fails on the very second of an update (a multiple of 30 s, 19 of the 541
  values that are drawn) may fail before the first update that expects less of it:
  the two timers race, if the driver registered the failures at once.
  `FailuresAreForeseen` leaves these out (`FailsOnUpdate`), and is violated by
  `failAt = 6` if it does not.
- In the default size 3 (`main.py:35`) the list of failures names switches that do
  not exist, and ports of other links: registering them fails, and the scheduler
  deletes ports of links that the controller does not expect to fail.
- A transfer over QUIC may be incomplete without any outage: a short read in the
  middle of the file ends the session at the server, and what the client still
  writes fits the stream.  `UndisturbedIsComplete` is about TCP.
- Packets that match no route are flooded, and the grid has cycles.  Learning and
  flooding are checked on trees.

## Fairness

`ctl_heals` assumes that the hub runs greenlets that are ready and that switches
process their messages (strong fairness: what is ready waits while a task
runs), that time passes when the switches have caught up, and that the driver
starts updates.  Nothing forces links to fail.  Switches that keep up are an
assumption: `updates_stop` shows what happens without it.  The fairness of the
two actions that compute routes is written with the condition under which they are
enabled, equal to ENABLED of the action, because TLC would compute routes to
decide it.

`backup` assumes that both processes are scheduled, that a network that is down
comes back (the controller finds another route; the number of outages is
bounded) and that TCP then sends again.  Nothing forces a kill or an outage.
`tls.Dial` may fail and is retried: while the network is down it is disabled.

`learning` assumes weak fairness of the switches (each takes its messages, one
of them forwards while packets are there) and of the event loop (it takes the next
packet, and sends when there is room).  Nothing forces hosts to send, switches to
connect or the table to be cleared; what `Wire` promises follows from these.
`experiment`, `topology` and the other runs check safety only and assume no
fairness.

## What is proved

For every network, queue length and bound:

- `CalcTypes`: `CalcSpec => []CalcTypeOK`.
- `PredictionIsExactTheorem`: from `TimeAssumption`, by cases over where the
  failure lies; the multiplication `nth * UpdateInterval` is named so that what
  remains is linear.
- `LinksKeepWhatIsKnownTheorem`: an action property.  What makes it inductive is
  that no two links have the same ends (`Distinct`), which `AddLink` keeps by
  ignoring a link that is there already, and `RegisterLinkFailTime` by replacing.
- `PairsSurviveTheorem`: an action property about the number of registrations of a
  pair.  `UpdateHostClient` takes a pair out of the list and appends a copy, so the
  places of the old list are mapped one to one into those of the new one
  (`NothingLost`), the removed one to the last.
- `MostUrgentFirstTheorem`: the routes are those of the pairs in the order of
  `ByUrgency`, which the fold is shown to keep (`ServesAll`), and that order is
  sorted and stable: the comparison by cross multiplication is one of fractions
  once both denominators are made positive, hence transitive, also with the -1 of
  unknown values; the rank of a pair (how many come before it) then is a bijection
  with the places.  `CalcRaises` excludes a zero, which the code would divide by.
- What is left of the routing algorithm's promise on graphs where `RoutesServe` is
  false, for every graph, every bandwidths and every order of switches and pairs.
  `RoutesKeepToTheirPartTheorem`: if no link leaves a part of the network, the tables
  of the algorithm never have a way between its inside and its outside, before and
  after each step of its loops (`KeepSides`): to write one, both ways that are put
  together would have to exist, and one of them crosses, so its width is
  `-BANDWIDTH_INF` and no improvement.  Nor does a route go out of the part and come
  back.  `LinksTakenOnceTheorem`:
  `Path.merge` keeps the property that a path takes no link twice in whatever
  direction (`MergeOnce`), as of a link that both parts take, forth or back, it
  keeps one at most.  `LeftIsAccountedTheorem`: each turn of the greedy loop takes
  the least bandwidth of the route off each of its links and nothing off the others
  (`TakesFrom`), so after `k` turns what is missing is at most the bandwidth for each
  of the first `k` routes that cross the link (`LeftSoFar`).  It needs that no two
  links have the same ends (`Distinct`), or `LinkBetween` might find another one.
- `PortInvariance`, and from it `LinkHasPortsTheorem`.  `LinkHasPorts` alone is not inductive: a
  registration overwrites entries of the port map, and only because the map
  agrees with the wiring (`PortsAreWired`, from `WiringAssumption`: ports of one
  switch differ) is what it overwrites the entry it writes.  `PortStatus`
  takes the link away with the entry, as a link has no ends but two.
- `TellingLeavesNoGhost`: `Spec /\ [][Told]_vars => []NoGhostLink`.  A link stays for
  ever if its port was gone before it was registered, or if the connection that should
  tell of it is lost, and the code can do nothing about either; `Told` is that these
  do not happen: a link is registered while both its ports are there, a port goes
  while its switch is connected, and a connection is not lost with notices under
  way.  Reconnections as such are allowed, and so are all requests in any order.  In
  the experiments links are registered before any fails, and switches stay connected
  until the network is stopped (`KnownLinksAreThere` is about that case, without
  `Told`).  Then `NoGhostLink` is inductive together with `PortInv`: a link known
  has an entry in the port map for each end, so that the handler of a notice finds
  its neighbour and takes the link away, whichever end comes first; and a notice
  removes no entry but that of its own port.
- `UpdatesGoOnUndisturbed`: `Spec /\ [][Undisturbed]_vars => [](UpdatesGoOn /\
  RestartsFromZero)`, for every number of pairs, chains and waits.  `updates_stop`
  shows that an update can end without starting the next timer; this theorem says
  that it does so in three ways only, whose absence is `Undisturbed`: the
  calculation raises, a port is forgotten while an update waits for a queue, or
  `PUT /init` comes while one waits.  Ports that go while nothing waits, links,
  pairs and clients registered at any moment, reconnections, and a second
  `POST /disaster` do not stop updates.  `GoOnInv`: no step left of a running or a
  waiting update fails (`Able`), because the ports of a route were there when it was
  computed (`RoutesAreAble`, from `LinkHasPorts` and `PairsHaveIp`) and what is
  registered since only adds to them (`StillAble`); every switch in the list has a
  datapath; and what a run has left of timers and counters is consistent with
  `isUpdating` (`OffInv`, `OnInv`), so that the next run starts from zero.
- `PairsHaveIpTheorem`: with the types of `hostIp` and of the addressed pairs;
  the pair that moves in `PutHostClient` is one of the list.
- `ControlTypes`: the types of everything but the routes, and `TypesTheorem`, all
  types (`TypeOK`).  The types of tasks are not inductive by themselves: that a flow has a
  port as its output needs that a step either goes over a link between switches or
  to a host from the host's own switch (`GoodStep`), and that a step is only taken if
  its lookups do not fail.  `UpdateFor` says what the steps of an update are: those of
  routes for registered pairs over registered links between known switches.
- `NotesWhatIsBuiltTheorem`: for every size.  It needs that the count of a switch is
  the number of ports Mininet has given it (`counts[s] = Len(ports[s])`), which is
  what makes the next count the next port.  It also shows what `WiringAssumption`
  of `Controller` assumes of the ports the driver registers.
- `FailuresCutLinksTheorem`: the list of failures in `experiment.py` has port numbers
  that nobody computes.  `NumberInv` says, for every size and each moment of the
  loops, which ports of each switch are in use (`Used`: the cables to the top, the
  left, the right and the bottom, those that exist and have been added), hence what
  the number of each is (`ToRight`, `ToBottom`); at the end, in size 5, the ten
  failures are found among them.
- `NothingLeadsAstrayTheorem`: for every tree, from `TreeAssumption`.  `LInv` adds
  that each packet at a switch, in an event, in a message or in the handler's hands
  carries the port towards its source: that is what the handler learns from.  The
  core is `EmitRight`: a packet that does not go back where it came from is, at the
  next switch, still coming from its source.
- `NewestWinsInRuns`: `MaxChains = 1 /\ RunSpec => []NewestWins`, where `RunSpec` is
  the controller with everything but `PUT /init`.  `PUT /init` sets the priority back
  to its first value while flows of the last run, with higher ones, are still in the
  switches; the driver stops the network before it, which empties them.  With two
  chains it is false (see "Known"); with one (`OneChain`) there is a timer, or an
  update that runs or waits, or none of these, and whatever still sends flows of a
  route belongs to the latest routing: the next timer starts when all flows are sent,
  and an update that fails has nothing in the hand of a task.  `FlowInv` orders, per
  switch and destination, the flow in the table, those in the queue and those in the
  hands of waiting tasks, by both number and priority (`Above`), below what a flow of
  this moment would have (`Newest`).  An update that fails leaves the priority as it
  is, so that the next routing only overwrites its flows because it comes later.
- `ArrivesOnceTheorem`: the initial states and the steps of `LearningSwitch` are
  those of `Wire` or stutter, fairness aside.  A copy of a packet heads for host `h`
  if the way to `h` does not lead back to where the copy came from.  `OInv`: for
  each packet and host at most one copy heads there, wherever it is (at a switch, in
  an event, in the list `sending`, in a queue), and none once the packet has
  arrived.  In a tree, of what leaves a switch by all other ports only one copy
  still heads for `h` (`EmitOnce`).
- `BackupTypes`: the types of a transfer over either transport, from
  `SizeAssumption`; the conjuncts that a client with a session has one and that no
  session has more in flight than it takes make it inductive: the latter bounds
  what a write that times out has written.
- `NothingEverCountsTwice`: the sum of what is counted, what handlers are about to
  count and what is in flight, over all sessions, is at most `Sent`.  The store of a
  handler may be late, and then loses what others stored since; the bound holds
  because what it loaded and what it adds were bounded together.
- `UndisturbedTransfersComplete`: what an undisturbed client over TCP has counted when
  it ends is exactly the file, and "fin" if the file ends with a full block or if it
  was sent again.  While nothing disturbs a transfer, it is not dialed yet, or what has
  been counted and what is in flight make up what was sent, block by block with the
  end mark behind the last, or the last read is under way, or everything is counted,
  or a second session is there for the end mark alone (`Whole`).  The case that matters
  is a file whose last block is short: the session then ends for it, before "fin".
  If "fin" meets a session that is closed, the client dials again with nothing left of
  the file (`Again`), and the second session counts "fin" and no byte more.
- `ExperimentsRestartFromZero`, `ExperimentsNotAhead`: for every program of the
  driver's shape, from `ScheduleAssumption`.  `RunInv` says what the driver has
  left: the disaster is one step of it, an initialization comes after, and before it
  the sleeps for the network and for the servers.  They are longer, together, than an
  interval between updates (`Boot + Prepare > UpdateInterval`, 10 s and 30 s against
  30 s), so that a timer that outlives `PUT /init`, also after an interrupt and
  without the pause between experiments, has fired before the next disaster.  Hence
  there is one chain of timers, and the counter of updates never runs ahead.
- `FreshDatapaths`: all datapaths the controller holds are of open connections,
  except from the stop of the network to the `PUT /init` that follows it at once in
  every list of steps, also in the one an interrupt leaves.

- `WorkingLinksAreKnown` and `KnownLinksAreThere`: the controller knows the cables
  that work and no others.  What is registered depends on where the program is, so
  `KnowInv` says, per place of the driver (`InPlace`), which cables are registered:
  none until the pause after the start of the network is over (`Bare`), all of those
  before the request that comes next, all of them from the first host pair on.
  Before the pause ends a notice of the network that was stopped may still come, and
  finds nothing to take away; after it all switches are connected, and every notice
  is of a port that is gone and was not made again (`Steady`).  This is why
  `ScheduleAssumption` needs the pause to be there at all (`Boot > 0`, 10 s): time
  passes only when no notice is left.  A link that loses a port stays known until
  the notice of one end is handled, which `PortStatus` does for both ends.

- `DisastersStartUpdates`: after `POST /disaster` there is always a timer, a running
  update or one that waits, so nothing a step of an update does may raise.  `GoInv`
  adds to `KnowInv` that every connected switch is in the controller's list
  (`ListsInv`), that a pair is registered before the disaster is reported, and that
  no step left of a running update fails (`UpdatesInv`); `UpdateIsAble` derives the
  last from the other parts when an update is computed.  In `updates_stop` a step
  does raise, since a port is deleted while the update waits; an update that does not
  wait looks its ports up at once, and `KnowInv` says that they are there.
- `FailuresForeseen`: when a port is gone, routes were computed that expect less of the
  link for its failure, except if it failed on the second of an update.  `FailInv` follows the failure from the program
  (`DriverDeals`: a link that will fail is one the driver has registered to fail, or
  will before it schedules the failures, and it reports the disaster before, too)
  to the fuse (`FuseInv`: the failure is foreseen, or updates are on and the next one
  comes before the fuse burns down, and is about the failure's interval or a later one,
  or is followed by another in time, `InTime`) to the port.  The scheduler starts its timers after the updates have
  begun and is late, if anything, so a failure comes no earlier than the interval that
  the counter of updates says; a failure that is no multiple of the interval lies
  inside one, whose update comes before it.

The order of the driver's steps, on which these two rest, is proved
of the whole program and carried along as "every step of this kind lies before any
of that kind" (`Precedes`), which taking the head of the program keeps.  Both need
`FailureAssumption`: there are pairs to serve (an update for none ends the chain of
timers), clients do not fail at second 0 (they fail at 300 s and at 600 s, and 0
would raise), and no link fails within an update interval (`random.randint(60,
600)` against 30 s).

All of these are about experiments in which no queue fills: an update that waits is
never resumed in `ExpNext` (see "Experiment").  What they state holds of a waiting
update all the same, except for the last: an update that never ends starts no
timer, so `FailuresForeseen` says `waiting = <<>> => FailuresAreForeseen`.  In the
run `experiment` TLC checks the invariant without this hypothesis.

How a fold is reasoned about.  `FoldLeft` and `FlattenSeq` are recursive functions
that the library chooses, and the provers have no induction over data.  What they do
have is that a set of numbers has a least element: `UpTo` derives from it that what
holds at 0 and is kept by each step holds up to `n`, as a statement about a set
and not about an operator.  `RunOfFold` takes from the fold's function its run, the
values after each element; `FoldValues` says that it exists and stays in the set that
the step maps to itself.  Lambdas cannot be passed to a lemma, so every fold of the
model has a lemma that names its step (`...IsFold`).  This is enough for types and
for what each iteration adds to a list; it rests on `InfAssumption`
(`BANDWIDTH_INF` is a number).

Only model-checked, and why:

- `RoutesServe`: it holds on the graphs of `calc_quality` but not on every graph
  (`grid_cut`, and "Known" above), so there is no theorem to be had.
  What does hold on every graph is proved (`RoutesKeepToTheirPart` and the two
  after it).
- `RoutesWork` says that packets for a server come to it along the flows in the
  tables once all updates are through.  It rests on `RoutesServe` and fails
  where that does; it holds on the ring of the run.  `FailuresAreForeseen` while a
  flow waits, see above.
- `NoGhostLink` and `UpdatesGoOn` outside of what `Told` and `Undisturbed` say: there
  is no theorem, since both are then false (`updates_stop`, and "Known" above).  The
  runs check them in instances whose environment keeps to it in a way of its own.
- Liveness (`Heals`, `TransferEnds`, and the fairness half of `ImplementsWire`), which
  the prover does not do.

## Not modelled

- The rows `__record` writes and the schema around `benchmarks`: they are written
  once, before an experiment, and read by nobody in the repository.
- The processes of the backup inside an experiment: `BackupTransfer` models them with
  a network that goes down and up; `Experiment` says when it may.
- What raises in the `finally` clause itself: the experiment then ends the process.
- Learned flows in `Controller`: they have a lower priority than routes.  Bandwidth,
  delay and packets in flight while routes change.
- IPv6 packets, which the handler ignores, and buffers: switches send whole packets
  (`OFPCML_NO_BUFFER`), so that the branches for buffers are not reached.
- The Dijkstra variant (`RoutingAlgorithm.TAKAHIRA` is fixed), logging and
  formatting, TLS keys, command lines, containers.

Possible next: an abstract specification of the controller as a map from what is
registered to routes in force.
