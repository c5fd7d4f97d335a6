----------------------------- MODULE Controller -----------------------------
(***************************************************************************)
(* class DisasterResistantNetworkController and its REST interface, with   *)
(* the network it controls.                                                *)
(*                                                                         *)
(* The controller is one process of cooperative greenlets: the event loop  *)
(* that handles switch messages, one greenlet per HTTP request and one per *)
(* timer.  A greenlet runs until it waits, and the only place where the    *)
(* code modelled here waits is Datapath.send_msg, when the send queue of   *)
(* the switch is full.  So whatever does not send is one action; what      *)
(* sends flows becomes the running task, which takes one step per flow,    *)
(* and nothing else happens until it ends, raises or waits.                *)
(*                                                                         *)
(* One flow stands for the two, for IP and for ARP, that the code sends.   *)
(* Learned flows (packet_in_handler) have a lower priority than the flows  *)
(* modelled here and are left out.                                         *)
(*                                                                         *)
(* An operator named Slip... is no part of the model: it is the definition *)
(* after it with a mistake, which a property of the module has to notice.  *)
(***************************************************************************)
EXTENDS RouteCalculator

CONSTANTS
  Port,       \* Port[s, x] is the port of switch s to x, a switch or a host
  QueueCap,   \* the send queue of a switch holds this many flows
  MaxConns,   \* bound: connections per switch
  MaxChains   \* bound: chains of path updates that run side by side

VARIABLES
  datapaths,     \* __datapaths: connections, [sw, conn] each
  portTo,        \* __port_to_switch, as a set of [sw, port, to]
  hostIp,        \* the keys of __host_to_ip
  isUpdating,    \* __is_updating
  updateTimes,   \* __update_times
  routePriority, \* __route_priority
  timers,        \* what each started threading.Timer has left to wait
  running,       \* the task that is sending flows, or Idle
  waiting,       \* tasks in send_msg, in order, each with its flow in hand
  routings,      \* routings begun since PUT /init (history: a flow carries its number)
  conn, live,    \* connections each switch has made; switches connected now
  sendq,         \* flows on the way to each connected switch
  table,         \* table[s][h]: the flow that decides where s sends packets for h
  up,            \* the ports between switches that exist, <<s, x>> each
  notices,       \* ports whose deletion the controller has not handled yet
  age            \* time since path updates were started (of the environment)

ctlVars  == <<datapaths, portTo, hostIp, isUpdating, updateTimes, routePriority, timers>>
taskVars == <<running, waiting, routings>>
netVars  == <<conn, live, sendq, table, up, notices>>
vars     == <<calcVars, ctlVars, taskVars, netVars, age>>

HostPriority         == 50
InitialRoutePriority == 100
AnyHost == "any"    \* what the table-miss flow matches
ToController == 0   \* and where it sends

\* Port numbers of a switch differ (they are positive); links have a port at
\* both ends, and hosts one at their switch.
ASSUME WiringAssumption ==
  /\ \A w \in Wires : \A s, t \in w : s # t => <<s, t>> \in DOMAIN Port
  /\ \A h \in Hosts : <<Neighbor[h], h>> \in DOMAIN Port
  /\ \A a, b \in DOMAIN Port : a[1] = b[1] /\ Port[a] = Port[b] => a = b
  /\ \A a \in DOMAIN Port : Port[a] \in Nat \ {0}
  /\ Hosts \cap Switches = {} /\ AnyHost \notin Hosts

\* From update MaxUpdates on all links with a known failure have failed, and
\* one prediction is like the other: counters may stop there.
ASSUME BoundAssumption ==
  /\ \A t \in FailTimes : t <= MaxUpdates * UpdateInterval
  /\ {QueueCap, MaxConns, MaxChains} \subseteq Nat \ {0}

CountUp(n, max) == IF n < max THEN n + 1 ELSE n
MaxRoutePriority == InitialRoutePriority + MaxUpdates
MaxRoutings == MaxUpdates + 1

LinkPorts == {e \in Switches \X Switches : {e[1], e[2]} \in Wires}

-----------------------------------------------------------------------------
(* Types. *)

PortEntry == [sw : Switches, port : Nat, to : Switches]
Datapath  == [sw : Switches, conn : Nat]
Flow      == [dst : Hosts \union {AnyHost}, prio : Nat, nr : Nat, out : Nat]
Step      == [do : {"resolve"}, hosts : SUBSET Hosts]
               \union [do : {"send"}, at : Switches, to : Switches \union Hosts, dst : Hosts]
Task      == [kind : {"update", "hosts"}, nr : Nat, todo : Seq(Step)]
NoFlow    == [prio |-> -1, nr |-> 0, out |-> ToController]
Idle      == [kind |-> "idle", nr |-> 0, todo |-> <<>>]

\* What does not depend on the routes computed.
ControlTypeOK ==
  /\ links \in SUBSET Link
  /\ datapaths \in Seq(Datapath)
  /\ portTo \in SUBSET PortEntry
  /\ hostIp \in SUBSET Hosts
  /\ isUpdating \in BOOLEAN
  /\ updateTimes \in 0..MaxUpdates
  /\ routePriority \in InitialRoutePriority..MaxRoutePriority
  /\ timers \in Seq(0..UpdateInterval)
  /\ routings \in 0..MaxRoutings
  /\ conn \in [Switches -> 0..MaxConns] /\ live \in SUBSET Switches
  /\ up \in SUBSET LinkPorts
  /\ notices \in [Switches -> Seq(Nat)]
  /\ age \in Nat

TypeOK ==
  /\ CalcTypeOK /\ ControlTypeOK
  /\ running \in Task \union {Idle}
  /\ waiting \in Seq([task : Task, dp : Datapath, flow : Flow])
  /\ sendq \in [Switches -> Seq(Flow)]
  /\ table \in [Switches -> [Hosts \union {AnyHost} ->
                            [prio : Nat \union {-1}, nr : Nat, out : Nat]]]

-----------------------------------------------------------------------------
(* Sending flows. *)

\* __find_port and __find_dp, where they find something: the first datapath
\* of the switch, which after a reconnection is the old one.
PortsTo(s, x)  == {e.port : e \in {f \in portTo : f.sw = s /\ f.to = x}}
KnownDp(s)     == \E i \in DOMAIN datapaths : datapaths[i].sw = s
FindDp(s)      == datapaths[SelectInSeq(datapaths, LAMBDA d : d.sw = s)]

IsOpen(dp) == dp.sw \in live /\ dp.conn = conn[dp.sw]

\* send_msg does not wait: there is room in the queue and nobody waits for it,
\* or the connection is closed, and then the message is thrown away.
HasRoom(dp, ahead) ==
  \/ ~IsOpen(dp)
  \/ Len(sendq[dp.sw]) < QueueCap /\ \A w \in ToSet(ahead) : w.dp # dp
Enqueue(dp, flow) ==
  sendq' = IF IsOpen(dp) THEN [sendq EXCEPT ![dp.sw] = Append(@, flow)] ELSE sendq

\* The steps of a task: look up the addresses of a pair, send a flow.
ResolveStep(client, server) == [do |-> "resolve", hosts |-> {client, server}]
SendStep(s, x, h)           == [do |-> "send", at |-> s, to |-> x, dst |-> h]

\* __set_route_by_path: on each link of a route, toward the server and back.
RouteSteps(r) ==
  <<ResolveStep(r.pair.client, r.pair.server)>> \o
  FlattenSeq([i \in DOMAIN r.path |->
                <<SendStep(r.path[i][1], r.path[i][2], r.pair.server),
                  SendStep(r.path[i][2], r.path[i][1], r.pair.client)>>])
NextRouting == CountUp(routings, MaxRoutings)
UpdateTask(routes) ==
  [kind |-> "update", nr |-> NextRouting,
   todo |-> FlattenSeq([k \in DOMAIN routes |-> RouteSteps(routes[k])])]

\* The two calls of __add_flow_for_host.
HostsTask(client, server) ==
  [kind |-> "hosts", nr |-> 0,
   todo |-> <<SendStep(Neighbor[client], client, client),
              SendStep(Neighbor[server], server, server)>>]

\* The flow of a send step: to the host itself, or toward the next switch at
\* the priority of this moment.
FlowOf(step) ==
  IF step.to = step.dst
  THEN [dst |-> step.dst, prio |-> HostPriority, nr |-> 0, out |-> Port[<<step.at, step.to>>]]
  ELSE [dst |-> step.dst, prio |-> routePriority, nr |-> running.nr,
        out |-> CHOOSE p \in PortsTo(step.at, step.to) : TRUE]

\* The lookups of a step fail: KeyError, a port None that cannot be packed, or
\* an attribute of the datapath None.
Fails(step) ==
  \/ step.do = "resolve" /\ ~(step.hosts \subseteq hostIp)
  \/ step.do = "send" /\ step.to # step.dst /\ PortsTo(step.at, step.to) = {}
  \/ step.do = "send" /\ ~KnownDp(step.at)
-----------------------------------------------------------------------------
(* HTTP requests.  Each runs when no other greenlet does. *)

Init ==
  /\ CalcInit
  /\ datapaths = <<>> /\ portTo = {} /\ hostIp = {}
  /\ isUpdating = FALSE /\ updateTimes = 0 /\ routePriority = InitialRoutePriority
  /\ timers = <<>>
  /\ running = Idle /\ waiting = <<>> /\ routings = 0
  /\ conn = [s \in Switches |-> 0] /\ live = {}
  /\ sendq = [s \in Switches |-> <<>>]
  /\ table = [s \in Switches |-> [h \in Hosts \union {AnyHost} |-> NoFlow]]
  /\ up = LinkPorts
  /\ notices = [s \in Switches |-> <<>>]
  /\ age = 0

\* Slip: the calculator is not reset.
SlipPutInit ==
  /\ running = Idle
  /\ isUpdating' = FALSE /\ updateTimes' = 0 /\ routePriority' = InitialRoutePriority
  /\ datapaths' = <<>> /\ portTo' = {} /\ hostIp' = {}
  /\ routings' = 0 /\ age' = 0
  /\ UNCHANGED <<calcVars, timers, running, waiting, netVars>>

\* Slip: the number of updates is not reset.
SlipPutInitTimes ==
  /\ running = Idle
  /\ isUpdating' = FALSE /\ routePriority' = InitialRoutePriority
  /\ datapaths' = <<>> /\ portTo' = {} /\ hostIp' = {}
  /\ CalcReset
  /\ routings' = 0 /\ age' = 0
  /\ UNCHANGED <<updateTimes, timers, running, waiting, netVars>>

\* Slip: the datapaths are kept.
SlipPutInitDatapaths ==
  /\ running = Idle
  /\ isUpdating' = FALSE /\ updateTimes' = 0 /\ routePriority' = InitialRoutePriority
  /\ portTo' = {} /\ hostIp' = {}
  /\ CalcReset
  /\ routings' = 0 /\ age' = 0
  /\ UNCHANGED <<datapaths, timers, running, waiting, netVars>>

\* PUT /init.  Running timers and waiting tasks are not cancelled.
PutInit ==
  /\ running = Idle
  /\ isUpdating' = FALSE /\ updateTimes' = 0 /\ routePriority' = InitialRoutePriority
  /\ datapaths' = <<>> /\ portTo' = {} /\ hostIp' = {}
  /\ CalcReset
  /\ routings' = 0 /\ age' = 0
  /\ UNCHANGED <<timers, running, waiting, netVars>>

\* POST /link.  The ports are set even if the link was there already.
PortEntries(w) ==
  {[sw |-> e[1], port |-> Port[e], to |-> e[2]] : e \in {f \in w \X w : f[1] # f[2]}}
PostLink(w, bw) ==
  /\ running = Idle
  /\ AddLink(w, bw)
  /\ portTo' = PortEntries(w) \union
                 {e \in portTo : \A n \in PortEntries(w) : <<n.sw, n.port>> # <<e.sw, e.port>>}
  /\ UNCHANGED <<datapaths, hostIp, isUpdating, updateTimes, routePriority, timers,
                 taskVars, netVars, age>>

\* PUT /link.  It fails, and changes nothing, if there is no such link.
PutLink(w, failAt) ==
  /\ running = Idle
  /\ RegisterLinkFailTime(w, failAt)
  /\ UNCHANGED <<ctlVars, taskVars, netVars, age>>

\* POST /host-pair.  The pair is registered, then its flows are sent.
PostHostPair(client, server) ==
  /\ running = Idle
  /\ hostIp' = hostIp \union {client, server}
  /\ AddHostPair(client, server)
  /\ running' = HostsTask(client, server)
  /\ UNCHANGED <<datapaths, portTo, isUpdating, updateTimes, routePriority, timers,
                 waiting, routings, netVars, age>>

\* PUT /host-client.
PutHostClient(client, failAt, size) ==
  /\ running = Idle
  /\ UpdateHostClient(client, failAt, size)
  /\ UNCHANGED <<ctlVars, taskVars, netVars, age>>

\* __update_path up to the sending of the flows.  It ends there, without a new
\* timer, if updates are off, the calculation raises or there is no host pair.
UpdatePath(updating) ==
  LET routes == updating /\ ~CalcRaises /\ hostPairs # <<>>
  IN  /\ running' = IF routes THEN UpdateTask(Routes(updateTimes)) ELSE Idle
      /\ routings' = IF routes THEN NextRouting ELSE routings

\* POST /disaster: start_update_path.
Chains ==
  Len(timers) + Cardinality({i \in DOMAIN waiting : waiting[i].task.kind = "update"})
PostDisaster ==
  /\ running = Idle
  /\ Chains < MaxChains
  /\ isUpdating' = TRUE
  /\ UpdatePath(TRUE)
  /\ UNCHANGED <<calcVars, datapaths, portTo, hostIp, updateTimes, routePriority, timers,
                 waiting, netVars, age>>

-----------------------------------------------------------------------------
(* Timers and switch messages. *)

\* Slip: the timer runs again while the flows are sent.
SlipTimerFires(i) ==
  /\ running = Idle
  /\ timers[i] = 0
  /\ timers' = Append(RemoveAt(timers, i), UpdateInterval)
  /\ UpdatePath(isUpdating)
  /\ UNCHANGED <<calcVars, datapaths, portTo, hostIp, isUpdating, updateTimes, routePriority,
                 waiting, netVars, age>>

\* A timer that has run out calls __update_path.
TimerFires(i) ==
  /\ running = Idle
  /\ timers[i] = 0
  /\ timers' = RemoveAt(timers, i)
  /\ UpdatePath(isUpdating)
  /\ UNCHANGED <<calcVars, datapaths, portTo, hostIp, isUpdating, updateTimes, routePriority,
                 waiting, netVars, age>>

\* A switch connects: switch_features_handler.  The queue is new, so that the
\* table-miss flow does not wait.
SwitchFeatures(s) ==
  /\ running = Idle
  /\ s \notin live /\ conn[s] < MaxConns
  /\ live' = live \union {s}
  /\ conn' = [conn EXCEPT ![s] = @ + 1]
  /\ datapaths' = Append(datapaths, [sw |-> s, conn |-> conn[s] + 1])
  /\ AddSwitch(s)
  /\ sendq' = [sendq EXCEPT ![s] =
                   <<[dst |-> AnyHost, prio |-> 0, nr |-> 0, out |-> ToController]>>]
  /\ UNCHANGED <<portTo, hostIp, isUpdating, updateTimes, routePriority, timers,
                 taskVars, table, up, notices, age>>

\* Slip: the port is forgotten and the link is not.
SlipPortStatus(s) ==
  /\ running = Idle
  /\ notices[s] # <<>>
  /\ notices' = [notices EXCEPT ![s] = Tail(@)]
  /\ portTo' = {e \in portTo : ~(e.sw = s /\ e.port = Head(notices[s]))}
  /\ UNCHANGED <<calcVars, datapaths, hostIp, isUpdating, updateTimes,
                 routePriority, timers, taskVars, conn, live, sendq, table, up, age>>

\* port_status_handler, for the deletion of a port: a port that is not
\* registered, or of a switch without any, changes nothing.
PortStatus(s) ==
  /\ running = Idle
  /\ notices[s] # <<>>
  /\ notices' = [notices EXCEPT ![s] = Tail(@)]
  /\ LET gone == {e \in portTo : e.sw = s /\ e.port = Head(notices[s])}
     IN  /\ portTo' = portTo \ gone
         /\ links' = {l \in links : \A e \in gone : l.ends # {s, e.to}}
  /\ UNCHANGED <<switches, hostPairs, datapaths, hostIp, isUpdating, updateTimes,
                 routePriority, timers, taskVars, conn, live, sendq, table, up, age>>

-----------------------------------------------------------------------------
(* The running task. *)

Rest == [running EXCEPT !.todo = Tail(@)]

\* The names of the pair are looked up, or a flow is put in a queue.
TakeStep ==
  /\ running.todo # <<>>
  /\ LET step == Head(running.todo)
     IN  /\ ~Fails(step)
         /\ \/ step.do = "resolve" /\ UNCHANGED sendq
            \/ /\ step.do = "send" /\ HasRoom(FindDp(step.at), waiting)
               /\ Enqueue(FindDp(step.at), FlowOf(step))
  /\ running' = Rest
  /\ UNCHANGED <<calcVars, ctlVars, waiting, routings, conn, live, table, up, notices, age>>

\* The queue is full: the greenlet waits, the flow in hand.
Wait ==
  /\ running.todo # <<>>
  /\ LET step == Head(running.todo)
         dp   == FindDp(step.at)
     IN  /\ step.do = "send" /\ ~Fails(step) /\ ~HasRoom(dp, waiting)
         /\ waiting' = Append(waiting, [task |-> Rest, dp |-> dp, flow |-> FlowOf(step)])
  /\ running' = Idle
  /\ UNCHANGED <<calcVars, ctlVars, routings, netVars, age>>

\* There is room again for the first that waits for this connection.
Resume(i) ==
  /\ running = Idle
  /\ LET w == waiting[i]
     IN  /\ HasRoom(w.dp, SubSeq(waiting, 1, i - 1))
         /\ Enqueue(w.dp, w.flow)
         /\ running' = w.task
  /\ waiting' = RemoveAt(waiting, i)
  /\ UNCHANGED <<calcVars, ctlVars, routings, conn, live, table, up, notices, age>>

\* A lookup raises; what is left of the task, and of an update the increments
\* and the next timer, is never done.
Raise ==
  /\ running.todo # <<>> /\ Fails(Head(running.todo))
  /\ running' = Idle
  /\ UNCHANGED <<calcVars, ctlVars, waiting, routings, netVars, age>>

\* Slip: no timer is started.
SlipFinishUpdate ==
  /\ running.kind = "update" /\ running.todo = <<>>
  /\ routePriority' = CountUp(routePriority, MaxRoutePriority)
  /\ updateTimes' = CountUp(updateTimes, MaxUpdates)
  /\ running' = Idle
  /\ UNCHANGED <<calcVars, datapaths, portTo, hostIp, isUpdating, timers, waiting, routings,
                 netVars, age>>

\* All flows are sent.  An update counts itself and starts the next timer.
FinishUpdate ==
  /\ running.kind = "update" /\ running.todo = <<>>
  /\ routePriority' = CountUp(routePriority, MaxRoutePriority)
  /\ updateTimes' = CountUp(updateTimes, MaxUpdates)
  /\ timers' = Append(timers, UpdateInterval)
  /\ running' = Idle
  /\ UNCHANGED <<calcVars, datapaths, portTo, hostIp, isUpdating, waiting, routings,
                 netVars, age>>
FinishHosts ==
  /\ running.kind = "hosts" /\ running.todo = <<>>
  /\ running' = Idle
  /\ UNCHANGED <<calcVars, ctlVars, waiting, routings, netVars, age>>

-----------------------------------------------------------------------------
(* The network and the time. *)

\* A switch takes the next flow.  Flows are never removed, and one of the same
\* priority for the same host is overwritten; so the greatest priority, and the
\* latest flow of it, decides.
Apply(s) ==
  /\ running = Idle
  /\ sendq[s] # <<>>
  /\ LET f == Head(sendq[s])
     IN  table' = IF f.prio >= table[s][f.dst].prio
                  THEN [table EXCEPT ![s][f.dst] = [prio |-> f.prio, nr |-> f.nr, out |-> f.out]]
                  ELSE table
  /\ sendq' = [sendq EXCEPT ![s] = Tail(@)]
  /\ UNCHANGED <<calcVars, ctlVars, taskVars, conn, live, up, notices, age>>

\* One end of a link is deleted (vsctl del-port); the controller is told, if
\* the switch is connected.
DeletePort(s, t) ==
  /\ running = Idle
  /\ <<s, t>> \in up
  /\ up' = up \ {<<s, t>>}
  /\ notices' = IF s \in live THEN [notices EXCEPT ![s] = Append(@, Port[<<s, t>>])] ELSE notices
  /\ UNCHANGED <<calcVars, ctlVars, taskVars, conn, live, sendq, table, age>>

\* The connection of a switch is lost: what is queued for it, and some of what
\* it sent, is lost too.  If the switch restarts its flows are gone.
LoseSwitch(s, restarts) ==
  /\ running = Idle
  /\ s \in live
  /\ live' = live \ {s}
  /\ sendq' = [sendq EXCEPT ![s] = <<>>]
  /\ \E n \in 0..Len(notices[s]) : notices' = [notices EXCEPT ![s] = SubSeq(@, 1, n)]
  /\ table' = IF restarts THEN [table EXCEPT ![s] = [h \in DOMAIN @ |-> NoFlow]] ELSE table
  /\ UNCHANGED <<calcVars, ctlVars, taskVars, conn, up, age>>

\* Time passes; a timer that has run out may fire late.
MaxAge == (MaxUpdates + 1) * UpdateInterval
Tick ==
  /\ running = Idle
  /\ timers' = [i \in DOMAIN timers |-> IF timers[i] = 0 THEN 0 ELSE timers[i] - 1]
  /\ age' = IF isUpdating THEN CountUp(age, MaxAge) ELSE age
  /\ UNCHANGED <<calcVars, datapaths, portTo, hostIp, isUpdating, updateTimes, routePriority,
                 taskVars, netVars>>

-----------------------------------------------------------------------------

Registration ==
  \/ \E w \in Wires, bw \in Bandwidths : PostLink(w, bw)
  \/ \E w \in Wires, t \in FailTimes : PutLink(w, t)
  \/ \E p \in Pairs : Len(hostPairs) < MaxPairs /\ PostHostPair(p[1], p[2])
  \/ \E h \in Hosts, t \in ClientFailTimes, size \in DataSizes : PutHostClient(h, t, size)
TaskStep  == TakeStep \/ Wait \/ Raise \/ FinishUpdate \/ FinishHosts
Resuming  == \E i \in DOMAIN waiting : Resume(i)
Firing    == \E i \in DOMAIN timers : TimerFires(i)
Applying  == \E s \in Switches : Apply(s)
Noticing  == \E s \in Switches : PortStatus(s)
Failing   == \E e \in LinkPorts : DeletePort(e[1], e[2])
Connecting == \E s \in Switches : SwitchFeatures(s)
Losing    == \E s \in Switches, restarts \in BOOLEAN : LoseSwitch(s, restarts)

\* Everything that happens between two PUT /init.
RunNext ==
  \/ Registration \/ PostDisaster
  \/ TaskStep \/ Resuming \/ Firing \/ Applying \/ Noticing
  \/ Failing \/ Connecting \/ Losing \/ Tick
Next == PutInit \/ RunNext

RunSpec == Init /\ [][RunNext]_vars
Spec == Init /\ [][Next]_vars
-----------------------------------------------------------------------------
(* Properties. *)

\* Every link the calculator may route over has a registered port at both
\* ends: __find_port finds one for each hop of a route computed now
\* (add_link, port_status_handler, init).
LinkHasPorts ==
  \A l \in links : \A s, t \in l.ends : s # t => PortsTo(s, t) # {}

\* The addresses of both hosts of every registered pair are known: neither
\* __set_route_by_path nor the property host_pairs meets a pair without.
PairsHaveIp ==
  \A i \in DOMAIN hostPairs : {hostPairs[i].client, hostPairs[i].server} \subseteq hostIp

\* At every switch the flows of a later routing overrule those of an earlier
\* one, whichever of them waits for a queue and whatever update failed before:
\* of two flows for one host the one of the later routing has the greater
\* priority, or the same and comes later, so that it overwrites the other.  This
\* needs routings that do not overlap (MaxChains = 1), since the priority is read
\* again for each flow and counted when all are sent (__route_priority, send_msg).
Sent(s, h) ==  \* with their places: in the table, in the queue, in hand
  LET applied == {<<0, table[s][h]>>}
      queued  == {<<i, sendq[s][i]>> : i \in {j \in DOMAIN sendq[s] : sendq[s][j].dst = h}}
      inHand  == {<<Len(sendq[s]) + i, waiting[i].flow>> :
                    i \in {j \in DOMAIN waiting : /\ waiting[j].flow.dst = h
                                                  /\ waiting[j].dp.sw = s
                                                  /\ IsOpen(waiting[j].dp)}}
  IN  {x \in applied \union queued \union inHand : x[2].prio >= InitialRoutePriority}
Overrules(y, x) == \/ x[2].prio < y[2].prio
                   \/ x[2].prio = y[2].prio /\ x[1] < y[1]
NewestWins ==
  \A s \in Switches, h \in Hosts :
    \A x, y \in Sent(s, h) : x[2].nr < y[2].nr => Overrules(y, x)

\* The prediction is never about an interval that has not begun: update number
\* n is computed n intervals after the start, or later ("update path every
\* self.__update_interval_sec", disaster_resistant_network_controller.py:126).
ElapsedNotAhead == isUpdating => updateTimes * UpdateInterval <= age + UpdateInterval

\* While updates are off, nothing that an earlier run left behind shows in the
\* counters: the next run starts with update 0 and the initial priority (init).
RestartsFromZero ==
  ~isUpdating => updateTimes = 0 /\ routePriority = InitialRoutePriority

\* A link the controller knows exists, or the deletion of one of its ports is
\* still to be handled: routes over a dead link are computed for as long as
\* the notices are on their way, and no longer (port_status_handler).
NoGhostLink ==
  \A l \in links : \A s, t \in l.ends :
    s # t => <<s, t>> \in up \/ Port[<<s, t>>] \in ToSet(notices[s])

\* Once paths have been updated, they are updated again, until PUT /init:
\* there is a timer, or an update on its way to start one ("update path every
\* self.__update_interval_sec", disaster_resistant_network_controller.py:126).
UpdatesGoOn ==
  isUpdating /\ updateTimes > 0 => running.kind = "update" \/ Chains > 0

\* Packets: s sends those for h out of a port that exists at both ends.
Works(s, x) == x \in Hosts \/ {<<s, x>>, <<x, s>>} \subseteq up
NextHops(s, h) ==
  {e[2] : e \in {f \in DOMAIN Port : /\ f[1] = s /\ Port[f] = table[s][h].out
                                     /\ Works(f[1], f[2])}}
Delivers(src, dst) ==
  LET At[n \in 0..Cardinality(Switches) + 1] ==
        IF n = 0 THEN {Neighbor[src]}
        ELSE LET here == At[n - 1] IN UNION {NextHops(s, dst) : s \in here \cap Switches}
  IN  \E n \in DOMAIN At : dst \in At[n]

\* What still works connects the switches of both hosts.
Reachable(src, dst) ==
  Connected(Neighbor[src], Neighbor[dst], {w \in Wires : \A s, t \in w : s # t => <<s, t>> \in up})

AllDelivered ==
  \A i \in DOMAIN hostPairs :
    LET p == hostPairs[i]
    IN  Reachable(p.client, p.server)
          => Delivers(p.client, p.server) /\ Delivers(p.server, p.client)

\* The network heals: whatever links fail, in whatever order their ports are
\* deleted and noticed, in the end packets of every pair that is still
\* connected get to the server and back (the purpose of the controller).
Heals == <>[]AllDelivered
=============================================================================
