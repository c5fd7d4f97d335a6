--------------------------- MODULE LearningSwitch ---------------------------
(***************************************************************************)
(* class LearningL2SwitchController, and the same handler of packets in    *)
(* DisasterResistantNetworkController, with the switches they serve.  The  *)
(* routes of the latter have a higher priority and are left out, and so    *)
(* are IPv6 packets, which the handler ignores, and buffers: packets come  *)
(* to the controller whole (OFPCML_NO_BUFFER).                             *)
(*                                                                         *)
(* A port of a switch is named by what it leads to.  The network has no    *)
(* cycle: flooded packets would never leave it.                            *)
(*                                                                         *)
(* An operator named Slip... is no part of the model: it is the definition *)
(* after it with a mistake, which a property of the module has to notice.  *)
(***************************************************************************)
EXTENDS Integers, Sequences, FiniteSets

CONSTANTS
  Switches, Hosts,
  Ports,     \* Ports[s]: what the ports of s lead to
  Toward,    \* Toward[s][h]: the port of s on the way to host h
  Packet,    \* [src, dst, nr] each, dst a host or Everyone
  Everyone,  \* the broadcast address
  None,      \* no port
  QueueCap   \* the send queue of a switch holds this many messages

VARIABLES
  macToPort, \* __dpid_to_mac_to_port
  flows,     \* flows[s][h]: the port of the learned flow for h, of priority 10
  miss,      \* switches with the table-miss flow
  connected, \* switches that have connected
  copies,    \* packets on the way into a switch: which one, where, out of where
  events,    \* packets on the way to the controller
  sending,   \* messages the handler still has to send
  sendq,     \* sendq[s]: messages on the way to s
  sent, owed, arrived  \* what the hosts sent and got: see Wire

ctlVars == <<macToPort, events, sending>>
swVars  == <<flows, miss, connected, sendq>>
hostVars == <<sent, owed, arrived>>
vars    == <<ctlVars, swVars, copies, hostVars>>

\* Ports lead to hosts or to other switches and back.  Toward is the way in a
\* tree: who is not behind a port is not behind it seen from the other side.
ASSUME TreeAssumption ==
  /\ Switches # {} /\ \A s \in Switches : Ports[s] \subseteq Switches \union Hosts
  /\ \A s \in Switches, h \in Hosts : Toward[s][h] \in Ports[s]
  /\ \A s \in Switches, h \in Hosts : h \in Ports[s] =>
       \A k \in Hosts : Toward[s][k] = h <=> k = h
  /\ \A s, t \in Switches, h \in Hosts :
       t \in Ports[s] /\ Toward[s][h] # t => Toward[t][h] = s
  /\ \A h \in Hosts : \E s \in Switches : h \in Ports[s]
  /\ Switches \cap Hosts = {} /\ None \notin Switches \union Hosts
ASSUME PacketAssumption ==
  /\ \A p \in Packet : p.src \in Hosts /\ p.dst \in Hosts \union {Everyone}
  /\ Everyone \notin Hosts /\ QueueCap \in Nat \ {0}

\* For whom a packet is; the network is ready.
To == [p \in Packet |-> IF p.dst = Everyone THEN Hosts \ {p.src} ELSE {p.dst}]
Ready == miss = Switches
AtSwitch(h) == CHOOSE s \in Switches : h \in Ports[s]

-----------------------------------------------------------------------------
(* Switches. *)

\* Slip: a packet is also sent back.
SlipOut(s, from, port) == IF port = None THEN Ports[s] ELSE {port} \ {from}

\* Where a packet leaves: by one port or, with None, by all (OFPP_FLOOD), but
\* never where it came in.
Out(s, from, port) == (IF port = None THEN Ports[s] ELSE {port}) \ {from}

\* The packet leaves switch s; hosts take what is for them.
Emit(p, s, out, rest) ==
  /\ copies' = rest \union {[pkt |-> p, at |-> t, from |-> s] : t \in out \cap Switches}
  /\ arrived' = [arrived EXCEPT ![p] = [h \in To[p] |-> IF h \in out THEN @[h] + 1 ELSE @[h]]]

\* A packet comes into a switch: the learned flow for its destination, else
\* the table-miss flow, decides.
Forward(c) ==
  LET port == IF c.pkt.dst = Everyone THEN None ELSE flows[c.at][c.pkt.dst]
  IN  /\ IF port # None
         THEN Emit(c.pkt, c.at, Out(c.at, c.from, port), copies \ {c}) /\ UNCHANGED events
         ELSE /\ copies' = copies \ {c}
              /\ events' = IF c.at \in miss THEN Append(events, c) ELSE events
              /\ UNCHANGED arrived
      /\ UNCHANGED <<macToPort, sending, swVars, sent, owed>>

\* A switch takes a message: a flow, or a packet to send out.
Take(s) ==
  /\ sendq[s] # <<>>
  /\ LET m == Head(sendq[s])
     IN  \/ /\ m.type = "miss" /\ miss' = miss \union {s}
            /\ UNCHANGED <<flows, copies, arrived>>
         \/ /\ m.type = "flow" /\ flows' = [flows EXCEPT ![s][m.dst] = m.port]
            /\ UNCHANGED <<miss, copies, arrived>>
         \/ /\ m.type = "packet" /\ Emit(m.pkt, s, Out(s, m.from, m.port), copies)
            /\ UNCHANGED <<miss, flows>>
  /\ sendq' = [sendq EXCEPT ![s] = Tail(@)]
  /\ UNCHANGED <<ctlVars, connected, sent, owed>>

-----------------------------------------------------------------------------
(* The controller. *)

Init ==
  /\ macToPort = [s \in Switches |-> [h \in Hosts |-> None]]
  /\ flows = [s \in Switches |-> [h \in Hosts |-> None]]
  /\ miss = {} /\ connected = {}
  /\ copies = {} /\ events = <<>> /\ sending = <<>>
  /\ sendq = [s \in Switches |-> <<>>]
  /\ sent = {} /\ owed = {} /\ arrived = [p \in Packet |-> [h \in To[p] |-> 0]]

\* switch_features_handler.  The queue is new: this message does not wait.
SwitchFeatures(s) ==
  /\ s \notin connected /\ sending = <<>>
  /\ connected' = connected \union {s}
  /\ sendq' = [sendq EXCEPT ![s] = <<[type |-> "miss"]>>]
  /\ UNCHANGED <<ctlVars, flows, miss, copies, hostVars>>

FlowMod(c, port)   == [type |-> "flow", at |-> c.at, dst |-> c.pkt.dst, port |-> port]
PacketOut(c, port) == [type |-> "packet", at |-> c.at, pkt |-> c.pkt, from |-> c.from, port |-> port]

\* Slip: with a flow, the packet itself is not sent.
SlipAnswer(c, port) == IF port = None THEN <<PacketOut(c, None)>> ELSE <<FlowMod(c, port)>>

\* What the handler sends: the packet, after a flow if the port is known.
Answer(c, port) ==
  IF port = None THEN <<PacketOut(c, None)>> ELSE <<FlowMod(c, port), PacketOut(c, port)>>

\* packet_in_handler and __handle_eth: the source is learned, then the port of
\* the destination looked up.
Handle ==
  /\ events # <<>> /\ sending = <<>>
  /\ LET c == Head(events)
     IN  /\ macToPort' = [macToPort EXCEPT ![c.at][c.pkt.src] = c.from]
         /\ sending' = Answer(c, IF c.pkt.dst = Everyone THEN None ELSE macToPort'[c.at][c.pkt.dst])
  /\ events' = Tail(events)
  /\ UNCHANGED <<swVars, copies, hostVars>>

\* send_msg; the event loop waits while the queue of the switch is full.
SendMsg ==
  /\ sending # <<>>
  /\ LET m == Head(sending)
     IN  /\ Len(sendq[m.at]) < QueueCap
         /\ sendq' = [sendq EXCEPT ![m.at] = Append(@, m)]
  /\ sending' = Tail(sending)
  /\ UNCHANGED <<macToPort, events, flows, miss, connected, copies, hostVars>>

\* PUT /init: the learned flows stay in the switches.
PutInit ==
  /\ macToPort' = [s \in Switches |-> [h \in Hosts |-> None]]
  /\ UNCHANGED <<events, sending, swVars, copies, hostVars>>

-----------------------------------------------------------------------------

HostSends(p) ==
  /\ p \notin sent
  /\ sent' = sent \union {p}
  /\ owed' = IF Ready THEN owed \union ({p} \X To[p]) ELSE owed
  /\ copies' = copies \union {[pkt |-> p, at |-> AtSwitch(p.src), from |-> p.src]}
  /\ UNCHANGED <<ctlVars, swVars, arrived>>

Forwarding == \E c \in copies : Forward(c)
Next ==
  \/ \E p \in Packet : HostSends(p)
  \/ Forwarding \/ Handle \/ SendMsg \/ PutInit
  \/ \E s \in Switches : SwitchFeatures(s) \/ Take(s)

\* Switches work, the event loop goes on.
Fairness ==
  /\ WF_vars(Forwarding) /\ WF_vars(Handle) /\ WF_vars(SendMsg)
  /\ \A s \in Switches : WF_vars(Take(s))
Spec == Init /\ [][Next]_vars /\ Fairness

-----------------------------------------------------------------------------
(* Properties. *)

\* Whatever packets cross and whenever the table is cleared, no entry of the
\* MAC table, no flow and no flow on its way sends packets for a host away
\* from it (__handle_eth).
Right(s, h, port) == port \in {None, Toward[s][h]}
NothingLeadsAstray ==
  \A s \in Switches, h \in Hosts :
    /\ Right(s, h, macToPort[s][h]) /\ Right(s, h, flows[s][h])
    /\ \A i \in DOMAIN sendq[s] :
         sendq[s][i].type = "flow" /\ sendq[s][i].dst = h => sendq[s][i].port = Toward[s][h]

\* Wire, with the network ready when every switch has its table-miss flow.
IsAWire == INSTANCE Wire WITH ready <- Ready

\* No packet comes to a host twice, or to one it is not for: none is flooded by
\* a switch and sent once more by the controller, or back to where it came from
\* (__handle_eth, OFPP_FLOOD).
ArrivesOnce == IsAWire!Safety

\* From the moment it is ready the network keeps all that Wire promises: each
\* packet arrives, also when the handler waits for a full queue, in which the
\* answers to other switches are held up.
ImplementsWire == IsAWire!Spec
=============================================================================
