------------------------------ MODULE Topology ------------------------------
(***************************************************************************)
(* class DisasterResistantNetworkTopo: the network of the experiments.     *)
(*                                                                         *)
(* build() adds links to Mininet and notes, for the controller, the port   *)
(* at each end.  Mininet is not asked for it: Mininet numbers the ports of *)
(* a switch in the order of its links, and build() keeps counts of its own *)
(* that have to agree.  A switch is the pair of its row and its column.    *)
(*                                                                         *)
(* An operator named Slip... is no part of the model: it is the definition *)
(* after it with a mistake, which a property of the module has to notice.  *)
(***************************************************************************)
EXTENDS Integers, Sequences

CONSTANTS
  Sizes,                        \* the sizes considered
  h1c, h1s, h2c, h2s, h3c, h3s  \* the hosts

VARIABLES
  size,
  at, side,  \* the loop over the switches: which one, and its link to where
  pairsLeft, \* host pairs still to be added
  counts,    \* __switch_port_counts
  links,     \* __links
  hosts,     \* __host_pairs: each host with its neighbor and the port there
  ports      \* of Mininet: ports[s][p] is what port p of s leads to

loopVars == <<size, at, side, pairsLeft>>
topoVars == <<loopVars, counts, links, hosts, ports>>

\* "assume size >= 3"
ASSUME SizeAssumption == Sizes \subseteq {n \in Nat : n >= 3}

Index == 0..size - 1
Grid  == Index \X Index
HostNames == {h1c, h1s, h2c, h2s, h3c, h3s}

-----------------------------------------------------------------------------
(* build. *)

Placed(host, s) == [host |-> host, sw |-> s]
HostPairs(n) ==
  <<[client |-> Placed(h1c, <<0, n - 1>>),      server |-> Placed(h1s, <<1, 0>>)],
    [client |-> Placed(h2c, <<n \div 2, n - 1>>), server |-> Placed(h2s, <<n - 1, 0>>)],
    [client |-> Placed(h3c, <<n - 1, n - 1>>),  server |-> Placed(h3s, <<0, 0>>)]>>

Init ==
  /\ size \in Sizes
  /\ at = <<0, 0>> /\ side = "right" /\ pairsLeft = HostPairs(size)
  /\ counts = [s \in Grid |-> 0] /\ links = {} /\ hosts = {}
  /\ ports = [s \in Grid |-> <<>>]

Count(a, b) == counts' = [counts EXCEPT ![a] = @ + 1, ![b] = @ + 1]

\* Mininet's Topo.addLink, the ends being x at switch a and y at switch b.
Connect(a, x, b, y) ==
  ports' = [ports EXCEPT ![a] = Append(@, x), ![b] = Append(@, y)]

\* Slip: the second count is taken too early.
SlipAddLink(a, b) ==
  /\ Count(a, b)
  /\ Connect(a, b, b, a)
  /\ links' = links \union {[sw1 |-> a, port1 |-> counts'[a], sw2 |-> b, port2 |-> counts[b]]}
  /\ UNCHANGED hosts

\* The counts are increased, and are the ports that the link is noted with.
AddLink(a, b) ==
  /\ Count(a, b)
  /\ Connect(a, b, b, a)
  /\ links' = links \union {[sw1 |-> a, port1 |-> counts'[a], sw2 |-> b, port2 |-> counts'[b]]}
  /\ UNCHANGED hosts
NoLink == UNCHANGED <<counts, links, hosts, ports>>

\* Slip: links to the bottom come before those to the right.
SlipNeighborOf(i, j) == IF side = "right" THEN <<i + 1, j>> ELSE <<i, j + 1>>

NeighborOf(i, j) == IF side = "right" THEN <<i, j + 1>> ELSE <<i + 1, j>>

\* One turn of the loops: to the right, then to the bottom.
LinkStep ==
  /\ at[1] < size
  /\ LET next == NeighborOf(at[1], at[2])
     IN  IF next \in Grid THEN AddLink(at, next) ELSE NoLink
  /\ side' = IF side = "right" THEN "bottom" ELSE "right"
  /\ at' = IF side = "right" THEN at
           ELSE IF at[2] < size - 1 THEN <<at[1], at[2] + 1>> ELSE <<at[1] + 1, 0>>
  /\ UNCHANGED <<size, pairsLeft>>

\* Both counts are increased before the pair is noted.
HostStep ==
  /\ at[1] = size /\ pairsLeft # <<>>
  /\ LET c == Head(pairsLeft).client
         v == Head(pairsLeft).server
     IN  /\ Count(c.sw, v.sw)
         /\ Connect(c.sw, c.host, v.sw, v.host)
         /\ hosts' = hosts \union {[host |-> x.host, sw |-> x.sw, port |-> counts'[x.sw]] : x \in {c, v}}
  /\ pairsLeft' = Tail(pairsLeft)
  /\ UNCHANGED <<size, at, side, links>>

Next == LinkStep \/ HostStep
Spec == Init /\ [][Next]_topoVars

Built == at[1] = size /\ pairsLeft = <<>>

-----------------------------------------------------------------------------
(* Properties. *)

\* What the driver will tell the controller is what Mininet has built, link by
\* link and port by port, hosts included (__switch_port_counts, __add_link,
\* __add_host_pair): <<switch, port, what is there>>.
Noted ==
  {<<l.sw1, l.port1, l.sw2>> : l \in links} \union {<<l.sw2, l.port2, l.sw1>> : l \in links}
    \union {<<h.sw, h.port, h.host>> : h \in hosts}
InMininet == UNION {{<<s, p, ports[s][p]>> : p \in DOMAIN ports[s]} : s \in Grid}
NotesWhatIsBuilt == Noted = InMininet

\* Experiment.run: the link failures, by the numbers of the switches.
LinkFailures ==
  {<<4, 2, 5, 1>>, <<8, 3, 9, 2>>, <<9, 4, 14, 1>>, <<10, 3, 15, 1>>, <<13, 3, 14, 2>>,
   <<13, 4, 18, 1>>, <<15, 3, 20, 1>>, <<19, 3, 20, 2>>, <<20, 3, 25, 1>>, <<23, 3, 24, 2>>}
Dpid(s) == size * s[1] + s[2] + 1

\* In the topology the experiments are written for, of size 5, each failure
\* deletes the two ports of one link, the one that is registered as failing:
\* experiment.py knows port numbers that the loops of build() determine.
FailuresCutLinks ==
  Built /\ size = 5 =>
    LinkFailures \subseteq {<<Dpid(l.sw1), l.port1, Dpid(l.sw2), l.port2>> : l \in links}
=============================================================================
