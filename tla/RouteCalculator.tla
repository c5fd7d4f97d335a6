-------------------------- MODULE RouteCalculator --------------------------
(***************************************************************************)
(* class RouteCalculator: what the controller knows of the network (its    *)
(* switches, links and host pairs) and the routes it computes from that.   *)
(* The methods are called by the controller one at a time and to their     *)
(* end, so each is one action.                                             *)
(*                                                                         *)
(* switches and hostPairs are lists in the code and sequences here: the    *)
(* routes depend on their order.  links is a list too, but nothing depends *)
(* on its order, as no two links have the same ends; here it is a set.     *)
(*                                                                         *)
(* An operator named Slip... is no part of the model: it is the definition *)
(* after it with a mistake, which a property of the module has to notice.  *)
(***************************************************************************)
EXTENDS Takahira, WidestPath

CONSTANTS
  Switches,        \* the names switches may have
  Hosts,           \* the names hosts may have
  Wires,           \* the ends of the links there may be, {a, b} each
  Pairs,           \* the host pairs there may be, <<client, server>> each
  Bandwidths,      \* bandwidth_mbps
  FailTimes,       \* fail_at_sec of links, once known
  ClientFailTimes, \* fail_at_sec of clients, once known
  DataSizes,       \* datasize_gb, once known
  UpdateInterval,  \* update_interval_sec
  MaxUpdates,      \* bound: updates are numbered from 0 to MaxUpdates
  MaxSwitches,     \* bound: the length of switches
  MaxPairs         \* bound: the length of hostPairs

VARIABLES switches, links, hostPairs

calcVars == <<switches, links, hostPairs>>

ASSUME TopologyAssumption ==
  /\ \A w \in Wires : \E a, b \in Switches : a # b /\ w = {a, b}
  /\ Pairs \subseteq Hosts \X Hosts
  /\ \A h \in Hosts : Neighbor[h] \in Switches

ASSUME TimeAssumption ==
  /\ UpdateInterval \in Nat \ {0} /\ MaxUpdates \in Nat
  /\ FailTimes \subseteq Nat /\ ClientFailTimes \subseteq Nat
  /\ Bandwidths \subseteq Nat \ {0} /\ DataSizes \subseteq Nat

Link == [ends : Wires, bw : Bandwidths, failAt : FailTimes \union {Unknown}]
HostPair == [client : Hosts, server : Hosts,
             failAt : ClientFailTimes \union {Unknown},
             size : DataSizes \union {Unknown}]

CalcTypeOK ==
  /\ switches \in Seq(Switches)
  /\ links \in SUBSET Link
  /\ hostPairs \in Seq(HostPair)

-----------------------------------------------------------------------------
(* The operations. *)

CalcInit == switches = <<>> /\ links = {} /\ hostPairs = <<>>

\* __find_link_by_switches finds something.
Linked(ends) == \E l \in links : l.ends = ends

AddSwitch(s) ==
  /\ switches' = Append(switches, s)
  /\ UNCHANGED <<links, hostPairs>>

\* Slip: the new link replaces the one that was there.
SlipAddLink(ends, bw) ==
  /\ links' = {l \in links : l.ends # ends}
                \union {[ends |-> ends, bw |-> bw, failAt |-> Unknown]}
  /\ UNCHANGED <<switches, hostPairs>>

\* Slip: a link that is not known to fail fails at second 0.
SlipAddLinkFailed(ends, bw) ==
  /\ links' = IF Linked(ends) THEN links
              ELSE links \union {[ends |-> ends, bw |-> bw, failAt |-> 0]}
  /\ UNCHANGED <<switches, hostPairs>>

\* A link whose ends are linked already is ignored, its bandwidth included.
AddLink(ends, bw) ==
  /\ links' = IF Linked(ends) THEN links
              ELSE links \union {[ends |-> ends, bw |-> bw, failAt |-> Unknown]}
  /\ UNCHANGED <<switches, hostPairs>>

\* The link is removed and added again.  Without a link the method raises.
RegisterLinkFailTime(ends, failAt) ==
  /\ Linked(ends)
  /\ links' = {IF l.ends = ends THEN [l EXCEPT !.failAt = failAt] ELSE l : l \in links}
  /\ UNCHANGED <<switches, hostPairs>>

RmLink(ends) ==
  /\ links' = {l \in links : l.ends # ends}
  /\ UNCHANGED <<switches, hostPairs>>

\* list.remove takes the first switch of that name only; all its links go.
RmSwitch(s) ==
  /\ s \in ToSet(switches)
  /\ switches' = RemoveFirst(switches, s)
  /\ links' = {l \in links : s \notin l.ends}
  /\ UNCHANGED hostPairs

AddHostPair(client, server) ==
  /\ hostPairs' = Append(hostPairs, [client |-> client, server |-> server,
                                     failAt |-> Unknown, size |-> Unknown])
  /\ UNCHANGED <<switches, links>>

\* Slip: all pairs with that client are taken out, and one is put back.
SlipUpdateHostClient(client, failAt, size) ==
  /\ client \in {hostPairs[i].client : i \in DOMAIN hostPairs}
  /\ LET first == SelectInSeq(hostPairs, LAMBDA p : p.client = client)
     IN  hostPairs' = Append(SelectSeq(hostPairs, LAMBDA p : p.client # client),
                             [hostPairs[first] EXCEPT !.failAt = failAt, !.size = size])
  /\ UNCHANGED <<switches, links>>

\* The first pair with that client gets the data and moves to the end.
UpdateHostClient(client, failAt, size) ==
  /\ client \in {hostPairs[i].client : i \in DOMAIN hostPairs}
  /\ LET first == SelectInSeq(hostPairs, LAMBDA p : p.client = client)
     IN  hostPairs' = Append(RemoveAt(hostPairs, first),
                             [hostPairs[first] EXCEPT !.failAt = failAt, !.size = size])
  /\ UNCHANGED <<switches, links>>

CalcReset == switches' = <<>> /\ links' = {} /\ hostPairs' = <<>>

CalcNext ==
  \/ \E s \in Switches : Len(switches) < MaxSwitches /\ AddSwitch(s)
  \/ \E w \in Wires, bw \in Bandwidths : AddLink(w, bw)
  \/ \E w \in Wires, t \in FailTimes : RegisterLinkFailTime(w, t)
  \/ \E w \in Wires : RmLink(w)
  \/ \E s \in Switches : RmSwitch(s)
  \/ \E p \in Pairs : Len(hostPairs) < MaxPairs /\ AddHostPair(p[1], p[2])
  \/ \E h \in Hosts, t \in ClientFailTimes, size \in DataSizes :
       UpdateHostClient(h, t, size)
  \/ CalcReset

CalcSpec == CalcInit /\ [][CalcNext]_calcVars

-----------------------------------------------------------------------------
(* calc_shortest_path. *)

\* The calculation raises: a link ends at a switch that has not connected, a
\* client fails at second 0 (division by zero), or a host is at a switch that
\* has not connected.
CalcRaises ==
  \/ \E l \in links : ~(l.ends \subseteq ToSet(switches))
  \/ \E i \in DOMAIN hostPairs :
       \/ hostPairs[i].failAt = 0
       \/ Neighbor[hostPairs[i].client] \notin ToSet(switches)
       \/ Neighbor[hostPairs[i].server] \notin ToSet(switches)

Calc(nth, pairs) == CalcTakahira(switches, links, pairs, nth, UpdateInterval)
Routes(nth) == Calc(nth, hostPairs).routes
-----------------------------------------------------------------------------
(* Properties. *)

\* What was left of each link when the k-th pair was served.
LeftFor(k, nth) == Calc(nth, SubSeq(ByUrgency(hostPairs), 1, k - 1)).left

\* Every host pair whose switches are connected gets a simple path between
\* them, and one that is as wide as what the more urgent pairs left allows; a
\* pair that is cut off gets no links (__calc_takahira, Path.merge).
RouteServes(r, left) ==
  LET a == Neighbor[r.pair.client]
      b == Neighbor[r.pair.server]
  IN  IF Connected(a, b, DOMAIN left)
      THEN /\ IsSimplePath(ToSet(r.path), a, b, DOMAIN left)
           /\ IsWidest(r.path, a, b, left)
      ELSE r.path = <<>>

RoutesServe ==
  ~CalcRaises =>
    \A nth \in 0..MaxUpdates :
      LET routes == Routes(nth)
      IN  \A k \in DOMAIN routes : RouteServes(routes[k], LeftFor(k, nth))

\* A route keeps to the part of the network it starts in: where no known link
\* leaves a set of switches, a pair inside is routed inside, and one with only
\* an end inside gets no links, whatever was overbooked before (Path.merge,
\* __calc_takahira).
NoLinkLeaves(part) == \A l \in links : l.ends \subseteq part \/ l.ends \cap part = {}
KeepsTo(part, r) ==
  Neighbor[r.pair.client] \in part =>
    IF Neighbor[r.pair.server] \in part THEN \A e \in Crossed(r.path) : e \subseteq part
                                       ELSE r.path = <<>>
RoutesKeepToTheirPart ==
  ~CalcRaises =>
    \A nth \in 0..MaxUpdates :
      LET routes == ToSet(Routes(nth))
      IN  \A part \in SUBSET Switches : NoLinkLeaves(part) => \A r \in routes : KeepsTo(part, r)

\* No route takes a link twice, whichever way: no two flows of a route send the
\* packets for a host back and forth over a link (Path.merge).
LinksTakenOnce ==
  ~CalcRaises =>
    \A nth \in 0..MaxUpdates : \A r \in ToSet(Routes(nth)) :
      \A i, j \in DOMAIN r.path :
        {r.path[i][1], r.path[i][2]} = {r.path[j][1], r.path[j][2]} => i = j

\* What the routes take of a link is what is missing of it in the end: nothing
\* if none crosses it, and never more than its bandwidth for each one that
\* does, so that an overbooked link is so by no more than that
\* (expected_bw_gbps in __calc_takahira).
LeftIsAccounted ==
  ~CalcRaises =>
    \A nth \in 0..MaxUpdates :
      LET served   == Calc(nth, hostPairs)
          expected == ExpectedBw(links, nth, UpdateInterval)
          Over(e)  == {k \in DOMAIN served.routes : e \in Crossed(served.routes[k].path)}
      IN  \A l \in links :
            /\ served.left[l.ends] <= expected[l.ends]
            /\ expected[l.ends] - served.left[l.ends]
                 <= Cardinality(Over(l.ends)) * l.bw * UpdateInterval

\* Pairs are served in descending order of the rate their backup needs, equal
\* ones in the order of the list, and each once: what the greedy loop over
\* requested_bandwidths relies on.  at[k] is the place in the list of the pair
\* that is served as the k-th.
NeedsLess(p, q) ==
  IF p.failAt * q.failAt > 0 THEN p.size * q.failAt < q.size * p.failAt
                             ELSE p.size * q.failAt > q.size * p.failAt
ServedInOrder(routes, at) ==
  /\ \A k \in DOMAIN routes : routes[k].pair = hostPairs[at[k]]
  /\ \A i, j \in DOMAIN routes : i < j =>
       /\ ~NeedsLess(routes[i].pair, routes[j].pair)
       /\ ~NeedsLess(routes[j].pair, routes[i].pair) => at[i] < at[j]

MostUrgentFirst ==
  ~CalcRaises =>
    \A nth \in 0..MaxUpdates :
      LET routes == Routes(nth)
      IN  \E at \in Bijection(DOMAIN routes, DOMAIN hostPairs) : ServedInOrder(routes, at)

\* The seconds for which a link with a known failure is expected to work in an
\* interval are those of the interval that come before the failure: the
\* predictions of consecutive intervals neither overlap nor leave a gap.
Earlier(a, b) == IF a <= b THEN a ELSE b
PredictionIsExact ==
  \A l \in links, nth \in 0..MaxUpdates :
    l.failAt # Unknown =>
      OperatingSec(l.failAt, nth * UpdateInterval, UpdateInterval)
        = Earlier(l.failAt, (nth + 1) * UpdateInterval)
            - Earlier(l.failAt, nth * UpdateInterval)

\* A registered host pair is lost by a reset only, whatever is registered
\* about its client and however often the pair was registered.
Registrations(pairs, p) ==
  Cardinality({i \in DOMAIN pairs : <<pairs[i].client, pairs[i].server>> = p})
PairsSurvive ==
  [][CalcReset \/ \A p \in Pairs :
       Registrations(hostPairs', p) >= Registrations(hostPairs, p)]_calcVars

\* A link keeps its bandwidth for as long as it is registered, and a failure
\* time once known is not forgotten, whatever else is registered or removed.
LinksKeepWhatIsKnown ==
  [][\A l \in links, m \in links' :
       l.ends = m.ends => m.bw = l.bw /\ (l.failAt # Unknown => m.failAt # Unknown)]_calcVars

\* Between connected switches there is a route ("Calculate the path from src
\* to dst", route_calculator.py:160).
ConnectedPairsGetRoutes ==
  ~CalcRaises =>
    \A r \in ToSet(Routes(0)) :
      LET a == Neighbor[r.pair.client]
          b == Neighbor[r.pair.server]
      IN  a # b /\ Connected(a, b, {l.ends : l \in links}) => r.path # <<>>
=============================================================================
