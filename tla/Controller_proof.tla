-------------------------- MODULE Controller_proof --------------------------
(***************************************************************************)
(* Proofs about Controller, for every network: every link has its ports,   *)
(* the hosts of every pair their addresses, the state its types (TypeOK),  *)
(* NewestWins, and what NoGhostLink and UpdatesGoOn depend on: that the    *)
(* controller is told of deleted ports, and that nothing an update needs   *)
(* is forgotten while it waits.                                            *)
(*                                                                         *)
(* Few actions touch links and portTo: PutInit, PostLink, PutLink and      *)
(* PortStatus.  All others leave both unchanged, whatever task they run.   *)
(***************************************************************************)
EXTENDS Controller, RouteCalculator_proof

controlVars == <<links, portTo>>

\* A step either is one of the four or leaves links and ports alone.
LEMMA StepsThatTouchLinks ==
  [Next]_vars =>
    \/ PutInit
    \/ \E w \in Wires, bw \in Bandwidths : PostLink(w, bw)
    \/ \E w \in Wires, t \in FailTimes : PutLink(w, t)
    \/ \E s \in Switches : PortStatus(s)
    \/ UNCHANGED controlVars
<1> SUFFICES ASSUME [Next]_vars
             PROVE  \/ PutInit
                    \/ \E w \in Wires, bw \in Bandwidths : PostLink(w, bw)
                    \/ \E w \in Wires, t \in FailTimes : PutLink(w, t)
                    \/ \E s \in Switches : PortStatus(s)
                    \/ UNCHANGED controlVars
  OBVIOUS
<1> USE DEF controlVars, calcVars, ctlVars
<1>1. CASE PutInit
  BY <1>1
<1>2. CASE Registration
  <2>1. CASE \E p \in Pairs : Len(hostPairs) < MaxPairs /\ PostHostPair(p[1], p[2])
    BY <2>1 DEF PostHostPair, AddHostPair
  <2>2. CASE \E h \in Hosts, t \in ClientFailTimes, size \in DataSizes : PutHostClient(h, t, size)
    BY <2>2 DEF PutHostClient, UpdateHostClient
  <2> QED
    BY <1>2, <2>1, <2>2 DEF Registration
<1>3. CASE PostDisaster
  BY <1>3 DEF PostDisaster
<1>4. CASE TaskStep
  BY <1>4 DEF TaskStep, TakeStep, Wait, Raise, FinishUpdate, FinishHosts
<1>5. CASE Resuming \/ Firing
  BY <1>5 DEF Resuming, Resume, Firing, TimerFires
<1>6. CASE Applying \/ Failing
  BY <1>6 DEF Applying, Apply, Failing, DeletePort
<1>7. CASE Noticing
  BY <1>7 DEF Noticing
<1>8. CASE Connecting \/ Losing
  BY <1>8 DEF Connecting, SwitchFeatures, AddSwitch, Losing, LoseSwitch
<1>9. CASE Tick
  BY <1>9 DEF Tick
<1>10. CASE UNCHANGED vars
  BY <1>10 DEF vars
<1> QED
  BY <1>1, <1>2, <1>3, <1>4, <1>5, <1>6, <1>7, <1>8, <1>9, <1>10 DEF Next, RunNext
-----------------------------------------------------------------------------

\* A registered port is the one that is wired to the switch registered.
PortsAreWired ==
  \A e \in portTo : <<e.sw, e.to>> \in DOMAIN Port /\ e.port = Port[<<e.sw, e.to>>]

\* The inductive invariant.  A link loses the ports it has only if PostLink
\* overwrites one of them, and then, as ports are wired to one switch each,
\* with itself; or if PortStatus removes one, and then with the link, as a
\* link has no ends but two.
PortInv ==
  /\ links \in SUBSET Link
  /\ PortsAreWired
  /\ LinkHasPorts

LEMMA PortInvInit == Init => PortInv
  BY DEF Init, CalcInit, PortInv, PortsAreWired, LinkHasPorts

\* A registration sets the two ports of its link and keeps all others.
LEMMA PostLinkKeepsPortInv ==
  ASSUME NEW w \in Wires, NEW bw \in Bandwidths, PortInv, PostLink(w, bw)
  PROVE  PortInv'
<1> USE DEF PortInv
<1>1. /\ links' = IF Linked(w) THEN links
                  ELSE links \union {[ends |-> w, bw |-> bw, failAt |-> Unknown]}
      /\ portTo' = PortEntries(w) \union
                     {e \in portTo : \A n \in PortEntries(w) : <<n.sw, n.port>> # <<e.sw, e.port>>}
  BY DEF PostLink, AddLink
<1>2. \A e \in PortEntries(w) :
        /\ <<e.sw, e.to>> \in DOMAIN Port /\ e.port = Port[<<e.sw, e.to>>]
        /\ e.sw \in w /\ e.to \in w
  BY WiringAssumption DEF PortEntries
<1>3. \A s, t \in w : s # t => \E e \in PortEntries(w) : e.sw = s /\ e.to = t
  <2> SUFFICES ASSUME NEW s \in w, NEW t \in w, s # t
               PROVE  \E e \in PortEntries(w) : e.sw = s /\ e.to = t
    OBVIOUS
  <2>1. <<s, t>> \in {f \in w \X w : f[1] # f[2]}
    OBVIOUS
  <2>2. [sw |-> s, port |-> Port[<<s, t>>], to |-> t] \in PortEntries(w)
    BY <2>1 DEF PortEntries
  <2> QED
    BY <2>2
<1>4. PortsAreWired'
  BY <1>1, <1>2 DEF PortsAreWired
<1>5. links' \in SUBSET Link
  BY <1>1 DEF Link, Linked
<1>6. LinkHasPorts'
  <2> SUFFICES ASSUME NEW l \in links', NEW s \in l.ends, NEW t \in l.ends, s # t
               PROVE  \E e \in portTo' : e.sw = s /\ e.to = t
    BY DEF LinkHasPorts, PortsTo
  <2>1. CASE l.ends = w
    BY <2>1, <1>1, <1>3
  <2>2. CASE l \in links
    <3>1. PICK e \in portTo : e.sw = s /\ e.to = t
      BY <2>2 DEF LinkHasPorts, PortsTo
    <3>2. CASE \E n \in PortEntries(w) : <<n.sw, n.port>> = <<e.sw, e.port>>
      <4>1. PICK n \in PortEntries(w) : n.sw = e.sw /\ n.port = e.port
        BY <3>2
      <4>2. Port[<<n.sw, n.to>>] = Port[<<e.sw, e.to>>]
        BY <4>1, <1>2 DEF PortsAreWired
      <4>3. n.to = e.to
        BY <4>1, <4>2, <1>2, WiringAssumption DEF PortsAreWired
      <4> QED
        BY <4>1, <4>3, <3>1, <1>1
    <3>3. CASE \A n \in PortEntries(w) : <<n.sw, n.port>> # <<e.sw, e.port>>
      BY <3>1, <3>3, <1>1
    <3> QED
      BY <3>2, <3>3
  <2> QED
    BY <2>1, <2>2, <1>1
<1> QED
  BY <1>4, <1>5, <1>6

\* The handler removes the link whose port it removes.
LEMMA PortStatusKeepsPortInv ==
  ASSUME NEW sw \in Switches, PortInv, PortStatus(sw)
  PROVE  PortInv'
<1> USE DEF PortInv
<1> DEFINE gone == {e \in portTo : e.sw = sw /\ e.port = Head(notices[sw])}
<1>1. /\ portTo' = portTo \ gone
      /\ links' = {l \in links : \A e \in gone : l.ends # {sw, e.to}}
  BY DEF PortStatus
<1>2. links' \in SUBSET Link
  BY <1>1
<1>3. PortsAreWired'
  BY <1>1 DEF PortsAreWired
<1>4. LinkHasPorts'
  <2> SUFFICES ASSUME NEW l \in links', NEW s \in l.ends, NEW t \in l.ends, s # t
               PROVE  \E e \in portTo' : e.sw = s /\ e.to = t
    BY DEF LinkHasPorts, PortsTo
  <2>1. l \in links /\ l.ends \in Wires
    BY <1>1 DEF Link
  <2>2. l.ends = {s, t}
    BY <2>1, TopologyAssumption
  <2>3. PICK e \in portTo : e.sw = s /\ e.to = t
    BY <2>1 DEF LinkHasPorts, PortsTo
  <2>4. e \notin gone
    <3> SUFFICES ASSUME e \in gone PROVE FALSE
      OBVIOUS
    <3>1. l.ends # {sw, e.to}
      BY <1>1
    <3> QED
      BY <3>1, <2>2, <2>3
  <2> QED
    BY <2>3, <2>4, <1>1
<1> QED
  BY <1>2, <1>3, <1>4

LEMMA PortInvStep == PortInv /\ [Next]_vars => PortInv'
<1> SUFFICES ASSUME PortInv, [Next]_vars PROVE PortInv'
  OBVIOUS
<1>1. CASE PutInit
  BY <1>1 DEF PutInit, CalcReset, PortInv, PortsAreWired, LinkHasPorts
<1>2. CASE \E w \in Wires, bw \in Bandwidths : PostLink(w, bw)
  BY <1>2, PostLinkKeepsPortInv
<1>3. ASSUME NEW w \in Wires, NEW t \in FailTimes, PutLink(w, t) PROVE PortInv'
  <2>1. /\ links' = {IF l.ends = w THEN [l EXCEPT !.failAt = t] ELSE l : l \in links}
        /\ portTo' = portTo
    BY <1>3 DEF PutLink, RegisterLinkFailTime, ctlVars
  <2>2. \A m \in links' : m \in Link /\ \E l \in links : m.ends = l.ends
    BY <2>1 DEF PortInv, Link
  <2> QED
    BY <2>1, <2>2 DEF PortInv, PortsAreWired, LinkHasPorts, PortsTo
<1>4. CASE \E s \in Switches : PortStatus(s)
  BY <1>4, PortStatusKeepsPortInv
<1>5. CASE UNCHANGED controlVars
  BY <1>5 DEF controlVars, PortInv, PortsAreWired, LinkHasPorts, PortsTo
<1> QED
  BY <1>1, <1>2, <1>3, <1>4, <1>5, StepsThatTouchLinks

THEOREM PortInvariance == Spec => []PortInv
  BY PortInvInit, PortInvStep, PTL DEF Spec

\* Whatever is registered, deleted and initialized, and in whatever order, a
\* link the controller may route over has a port at both ends (add_link,
\* port_status_handler, __find_port).
THEOREM LinkHasPortsTheorem == Spec => []LinkHasPorts
  BY PortInvariance, PTL DEF PortInv
-----------------------------------------------------------------------------

\* Only PutInit, PostHostPair and PutHostClient touch pairs and addresses.
pairVars == <<hostPairs, hostIp>>

LEMMA StepsThatTouchPairs ==
  [Next]_vars =>
    \/ PutInit
    \/ \E p \in Pairs : PostHostPair(p[1], p[2])
    \/ \E h \in Hosts, t \in ClientFailTimes, size \in DataSizes : PutHostClient(h, t, size)
    \/ UNCHANGED pairVars
<1> SUFFICES ASSUME [Next]_vars
             PROVE  \/ PutInit
                    \/ \E p \in Pairs : PostHostPair(p[1], p[2])
                    \/ \E h \in Hosts, t \in ClientFailTimes, size \in DataSizes :
                         PutHostClient(h, t, size)
                    \/ UNCHANGED pairVars
  OBVIOUS
<1> USE DEF pairVars, calcVars, ctlVars
<1>1. CASE PutInit
  BY <1>1
<1>2. CASE Registration
  <2>1. CASE \E w \in Wires, bw \in Bandwidths : PostLink(w, bw)
    BY <2>1 DEF PostLink, AddLink
  <2>2. CASE \E w \in Wires, t \in FailTimes : PutLink(w, t)
    BY <2>2 DEF PutLink, RegisterLinkFailTime
  <2> QED
    BY <1>2, <2>1, <2>2 DEF Registration
<1>3. CASE PostDisaster
  BY <1>3 DEF PostDisaster
<1>4. CASE TaskStep
  BY <1>4 DEF TaskStep, TakeStep, Wait, Raise, FinishUpdate, FinishHosts
<1>5. CASE Resuming \/ Firing
  BY <1>5 DEF Resuming, Resume, Firing, TimerFires
<1>6. CASE Applying \/ Failing
  BY <1>6 DEF Applying, Apply, Failing, DeletePort
<1>7. CASE Noticing
  BY <1>7 DEF Noticing, PortStatus
<1>8. CASE Connecting \/ Losing
  BY <1>8 DEF Connecting, SwitchFeatures, AddSwitch, Losing, LoseSwitch
<1>9. CASE Tick
  BY <1>9 DEF Tick
<1>10. CASE UNCHANGED vars
  BY <1>10 DEF vars
<1> QED
  BY <1>1, <1>2, <1>3, <1>4, <1>5, <1>6, <1>7, <1>8, <1>9, <1>10 DEF Next, RunNext

\* The pairs whose hosts both have a known address.
Addressed == {p \in HostPair : {p.client, p.server} \subseteq hostIp}
IpInv == hostIp \in SUBSET Hosts /\ hostPairs \in Seq(Addressed)

LEMMA PostHostPairKeepsIpInv ==
  ASSUME NEW c \in Hosts, NEW v \in Hosts, IpInv, PostHostPair(c, v)
  PROVE  IpInv'
<1> DEFINE new == [client |-> c, server |-> v, failAt |-> Unknown, size |-> Unknown]
<1>1. hostIp' = hostIp \union {c, v} /\ hostPairs' = Append(hostPairs, new)
  BY DEF PostHostPair, AddHostPair
<1>2. Addressed \subseteq Addressed'
  BY <1>1 DEF Addressed
<1>3. new \in Addressed'
  BY <1>1 DEF Addressed, HostPair
<1>4. hostPairs \in Seq(Addressed')
  BY <1>2, SeqMonotonic DEF IpInv
<1> QED
  BY <1>1, <1>3, <1>4, AppendProperties DEF IpInv

LEMMA PutHostClientKeepsIpInv ==
  ASSUME NEW h \in Hosts, NEW t \in ClientFailTimes, NEW size \in DataSizes,
         IpInv, PutHostClient(h, t, size)
  PROVE  IpInv'
<1>1. hostIp' = hostIp /\ Addressed' = Addressed
  BY DEF PutHostClient, ctlVars, Addressed
<1>2. hostPairs \in Seq(Addressed) /\ UpdateHostClient(h, t, size)
  BY DEF PutHostClient, IpInv
<1>3. \A p \in Addressed : [p EXCEPT !.failAt = t, !.size = size] \in Addressed
  BY DEF Addressed, HostPair
<1>4. hostPairs' \in Seq(Addressed)
  BY <1>2, <1>3, UpdateHostClientKeeps
<1> QED
  BY <1>1, <1>4 DEF IpInv

LEMMA IpInvStep == IpInv /\ [Next]_vars => IpInv'
<1> SUFFICES ASSUME IpInv, [Next]_vars PROVE IpInv'
  OBVIOUS
<1>1. CASE PutInit
  BY <1>1, EmptySeq DEF PutInit, CalcReset, IpInv
<1>2. ASSUME NEW p \in Pairs, PostHostPair(p[1], p[2]) PROVE IpInv'
  <2>1. p[1] \in Hosts /\ p[2] \in Hosts
    BY TopologyAssumption
  <2> QED
    BY <1>2, <2>1, PostHostPairKeepsIpInv
<1>3. CASE \E h \in Hosts, t \in ClientFailTimes, size \in DataSizes : PutHostClient(h, t, size)
  BY <1>3, PutHostClientKeepsIpInv
<1>4. CASE UNCHANGED pairVars
  BY <1>4 DEF pairVars, IpInv, Addressed
<1> QED
  BY <1>1, <1>2, <1>3, <1>4, StepsThatTouchPairs

\* Pairs may be registered, given new data and reset in any order, and while an
\* update waits: neither __set_route_by_path nor host_pairs ever meets a pair
\* whose address is not known (add_host_pair, init).
THEOREM PairsHaveIpTheorem == Spec => []PairsHaveIp
<1>1. Init => IpInv
  BY EmptySeq DEF Init, CalcInit, IpInv
<1>2. IpInv => PairsHaveIp
  BY ElementOfSeq, LenProperties DEF IpInv, PairsHaveIp, Addressed
<1> QED
  BY <1>1, <1>2, IpInvStep, PTL DEF Spec
-----------------------------------------------------------------------------
(* Types of the control state: one lemma per action that changes some.     *)

\* Ports are numbers, between switches and what they are wired to.
LEMMA PortEntriesType == ASSUME NEW w \in Wires PROVE PortEntries(w) \subseteq PortEntry
<1> SUFFICES ASSUME NEW s \in w, NEW t \in w, s # t
             PROVE  [sw |-> s, port |-> Port[<<s, t>>], to |-> t] \in PortEntry
  BY DEF PortEntries
<1>1. s \in Switches /\ t \in Switches
  BY TopologyAssumption
<1>2. Port[<<s, t>>] \in Nat
  BY WiringAssumption
<1> QED
  BY <1>1, <1>2 DEF PortEntry

LEMMA WireEnds == ASSUME NEW s, NEW t, {s, t} \in Wires PROVE s # t /\ Port[<<s, t>>] \in Nat
<1>1. PICK a, b \in Switches : a # b /\ {s, t} = {a, b}
  BY TopologyAssumption
<1>2. s # t
  BY <1>1
<1>3. <<s, t>> \in DOMAIN Port
  BY <1>2, WiringAssumption
<1> QED
  BY <1>2, <1>3, WiringAssumption

LEMMA InitTypes == Init => ControlTypeOK
<1> SUFFICES ASSUME Init PROVE ControlTypeOK
  OBVIOUS
<1> USE DEF ControlTypeOK
<1>1. MaxUpdates \in Nat /\ MaxConns \in Nat
  BY TimeAssumption, BoundAssumption
<1>2. conn \in [Switches -> 0..MaxConns] /\ live \in SUBSET Switches
  BY <1>1 DEF Init
<1>3. notices \in [Switches -> Seq(Nat)]
  BY EmptySeq DEF Init
<1>4. datapaths \in Seq(Datapath) /\ timers \in Seq(0..UpdateInterval)
  BY EmptySeq DEF Init
<1>5. /\ updateTimes \in 0..MaxUpdates
      /\ routePriority \in InitialRoutePriority..MaxRoutePriority
  BY <1>1 DEF Init, InitialRoutePriority, MaxRoutePriority
<1>6. routings \in 0..MaxRoutings
  BY <1>1 DEF Init, MaxRoutings
<1> QED
  BY <1>2, <1>3, <1>4, <1>5, <1>6 DEF Init, CalcInit

LEMMA PutInitTypes == ControlTypeOK /\ PutInit => ControlTypeOK'
<1> SUFFICES ASSUME ControlTypeOK, PutInit PROVE ControlTypeOK'
  OBVIOUS
<1> USE DEF ControlTypeOK
<1>1. /\ updateTimes' \in 0..MaxUpdates /\ routings' \in 0..MaxRoutings
      /\ routePriority' \in InitialRoutePriority..MaxRoutePriority
  BY TimeAssumption DEF PutInit, InitialRoutePriority, MaxRoutePriority, MaxRoutings
<1>2. datapaths' \in Seq(Datapath)
  BY EmptySeq DEF PutInit
<1> QED
  BY <1>1, <1>2 DEF PutInit, CalcReset, netVars

LEMMA RegistrationTypes == ControlTypeOK /\ Registration => ControlTypeOK'
<1> SUFFICES ASSUME ControlTypeOK, Registration PROVE ControlTypeOK'
  OBVIOUS
<1> USE DEF ControlTypeOK
<1>1. ASSUME NEW w \in Wires, NEW bw \in Bandwidths, PostLink(w, bw) PROVE ControlTypeOK'
  <2>1. links' \in SUBSET Link
    BY <1>1 DEF PostLink, AddLink, Link
  <2>2. portTo' \in SUBSET PortEntry
    BY <1>1, PortEntriesType DEF PostLink
  <2> QED
    BY <1>1, <2>1, <2>2 DEF PostLink, taskVars, netVars
<1>2. ASSUME NEW w \in Wires, NEW t \in FailTimes, PutLink(w, t) PROVE ControlTypeOK'
  <2>1. links' \in SUBSET Link
    BY <1>2 DEF PutLink, RegisterLinkFailTime, Link
  <2> QED
    BY <1>2, <2>1 DEF PutLink, ctlVars, taskVars, netVars
<1>3. ASSUME NEW p \in Pairs, PostHostPair(p[1], p[2]) PROVE ControlTypeOK'
  <2>1. hostIp' \in SUBSET Hosts
    BY <1>3, TopologyAssumption DEF PostHostPair
  <2> QED
    BY <1>3, <2>1 DEF PostHostPair, AddHostPair, netVars
<1>4. ASSUME NEW h \in Hosts, NEW t \in ClientFailTimes, NEW size \in DataSizes,
             PutHostClient(h, t, size)
      PROVE  ControlTypeOK'
  BY <1>4 DEF PutHostClient, UpdateHostClient, ctlVars, taskVars, netVars
<1> QED
  BY <1>1, <1>2, <1>3, <1>4 DEF Registration

LEMMA FiringTypes == ControlTypeOK /\ (PostDisaster \/ Firing) => ControlTypeOK'
<1> SUFFICES ASSUME ControlTypeOK, PostDisaster \/ Firing PROVE ControlTypeOK'
  OBVIOUS
<1> USE DEF ControlTypeOK
<1>0. ASSUME NEW updating, UpdatePath(updating) PROVE routings' \in 0..MaxRoutings
  BY <1>0, TimeAssumption DEF UpdatePath, NextRouting, CountUp, MaxRoutings
<1>1. CASE PostDisaster
  BY <1>0, <1>1 DEF PostDisaster, calcVars, netVars
<1>2. ASSUME NEW i \in DOMAIN timers, TimerFires(i) PROVE ControlTypeOK'
  <2>1. i \in 1..Len(timers)
    BY LenProperties
  <2>2. timers' \in Seq(0..UpdateInterval)
    BY <1>2, <2>1, RemoveAtType DEF TimerFires
  <2> QED
    BY <1>0, <1>2, <2>2 DEF TimerFires, calcVars, netVars
<1> QED
  BY <1>1, <1>2 DEF Firing

LEMMA TaskTypes == ControlTypeOK /\ (TaskStep \/ Resuming) => ControlTypeOK'
<1> SUFFICES ASSUME ControlTypeOK, TaskStep \/ Resuming PROVE ControlTypeOK'
  OBVIOUS
<1> USE DEF ControlTypeOK
<1> USE DEF calcVars, ctlVars, netVars
<1>1. CASE FinishUpdate
  <2>1. /\ updateTimes' \in 0..MaxUpdates
        /\ routePriority' \in InitialRoutePriority..MaxRoutePriority
    BY <1>1, TimeAssumption DEF FinishUpdate, CountUp, InitialRoutePriority, MaxRoutePriority
  <2>2. timers' \in Seq(0..UpdateInterval)
    BY <1>1, TimeAssumption, AppendProperties DEF FinishUpdate
  <2> QED
    BY <1>1, <2>1, <2>2 DEF FinishUpdate
<1>2. CASE TakeStep \/ Wait \/ Raise \/ FinishHosts
  BY <1>2 DEF TakeStep, Wait, Raise, FinishHosts
<1>3. CASE Resuming
  BY <1>3 DEF Resuming, Resume
<1> QED
  BY <1>1, <1>2, <1>3 DEF TaskStep

LEMMA NoticingTypes ==
  ASSUME NEW sw \in Switches, ControlTypeOK, PortStatus(sw)
  PROVE  ControlTypeOK'
<1> USE DEF ControlTypeOK
<1>1. notices[sw] \in Seq(Nat) /\ notices[sw] # <<>>
  BY DEF PortStatus
<1>2. Tail(notices[sw]) \in Seq(Nat)
  BY <1>1, HeadTailProperties
<1>3. notices' \in [Switches -> Seq(Nat)]
  BY <1>2 DEF PortStatus
<1>4. links' \in SUBSET Link /\ portTo' \in SUBSET PortEntry
  BY DEF PortStatus
<1> QED
  BY <1>3, <1>4 DEF PortStatus, taskVars

LEMMA FailingTypes == ControlTypeOK /\ (Applying \/ Failing) => ControlTypeOK'
<1> SUFFICES ASSUME ControlTypeOK, Applying \/ Failing PROVE ControlTypeOK'
  OBVIOUS
<1> USE DEF ControlTypeOK
<1> USE DEF calcVars, ctlVars, taskVars
<1>1. CASE Applying
  BY <1>1 DEF Applying, Apply
<1>2. ASSUME NEW e \in LinkPorts, DeletePort(e[1], e[2]) PROVE ControlTypeOK'
  <2>1. e[1] \in Switches /\ e = <<e[1], e[2]>>
    BY DEF LinkPorts
  <2>2. {e[1], e[2]} \in Wires
    BY DEF LinkPorts
  <2>3. Port[<<e[1], e[2]>>] \in Nat
    BY <2>2, WireEnds
  <2>4. Append(notices[e[1]], Port[<<e[1], e[2]>>]) \in Seq(Nat)
    BY <2>1, <2>3, AppendProperties
  <2>5. notices' \in [Switches -> Seq(Nat)]
    BY <1>2, <2>4 DEF DeletePort
  <2> QED
    BY <1>2, <2>5 DEF DeletePort
<1> QED
  BY <1>1, <1>2 DEF Failing

LEMMA ConnectingTypes == ControlTypeOK /\ (Connecting \/ Losing) => ControlTypeOK'
<1> SUFFICES ASSUME ControlTypeOK, Connecting \/ Losing PROVE ControlTypeOK'
  OBVIOUS
<1> USE DEF ControlTypeOK
<1>1. ASSUME NEW s \in Switches, SwitchFeatures(s) PROVE ControlTypeOK'
  <2>1. conn[s] + 1 \in 0..MaxConns
    BY <1>1, BoundAssumption DEF SwitchFeatures
  <2>2. conn' \in [Switches -> 0..MaxConns]
    BY <1>1, <2>1 DEF SwitchFeatures
  <2>3. [sw |-> s, conn |-> conn[s] + 1] \in Datapath
    BY <2>1 DEF Datapath
  <2>4. datapaths' \in Seq(Datapath)
    BY <1>1, <2>3, AppendProperties DEF SwitchFeatures
  <2> QED
    BY <1>1, <2>2, <2>4 DEF SwitchFeatures, AddSwitch, taskVars
<1>2. ASSUME NEW s \in Switches, NEW restarts \in BOOLEAN, LoseSwitch(s, restarts)
      PROVE  ControlTypeOK'
  <2>1. PICK n \in 0..Len(notices[s]) : notices' = [notices EXCEPT ![s] = SubSeq(@, 1, n)]
    BY <1>2 DEF LoseSwitch
  <2>2. notices[s] \in Seq(Nat) /\ n \in Int
    BY <2>1
  <2>3. \A k \in 1..n : notices[s][k] \in Nat
    BY <2>1, <2>2, ElementOfSeq
  <2>4. SubSeq(notices[s], 1, n) \in Seq(Nat)
    BY <2>2, <2>3, SubSeqProperties
  <2>5. notices' \in [Switches -> Seq(Nat)]
    BY <2>1, <2>4
  <2> QED
    BY <1>2, <2>5 DEF LoseSwitch, calcVars, ctlVars, taskVars
<1> QED
  BY <1>1, <1>2 DEF Connecting, Losing

LEMMA TickTypes == ControlTypeOK /\ Tick => ControlTypeOK'
<1> SUFFICES ASSUME ControlTypeOK, Tick PROVE ControlTypeOK'
  OBVIOUS
<1> USE DEF ControlTypeOK
<1>1. timers' \in Seq(0..UpdateInterval)
  <2> DEFINE left == [i \in 1..Len(timers) |-> IF timers[i] = 0 THEN 0 ELSE timers[i] - 1]
  <2>1. Len(timers) \in Nat /\ DOMAIN timers = 1..Len(timers)
    BY LenProperties
  <2>2. \A i \in 1..Len(timers) : timers[i] \in 0..UpdateInterval
    BY ElementOfSeq
  <2>3. left \in [1..Len(timers) -> 0..UpdateInterval]
    BY <2>2, TimeAssumption
  <2>4. left \in Seq(0..UpdateInterval)
    BY <2>1, <2>3, SeqDef
  <2> QED
    BY <2>1, <2>4 DEF Tick
<1>2. age' \in Nat
  BY TimeAssumption DEF Tick, CountUp
<1> QED
  BY <1>1, <1>2 DEF Tick, calcVars, taskVars, netVars

LEMMA ControlTypesStep == ControlTypeOK /\ [Next]_vars => ControlTypeOK'
<1> SUFFICES ASSUME ControlTypeOK, [Next]_vars PROVE ControlTypeOK'
  OBVIOUS
<1>1. CASE Noticing
  BY <1>1, NoticingTypes DEF Noticing
<1>2. CASE UNCHANGED vars
  BY <1>2 DEF ControlTypeOK, vars, calcVars, ctlVars, taskVars, netVars
<1> QED
  BY <1>1, <1>2, PutInitTypes, RegistrationTypes, FiringTypes, TaskTypes, FailingTypes,
     ConnectingTypes, TickTypes DEF Next, RunNext

\* What the controller keeps has its types, whatever requests, messages, timers
\* and losses of switches come, and however tasks are interrupted: timers are
\* never longer than an interval, and ports are numbers of known switches.
THEOREM ControlTypes == Spec => []ControlTypeOK
  BY InitTypes, ControlTypesStep, PTL DEF Spec

-----------------------------------------------------------------------------
(* Types of the rest: TypeOK.  The types of Step do not suffice: that a    *)
(* flow has a port needs that a host is sent to from its own switch only,  *)
(* and what a task is to send that its datapath has connected and its      *)
(* ports are known.                                                        *)

\* The recursive function of FlattenSeq, which joins a sequence of sequences.
Flattens(g, q) ==
  g = [i \in 1..Len(q) |-> IF i = 1 THEN q[i] ELSE g[i - 1] \o q[i]]

\* FlattenSeq is the end of such a function, when there is one.
LEMMA FlattenIsFold ==
  ASSUME NEW q, \E g : Flattens(g, q)
  PROVE  \E g : Flattens(g, q) /\ FlattenSeq(q) = IF Len(q) = 0 THEN q ELSE g[Len(q)]
  BY Zenon DEF Flattens, FlattenSeq

\* Joined sequences over S are a sequence over S.
LEMMA FlattenType ==
  ASSUME NEW S, NEW q \in Seq(Seq(S))
  PROVE  FlattenSeq(q) \in Seq(S)
<1> DEFINE n == Len(q)
           V == Seq(S)
           F == [p \in V |-> [i \in 1..n |-> p \o q[i]]]
<1>1. n \in Nat /\ \A i \in 1..n : q[i] \in V
  BY LenProperties, ElementOfSeq
<1>2. <<>> \in V /\ \A p, r \in V : p \o r \in V /\ <<>> \o p = p
  BY EmptySeq, ConcatProperties, ConcatEmptySeq
<1> HIDE DEF n, V
<1>3. F \in [V -> [1..n -> V]] /\ \A p \in V, i \in 1..n : F[p][i] = p \o q[i]
  BY <1>1, <1>2
<1> HIDE DEF F
<1>4. PICK g : Folds(g, n, V, <<>>, F)
  BY <1>1, <1>2, <1>3, FoldValues
<1>5. Follows(g, n, V, <<>>, F)
  BY <1>4 DEF Folds, Follows
<1>6. PICK tr : IsRun(tr, n, V, <<>>, F)
  BY <1>1, <1>2, <1>3, <1>5, RunOfFold DEF RunsTo
<1> DEFINE f == [i \in 1..n |-> tr[i]]
<1>7. \A i \in 1..n : tr[i] = IF i = 1 THEN q[i] ELSE f[i - 1] \o q[i]
  <2> SUFFICES ASSUME NEW i \in 1..n PROVE tr[i] = IF i = 1 THEN q[i] ELSE f[i - 1] \o q[i]
    OBVIOUS
  <2>1. i - 1 \in 0..n /\ (i # 1 => i - 1 \in 1..n)
    BY <1>1
  <2>2. tr[i] = F[tr[i - 1]][i] /\ tr[i - 1] \in V /\ tr[0] = <<>>
    BY <1>6, <2>1 DEF IsRun
  <2>3. tr[i] = tr[i - 1] \o q[i]
    BY <1>3, <2>2
  <2>4. CASE i = 1
    <3>1. tr[i - 1] = <<>> /\ q[i] \in V
      BY <1>1, <2>2, <2>4
    <3>2. tr[i] = q[i]
      BY <1>2, <2>3, <3>1
    <3> QED
      BY <2>4, <3>2
  <2>5. CASE i # 1
    BY <2>1, <2>3, <2>5
  <2> QED
    BY <2>4, <2>5
<1>8. Flattens(f, q)
  BY <1>7 DEF Flattens, n
<1> HIDE DEF f
<1>9. PICK h : Flattens(h, q) /\ FlattenSeq(q) = IF Len(q) = 0 THEN q ELSE h[Len(q)]
  BY <1>8, FlattenIsFold
<1>10. CASE n = 0
  <2>1. q = <<>>
    BY <1>10, EmptySeq DEF n
  <2> QED
    BY <1>2, <1>9, <1>10, <2>1 DEF n, V
<1>11. CASE n # 0
  <2> DEFINE P == {k \in 0..n : k # 0 => h[k] \in V}
  <2>1. 0 \in P
    BY <1>1
  <2>2. ASSUME NEW k \in 1..n, k - 1 \in P PROVE k \in P
    <3>1. h[k] = IF k = 1 THEN q[k] ELSE h[k - 1] \o q[k]
      BY <1>9 DEF Flattens, n
    <3>2. CASE k = 1
      BY <1>1, <3>1, <3>2
    <3>3. CASE k # 1
      <4>1. h[k - 1] \in V
        BY <2>2, <3>3
      <4>2. h[k] \in V
        BY <1>1, <1>2, <3>1, <3>3, <4>1
      <4> QED
        BY <4>2
    <3> QED
      BY <3>2, <3>3
  <2> HIDE DEF P
  <2>3. \A k \in 0..n : k \in P
    BY <1>1, <2>1, <2>2, UpTo
  <2>4. h[n] \in V
    BY <1>1, <1>11, <2>3 DEF P
  <2> QED
    BY <1>9, <1>11, <2>4 DEF n, V
<1> QED
  BY <1>10, <1>11

\* The steps of routes for pairs of P over links of W; those of add_host_pair.
RouteStep(P, W) ==
  {ResolveStep(p.client, p.server) : p \in P}
    \union {SendStep(e[1], e[2], h) : e \in W, h \in Hosts}
HostStep == {SendStep(Neighbor[h], h, h) : h \in Hosts}

\* A route is set up by steps there and back over its links.
LEMMA RouteStepsType ==
  ASSUME NEW P \in SUBSET HostPair, NEW W, \A e \in W : <<e[2], e[1]>> \in W /\ e = <<e[1], e[2]>>,
         NEW r \in RoutesOf(P, W)
  PROVE  RouteSteps(r) \in Seq(RouteStep(P, W))
<1> DEFINE S == RouteStep(P, W)
           There(i) == SendStep(r.path[i][1], r.path[i][2], r.pair.server)
           Back(i)  == SendStep(r.path[i][2], r.path[i][1], r.pair.client)
           q == [i \in DOMAIN r.path |-> <<There(i), Back(i)>>]
<1>1. r.pair \in P /\ r.path \in Seq(W) /\ r.pair.client \in Hosts /\ r.pair.server \in Hosts
  BY DEF RoutesOf, HostPair
<1>2. Len(r.path) \in Nat /\ DOMAIN r.path = 1..Len(r.path) /\ \A i \in 1..Len(r.path) : r.path[i] \in W
  BY <1>1, SeqFacts
<1>3. ASSUME NEW i \in DOMAIN r.path PROVE There(i) \in S /\ Back(i) \in S
  <2>1. r.path[i] \in W /\ <<r.path[i][2], r.path[i][1]>> \in W
    BY <1>2
  <2>2. \A e \in W, h \in Hosts : SendStep(e[1], e[2], h) \in S
    BY DEF RouteStep
  <2> QED
    BY <1>1, <2>1, <2>2
<1>4. ResolveStep(r.pair.client, r.pair.server) \in S
  BY <1>1 DEF RouteStep
<1> HIDE DEF S, There, Back
<1>5. \A x, y \in S : <<x, y>> \in Seq(S) /\ <<x>> \in Seq(S)
  OBVIOUS
<1>6. q \in Seq(Seq(S))
  BY <1>2, <1>3, <1>5
<1> HIDE DEF q
<1>7. FlattenSeq(q) \in Seq(S)
  BY <1>6, FlattenType
<1>8. <<ResolveStep(r.pair.client, r.pair.server)>> \o FlattenSeq(q) \in Seq(S)
  BY <1>4, <1>5, <1>7, ConcatProperties
<1> QED
  BY <1>8 DEF RouteSteps, q, There, Back, S

\* So is a list of routes.
LEMMA UpdateTaskType ==
  ASSUME NEW P \in SUBSET HostPair, NEW W, \A e \in W : <<e[2], e[1]>> \in W /\ e = <<e[1], e[2]>>,
         NEW routes \in Seq(RoutesOf(P, W))
  PROVE  UpdateTask(routes) \in [kind : {"update"}, nr : {NextRouting}, todo : Seq(RouteStep(P, W))]
<1> DEFINE S == RouteStep(P, W)
           q == [k \in DOMAIN routes |-> RouteSteps(routes[k])]
<1>1. /\ Len(routes) \in Nat /\ DOMAIN routes = 1..Len(routes)
      /\ \A k \in 1..Len(routes) : routes[k] \in RoutesOf(P, W)
  BY SeqFacts
<1>2. \A k \in 1..Len(routes) : RouteSteps(routes[k]) \in Seq(S)
  BY <1>1, RouteStepsType
<1> HIDE DEF S
<1>3. q \in Seq(Seq(S))
  BY <1>1, <1>2
<1> HIDE DEF q
<1>4. FlattenSeq(q) \in Seq(S)
  BY <1>3, FlattenType
<1> QED
  BY <1>4 DEF UpdateTask, q, S

\* What an update that begins now has to do.
LEMMA UpdateFor ==
  ASSUME CalcTypeOK, ~CalcRaises, NEW nth \in Nat
  PROVE  UpdateTask(Routes(nth))
           \in [kind : {"update"}, nr : {NextRouting},
                todo : Seq(RouteStep(ToSet(hostPairs), Ways(ToSet(switches), Known(links))))]
<1> DEFINE served == ByUrgency(hostPairs)
           W == Ways(ToSet(switches), Known(links))
           P == ToSet(hostPairs)
<1>1. RatedSeq(hostPairs) /\ served \in Seq(HostPair) /\ ServesAll(Routes(nth), served, W)
  BY RoutesAreServed
<1>2. PICK at : Sorts(at, hostPairs)
  BY <1>1, ByUrgencySorts
<1>3. ToSet(served) \in SUBSET P
  <2>1. /\ DOMAIN hostPairs = 1..Len(hostPairs)
        /\ served = [k \in 1..Len(hostPairs) |-> hostPairs[at[k]]]
        /\ \A k \in 1..Len(hostPairs) : at[k] \in 1..Len(hostPairs)
    BY <1>1, <1>2 DEF RatedSeq, Sorts, Bijection, Injection
  <2> HIDE DEF served
  <2> QED
    BY <2>1 DEF ToSet
<1>4. P \in SUBSET HostPair
  <2>1. \A i \in DOMAIN hostPairs : hostPairs[i] \in HostPair
    BY SeqFacts DEF CalcTypeOK
  <2> QED
    BY <2>1 DEF ToSet
<1> HIDE DEF P, served
<1>5. Routes(nth) \in Seq(RoutesOf(P, W))
  <2>1. Routes(nth) \in Seq(RoutesOf(ToSet(served), W))
    BY <1>1 DEF ServesAll
  <2>2. RoutesOf(ToSet(served), W) \in SUBSET RoutesOf(P, W)
    BY <1>3 DEF RoutesOf
  <2> HIDE DEF W
  <2> QED
    BY <2>1, <2>2, SeqMonotonic
<1>6. \A e \in W : <<e[2], e[1]>> \in W /\ e = <<e[1], e[2]>>
  <2>1. \A a, b : {a, b} = {b, a}
    OBVIOUS
  <2> QED
    BY <2>1 DEF Ways
<1> HIDE DEF W
<1>7. UpdateTask(Routes(nth)) \in [kind : {"update"}, nr : {NextRouting}, todo : Seq(RouteStep(P, W))]
  BY <1>4, <1>5, <1>6, UpdateTaskType
<1> QED
  BY <1>7 DEF P, W

\* A host is sent to from the switch it is at; all else goes over links.
GoodStep == RouteStep(HostPair, Switches \X Switches) \union HostStep
GoodTask == [kind : {"update", "hosts"}, nr : Nat, todo : Seq(GoodStep)]
InHands  == [task : GoodTask, dp : Datapath, flow : Flow]
Entries  == [Hosts \union {AnyHost} -> [prio : Nat \union {-1}, nr : Nat, out : Nat]]
TaskInv ==
  /\ running \in GoodTask \union {Idle}
  /\ waiting \in Seq(InHands)
  /\ sendq \in [Switches -> Seq(Flow)]
  /\ table \in [Switches -> Entries]

\* What is kept: the types, with those of tasks made stronger.
TypeInv == CalcTypeOK /\ ControlTypeOK /\ TaskInv

\* TypeInv says no less than TypeOK.
LEMMA GoodSteps == GoodStep \in SUBSET Step
<1>1. \A p \in HostPair : ResolveStep(p.client, p.server) \in Step
  BY DEF HostPair, ResolveStep, Step
<1>2. \A s, x, h : s \in Switches /\ x \in Switches \union Hosts /\ h \in Hosts => SendStep(s, x, h) \in Step
  BY DEF SendStep, Step
<1>3. \A h \in Hosts : Neighbor[h] \in Switches
  BY TopologyAssumption
<1>4. \A e \in Switches \X Switches : e[1] \in Switches /\ e[2] \in Switches
  OBVIOUS
<1>5. RouteStep(HostPair, Switches \X Switches) \in SUBSET Step
  BY <1>1, <1>2, <1>4 DEF RouteStep
<1>6. HostStep \in SUBSET Step
  BY <1>2, <1>3 DEF HostStep
<1> QED
  BY <1>5, <1>6 DEF GoodStep

LEMMA GoodTypes == TypeInv => TypeOK
<1> SUFFICES ASSUME TypeInv PROVE TypeOK
  OBVIOUS
<1>1. Seq(GoodStep) \in SUBSET Seq(Step)
  BY GoodSteps, SeqMonotonic
<1>2. GoodTask \in SUBSET Task
  BY <1>1 DEF GoodTask, Task
<1>3. InHands \in SUBSET [task : Task, dp : Datapath, flow : Flow]
  BY <1>2 DEF InHands
<1>4. waiting \in Seq([task : Task, dp : Datapath, flow : Flow])
  BY <1>3, SeqMonotonic DEF TypeInv, TaskInv
<1> QED
  BY <1>2, <1>4 DEF TypeInv, TaskInv, TypeOK, Entries

\* The three lists of the calculator are those of a controller, too.
LEMMA CalcTypesHere == TypeInv /\ [Next]_vars => CalcTypeOK'
<1> SUFFICES ASSUME TypeInv, [Next]_vars PROVE CalcTypeOK'
  OBVIOUS
<1> USE DEF TypeInv
<1>1. links' \in SUBSET Link
  BY ControlTypesStep DEF ControlTypeOK
<1>2. hostPairs' \in Seq(HostPair)
  <2>1. CASE PutInit
    BY <2>1, EmptySeq DEF PutInit, CalcReset
  <2>2. ASSUME NEW p \in Pairs, PostHostPair(p[1], p[2]) PROVE hostPairs' \in Seq(HostPair)
    <3>1. p[1] \in Hosts /\ p[2] \in Hosts
      BY TopologyAssumption
    <3> QED
      BY <2>2, <3>1, AddHostPairType DEF PostHostPair
  <2>3. ASSUME NEW h \in Hosts, NEW t \in ClientFailTimes, NEW size \in DataSizes,
               PutHostClient(h, t, size)
        PROVE  hostPairs' \in Seq(HostPair)
    BY <2>3, UpdateHostClientType DEF PutHostClient
  <2>4. CASE UNCHANGED pairVars
    BY <2>4 DEF pairVars, CalcTypeOK
  <2> QED
    BY <2>1, <2>2, <2>3, <2>4, StepsThatTouchPairs
<1>3. switches' \in Seq(Switches)
  <2> USE DEF CalcTypeOK, calcVars
  <2>1. CASE PutInit
    BY <2>1, EmptySeq DEF PutInit, CalcReset
  <2>2. CASE Registration
    BY <2>2 DEF Registration, PostLink, AddLink, PutLink, RegisterLinkFailTime, PostHostPair,
                AddHostPair, PutHostClient, UpdateHostClient
  <2>3. ASSUME NEW s \in Switches, SwitchFeatures(s) PROVE switches' \in Seq(Switches)
    BY <2>3, AppendProperties DEF SwitchFeatures, AddSwitch
  <2>4. CASE PostDisaster \/ Firing
    BY <2>4 DEF PostDisaster, Firing, TimerFires
  <2>5. CASE TaskStep \/ Resuming
    BY <2>5 DEF TaskStep, TakeStep, Wait, Raise, FinishUpdate, FinishHosts, Resuming, Resume
  <2>6. CASE Applying \/ Failing \/ Noticing
    BY <2>6 DEF Applying, Apply, Failing, DeletePort, Noticing, PortStatus
  <2>7. CASE Losing \/ Tick
    BY <2>7 DEF Losing, LoseSwitch, Tick
  <2>8. CASE UNCHANGED vars
    BY <2>8 DEF vars
  <2> QED
    BY <2>1, <2>2, <2>3, <2>4, <2>5, <2>6, <2>7, <2>8 DEF Next, RunNext, Connecting
<1> QED
  BY <1>1, <1>2, <1>3 DEF CalcTypeOK

\* TypeInv at the start, and the datapath and the flow of a step.
LEMMA InitTypeInv == Init => TypeInv
<1> SUFFICES ASSUME Init PROVE TypeInv
  OBVIOUS
<1>1. CalcTypeOK
  BY EmptySeq DEF Init, CalcInit, CalcTypeOK
<1>2. \A s \in Switches : sendq[s] \in Seq(Flow)
  BY EmptySeq DEF Init
<1>3. NoFlow \in [prio : Nat \union {-1}, nr : Nat, out : Nat]
  BY DEF NoFlow, ToController
<1>4. TaskInv
  BY <1>3, EmptySeq DEF Init, TaskInv, Entries
<1> QED
  BY <1>1, <1>4, InitTypes DEF TypeInv

\* The datapath that is found is one that has connected.
LEMMA FoundType ==
  ASSUME datapaths \in Seq(Datapath), NEW s, KnownDp(s)
  PROVE  FindDp(s) \in Datapath /\ FindDp(s).sw = s
<1> DEFINE T == {k \in 1..Len(datapaths) : datapaths[k].sw = s}
<1>1. Len(datapaths) \in Nat /\ DOMAIN datapaths = 1..Len(datapaths)
  BY LenProperties
<1>2. T \in SUBSET Nat /\ T # {}
  BY <1>1 DEF KnownDp
<1>3. Min(T) \in T
  BY <1>2, FirstIsIn
<1>4. FindDp(s) = datapaths[Min(T)]
  BY <1>1, <1>2 DEF FindDp, SelectInSeq
<1> QED
  BY <1>3, <1>4, ElementOfSeq

\* The flow of a step that does not fail.
LEMMA FlowOfType ==
  ASSUME ControlTypeOK, running.nr \in Nat,
         NEW step \in GoodStep, step.do = "send", ~Fails(step)
  PROVE  FlowOf(step) \in Flow /\ KnownDp(step.at)
<1>1. routePriority \in Nat /\ HostPriority \in Nat
  BY DEF ControlTypeOK, InitialRoutePriority, HostPriority
<1>2. step.dst \in Hosts
  <2>1. step \in Step
    BY GoodSteps
  <2> QED
    BY <2>1 DEF Step
<1>3. CASE step.to = step.dst
  <2>1. \A x, h : x \in Switches /\ h \in Hosts => x # h
    BY WiringAssumption
  <2>2. step \in HostStep
    <3>1. ASSUME NEW e \in Switches \X Switches, NEW h \in Hosts, step = SendStep(e[1], e[2], h)
          PROVE  FALSE
      BY <1>3, <2>1, <3>1 DEF SendStep
    <3>2. ASSUME NEW p \in HostPair, step = ResolveStep(p.client, p.server) PROVE FALSE
      BY <3>2 DEF ResolveStep
    <3> QED
      BY <3>1, <3>2 DEF GoodStep, RouteStep
  <2>3. PICK h \in Hosts : step = SendStep(Neighbor[h], h, h)
    BY <2>2 DEF HostStep
  <2>4. Port[<<Neighbor[h], h>>] \in Nat
    BY WiringAssumption
  <2>5. Port[<<step.at, step.to>>] \in Nat
    BY <2>3, <2>4 DEF SendStep
  <2> QED
    BY <1>1, <1>2, <1>3, <2>5 DEF FlowOf, Flow, Fails
<1>4. CASE step.to # step.dst
  <2>1. PortsTo(step.at, step.to) # {}
    BY <1>4 DEF Fails
  <2>2. PortsTo(step.at, step.to) \in SUBSET Nat
    BY DEF ControlTypeOK, PortEntry, PortsTo
  <2>3. (CHOOSE p \in PortsTo(step.at, step.to) : TRUE) \in Nat
    BY <2>1, <2>2
  <2> QED
    BY <1>1, <1>2, <1>4, <2>3 DEF FlowOf, Flow, Fails
<1> QED
  BY <1>3, <1>4

\* An update goes over links for pairs.
LEMMA UpdateIsGood ==
  ASSUME CalcTypeOK, routings \in Nat, ~CalcRaises, NEW nth \in Nat
  PROVE  UpdateTask(Routes(nth)) \in GoodTask
<1> DEFINE S == RouteStep(ToSet(hostPairs), Ways(ToSet(switches), Known(links)))
<1>1. UpdateTask(Routes(nth)) \in [kind : {"update"}, nr : {NextRouting}, todo : Seq(S)]
  BY UpdateFor
<1>2. S \in SUBSET GoodStep
  <2>1. ToSet(hostPairs) \in SUBSET HostPair /\ ToSet(switches) \in SUBSET Switches
    BY SeqFacts DEF CalcTypeOK, ToSet
  <2>2. Ways(ToSet(switches), Known(links)) \in SUBSET (Switches \X Switches)
    BY <2>1 DEF Ways
  <2> QED
    BY <2>1, <2>2 DEF RouteStep, GoodStep
<1> HIDE DEF S
<1>3. Seq(S) \in SUBSET Seq(GoodStep)
  BY <1>2, SeqMonotonic
<1>4. NextRouting \in Nat
  BY DEF NextRouting, CountUp
<1> QED
  BY <1>1, <1>3, <1>4 DEF GoodTask

\* What __update_path leaves to be run, whatever way it ends.
LEMMA UpdatePathType ==
  ASSUME TypeInv, NEW updating, UpdatePath(updating)
  PROVE  running' \in GoodTask \union {Idle}
<1>1. updateTimes \in Nat /\ routings \in Nat
  BY TimeAssumption DEF TypeInv, ControlTypeOK
<1>2. CASE ~updating \/ CalcRaises \/ hostPairs = <<>>
  BY <1>2 DEF UpdatePath
<1>3. CASE ~(~updating \/ CalcRaises \/ hostPairs = <<>>)
  <2>1. UpdateTask(Routes(updateTimes)) \in GoodTask
    BY <1>1, <1>3, UpdateIsGood DEF TypeInv
  <2> QED
    BY <1>3, <2>1 DEF UpdatePath
<1> QED
  BY <1>2, <1>3

\* add_host_pair sends to two hosts from their own switches.
LEMMA HostsTaskType ==
  ASSUME NEW c \in Hosts, NEW v \in Hosts
  PROVE  HostsTask(c, v) \in GoodTask
<1>1. SendStep(Neighbor[c], c, c) \in GoodStep /\ SendStep(Neighbor[v], v, v) \in GoodStep
  BY DEF HostStep, GoodStep
<1>2. \A x, y \in GoodStep : <<x, y>> \in Seq(GoodStep)
  OBVIOUS
<1>3. <<SendStep(Neighbor[c], c, c), SendStep(Neighbor[v], v, v)>> \in Seq(GoodStep)
  BY <1>1, <1>2
<1> QED
  BY <1>3 DEF HostsTask, GoodTask

\* A flow that is sent joins the queue of its switch.
LEMMA EnqueueType ==
  ASSUME sendq \in [Switches -> Seq(Flow)], NEW dp \in Datapath, NEW flow \in Flow, Enqueue(dp, flow)
  PROVE  sendq' \in [Switches -> Seq(Flow)]
<1>1. dp.sw \in Switches
  BY DEF Datapath
<1>2. Append(sendq[dp.sw], flow) \in Seq(Flow)
  BY <1>1, AppendProperties
<1> QED
  BY <1>1, <1>2 DEF Enqueue

\* The rest of a task that is not at its end.
LEMMA RestType ==
  ASSUME TaskInv, running.todo # <<>>
  PROVE  /\ Rest \in GoodTask /\ Head(running.todo) \in GoodStep
         /\ running.nr \in Nat
<1>1. running \in GoodTask
  BY DEF TaskInv, Idle
<1>2. running.todo \in Seq(GoodStep)
  BY <1>1 DEF GoodTask
<1>3. Head(running.todo) \in GoodStep /\ Tail(running.todo) \in Seq(GoodStep)
  BY <1>2, HeadTailProperties
<1> QED
  BY <1>1, <1>3 DEF Rest, GoodTask

\* One lemma per group of actions that touch tasks or the network.
LEMMA TaskStepTypeInv == TypeInv /\ TaskStep => TaskInv'
<1> SUFFICES ASSUME TypeInv, TaskStep PROVE TaskInv'
  OBVIOUS
<1>1. TaskInv /\ ControlTypeOK /\ datapaths \in Seq(Datapath)
  BY DEF TypeInv, ControlTypeOK
<1>2. CASE TakeStep
  <2> DEFINE step == Head(running.todo)
  <2>1. running.todo # <<>> /\ ~Fails(step) /\ running' = Rest /\ UNCHANGED <<waiting, table>>
    BY <1>2 DEF TakeStep
  <2>2. Rest \in GoodTask /\ step \in GoodStep /\ running.nr \in Nat
    BY <1>1, <2>1, RestType
  <2>3. UNCHANGED sendq \/ (step.do = "send" /\ Enqueue(FindDp(step.at), FlowOf(step)))
    BY <1>2 DEF TakeStep
  <2> HIDE DEF step
  <2>4. sendq' \in [Switches -> Seq(Flow)]
    <3>1. CASE UNCHANGED sendq
      BY <1>1, <3>1 DEF TaskInv
    <3>2. CASE step.do = "send" /\ Enqueue(FindDp(step.at), FlowOf(step))
      <4>1. FlowOf(step) \in Flow /\ FindDp(step.at) \in Datapath
        BY <1>1, <2>1, <2>2, <3>2, FlowOfType, FoundType
      <4> QED
        BY <1>1, <3>2, <4>1, EnqueueType DEF TaskInv
    <3> QED
      BY <2>3, <3>1, <3>2
  <2> QED
    BY <1>1, <2>1, <2>2, <2>4 DEF TaskInv
<1>3. CASE Wait
  <2> DEFINE step == Head(running.todo)
             w == [task |-> Rest, dp |-> FindDp(step.at), flow |-> FlowOf(step)]
  <2>1. /\ running.todo # <<>> /\ ~Fails(step) /\ step.do = "send" /\ running' = Idle
        /\ waiting' = Append(waiting, w) /\ UNCHANGED <<sendq, table>>
    BY <1>3 DEF Wait, netVars
  <2>2. Rest \in GoodTask /\ step \in GoodStep /\ running.nr \in Nat
    BY <1>1, <2>1, RestType
  <2>3. FlowOf(step) \in Flow /\ FindDp(step.at) \in Datapath
    BY <1>1, <2>1, <2>2, FlowOfType, FoundType
  <2>4. w \in InHands
    BY <2>2, <2>3 DEF InHands
  <2> HIDE DEF w, step
  <2>5. waiting' \in Seq(InHands)
    BY <1>1, <2>1, <2>4, AppendProperties DEF TaskInv
  <2> QED
    BY <1>1, <2>1, <2>5 DEF TaskInv
<1>4. CASE Raise \/ FinishUpdate \/ FinishHosts
  BY <1>1, <1>4 DEF Raise, FinishUpdate, FinishHosts, netVars, TaskInv
<1> QED
  BY <1>2, <1>3, <1>4 DEF TaskStep

LEMMA ResumingTypeInv == TypeInv /\ Resuming => TaskInv'
<1> SUFFICES ASSUME TypeInv, NEW i \in DOMAIN waiting, Resume(i) PROVE TaskInv'
  BY DEF Resuming
<1>1. TaskInv
  BY DEF TypeInv
<1>2. i \in 1..Len(waiting) /\ waiting[i] \in InHands
  BY <1>1, LenProperties, ElementOfSeq DEF TaskInv
<1>3. waiting[i].task \in GoodTask /\ waiting[i].dp \in Datapath /\ waiting[i].flow \in Flow
  BY <1>2 DEF InHands
<1>4. /\ Enqueue(waiting[i].dp, waiting[i].flow) /\ running' = waiting[i].task
      /\ waiting' = RemoveAt(waiting, i) /\ UNCHANGED table
  BY DEF Resume
<1>5. sendq' \in [Switches -> Seq(Flow)]
  BY <1>1, <1>3, <1>4, EnqueueType DEF TaskInv
<1>6. waiting' \in Seq(InHands)
  BY <1>1, <1>2, <1>4, RemoveAtType DEF TaskInv
<1> QED
  BY <1>1, <1>3, <1>4, <1>5, <1>6 DEF TaskInv

LEMMA ApplyTypeInv ==
  ASSUME TaskInv, NEW sw \in Switches, Apply(sw)
  PROVE  TaskInv'
<1> DEFINE f == Head(sendq[sw])
<1>1. sendq[sw] \in Seq(Flow) /\ sendq[sw] # <<>>
  BY DEF Apply, TaskInv
<1>2. f \in Flow /\ Tail(sendq[sw]) \in Seq(Flow)
  BY <1>1, HeadTailProperties
<1>3. sendq' \in [Switches -> Seq(Flow)]
  BY <1>2 DEF Apply, TaskInv
<1>4. table' = table \/ table' = [table EXCEPT ![sw][f.dst] = [prio |-> f.prio, nr |-> f.nr, out |-> f.out]]
  BY DEF Apply
<1> HIDE DEF f
<1>5. /\ [prio |-> f.prio, nr |-> f.nr, out |-> f.out] \in [prio : Nat \union {-1}, nr : Nat, out : Nat]
      /\ f.dst \in Hosts \union {AnyHost}
  BY <1>2 DEF Flow
<1>6. table' \in [Switches -> Entries]
  <2>1. table[sw] \in Entries
    BY DEF TaskInv
  <2>2. [table[sw] EXCEPT ![f.dst] = [prio |-> f.prio, nr |-> f.nr, out |-> f.out]] \in Entries
    BY <1>5, <2>1 DEF Entries
  <2>3. \A new \in Entries : [table EXCEPT ![sw] = new] \in [Switches -> Entries]
    BY DEF TaskInv
  <2> QED
    BY <1>4, <2>2, <2>3 DEF TaskInv
<1> QED
  BY <1>3, <1>6 DEF Apply, TaskInv, taskVars

LEMMA ConnectingTypeInv == TypeInv /\ (Connecting \/ Losing) => TaskInv'
<1> SUFFICES ASSUME TypeInv, Connecting \/ Losing PROVE TaskInv'
  OBVIOUS
<1> USE DEF TypeInv, TaskInv
<1>1. ASSUME NEW s \in Switches, SwitchFeatures(s) PROVE TaskInv'
  <2> DEFINE f == [dst |-> AnyHost, prio |-> 0, nr |-> 0, out |-> ToController]
  <2>1. f \in Flow
    BY DEF Flow, ToController
  <2> HIDE DEF f
  <2>2. <<f>> \in Seq(Flow)
    BY <2>1
  <2>3. sendq' = [sendq EXCEPT ![s] = <<f>>]
    BY <1>1 DEF SwitchFeatures, f
  <2>4. sendq' \in [Switches -> Seq(Flow)]
    BY <2>2, <2>3
  <2> QED
    BY <1>1, <2>4 DEF SwitchFeatures, taskVars
<1>2. ASSUME NEW s \in Switches, NEW restarts \in BOOLEAN, LoseSwitch(s, restarts) PROVE TaskInv'
  <2>1. sendq' \in [Switches -> Seq(Flow)]
    BY <1>2, EmptySeq DEF LoseSwitch
  <2>2. table' \in [Switches -> Entries]
    <3>1. NoFlow \in [prio : Nat \union {-1}, nr : Nat, out : Nat]
      BY DEF NoFlow, ToController
    <3>2. DOMAIN table[s] = Hosts \union {AnyHost}
      BY DEF Entries
    <3>3. [h \in DOMAIN table[s] |-> NoFlow] \in Entries
      BY <3>1, <3>2 DEF Entries
    <3>4. \A new \in Entries : [table EXCEPT ![s] = new] \in [Switches -> Entries]
      OBVIOUS
    <3>5. table' = table \/ table' = [table EXCEPT ![s] = [h \in DOMAIN table[s] |-> NoFlow]]
      BY <1>2 DEF LoseSwitch
    <3> QED
      BY <3>3, <3>4, <3>5
  <2> QED
    BY <1>2, <2>1, <2>2 DEF LoseSwitch, taskVars
<1> QED
  BY <1>1, <1>2 DEF Connecting, Losing

LEMMA TypeInvStep == TypeInv /\ [Next]_vars => TypeInv'
<1> SUFFICES ASSUME TypeInv, [Next]_vars PROVE TypeInv'
  OBVIOUS
<1>1. CalcTypeOK' /\ ControlTypeOK'
  BY CalcTypesHere, ControlTypesStep DEF TypeInv
<1>2. TaskInv'
  <2>1. CASE PutInit
    BY <2>1 DEF PutInit, taskVars, netVars, TypeInv, TaskInv
  <2>2. ASSUME NEW p \in Pairs, PostHostPair(p[1], p[2]) PROVE TaskInv'
    <3>1. p[1] \in Hosts /\ p[2] \in Hosts
      BY TopologyAssumption
    <3>2. running' \in GoodTask
      BY <2>2, <3>1, HostsTaskType DEF PostHostPair
    <3> QED
      BY <2>2, <3>2 DEF PostHostPair, netVars, TypeInv, TaskInv
  <2>3. ASSUME NEW w \in Wires, NEW bw \in Bandwidths, PostLink(w, bw) PROVE TaskInv'
    BY <2>3 DEF PostLink, taskVars, netVars, TypeInv, TaskInv
  <2>4. ASSUME NEW w \in Wires, NEW t \in FailTimes, PutLink(w, t) PROVE TaskInv'
    BY <2>4 DEF PutLink, taskVars, netVars, TypeInv, TaskInv
  <2>5. ASSUME NEW h \in Hosts, NEW t \in ClientFailTimes, NEW size \in DataSizes,
               PutHostClient(h, t, size)
        PROVE  TaskInv'
    BY <2>5 DEF PutHostClient, taskVars, netVars, TypeInv, TaskInv
  <2>6. CASE PostDisaster \/ Firing
    <3>1. /\ \E updating : UpdatePath(updating)
          /\ UNCHANGED <<waiting, sendq, table>>
      BY <2>6 DEF PostDisaster, Firing, TimerFires, netVars
    <3>2. running' \in GoodTask \union {Idle}
      BY <3>1, UpdatePathType
    <3> QED
      BY <3>1, <3>2 DEF TypeInv, TaskInv
  <2>7. CASE Applying
    BY <2>7, ApplyTypeInv DEF Applying, TypeInv
  <2>8. CASE Failing \/ Noticing \/ Tick
    BY <2>8 DEF Failing, DeletePort, Noticing, PortStatus, Tick, taskVars, netVars, TypeInv, TaskInv
  <2>9. CASE UNCHANGED vars
    BY <2>9 DEF vars, taskVars, netVars, TypeInv, TaskInv
  <2> QED
    BY <2>1, <2>2, <2>3, <2>4, <2>5, <2>6, <2>7, <2>8, <2>9, TaskStepTypeInv, ResumingTypeInv,
       ConnectingTypeInv
       DEF Next, RunNext, Registration
<1> QED
  BY <1>1, <1>2 DEF TypeInv

\* TypeOK: for every network, whatever happens, tasks and flows have the types
\* of the code's arguments: no update asks a datapath that never connected to
\* send, nor for an output to a port that is none.
THEOREM TypesTheorem == Spec => []TypeOK
  BY InitTypeInv, TypeInvStep, GoodTypes, PTL DEF Spec

-----------------------------------------------------------------------------
(* NewestWins, for every length of queues and number of connections, when  *)
(* updates do not overlap (MaxChains = 1).  A flow is sent with the        *)
(* priority of its moment, which is the greatest there is, by the last     *)
(* routing that has begun; so the flows stay in order if none overtakes    *)
(* another one on its way through the hands of waiting tasks and the queue *)
(* of the switch.                                                          *)

\* Flow f is sent along a route to h; g comes after it, and must not be below
\* it nor of an earlier routing.
Ranked(f)       == f.prio \in Int /\ f.nr \in Int
IsRoute(f, h)   == f.dst = h /\ f.prio >= InitialRoutePriority
Above(f, g)     == f.prio <= g.prio /\ f.nr <= g.nr
Before(f, g, h) == IsRoute(f, h) /\ IsRoute(g, h) => Above(f, g)
InHand(j, s)    == waiting[j].dp.sw = s /\ IsOpen(waiting[j].dp)
Newest(f)       == f.prio <= routePriority /\ f.nr <= routings
Applied(s, h)   == table[s][h].prio >= InitialRoutePriority
Between(f, s, h) ==
  IsRoute(f, h) => (Applied(s, h) => Above(table[s][h], f)) /\ Newest(f)

\* A connection known, or waited for, is one the switch has made.
Made(dp) == dp \in Datapath /\ dp.conn <= conn[dp.sw]

QueueTypes ==
  /\ conn \in [Switches -> Nat] /\ routePriority \in Nat
  /\ routePriority >= InitialRoutePriority /\ routings \in Nat
  /\ datapaths \in Seq(Datapath) /\ \A i \in DOMAIN datapaths : Made(datapaths[i])
  /\ IsSeq(waiting)
  /\ \A j \in DOMAIN waiting : Made(waiting[j].dp) /\ Ranked(waiting[j].flow)
  /\ DOMAIN sendq = Switches
  /\ \A s \in Switches : /\ IsSeq(sendq[s])
                         /\ \A i \in DOMAIN sendq[s] : Ranked(sendq[s][i])
  /\ DOMAIN table = Switches
  /\ \A s \in Switches : /\ DOMAIN table[s] = Hosts \union {AnyHost}
                         /\ \A h \in Hosts : Ranked(table[s][h])

\* NewestWins, without the numbers of places: the queue, the hands, and one
\* after the other.
QueueOrder(s, h) ==
  \A i, j \in DOMAIN sendq[s] : i < j => Before(sendq[s][i], sendq[s][j], h)
HandOrder(s, h) ==
  \A i, j \in DOMAIN waiting :
    i < j /\ InHand(i, s) /\ InHand(j, s) => Before(waiting[i].flow, waiting[j].flow, h)
QueueFirst(s, h) ==
  \A i \in DOMAIN sendq[s], j \in DOMAIN waiting :
    InHand(j, s) => Before(sendq[s][i], waiting[j].flow, h)
AllBetween(s, h) ==
  /\ \A i \in DOMAIN sendq[s] : Between(sendq[s][i], s, h)
  /\ \A j \in DOMAIN waiting : InHand(j, s) => Between(waiting[j].flow, s, h)
  /\ Applied(s, h) => Newest(table[s][h])
Ordered ==
  \A s \in Switches, h \in Hosts :
    QueueOrder(s, h) /\ HandOrder(s, h) /\ QueueFirst(s, h) /\ AllBetween(s, h)

FlowInv == QueueTypes /\ Ordered
-----------------------------------------------------------------------------
(* The steps. *)

\* What orders flows.
orderVars == <<datapaths, routePriority, routings, waiting, conn, live, sendq, table>>

LEMMA Untouched == FlowInv /\ UNCHANGED orderVars => FlowInv'
BY DEF FlowInv, orderVars, QueueTypes, Made, Ordered, QueueOrder, HandOrder, QueueFirst,
       AllBetween, Between, Applied, Newest, InHand, IsOpen, IsSeq

\* A datapath that is found is the switch's, and one of the list.
LEMMA FindDpFinds ==
  ASSUME QueueTypes, NEW s, KnownDp(s)
  PROVE  /\ FindDp(s) \in Datapath /\ FindDp(s).sw = s /\ s \in Switches
         /\ Made(FindDp(s))
<1> DEFINE T == {i \in 1..Len(datapaths) : datapaths[i].sw = s}
<1>1. DOMAIN datapaths = 1..Len(datapaths)
  BY LenProperties DEF QueueTypes
<1>2. T \in SUBSET Nat /\ T # {}
  BY <1>1 DEF KnownDp
<1>3. Min(T) \in T
  BY <1>2, FirstIsIn
<1>4. FindDp(s) = datapaths[Min(T)]
  BY <1>2 DEF FindDp, SelectInSeq
<1>5. Made(datapaths[Min(T)]) /\ datapaths[Min(T)].sw = s
  BY <1>1, <1>3 DEF QueueTypes
<1> QED
  BY <1>4, <1>5 DEF Made, Datapath

\* A flow on a route has the priority of its moment and is of the last routing,
\* that of a host has a lower one and is of none.
Current(step) == step.to # step.dst => running.nr = routings
LEMMA FlowPriority ==
  ASSUME QueueTypes, NEW step, Current(step)
  PROVE  /\ Ranked(FlowOf(step)) /\ Newest(FlowOf(step))
         /\ \A h : IsRoute(FlowOf(step), h) => /\ FlowOf(step).prio = routePriority
                                              /\ FlowOf(step).nr = routings
BY DEF FlowOf, IsRoute, QueueTypes, HostPriority, InitialRoutePriority, Ranked, Newest, Current

\* Who holds a flow for an open connection holds it for this connection.
LEMMA SameConnection ==
  ASSUME QueueTypes, NEW dp, Made(dp), IsOpen(dp), NEW j \in DOMAIN waiting, InHand(j, dp.sw)
  PROVE  waiting[j].dp = dp
<1>1. dp \in Datapath /\ waiting[j].dp \in Datapath
  BY DEF QueueTypes, Made
<1>2. waiting[j].dp.sw = dp.sw /\ waiting[j].dp.conn = conn[dp.sw] /\ dp.conn = conn[dp.sw]
  BY DEF IsOpen, InHand
<1> QED
  BY <1>1, <1>2 DEF Datapath

\* One flow less in the hands of tasks.
LEMMA HandsShrink ==
  ASSUME FlowInv, NEW i \in DOMAIN waiting, waiting' = RemoveAt(waiting, i),
         UNCHANGED <<conn, live, table>>
  PROVE  /\ IsSeq(waiting')
         /\ \A j \in DOMAIN waiting' : /\ Shift(i, j) \in DOMAIN waiting \ {i}
                                       /\ waiting'[j] = waiting[Shift(i, j)]
                                       /\ \A s : InHand(j, s)' <=> InHand(Shift(i, j), s)
         /\ \A j, k \in DOMAIN waiting' : j < k => Shift(i, j) < Shift(i, k)
<1>1. IsSeq(waiting) /\ DOMAIN waiting = 1..Len(waiting)
  BY IsSeqLen DEF FlowInv, QueueTypes
<1>2. /\ IsSeq(waiting') /\ DOMAIN waiting' = 1..(Len(waiting) - 1)
      /\ \A j \in DOMAIN waiting' : /\ Shift(i, j) \in DOMAIN waiting \ {i}
                                    /\ waiting'[j] = waiting[Shift(i, j)]
  BY <1>1, RemoveAtIsSeq
<1>3. \A j, k \in DOMAIN waiting' : j < k => Shift(i, j) < Shift(i, k)
  BY <1>1, <1>2 DEF Shift
<1>4. \A j \in DOMAIN waiting' : \A s : InHand(j, s)' <=> InHand(Shift(i, j), s)
  BY <1>2 DEF InHand, IsOpen
<1> QED
  BY <1>2, <1>3, <1>4

\* A flow joins the queue of its switch: what is queued is not above it, and
\* who stays with a flow for the same connection is not below it.
Joins(f, s) ==
  \A h \in Hosts :
    /\ \A i \in DOMAIN sendq[s] : Before(sendq[s][i], f, h)
    /\ \A j \in DOMAIN waiting' : InHand(j, s)' => Before(f, waiting'[j].flow, h)
    /\ Between(f, s, h)

LEMMA EnqueueOrders ==
  ASSUME FlowInv,
         NEW i, waiting' = waiting \/ (i \in DOMAIN waiting /\ waiting' = RemoveAt(waiting, i)),
         UNCHANGED <<datapaths, routePriority, routings, conn, live, table>>,
         NEW dp, dp.sw \in Switches, NEW f, Ranked(f), Enqueue(dp, f),
         IsOpen(dp) => Joins(f, dp.sw)
  PROVE  FlowInv'
<1> DEFINE Old(j) == IF waiting' = waiting THEN j ELSE Shift(i, j)
           s == dp.sw
<1>1. /\ IsSeq(waiting')
      /\ \A j \in DOMAIN waiting' : /\ Old(j) \in DOMAIN waiting /\ waiting'[j] = waiting[Old(j)]
                                    /\ \A t : InHand(j, t)' <=> InHand(Old(j), t)
      /\ \A j, k \in DOMAIN waiting' : j < k => Old(j) < Old(k)
  <2>1. CASE waiting' = waiting
    BY <2>1 DEF FlowInv, QueueTypes, InHand, IsOpen
  <2>2. CASE waiting' # waiting
    BY <2>2, HandsShrink
  <2> QED
    BY <2>1, <2>2
<1> HIDE DEF Old
<1>2. /\ DOMAIN sendq' = Switches
      /\ \A t \in Switches : t # s => sendq'[t] = sendq[t]
      /\ sendq'[s] = IF IsOpen(dp) THEN Append(sendq[s], f) ELSE sendq[s]
  BY DEF Enqueue, FlowInv, QueueTypes
<1>3. IsSeq(sendq[s]) /\ DOMAIN sendq[s] = 1..Len(sendq[s]) /\ Len(sendq[s]) \in Nat
  BY IsSeqLen DEF FlowInv, QueueTypes
<1>4. \A t \in Switches :
        /\ IsSeq(sendq'[t])
        /\ \A k \in DOMAIN sendq'[t] :
             \/ k \in DOMAIN sendq[t] /\ sendq'[t][k] = sendq[t][k]
             \/ /\ t = s /\ IsOpen(dp) /\ sendq'[t][k] = f
                /\ \A m \in DOMAIN sendq[t] : m < k
  <2> SUFFICES ASSUME NEW t \in Switches, t = s, IsOpen(dp)
               PROVE  /\ IsSeq(sendq'[t])
                      /\ \A k \in DOMAIN sendq'[t] :
                           \/ k \in DOMAIN sendq[t] /\ sendq'[t][k] = sendq[t][k]
                           \/ sendq'[t][k] = f /\ \A m \in DOMAIN sendq[t] : m < k
    BY <1>2 DEF FlowInv, QueueTypes
  <2>1. sendq'[t] = Append(sendq[t], f)
    BY <1>2
  <2> QED
    BY <1>3, <2>1, AppendIsSeq
<1>5. QueueTypes'
  <2>1. /\ \A t \in Switches : \A k \in DOMAIN sendq[t] : Ranked(sendq[t][k])
        /\ \A j \in DOMAIN waiting : Made(waiting[j].dp) /\ Ranked(waiting[j].flow)
        /\ \A k \in DOMAIN datapaths : Made(datapaths[k])
    BY DEF FlowInv, QueueTypes
  <2>2. \A t \in Switches : \A k \in DOMAIN sendq'[t] : Ranked(sendq'[t][k])
    BY <1>4, <2>1
  <2>3. conn' = conn /\ datapaths' = datapaths
    OBVIOUS
  <2>4. \A j \in DOMAIN waiting' : Made(waiting'[j].dp) /\ Ranked(waiting'[j].flow)
    BY <1>1, <2>1
  <2>5. (/\ \A j \in DOMAIN waiting : Made(waiting[j].dp) /\ Ranked(waiting[j].flow)
         /\ \A k \in DOMAIN datapaths : Made(datapaths[k]))'
    BY <2>1, <2>3, <2>4 DEF Made
  <2>6. /\ conn' \in [Switches -> Nat] /\ routePriority' \in Nat
        /\ routePriority' >= InitialRoutePriority /\ routings' \in Nat
        /\ datapaths' \in Seq(Datapath)
        /\ DOMAIN table' = Switches
        /\ \A t \in Switches : /\ DOMAIN table'[t] = Hosts \union {AnyHost}
                               /\ \A h \in Hosts : Ranked(table'[t][h])
    BY DEF FlowInv, QueueTypes
  <2> QED
    BY <1>1, <1>2, <1>4, <2>2, <2>5, <2>6 DEF QueueTypes
<1>6. ASSUME NEW t \in Switches, NEW h \in Hosts
      PROVE  (QueueOrder(t, h) /\ HandOrder(t, h) /\ QueueFirst(t, h) /\ AllBetween(t, h))'
  <2>1. QueueOrder(t, h) /\ HandOrder(t, h) /\ QueueFirst(t, h) /\ AllBetween(t, h)
    BY DEF FlowInv, Ordered
  <2>2. t = s /\ IsOpen(dp) =>
          /\ \A k \in DOMAIN sendq[t] : Before(sendq[t][k], f, h)
          /\ \A j \in DOMAIN waiting' : InHand(j, t)' => Before(f, waiting'[j].flow, h)
          /\ Between(f, t, h)
    BY DEF Joins
  <2>3. QueueOrder(t, h)'
    <3> SUFFICES ASSUME NEW k \in DOMAIN sendq'[t], NEW m \in DOMAIN sendq'[t], k < m
                 PROVE  Before(sendq'[t][k], sendq'[t][m], h)
      BY DEF QueueOrder, Before, IsRoute
    <3>1. CASE m \in DOMAIN sendq[t] /\ sendq'[t][m] = sendq[t][m]
      <4>1. k \in DOMAIN sendq[t] /\ sendq'[t][k] = sendq[t][k]
        <5>1. DOMAIN sendq[t] = 1..Len(sendq[t]) /\ DOMAIN sendq'[t] = 1..Len(sendq'[t])
          BY <1>4, IsSeqLen DEF FlowInv, QueueTypes
        <5>2. ~(m < k)
          BY <5>1
        <5> QED
          BY <1>4, <3>1, <5>2
      <4> QED
        BY <3>1, <4>1, <2>1 DEF QueueOrder
    <3>2. CASE t = s /\ IsOpen(dp) /\ sendq'[t][m] = f
      <4>1. CASE k \in DOMAIN sendq[t] /\ sendq'[t][k] = sendq[t][k]
        BY <4>1, <3>2, <2>2
      <4>2. CASE sendq'[t][k] = f
        BY <4>2, <3>2 DEF Before, Above, Ranked
      <4> QED
        BY <1>4, <4>1, <4>2
    <3> QED
      BY <1>4, <3>1, <3>2
  <2>4. HandOrder(t, h)'
    BY <1>1, <2>1 DEF HandOrder, Before, IsRoute
  <2>5. QueueFirst(t, h)'
    <3> SUFFICES ASSUME NEW k \in DOMAIN sendq'[t], NEW j \in DOMAIN waiting', InHand(j, t)'
                 PROVE  Before(sendq'[t][k], waiting'[j].flow, h)
      BY DEF QueueFirst, Before, IsRoute
    <3>1. CASE k \in DOMAIN sendq[t] /\ sendq'[t][k] = sendq[t][k]
      BY <1>1, <2>1, <3>1 DEF QueueFirst
    <3>2. CASE t = s /\ IsOpen(dp) /\ sendq'[t][k] = f
      BY <2>2, <3>2
    <3> QED
      BY <1>4, <3>1, <3>2
  <2>6. AllBetween(t, h)'
    <3>1. \A k \in DOMAIN sendq'[t] : Between(sendq'[t][k], t, h)
      BY <1>4, <2>1, <2>2 DEF AllBetween
    <3>2. \A j \in DOMAIN waiting' : InHand(j, t)' => Between(waiting'[j].flow, t, h)
      BY <1>1, <2>1 DEF AllBetween
    <3> QED
      BY <2>1, <3>1, <3>2 DEF AllBetween, Between, IsRoute, Applied, Newest
  <2> QED
    BY <2>3, <2>4, <2>5, <2>6
<1> QED
  BY <1>5, <1>6 DEF FlowInv, Ordered

\* A task sends only if nobody waits for the connection, so that its flow, of
\* the greatest priority, comes last.
LEMMA TakeStepOrders ==
  ASSUME FlowInv, TakeStep, Current(Head(running.todo)) PROVE FlowInv'
<1> SUFFICES FlowInv'
  OBVIOUS
<1> DEFINE step == Head(running.todo)
<1>1. /\ waiting' = waiting
      /\ UNCHANGED <<datapaths, routePriority, routings, conn, live, table>>
  BY DEF TakeStep, ctlVars
<1>2. CASE UNCHANGED sendq
  BY <1>1, <1>2, Untouched DEF orderVars
<1>3. ASSUME NEW dp, dp = FindDp(step.at), NEW f, f = FlowOf(step),
             step.do = "send", ~Fails(step), HasRoom(dp, waiting), Enqueue(dp, f)
      PROVE  FlowInv'
  <2>1. KnownDp(step.at) /\ QueueTypes
    BY <1>3 DEF Fails, FlowInv
  <2>2. dp.sw \in Switches /\ Made(dp)
    BY <1>3, <2>1, FindDpFinds DEF Made, Datapath
  <2>3. /\ Ranked(f) /\ Newest(f)
        /\ \A h : IsRoute(f, h) => f.prio = routePriority /\ f.nr = routings
    BY <1>3, <2>1, FlowPriority
  <2>4. IsOpen(dp) => Joins(f, dp.sw)
    <3> SUFFICES ASSUME IsOpen(dp), NEW h \in Hosts
                 PROVE  /\ \A i \in DOMAIN sendq[dp.sw] : Before(sendq[dp.sw][i], f, h)
                        /\ \A j \in DOMAIN waiting' : ~InHand(j, dp.sw)'
                        /\ Between(f, dp.sw, h)
      BY DEF Joins
    <3>1. AllBetween(dp.sw, h)
      BY <2>2 DEF FlowInv, Ordered
    <3>2. \A i \in DOMAIN sendq[dp.sw] : Before(sendq[dp.sw][i], f, h)
      BY <2>3, <3>1 DEF AllBetween, Between, Before, Above, Newest
    <3>3. Between(f, dp.sw, h)
      BY <2>3, <3>1 DEF AllBetween, Between, Above, Newest
    <3>4. ASSUME NEW j \in DOMAIN waiting, InHand(j, dp.sw) PROVE FALSE
      <4>1. waiting[j].dp = dp
        BY <2>1, <2>2, <3>4, SameConnection
      <4>2. waiting[j] \in ToSet(waiting)
        BY DEF ToSet
      <4> QED
        BY <1>3, <4>1, <4>2 DEF HasRoom
    <3> QED
      BY <1>1, <3>2, <3>3, <3>4 DEF InHand, IsOpen
  <2> QED
    BY <1>1, <1>3, <2>2, <2>3, <2>4, EnqueueOrders
<1> QED
  BY <1>2, <1>3 DEF TakeStep

\* Who resumes was the first to wait for its connection.
LEMMA ResumeOrders == ASSUME FlowInv, NEW i \in DOMAIN waiting, Resume(i) PROVE FlowInv'
<1> SUFFICES ASSUME NEW dp, dp = waiting[i].dp, NEW f, f = waiting[i].flow PROVE FlowInv'
  OBVIOUS
<1>1. /\ waiting' = RemoveAt(waiting, i) /\ Enqueue(dp, f)
      /\ HasRoom(dp, SubSeq(waiting, 1, i - 1))
      /\ UNCHANGED <<datapaths, routePriority, routings, conn, live, table>>
  BY DEF Resume, ctlVars
<1>2. QueueTypes /\ Made(dp) /\ Ranked(f) /\ dp.sw \in Switches
  BY DEF FlowInv, QueueTypes, Made, Datapath
<1>3. IsOpen(dp) => Joins(f, dp.sw)
  <2> SUFFICES ASSUME IsOpen(dp), NEW h \in Hosts
               PROVE  /\ \A k \in DOMAIN sendq[dp.sw] : Before(sendq[dp.sw][k], f, h)
                      /\ \A j \in DOMAIN waiting' :
                           InHand(j, dp.sw)' => Before(f, waiting'[j].flow, h)
                      /\ Between(f, dp.sw, h)
    BY DEF Joins
  <2>1. InHand(i, dp.sw)
    BY DEF InHand
  <2>2. HandOrder(dp.sw, h) /\ QueueFirst(dp.sw, h) /\ AllBetween(dp.sw, h)
    BY <1>2 DEF FlowInv, Ordered
  <2>3. \A k \in DOMAIN sendq[dp.sw] : Before(sendq[dp.sw][k], f, h)
    BY <2>1, <2>2 DEF QueueFirst
  <2>4. Between(f, dp.sw, h)
    BY <2>1, <2>2 DEF AllBetween
  <2>5. ASSUME NEW j \in DOMAIN waiting', InHand(j, dp.sw)'
        PROVE  Before(f, waiting'[j].flow, h)
    <3>1. /\ Shift(i, j) \in DOMAIN waiting \ {i} /\ waiting'[j] = waiting[Shift(i, j)]
          /\ InHand(Shift(i, j), dp.sw)
      BY <1>1, <2>5, HandsShrink
    <3>2. ~(Shift(i, j) < i)
      <4> SUFFICES ASSUME Shift(i, j) < i PROVE FALSE
        OBVIOUS
      <4> DEFINE k == Shift(i, j)
                 ahead == SubSeq(waiting, 1, i - 1)
      <4>1. waiting \in Seq(ToSet(waiting)) /\ DOMAIN waiting = 1..Len(waiting) /\ Len(waiting) \in Nat
        BY <1>2, IsSeqLen DEF QueueTypes, IsSeq
      <4>2. k \in 1..(i - 1) /\ \A m \in 1..(i - 1) : waiting[m] \in ToSet(waiting)
        BY <3>1, <4>1 DEF ToSet
      <4>3. ahead \in Seq(ToSet(waiting)) /\ Len(ahead) = i - 1 /\ ahead[k] = waiting[k]
        BY <4>1, <4>2, SubSeqProperties
      <4> HIDE DEF ahead, k
      <4>4. waiting[k] \in ToSet(ahead)
        BY <4>2, <4>3, LenProperties DEF ToSet
      <4>5. waiting[k].dp = dp
        BY <1>2, <3>1, SameConnection DEF k
      <4> QED
        BY <1>1, <4>4, <4>5 DEF HasRoom, ahead
    <3>3. i < Shift(i, j)
      BY <1>2, <3>1, <3>2, IsSeqLen DEF QueueTypes
    <3> QED
      BY <2>1, <2>2, <3>1, <3>3 DEF HandOrder
  <2> QED
    BY <2>3, <2>4, <2>5
<1> QED
  BY <1>1, <1>2, <1>3, EnqueueOrders

\* Who waits has the flow with the greatest priority, and is the last in line.
LEMMA WaitOrders ==
  ASSUME FlowInv, Wait, Current(Head(running.todo)) PROVE FlowInv'
<1> SUFFICES FlowInv'
  OBVIOUS
<1> DEFINE step == Head(running.todo)
<1> SUFFICES ASSUME NEW w, w = [task |-> Rest, dp |-> FindDp(step.at), flow |-> FlowOf(step)]
             PROVE  FlowInv'
  OBVIOUS
<1>1. /\ waiting' = Append(waiting, w) /\ ~Fails(step) /\ step.do = "send"
      /\ UNCHANGED <<datapaths, routePriority, routings, conn, live, sendq, table>>
  BY DEF Wait, ctlVars, netVars
<1>2. QueueTypes /\ Made(w.dp)
  BY <1>1, FindDpFinds DEF FlowInv, Fails
<1>3. /\ Ranked(w.flow) /\ Newest(w.flow)
      /\ \A h : IsRoute(w.flow, h) => w.flow.prio = routePriority /\ w.flow.nr = routings
  BY <1>2, FlowPriority DEF QueueTypes
<1>4. /\ IsSeq(waiting') /\ DOMAIN waiting' = 1..(Len(waiting) + 1)
      /\ DOMAIN waiting = 1..Len(waiting) /\ Len(waiting) \in Nat
      /\ waiting'[Len(waiting) + 1] = w
      /\ \A j \in DOMAIN waiting : j < Len(waiting) + 1 /\ waiting'[j] = waiting[j]
  BY <1>1, <1>2, AppendIsSeq, IsSeqLen DEF QueueTypes
<1>5. QueueTypes'
  <2>1. \A j \in DOMAIN waiting' : Made(waiting'[j].dp) /\ Ranked(waiting'[j].flow)
    BY <1>2, <1>3, <1>4 DEF QueueTypes
  <2>2. \A j \in DOMAIN waiting' : Made(waiting[j].dp)' /\ Ranked(waiting'[j].flow)
    BY <1>1, <2>1 DEF Made
  <2>3. \A i \in DOMAIN datapaths' : Made(datapaths[i])'
    BY <1>1, <1>2 DEF QueueTypes, Made
  <2> QED
    BY <1>1, <1>2, <1>4, <2>2, <2>3 DEF QueueTypes
<1>6. ASSUME NEW s \in Switches, NEW h \in Hosts
      PROVE  (QueueOrder(s, h) /\ HandOrder(s, h) /\ QueueFirst(s, h) /\ AllBetween(s, h))'
  <2>1. QueueOrder(s, h) /\ HandOrder(s, h) /\ QueueFirst(s, h) /\ AllBetween(s, h)
    BY DEF FlowInv, Ordered
  <2>2. \A j \in DOMAIN waiting' :
          \/ /\ j \in DOMAIN waiting /\ waiting'[j] = waiting[j]
             /\ InHand(j, s)' <=> InHand(j, s)
          \/ waiting'[j] = w /\ \A k \in DOMAIN waiting : k < j
    BY <1>1, <1>4 DEF InHand, IsOpen
  <2>3. Between(w.flow, s, h)
    BY <1>3, <2>1 DEF AllBetween, Between, Above, Newest
  <2>4. \A f : Between(f, s, h) => Before(f, w.flow, h)
    BY <1>3 DEF Between, Before, Above, Newest
  <2>5. HandOrder(s, h)'
    <3> SUFFICES ASSUME NEW i \in DOMAIN waiting', NEW j \in DOMAIN waiting',
                        i < j, InHand(i, s)', InHand(j, s)'
                 PROVE  Before(waiting'[i].flow, waiting'[j].flow, h)
      BY DEF HandOrder, Before, IsRoute
    <3>1. CASE waiting'[j] = w
      <4>1. CASE waiting'[i] = w
        BY <3>1, <4>1, <1>3 DEF Before, Above, Ranked
      <4>2. CASE waiting'[i] # w
        BY <3>1, <4>2, <2>1, <2>2, <2>4 DEF AllBetween
      <4> QED
        BY <4>1, <4>2
    <3>2. CASE waiting'[j] # w
      <4>1. j \in DOMAIN waiting /\ i \in DOMAIN waiting
        BY <3>2, <2>2, <1>4
      <4>2. waiting'[i] = waiting[i] /\ waiting'[j] = waiting[j]
        BY <4>1, <1>4
      <4>3. InHand(i, s) /\ InHand(j, s)
        BY <4>2, <1>1 DEF InHand, IsOpen
      <4> QED
        BY <4>1, <4>2, <4>3, <2>1 DEF HandOrder
    <3> QED
      BY <3>1, <3>2
  <2>6. QueueFirst(s, h)'
    BY <1>1, <2>1, <2>2, <2>4 DEF QueueFirst, AllBetween, Before, IsRoute
  <2>7. AllBetween(s, h)'
    BY <1>1, <2>1, <2>2, <2>3 DEF AllBetween, Between, IsRoute, Applied, Newest
  <2>8. QueueOrder(s, h)'
    BY <1>1, <2>1 DEF QueueOrder, Before, IsRoute
  <2> QED
    BY <2>5, <2>6, <2>7, <2>8
<1> QED
  BY <1>5, <1>6 DEF FlowInv, Ordered

\* The priority and the number of routings grow: all flows sent are older.
LEMMA CountersGrow ==
  ASSUME FlowInv, UNCHANGED <<datapaths, waiting, conn, live, sendq, table>>,
         routePriority' \in Nat, routePriority' >= routePriority,
         routings' \in Nat, routings' >= routings
  PROVE  FlowInv'
<1>1. /\ routePriority \in Nat /\ routePriority >= InitialRoutePriority /\ routings \in Nat
  BY DEF FlowInv, QueueTypes
<1>2. QueueTypes'
  BY <1>1 DEF FlowInv, QueueTypes, Made, InitialRoutePriority, IsSeq
<1>3. \A f : Ranked(f) /\ Newest(f) => Newest(f)'
  BY <1>1 DEF Ranked, Newest
<1> USE DEF InHand, IsOpen
<1>4. ASSUME NEW s \in Switches, NEW h \in Hosts
      PROVE  (QueueOrder(s, h) /\ HandOrder(s, h) /\ QueueFirst(s, h) /\ AllBetween(s, h))'
  <2>1. QueueOrder(s, h) /\ HandOrder(s, h) /\ QueueFirst(s, h) /\ AllBetween(s, h)
    BY DEF FlowInv, Ordered
  <2>2. \A f : Ranked(f) /\ Between(f, s, h) => Between(f, s, h)'
    BY <1>3 DEF Between, IsRoute, Applied, Above
  <2>3. \A i \in DOMAIN sendq'[s] : Between(sendq[s][i], s, h)'
    BY <2>1, <2>2 DEF AllBetween, FlowInv, QueueTypes
  <2>4. \A j \in DOMAIN waiting' : InHand(j, s)' => Between(waiting[j].flow, s, h)'
    BY <2>1, <2>2 DEF AllBetween, FlowInv, QueueTypes
  <2>5. Applied(s, h)' => Newest(table[s][h])'
    BY <1>3, <2>1 DEF AllBetween, Applied, FlowInv, QueueTypes
  <2>6. AllBetween(s, h)'
    BY <2>3, <2>4, <2>5 DEF AllBetween
  <2> QED
    BY <2>1, <2>6 DEF QueueOrder, HandOrder, QueueFirst, Before, IsRoute, Above
<1> QED
  BY <1>2, <1>4 DEF FlowInv, Ordered

LEMMA FinishUpdateOrders == FlowInv /\ FinishUpdate => FlowInv'
<1> SUFFICES ASSUME FlowInv, FinishUpdate PROVE FlowInv'
  OBVIOUS
<1>1. routePriority \in Nat /\ routings \in Nat
  BY DEF FlowInv, QueueTypes
<1> QED
  BY <1>1, CountersGrow DEF FinishUpdate, netVars, CountUp

\* A routing begins.
LEMMA UpdatePathOrders ==
  ASSUME FlowInv, NEW updating, UpdatePath(updating),
         UNCHANGED <<datapaths, routePriority, waiting, conn, live, sendq, table>>
  PROVE  FlowInv'
<1>1. routePriority \in Nat /\ routings \in Nat
  BY DEF FlowInv, QueueTypes
<1>2. routings' \in Nat /\ routings' >= routings
  BY <1>1 DEF UpdatePath, NextRouting, CountUp
<1> QED
  BY <1>1, <1>2, CountersGrow

\* A switch takes the first flow: what comes after is not below it.
LEMMA ApplyOrders == ASSUME FlowInv, NEW s \in Switches, Apply(s) PROVE FlowInv'
<1> SUFFICES ASSUME NEW f, f = Head(sendq[s]) PROVE FlowInv'
  OBVIOUS
<1>1. /\ sendq[s] # <<>> /\ sendq' = [sendq EXCEPT ![s] = Tail(@)]
      /\ table' = IF f.prio >= table[s][f.dst].prio
                  THEN [table EXCEPT ![s][f.dst] = [prio |-> f.prio, nr |-> f.nr, out |-> f.out]]
                  ELSE table
      /\ UNCHANGED <<datapaths, routePriority, routings, waiting, conn, live>>
  BY DEF Apply, ctlVars, taskVars
<1>2. QueueTypes
  BY DEF FlowInv
<1>3. /\ DOMAIN sendq' = Switches /\ sendq'[s] = Tail(sendq[s])
      /\ \A t \in Switches : t # s => sendq'[t] = sendq[t]
  BY <1>1, <1>2 DEF QueueTypes
<1>4. /\ IsSeq(sendq'[s]) /\ 1 \in DOMAIN sendq[s] /\ f = sendq[s][1]
      /\ DOMAIN sendq[s] = 1..Len(sendq[s]) /\ Len(sendq[s]) \in Nat
      /\ DOMAIN sendq'[s] = 1..(Len(sendq[s]) - 1)
      /\ \A i \in DOMAIN sendq'[s] : i + 1 \in DOMAIN sendq[s] /\ sendq'[s][i] = sendq[s][i + 1]
  BY <1>1, <1>2, <1>3, TailIsSeq, IsSeqLen DEF QueueTypes
<1>5. Ranked(f)
  BY <1>2, <1>4 DEF QueueTypes
<1>6. /\ DOMAIN table' = Switches
      /\ \A t \in Switches : DOMAIN table'[t] = Hosts \union {AnyHost}
      /\ \A t \in Switches, h \in Hosts :
           \/ table'[t][h] = table[t][h]
           \/ /\ t = s /\ f.dst = h
              /\ table'[t][h].prio = f.prio /\ table'[t][h].nr = f.nr
  BY <1>1, <1>2 DEF QueueTypes
<1>7. QueueTypes'
  <2>1. \A t \in Switches : /\ IsSeq(sendq'[t])
                            /\ \A i \in DOMAIN sendq'[t] : Ranked(sendq'[t][i])
    <3>1. \A i \in DOMAIN sendq'[s] : Ranked(sendq'[s][i])
      BY <1>2, <1>4 DEF QueueTypes
    <3> QED
      BY <1>2, <1>3, <1>4, <3>1 DEF QueueTypes
  <2>2. \A t \in Switches, h \in Hosts : Ranked(table'[t][h])
    BY <1>2, <1>5, <1>6 DEF QueueTypes, Ranked
  <2>3. /\ \A i \in DOMAIN datapaths' : Made(datapaths[i])'
        /\ \A j \in DOMAIN waiting' : Made(waiting[j].dp)' /\ Ranked(waiting'[j].flow)
    BY <1>1, <1>2 DEF QueueTypes, Made
  <2>4. IsSeq(waiting')
    BY <1>1, <1>2 DEF QueueTypes
  <2> QED
    BY <1>1, <1>2, <1>3, <1>6, <2>1, <2>2, <2>3, <2>4 DEF QueueTypes
<1>8. ASSUME NEW t \in Switches, NEW h \in Hosts
      PROVE  (QueueOrder(t, h) /\ HandOrder(t, h) /\ QueueFirst(t, h) /\ AllBetween(t, h))'
  <2>1. QueueOrder(t, h) /\ HandOrder(t, h) /\ QueueFirst(t, h) /\ AllBetween(t, h)
    BY DEF FlowInv, Ordered
  <2>2. \A j \in DOMAIN waiting : InHand(j, t)' <=> InHand(j, t)
    BY <1>1 DEF InHand, IsOpen
  <2>3. CASE t # s
    BY <1>1, <1>3, <1>6, <2>1, <2>2, <2>3
    DEF QueueOrder, HandOrder, QueueFirst, AllBetween, Before, Between, IsRoute, Applied, Newest
  <2>4. CASE t = s
    <3>1. \A i, j \in DOMAIN sendq'[s] : i < j => i + 1 < j + 1
      BY <1>4
    <3>2. QueueOrder(s, h)'
      BY <1>4, <2>1, <2>4, <3>1 DEF QueueOrder, Before, IsRoute
    <3>3. HandOrder(s, h)'
      BY <1>1, <2>1, <2>2, <2>4 DEF HandOrder, Before, IsRoute
    <3>4. QueueFirst(s, h)'
      BY <1>1, <1>4, <2>1, <2>2, <2>4 DEF QueueFirst, Before, IsRoute
    <3>5. /\ \A i \in DOMAIN sendq'[s] : /\ Before(f, sendq'[s][i], h)
                                         /\ Between(sendq'[s][i], s, h)
                                         /\ Ranked(sendq'[s][i])
          /\ \A j \in DOMAIN waiting :
               InHand(j, s) => Before(f, waiting[j].flow, h) /\ Between(waiting[j].flow, s, h)
      <4>1. \A i \in DOMAIN sendq'[s] : 1 < i + 1
        BY <1>4
      <4> QED
        BY <1>2, <1>4, <2>1, <2>4, <4>1 DEF QueueOrder, QueueFirst, AllBetween, QueueTypes
    <3>6. \A g : Ranked(g) /\ Before(f, g, h) /\ Between(g, s, h) => Between(g, s, h)'
      <4> SUFFICES ASSUME NEW g, Ranked(g), Before(f, g, h), Between(g, s, h), IsRoute(g, h)
                   PROVE  (Applied(s, h)' => Above(table'[s][h], g)) /\ Newest(g)
        BY <1>1 DEF Between, IsRoute, Newest, Applied
      <4>1. CASE table'[s][h] = table[s][h]
        BY <4>1 DEF Between, Applied
      <4>2. CASE f.dst = h /\ table'[s][h].prio = f.prio /\ table'[s][h].nr = f.nr
        BY <4>2 DEF Before, Between, IsRoute, Applied, Above
      <4> QED
        BY <1>6, <4>1, <4>2
    <3>7. Applied(s, h)' => Newest(table[s][h])'
      <4>1. Between(f, s, h)
        BY <1>4, <2>1, <2>4 DEF AllBetween
      <4> QED
        BY <1>1, <1>6, <2>1, <2>4, <4>1 DEF AllBetween, Between, IsRoute, Applied, Newest
    <3>8. AllBetween(s, h)'
      <4>1. \A i \in DOMAIN sendq'[s] : Between(sendq[s][i], s, h)'
        BY <3>5, <1>1, <3>6 DEF Between, IsRoute, Applied, Newest
      <4>2. \A j \in DOMAIN waiting' : InHand(j, s)' => Between(waiting[j].flow, s, h)'
        BY <1>1, <1>2, <2>2, <2>4, <3>5, <3>6 DEF QueueTypes, Between, IsRoute, Applied, Newest
      <4> QED
        BY <3>7, <4>1, <4>2 DEF AllBetween
    <3> QED
      BY <2>4, <3>2, <3>3, <3>4, <3>8
  <2> QED
    BY <2>3, <2>4
<1> QED
  BY <1>7, <1>8 DEF FlowInv, Ordered

\* A switch for which nothing is on its way any more.
LEMMA NothingComes ==
  ASSUME FlowInv, QueueTypes', NEW s \in Switches, UNCHANGED <<routePriority, routings, waiting>>,
         \A t \in Switches : t # s =>
           /\ sendq'[t] = sendq[t] /\ table'[t] = table[t]
           /\ \A j \in DOMAIN waiting : InHand(j, t)' <=> InHand(j, t),
         \A j \in DOMAIN waiting : ~InHand(j, s)',
         \A i \in DOMAIN sendq'[s] : \A h : ~IsRoute(sendq'[s][i], h),
         \A h \in Hosts : Applied(s, h)' => Newest(table[s][h])'
  PROVE  FlowInv'
<1>1. ASSUME NEW t \in Switches, NEW h \in Hosts
      PROVE  (QueueOrder(t, h) /\ HandOrder(t, h) /\ QueueFirst(t, h) /\ AllBetween(t, h))'
  <2>1. CASE t = s
    BY <2>1 DEF QueueOrder, HandOrder, QueueFirst, AllBetween, Before, Between, IsRoute
  <2>2. CASE t # s
    <3>1. QueueOrder(t, h) /\ HandOrder(t, h) /\ QueueFirst(t, h) /\ AllBetween(t, h)
      BY DEF FlowInv, Ordered
    <3> QED
      BY <2>2, <3>1 DEF QueueOrder, HandOrder, QueueFirst, AllBetween, Before, Between, IsRoute,
                        Applied, Newest
  <2> QED
    BY <2>1, <2>2
<1> QED
  BY <1>1 DEF FlowInv, Ordered

\* A new connection: nobody holds a flow for it yet.
LEMMA SwitchFeaturesOrders ==
  ASSUME FlowInv, NEW s \in Switches, SwitchFeatures(s) PROVE FlowInv'
<1> SUFFICES ASSUME NEW dp, dp = [sw |-> s, conn |-> conn[s] + 1],
                    NEW miss, miss = [dst |-> AnyHost, prio |-> 0, nr |-> 0, out |-> ToController]
             PROVE  FlowInv'
  OBVIOUS
<1>1. /\ s \notin live /\ live' = live \union {s} /\ conn' = [conn EXCEPT ![s] = @ + 1]
      /\ datapaths' = Append(datapaths, dp) /\ sendq' = [sendq EXCEPT ![s] = <<miss>>]
      /\ UNCHANGED <<routePriority, routings, waiting, table>>
  BY DEF SwitchFeatures, taskVars
<1>2. QueueTypes
  BY DEF FlowInv
<1>3. /\ conn' \in [Switches -> Nat] /\ conn'[s] = conn[s] + 1
      /\ \A t \in Switches : t # s => conn'[t] = conn[t]
      /\ \A t \in Switches : conn[t] \in Nat
  BY <1>1, <1>2 DEF QueueTypes
<1>4. /\ DOMAIN sendq' = Switches /\ sendq'[s] = <<miss>>
      /\ \A t \in Switches : t # s => sendq'[t] = sendq[t]
  BY <1>1, <1>2 DEF QueueTypes
<1>5. \A d : Made(d) => Made(d)'
  BY <1>3 DEF Made, Datapath
<1>6. dp \in Datapath /\ Made(dp)'
  BY <1>3 DEF Made, Datapath
<1>7. /\ datapaths' \in Seq(Datapath) /\ DOMAIN datapaths' = 1..Len(datapaths')
      /\ \A i \in DOMAIN datapaths' : \/ datapaths'[i] = dp
                                      \/ i \in DOMAIN datapaths /\ datapaths'[i] = datapaths[i]
  BY <1>1, <1>2, <1>6, AppendProperties, LenProperties DEF QueueTypes
<1>8. \A i \in DOMAIN datapaths' : Made(datapaths[i])'
  BY <1>2, <1>5, <1>6, <1>7 DEF QueueTypes
<1>9. /\ IsSeq(<<miss>>) /\ DOMAIN <<miss>> = {1} /\ <<miss>>[1] = miss
      /\ miss.prio = 0 /\ Ranked(miss)
  <2>1. <<miss>> \in Seq({miss}) /\ DOMAIN <<miss>> = {1} /\ <<miss>>[1] = miss
    OBVIOUS
  <2>2. miss.prio = 0 /\ Ranked(miss)
    BY DEF Ranked
  <2>3. IsSeq(<<miss>>)
    BY <2>1, SeqIsSeq
  <2> QED
    BY <2>1, <2>2, <2>3
<1>10. QueueTypes'
  <2>1. ASSUME NEW t \in Switches
        PROVE  IsSeq(sendq'[t]) /\ \A i \in DOMAIN sendq'[t] : Ranked(sendq'[t][i])
    <3>1. CASE t = s
      BY <1>4, <1>9, <3>1
    <3>2. CASE t # s
      <4>1. sendq'[t] = sendq[t]
        BY <1>4, <3>2
      <4>2. IsSeq(sendq[t]) /\ \A i \in DOMAIN sendq[t] : Ranked(sendq[t][i])
        BY <1>2 DEF QueueTypes
      <4> QED
        BY <4>1, <4>2
    <3> QED
      BY <3>1, <3>2
  <2>2. \A j \in DOMAIN waiting' : Made(waiting[j].dp)' /\ Ranked(waiting'[j].flow)
    BY <1>1, <1>2, <1>5 DEF QueueTypes, Made
  <2> QED
    BY <1>1, <1>2, <1>3, <1>4, <1>7, <1>8, <2>1, <2>2 DEF QueueTypes
<1>11. \A j \in DOMAIN waiting : ~InHand(j, s)'
  BY <1>1, <1>2, <1>3 DEF QueueTypes, Made, InHand, IsOpen
<1>12. \A t \in Switches : t # s => \A j \in DOMAIN waiting : InHand(j, t)' <=> InHand(j, t)
  BY <1>1, <1>3 DEF InHand, IsOpen
<1>13. \A h \in Hosts : Applied(s, h)' => Newest(table[s][h])'
  BY <1>1 DEF FlowInv, Ordered, AllBetween, Applied, Newest
<1>14. \A i \in DOMAIN sendq'[s] : \A h : ~IsRoute(sendq'[s][i], h)
  BY <1>4, <1>9 DEF IsRoute, InitialRoutePriority
<1> QED
  BY <1>1, <1>4, <1>10, <1>11, <1>12, <1>13, <1>14, NothingComes

\* A lost connection: what was on its way is lost too.
LEMMA LoseSwitchOrders ==
  ASSUME FlowInv, NEW s \in Switches, NEW restarts, LoseSwitch(s, restarts) PROVE FlowInv'
<1>1. /\ live' = live \ {s} /\ sendq' = [sendq EXCEPT ![s] = <<>>]
      /\ table' = IF restarts THEN [table EXCEPT ![s] = [h \in DOMAIN @ |-> NoFlow]] ELSE table
      /\ UNCHANGED <<datapaths, routePriority, routings, waiting, conn>>
  BY DEF LoseSwitch, ctlVars, taskVars
<1>2. QueueTypes
  BY DEF FlowInv
<1>3. /\ DOMAIN sendq' = Switches /\ sendq'[s] = <<>>
      /\ \A t \in Switches : t # s => sendq'[t] = sendq[t]
  BY <1>1, <1>2 DEF QueueTypes
<1>4. /\ DOMAIN table' = Switches
      /\ \A t \in Switches : DOMAIN table'[t] = Hosts \union {AnyHost}
      /\ \A t \in Switches : t # s => table'[t] = table[t]
      /\ \A h \in Hosts : table'[s][h] = table[s][h] \/ table'[s][h] = NoFlow
  <2>1. CASE restarts
    <3>1. table' = [table EXCEPT ![s] = [h \in DOMAIN @ |-> NoFlow]]
      BY <1>1, <2>1
    <3>2. table'[s] = [h \in DOMAIN table[s] |-> NoFlow]
      BY <1>2, <3>1 DEF QueueTypes
    <3> QED
      BY <1>2, <3>1, <3>2 DEF QueueTypes
  <2>2. CASE ~restarts
    BY <1>1, <1>2, <2>2 DEF QueueTypes
  <2> QED
    BY <2>1, <2>2
<1>5. IsSeq(<<>>) /\ DOMAIN <<>> = {}
  BY SeqIsSeq DEF IsSeq
<1>6. QueueTypes'
  <2>1. \A t \in Switches : /\ IsSeq(sendq'[t])
                            /\ \A i \in DOMAIN sendq'[t] : Ranked(sendq'[t][i])
    BY <1>2, <1>3, <1>5 DEF QueueTypes
  <2>2. /\ \A j \in DOMAIN waiting' : Made(waiting[j].dp)' /\ Ranked(waiting'[j].flow)
        /\ \A i \in DOMAIN datapaths' : Made(datapaths[i])'
    BY <1>1, <1>2 DEF QueueTypes, Made
  <2>3. \A t \in Switches, h \in Hosts : Ranked(table'[t][h])
    BY <1>2, <1>4 DEF QueueTypes, NoFlow, Ranked
  <2>4. IsSeq(waiting')
    BY <1>1, <1>2 DEF QueueTypes
  <2> QED
    BY <1>1, <1>2, <1>3, <1>4, <2>1, <2>2, <2>3, <2>4 DEF QueueTypes
<1>7. /\ \A j \in DOMAIN waiting : ~InHand(j, s)'
      /\ \A t \in Switches : t # s => \A j \in DOMAIN waiting : InHand(j, t)' <=> InHand(j, t)
  BY <1>1 DEF InHand, IsOpen
<1>8. \A h \in Hosts : Applied(s, h)' => Newest(table[s][h])'
  <2>1. \A h \in Hosts : Applied(s, h) => Newest(table[s][h])
    BY DEF FlowInv, Ordered, AllBetween
  <2> QED
    BY <1>1, <1>4, <2>1 DEF NoFlow, InitialRoutePriority, Applied, Newest
<1>9. \A i \in DOMAIN sendq'[s] : \A h : ~IsRoute(sendq'[s][i], h)
  BY <1>3, <1>5
<1> QED
  BY <1>1, <1>3, <1>4, <1>6, <1>7, <1>8, <1>9, NothingComes
-----------------------------------------------------------------------------
(* Updates do not overlap. *)

\* A task of an update is of the last routing, one of add_host_pair sends to
\* hosts only.
IsUpdate(task) == task.kind = "update"
OfNow(task) ==
  /\ IsUpdate(task) => task.nr = routings
  /\ ~IsUpdate(task) => task.todo = <<>> \/ task.todo \in Seq(HostStep)

\* There is a timer, or an update that runs or waits, or nothing.
NoTimer  == DOMAIN timers = {}
NoUpdate == ~IsUpdate(running) /\ \A j \in DOMAIN waiting : ~IsUpdate(waiting[j].task)
OneChain ==
  /\ \A i, j \in DOMAIN timers : i = j
  /\ OfNow(running) /\ \A j \in DOMAIN waiting : OfNow(waiting[j].task)
  /\ NoTimer \/ NoUpdate
  /\ \A j \in DOMAIN waiting : IsUpdate(waiting[j].task) =>
       /\ ~IsUpdate(running)
       /\ \A k \in DOMAIN waiting : IsUpdate(waiting[k].task) => j = k

ChainInv == MaxChains = 1 /\ TypeInv /\ FlowInv /\ OneChain

LEMMA CurrentStep ==
  ASSUME OneChain, running.todo # <<>> PROVE Current(Head(running.todo))
<1>1. CASE IsUpdate(running)
  BY <1>1 DEF OneChain, OfNow, Current
<1>2. CASE ~IsUpdate(running)
  <2>1. Head(running.todo) \in HostStep
    BY <1>2, HeadTailProperties DEF OneChain, OfNow
  <2> QED
    BY <2>1 DEF HostStep, SendStep, Current
<1> QED
  BY <1>1, <1>2

\* What starts updates finds none, nor a timer.
LEMMA UpdatePathChain ==
  ASSUME OneChain, NoUpdate, running = Idle, NEW updating, UpdatePath(updating),
         DOMAIN timers' = {}, UNCHANGED waiting
  PROVE  OneChain'
<1>1. \/ IsUpdate(running') /\ running'.nr = routings'
      \/ running' = Idle /\ routings' = routings
  <2>1. \/ running' = UpdateTask(Routes(updateTimes)) /\ routings' = NextRouting
        \/ running' = Idle /\ routings' = routings
    BY DEF UpdatePath
  <2>2. \A routes : UpdateTask(routes).kind = "update" /\ UpdateTask(routes).nr = NextRouting
    BY DEF UpdateTask
  <2> QED
    BY <2>1, <2>2 DEF IsUpdate
<1>2. OfNow(running)'
  BY <1>1 DEF OfNow, Idle, IsUpdate
<1>3. \A j \in DOMAIN waiting' : OfNow(waiting[j].task)' /\ ~IsUpdate(waiting'[j].task)
  BY DEF OneChain, NoUpdate, OfNow
<1> QED
  BY <1>2, <1>3 DEF OneChain, NoTimer

LEMMA BeginningChain == ChainInv /\ (PostDisaster \/ Firing) => OneChain'
<1> SUFFICES ASSUME ChainInv, PostDisaster \/ Firing PROVE OneChain'
  OBVIOUS
<1>1. /\ OneChain /\ Len(timers) \in Nat /\ DOMAIN timers = 1..Len(timers)
      /\ Len(waiting) \in Nat /\ DOMAIN waiting = 1..Len(waiting)
  BY SeqFacts, IsSeqLen DEF ChainInv, TypeInv, ControlTypeOK, FlowInv, QueueTypes
<1>2. CASE PostDisaster
  <2> DEFINE W == {i \in DOMAIN waiting : waiting[i].task.kind = "update"}
  <2>1. IsFiniteSet(W) /\ Cardinality(W) \in Nat
    <3>1. IsFiniteSet(1..Len(waiting))
      BY <1>1, FS_Interval
    <3>2. W \subseteq 1..Len(waiting)
      BY <1>1
    <3> QED
      BY <3>1, <3>2, FS_Subset, FS_CardinalityType
  <2>2. Len(timers) + Cardinality(W) < 1 /\ running = Idle /\ UpdatePath(TRUE)
        /\ UNCHANGED <<timers, waiting>>
    BY <1>2 DEF PostDisaster, Chains, ChainInv
  <2>3. Len(timers) = 0 /\ W = {}
    <3>1. Len(timers) = 0 /\ Cardinality(W) = 0
      BY <1>1, <2>1, <2>2
    <3> QED
      BY <2>1, <3>1, FS_EmptySet
  <2>4. NoUpdate /\ DOMAIN timers' = {}
    BY <1>1, <2>2, <2>3 DEF NoUpdate, IsUpdate, Idle
  <2> QED
    BY <1>1, <2>2, <2>4, UpdatePathChain
<1>3. ASSUME NEW i \in DOMAIN timers, TimerFires(i) PROVE OneChain'
  <2>1. NoUpdate /\ Len(timers) = 1
    BY <1>1 DEF OneChain, NoTimer
  <2>2. running = Idle /\ UpdatePath(isUpdating) /\ timers' = RemoveAt(timers, i) /\ UNCHANGED waiting
    BY <1>3 DEF TimerFires
  <2>3. IsSeq(timers)
    BY SeqIsSeq DEF ChainInv, TypeInv, ControlTypeOK
  <2>4. DOMAIN timers' = {}
    BY <2>1, <2>2, <2>3, RemoveAtIsSeq
  <2> QED
    BY <1>1, <2>1, <2>2, <2>4, UpdatePathChain
<1> QED
  BY <1>2, <1>3 DEF Firing

\* The rest of a task is of the same kind and number.
LEMMA RestChain ==
  ASSUME TaskInv, OfNow(running), running.todo # <<>>
  PROVE  OfNow(Rest) /\ (IsUpdate(Rest) <=> IsUpdate(running))
<1>1. running \in GoodTask
  BY DEF TaskInv, Idle
<1>2. Rest.kind = running.kind /\ Rest.nr = running.nr /\ Rest.todo = Tail(running.todo)
  BY <1>1 DEF Rest, GoodTask
<1>3. running.todo \in Seq(HostStep) => Tail(running.todo) \in Seq(HostStep)
  BY HeadTailProperties
<1> QED
  BY <1>2, <1>3 DEF OfNow, IsUpdate

LEMMA TaskStepChain == ChainInv /\ TaskStep => OneChain'
<1> SUFFICES ASSUME ChainInv, TaskStep PROVE OneChain'
  OBVIOUS
<1>1. OneChain /\ TaskInv /\ IsSeq(waiting)
  BY DEF ChainInv, TypeInv, FlowInv, QueueTypes
<1>2. OfNow(Idle)' /\ ~IsUpdate(Idle)
  BY DEF OfNow, IsUpdate, Idle
<1>3. UNCHANGED routings
  BY DEF TaskStep, TakeStep, Wait, Raise, FinishUpdate, FinishHosts
<1>4. CASE TakeStep
  <2>1. running' = Rest /\ running.todo # <<>> /\ UNCHANGED <<waiting, timers>>
    BY <1>4 DEF TakeStep, ctlVars
  <2>2. OfNow(running)' /\ (IsUpdate(running') <=> IsUpdate(running))
    BY <1>1, <1>3, <2>1, RestChain DEF OneChain, OfNow, IsUpdate
  <2> QED
    BY <1>1, <1>3, <2>1, <2>2 DEF OneChain, OfNow, NoTimer, NoUpdate
<1>5. CASE Wait
  <2>1. PICK w : /\ waiting' = Append(waiting, w) /\ w.task = Rest /\ running' = Idle
                 /\ running.todo # <<>> /\ UNCHANGED timers
    BY <1>5 DEF Wait, ctlVars
  <2>2. OfNow(w.task)' /\ (IsUpdate(w.task) <=> IsUpdate(running))
    BY <1>1, <1>3, <2>1, RestChain DEF OneChain, OfNow, IsUpdate
  <2>3. \A j \in DOMAIN waiting' :
          \/ j \in DOMAIN waiting /\ waiting'[j] = waiting[j]
          \/ j = Len(waiting) + 1 /\ waiting'[j] = w
    BY <1>1, <2>1, AppendIsSeq, IsSeqLen
  <2>4. \A j \in DOMAIN waiting' : OfNow(waiting[j].task)'
    BY <1>1, <1>3, <2>2, <2>3 DEF OneChain, OfNow
  <2>5. NoTimer' \/ NoUpdate'
    BY <1>1, <1>2, <2>1, <2>2, <2>3 DEF OneChain, NoTimer, NoUpdate
  <2>6. ASSUME NEW j \in DOMAIN waiting', IsUpdate(waiting'[j].task),
               NEW k \in DOMAIN waiting', IsUpdate(waiting'[k].task)
        PROVE  j = k
    BY <1>1, <2>2, <2>3, <2>6 DEF OneChain
  <2> QED
    BY <1>1, <1>2, <2>1, <2>4, <2>5, <2>6 DEF OneChain
<1>6. CASE Raise \/ FinishHosts
  <2>1. running' = Idle /\ UNCHANGED <<waiting, timers>>
    BY <1>6 DEF Raise, FinishHosts, ctlVars
  <2> QED
    BY <1>1, <1>2, <1>3, <2>1 DEF OneChain, OfNow, NoTimer, NoUpdate
<1>7. CASE FinishUpdate
  <2>1. /\ IsUpdate(running) /\ running' = Idle /\ UNCHANGED waiting
        /\ timers' = Append(timers, UpdateInterval)
    BY <1>7 DEF FinishUpdate, IsUpdate
  <2>2. NoTimer /\ NoUpdate'
    BY <1>1, <1>2, <2>1 DEF OneChain, NoUpdate
  <2>3. IsSeq(timers)
    BY SeqIsSeq DEF ChainInv, TypeInv, ControlTypeOK
  <2>4. \A i, j \in DOMAIN timers' : i = j
    BY <2>1, <2>2, <2>3, AppendIsSeq, IsSeqLen DEF NoTimer
  <2> QED
    BY <1>1, <1>2, <1>3, <2>1, <2>2, <2>4 DEF OneChain, OfNow, NoUpdate
<1> QED
  BY <1>4, <1>5, <1>6, <1>7 DEF TaskStep

LEMMA ResumingChain == ASSUME ChainInv, NEW i \in DOMAIN waiting, Resume(i) PROVE OneChain'
<1>1. OneChain /\ FlowInv /\ IsSeq(waiting)
  BY DEF ChainInv, FlowInv, QueueTypes
<1>2. /\ running' = waiting[i].task /\ waiting' = RemoveAt(waiting, i)
      /\ UNCHANGED <<routings, timers, conn, live, table>>
  BY DEF Resume, ctlVars
<1>3. /\ \A j \in DOMAIN waiting' : /\ Shift(i, j) \in DOMAIN waiting \ {i}
                                    /\ waiting'[j] = waiting[Shift(i, j)]
      /\ \A j, k \in DOMAIN waiting' : j < k => Shift(i, j) < Shift(i, k)
      /\ \A j \in DOMAIN waiting' : j \in Nat
  BY <1>1, <1>2, HandsShrink, IsSeqLen
<1>4. OfNow(running)' /\ \A j \in DOMAIN waiting' : OfNow(waiting[j].task)'
  BY <1>1, <1>2, <1>3 DEF OneChain, OfNow
<1>5. NoTimer' \/ NoUpdate'
  BY <1>1, <1>2, <1>3 DEF OneChain, NoTimer, NoUpdate
<1>6. \A j \in DOMAIN waiting' : IsUpdate(waiting'[j].task) => ~IsUpdate(running')
  BY <1>1, <1>2, <1>3 DEF OneChain
<1>7. ASSUME NEW j \in DOMAIN waiting', IsUpdate(waiting'[j].task),
             NEW k \in DOMAIN waiting', IsUpdate(waiting'[k].task)
      PROVE  j = k
  <2>1. \A m, n \in DOMAIN waiting : IsUpdate(waiting[m].task) /\ IsUpdate(waiting[n].task) => m = n
    BY <1>1 DEF OneChain
  <2>2. Shift(i, j) = Shift(i, k)
    BY <1>3, <1>7, <2>1
  <2>3. Shift(i, j) \in Nat /\ j \in Nat /\ k \in Nat
    BY <1>1, <1>3, IsSeqLen
  <2> QED
    BY <1>3, <2>2, <2>3
<1> QED
  BY <1>1, <1>2, <1>4, <1>5, <1>6, <1>7 DEF OneChain

\* The other actions.
LEMMA RegistrationChain == ChainInv /\ Registration => OneChain'
<1> SUFFICES ASSUME ChainInv, Registration PROVE OneChain'
  OBVIOUS
<1>1. OneChain
  BY DEF ChainInv
<1>2. ASSUME NEW p \in Pairs, PostHostPair(p[1], p[2]) PROVE OneChain'
  <2>1. p[1] \in Hosts /\ p[2] \in Hosts
    BY TopologyAssumption
  <2>2. \A c, v \in Hosts : HostsTask(c, v).todo \in Seq(HostStep) /\ ~IsUpdate(HostsTask(c, v))
    BY DEF HostsTask, HostStep, IsUpdate
  <2>3. /\ running = Idle /\ running' = HostsTask(p[1], p[2])
        /\ UNCHANGED <<routings, timers, waiting>>
    BY <1>2 DEF PostHostPair
  <2>4. OfNow(running)' /\ ~IsUpdate(running')
    BY <2>1, <2>2, <2>3 DEF OfNow
  <2> QED
    BY <1>1, <2>3, <2>4 DEF OneChain, OfNow, NoTimer, NoUpdate
<1>3. CASE UNCHANGED <<routings, timers, running, waiting>>
  BY <1>1, <1>3 DEF OneChain, OfNow, NoTimer, NoUpdate
<1> QED
  BY <1>2, <1>3 DEF Registration, PostLink, PutLink, PutHostClient, ctlVars, taskVars

LEMMA OneChainStep == ChainInv /\ [RunNext]_vars => OneChain'
<1> SUFFICES ASSUME ChainInv, [RunNext]_vars PROVE OneChain'
  OBVIOUS
<1>1. OneChain
  BY DEF ChainInv
<1>2. CASE Tick
  <2>1. DOMAIN timers' = DOMAIN timers /\ UNCHANGED <<routings, running, waiting>>
    BY <1>2 DEF Tick, taskVars
  <2> QED
    BY <1>1, <2>1 DEF OneChain, OfNow, NoTimer, NoUpdate
<1>3. CASE UNCHANGED <<routings, timers, running, waiting>>
  BY <1>1, <1>3 DEF OneChain, OfNow, NoTimer, NoUpdate
<1>4. CASE Applying \/ Noticing \/ Failing
  BY <1>3, <1>4 DEF Applying, Apply, Noticing, PortStatus, Failing, DeletePort, ctlVars, taskVars
<1>5. CASE Connecting \/ Losing
  BY <1>3, <1>5 DEF Connecting, SwitchFeatures, Losing, LoseSwitch, ctlVars, taskVars
<1>6. CASE Resuming
  BY <1>6, ResumingChain DEF Resuming
<1>7. CASE UNCHANGED vars
  BY <1>3, <1>7 DEF vars, ctlVars, taskVars
<1> QED
  BY <1>2, <1>4, <1>5, <1>6, <1>7, RegistrationChain, BeginningChain, TaskStepChain DEF RunNext
-----------------------------------------------------------------------------

LEMMA InitOrders == Init => FlowInv
<1> SUFFICES ASSUME Init PROVE FlowInv
  OBVIOUS
<1>1. IsSeq(<<>>) /\ DOMAIN <<>> = {}
  BY SeqIsSeq DEF IsSeq
<1>2. QueueTypes
  <2>1. /\ conn \in [Switches -> Nat] /\ routePriority \in Nat
        /\ routePriority >= InitialRoutePriority /\ routings \in Nat
    BY DEF Init, InitialRoutePriority
  <2>2. datapaths \in Seq(Datapath) /\ \A i \in DOMAIN datapaths : Made(datapaths[i])
    BY <1>1 DEF Init
  <2>3. IsSeq(waiting) /\ \A j \in DOMAIN waiting : Made(waiting[j].dp) /\ Ranked(waiting[j].flow)
    BY <1>1 DEF Init
  <2>4. /\ DOMAIN sendq = Switches
        /\ \A s \in Switches : IsSeq(sendq[s]) /\ \A i \in DOMAIN sendq[s] : Ranked(sendq[s][i])
    BY <1>1 DEF Init
  <2>5. /\ DOMAIN table = Switches
        /\ \A s \in Switches : /\ DOMAIN table[s] = Hosts \union {AnyHost}
                               /\ \A h \in Hosts : Ranked(table[s][h])
    BY DEF Init, NoFlow, Ranked
  <2> QED
    BY <2>1, <2>2, <2>3, <2>4, <2>5 DEF QueueTypes
<1>3. Ordered
  BY <1>1 DEF Init, Ordered, QueueOrder, HandOrder, QueueFirst, AllBetween, Applied, NoFlow,
            InitialRoutePriority
<1> QED
  BY <1>2, <1>3 DEF FlowInv

LEMMA RunNextOrders == ChainInv /\ [RunNext]_vars => FlowInv'
<1> SUFFICES ASSUME ChainInv, [RunNext]_vars PROVE FlowInv'
  OBVIOUS
<1> USE DEF ChainInv
<1>1. CASE Registration
  <2>1. UNCHANGED orderVars
    BY <1>1 DEF Registration, PostLink, PutLink, PostHostPair, PutHostClient, orderVars,
                ctlVars, taskVars, netVars
  <2> QED
    BY <2>1, Untouched
<1>2. CASE PostDisaster
  BY <1>2, UpdatePathOrders DEF PostDisaster, netVars
<1>3. CASE TaskStep
  <2>1. CASE TakeStep
    BY <2>1, TakeStepOrders, CurrentStep DEF TakeStep
  <2>2. CASE Wait
    BY <2>2, WaitOrders, CurrentStep DEF Wait
  <2>3. CASE Raise
    BY <2>3, Untouched DEF Raise, orderVars, ctlVars, netVars
  <2>4. CASE FinishUpdate
    BY <2>4, FinishUpdateOrders
  <2>5. CASE FinishHosts
    BY <2>5, Untouched DEF FinishHosts, orderVars, ctlVars, netVars
  <2> QED
    BY <1>3, <2>1, <2>2, <2>3, <2>4, <2>5 DEF TaskStep
<1>4. CASE Resuming
  BY <1>4, ResumeOrders DEF Resuming
<1>5. CASE Firing
  BY <1>5, UpdatePathOrders DEF Firing, TimerFires, netVars
<1>6. CASE Applying
  BY <1>6, ApplyOrders DEF Applying
<1>7. CASE Noticing
  BY <1>7, Untouched DEF Noticing, PortStatus, orderVars, taskVars
<1>8. CASE Failing
  BY <1>8, Untouched DEF Failing, DeletePort, orderVars, ctlVars, taskVars
<1>9. CASE Connecting
  BY <1>9, SwitchFeaturesOrders DEF Connecting
<1>10. CASE Losing
  BY <1>10, LoseSwitchOrders DEF Losing
<1>11. CASE Tick
  BY <1>11, Untouched DEF Tick, orderVars, taskVars, netVars
<1>12. CASE UNCHANGED vars
  BY <1>12, Untouched DEF vars, orderVars, ctlVars, taskVars, netVars
<1> QED
  BY <1>1, <1>2, <1>3, <1>4, <1>5, <1>6, <1>7, <1>8, <1>9, <1>10, <1>11, <1>12 DEF RunNext

\* The places count what is sent in the order of the invariant: the table, the
\* queue, the hands of those who wait.
LEMMA OrderedNewestWins == FlowInv => NewestWins
<1> SUFFICES ASSUME FlowInv, NEW s \in Switches, NEW h \in Hosts,
                    NEW x \in Sent(s, h), NEW y \in Sent(s, h), x[2].nr < y[2].nr
             PROVE  Overrules(y, x)
  BY DEF NewestWins
<1> DEFINE n == Len(sendq[s])
<1>1. /\ QueueOrder(s, h) /\ HandOrder(s, h) /\ QueueFirst(s, h) /\ AllBetween(s, h)
      /\ QueueTypes
  BY DEF FlowInv, Ordered
<1>2. /\ n \in Nat /\ DOMAIN sendq[s] = 1..n
      /\ Len(waiting) \in Nat /\ DOMAIN waiting = 1..Len(waiting)
  BY <1>1, IsSeqLen DEF QueueTypes
<1> DEFINE There(z) == z[1] = 0 /\ z[2] = table[s][h] /\ Applied(s, h)
           Queued(z, i) == /\ i \in DOMAIN sendq[s] /\ z[1] = i /\ z[2] = sendq[s][i]
                           /\ IsRoute(z[2], h)
           Held(z, j) == /\ j \in DOMAIN waiting /\ InHand(j, s)
                         /\ z[1] = n + j /\ z[2] = waiting[j].flow /\ IsRoute(z[2], h)
           Placed(z) == There(z) \/ (\E i : Queued(z, i)) \/ (\E j : Held(z, j))
<1>3. \A z \in Sent(s, h) : Placed(z) /\ z[1] \in Nat /\ Ranked(z[2])
  <2>1. \A z \in Sent(s, h) : Placed(z)
    BY DEF Sent, IsRoute, InHand, Applied
  <2>2. \A z : There(z) => z[1] \in Nat /\ Ranked(z[2])
    BY <1>1 DEF QueueTypes
  <2>3. \A z, i : Queued(z, i) => z[1] \in Nat /\ Ranked(z[2])
    BY <1>1, <1>2 DEF QueueTypes
  <2>4. \A z, j : Held(z, j) => z[1] \in Nat /\ Ranked(z[2])
    BY <1>1, <1>2 DEF QueueTypes
  <2> HIDE DEF There, Queued, Held
  <2> QED
    BY <2>1, <2>2, <2>3, <2>4
<1>4. ASSUME NEW u, NEW v, Placed(u), Placed(v), u[1] < v[1] PROVE Above(u[2], v[2])
  <2>1. ASSUME There(u), NEW i, Queued(v, i) PROVE Above(u[2], v[2])
    BY <1>1, <2>1 DEF AllBetween, Between
  <2>2. ASSUME There(u), NEW j, Held(v, j) PROVE Above(u[2], v[2])
    BY <1>1, <2>2 DEF AllBetween, Between
  <2>3. ASSUME NEW i, Queued(u, i), NEW j, Queued(v, j) PROVE Above(u[2], v[2])
    BY <1>1, <1>4, <2>3 DEF QueueOrder, Before
  <2>4. ASSUME NEW i, Queued(u, i), NEW j, Held(v, j) PROVE Above(u[2], v[2])
    BY <1>1, <2>4 DEF QueueFirst, Before
  <2>5. ASSUME NEW i, Held(u, i), NEW j, Held(v, j) PROVE Above(u[2], v[2])
    <3>1. i < j
      BY <1>2, <1>4, <2>5
    <3> QED
      BY <1>1, <2>5, <3>1 DEF HandOrder, Before
  <2>6. ~There(v) /\ ~(\E i, j : Held(u, i) /\ Queued(v, j))
    <3>1. \A i, j : Held(u, i) => ~Queued(v, j)
      BY <1>2, <1>4
    <3>2. (\A i : Queued(u, i) => u[1] > 0) /\ (\A j : Held(u, j) => u[1] > 0)
      BY <1>2
    <3>3. There(v) => FALSE
      BY <1>4, <3>2
    <3> QED
      BY <3>1, <3>3
  <2> HIDE DEF There, Queued, Held
  <2> QED
    BY <1>4, <2>1, <2>2, <2>3, <2>4, <2>5, <2>6
<1>5. ASSUME x[1] = y[1] PROVE x[2] = y[2]
  <2>1. \A i : Queued(x, i) => i = x[1] /\ x[1] > 0 /\ x[1] <= n
    BY <1>2
  <2>2. \A i : Queued(y, i) => i = y[1] /\ y[1] > 0 /\ y[1] <= n
    BY <1>2
  <2>3. \A j : Held(x, j) => j = x[1] - n /\ x[1] > n
    BY <1>2
  <2>4. \A j : Held(y, j) => j = y[1] - n /\ y[1] > n
    BY <1>2
  <2> QED
    BY <1>2, <1>3, <1>5, <2>1, <2>2, <2>3, <2>4
<1> HIDE DEF Placed
<1>6. Placed(x) /\ Placed(y) /\ x[1] \in Nat /\ y[1] \in Nat /\ Ranked(x[2]) /\ Ranked(y[2])
  BY <1>3
<1>7. ~(y[1] < x[1])
  BY <1>4, <1>6 DEF Above, Ranked
<1>8. x[1] < y[1]
  BY <1>5, <1>6, <1>7 DEF Ranked
<1> QED
  BY <1>4, <1>6, <1>8 DEF Above, Ranked, Overrules

LEMMA ChainInvInit == MaxChains = 1 /\ Init => ChainInv
<1> SUFFICES ASSUME MaxChains = 1, Init PROVE ChainInv
  OBVIOUS
<1>1. DOMAIN timers = {} /\ DOMAIN waiting = {} /\ running = Idle
  BY DEF Init
<1>2. OneChain
  BY <1>1 DEF OneChain, OfNow, IsUpdate, NoTimer, Idle
<1> QED
  BY <1>2, InitTypeInv, InitOrders DEF ChainInv

LEMMA ChainInvStep == ChainInv /\ [RunNext]_vars => ChainInv'
  BY TypeInvStep, RunNextOrders, OneChainStep DEF ChainInv, Next

\* NewestWins, between two PUT /init, for every network and every length of
\* queues, if a POST /disaster finds no updates going on: whoever waits, fails
\* or is lost, at every switch a flow of a later routing overrules those of an
\* earlier one (__route_priority, send_msg).  PUT /init starts the priorities
\* again, while the switches keep what they have; it needs a new network.
THEOREM NewestWinsInRuns == MaxChains = 1 /\ RunSpec => []NewestWins
<1>1. ChainInv => NewestWins
  BY OrderedNewestWins DEF ChainInv
<1> QED
  BY <1>1, ChainInvInit, ChainInvStep, PTL DEF RunSpec
-----------------------------------------------------------------------------
(* NoGhostLink. *)

\* What the controller has no part in: a link is registered while it has both
\* ports, a switch that loses a port is connected and tells of it, and does not
\* take that along when its connection is lost.
Told ==
  /\ \A w \in Wires : ~Linked(w) /\ Linked(w)' => \A e \in LinkPorts : {e[1], e[2]} = w => e \in up
  /\ \A e \in up \ up' : e[1] \in live
  /\ \A s \in live \ live' : notices[s] = <<>>

GhostInv == PortInv /\ ControlTypeOK /\ NoGhostLink

\* What a sequence holds after Append and Tail.
LEMMA AppendHolds ==
  ASSUME NEW S, NEW q \in Seq(S), NEW x \in S
  PROVE  ToSet(Append(q, x)) = ToSet(q) \union {x}
<1>1. /\ Len(q) \in Nat /\ DOMAIN q = 1..Len(q)
      /\ DOMAIN Append(q, x) = 1..(Len(q) + 1) /\ Append(q, x)[Len(q) + 1] = x
      /\ \A i \in 1..Len(q) : Append(q, x)[i] = q[i]
  BY SeqIsSeq, AppendIsSeq, IsSeqLen
<1>2. \A i \in 1..(Len(q) + 1) : i = Len(q) + 1 \/ i \in 1..Len(q)
  BY <1>1
<1>3. Len(q) + 1 \in 1..(Len(q) + 1) /\ 1..Len(q) \subseteq 1..(Len(q) + 1)
  BY <1>1
<1> QED
  BY <1>1, <1>2, <1>3 DEF ToSet

LEMMA TailHolds ==
  ASSUME NEW S, NEW q \in Seq(S), q # <<>>, NEW x \in ToSet(q), x # Head(q)
  PROVE  x \in ToSet(Tail(q))
<1>1. PICK i \in DOMAIN q : q[i] = x
  BY DEF ToSet
<1>2. /\ Len(q) \in Nat /\ DOMAIN q = 1..Len(q) /\ Head(q) = q[1]
      /\ DOMAIN Tail(q) = 1..(Len(q) - 1)
      /\ \A j \in 1..(Len(q) - 1) : Tail(q)[j] = q[j + 1]
  BY HeadTailProperties, LenProperties
<1>3. i - 1 \in 1..(Len(q) - 1) /\ (i - 1) + 1 = i
  BY <1>1, <1>2
<1>4. Tail(q)[i - 1] = x
  BY <1>1, <1>2, <1>3
<1> QED
  BY <1>2, <1>3, <1>4 DEF ToSet

\* The two ends of a link of the controller.
LEMMA LinkIsWired ==
  ASSUME links \subseteq Link, NEW l \in links, NEW s \in l.ends, NEW t \in l.ends, s # t
  PROVE  /\ l.ends = {s, t} /\ l.ends \in Wires /\ <<s, t>> \in LinkPorts
         /\ <<s, t>> \in DOMAIN Port /\ s \in Switches /\ t \in Switches
<1>1. l.ends \in Wires
  BY DEF Link
<1>2. l.ends = {s, t} /\ s \in Switches /\ t \in Switches
  BY <1>1, TopologyAssumption
<1> QED
  BY <1>1, <1>2, WiringAssumption DEF LinkPorts

\* Steps that make no port, send no notice and forget none.
LEMMA StaysTold ==
  ASSUME GhostInv, \A l \in links' : \E k \in links : k.ends = l.ends, UNCHANGED <<up, notices>>
  PROVE  NoGhostLink'
  BY DEF GhostInv, NoGhostLink

LEMMA PostLinkTold ==
  ASSUME GhostInv, Told, NEW w \in Wires, NEW bw \in Bandwidths, PostLink(w, bw)
  PROVE  NoGhostLink'
<1>1. /\ links' = IF Linked(w) THEN links
                  ELSE links \union {[ends |-> w, bw |-> bw, failAt |-> Unknown]}
      /\ UNCHANGED <<up, notices>>
  BY DEF PostLink, AddLink, netVars
<1>2. CASE Linked(w)
  BY <1>1, <1>2 DEF GhostInv, NoGhostLink
<1>3. CASE ~Linked(w)
  <2>1. Linked(w)'
    <3>1. [ends |-> w, bw |-> bw, failAt |-> Unknown] \in links'
      BY <1>1, <1>3
    <3> QED
      BY <3>1 DEF Linked
  <2>2. \A e \in LinkPorts : {e[1], e[2]} = w => e \in up
    BY <1>3, <2>1 DEF Told
  <2>3. ASSUME NEW s \in w, NEW t \in w, s # t PROVE <<s, t>> \in up
    <3>1. w = {s, t} /\ <<s, t>> \in LinkPorts
      <4>1. s \in Switches /\ t \in Switches /\ w = {s, t}
        BY <2>3, TopologyAssumption
      <4> QED
        BY <4>1 DEF LinkPorts
    <3> QED
      BY <2>2, <3>1
  <2> QED
    BY <1>1, <1>3, <2>3 DEF GhostInv, NoGhostLink
<1> QED
  BY <1>2, <1>3

\* A notice is forgotten with the link it is about.
LEMMA PortStatusTold ==
  ASSUME GhostInv, NEW sw \in Switches, PortStatus(sw)
  PROVE  NoGhostLink'
<1> DEFINE gone == {e \in portTo : e.sw = sw /\ e.port = Head(notices[sw])}
<1>1. /\ links' = {l \in links : \A e \in gone : l.ends # {sw, e.to}}
      /\ notices' = [notices EXCEPT ![sw] = Tail(@)] /\ notices[sw] # <<>> /\ up' = up
  BY DEF PortStatus
<1> SUFFICES ASSUME NEW l \in links', NEW s \in l.ends, NEW t \in l.ends, s # t, <<s, t>> \notin up
             PROVE  Port[<<s, t>>] \in ToSet(notices'[s])
  BY <1>1 DEF NoGhostLink
<1>2. l \in links /\ links \subseteq Link
  BY <1>1 DEF GhostInv, PortInv
<1>3. l.ends = {s, t} /\ s \in Switches
  BY <1>2, LinkIsWired
<1>4. Port[<<s, t>>] \in ToSet(notices[s])
  BY <1>2 DEF GhostInv, NoGhostLink
<1>5. notices \in [Switches -> Seq(Nat)]
  BY DEF GhostInv, ControlTypeOK
<1>6. CASE s # sw
  BY <1>1, <1>3, <1>4, <1>5, <1>6
<1>7. CASE s = sw
  <2>1. PICK e \in portTo : e.sw = s /\ e.to = t
    BY <1>2 DEF GhostInv, PortInv, LinkHasPorts, PortsTo
  <2>2. e.port = Port[<<s, t>>]
    BY <2>1 DEF GhostInv, PortInv, PortsAreWired
  <2>3. Port[<<s, t>>] # Head(notices[s])
    BY <1>1, <1>3, <1>7, <2>1, <2>2
  <2>4. notices[s] \in Seq(Nat) /\ notices[s] # <<>>
    BY <1>1, <1>5, <1>7
  <2>5. Port[<<s, t>>] \in ToSet(Tail(notices[s]))
    BY <1>4, <2>3, <2>4, TailHolds
  <2> QED
    BY <1>1, <1>5, <1>7, <2>5
<1> QED
  BY <1>6, <1>7

\* A port goes, and a notice comes.
LEMMA DeletePortTold ==
  ASSUME GhostInv, Told, NEW x, NEW y, <<x, y>> \in LinkPorts, DeletePort(x, y)
  PROVE  NoGhostLink'
<1>1. x \in Switches /\ y \in Switches /\ notices \in [Switches -> Seq(Nat)]
  BY DEF LinkPorts, GhostInv, ControlTypeOK
<1>2. <<x, y>> \in up /\ up' = up \ {<<x, y>>} /\ links' = links
  BY DEF DeletePort, calcVars
<1>3. x \in live
  <2>1. <<x, y>> \in up \ up'
    BY <1>2
  <2> QED
    BY <2>1 DEF Told
<1>4. notices' = [notices EXCEPT ![x] = Append(@, Port[<<x, y>>])]
  BY <1>3 DEF DeletePort
<1>5. <<x, y>> \in DOMAIN Port /\ Port[<<x, y>>] \in Nat
  <2>1. {x, y} \in Wires
    BY DEF LinkPorts
  <2> QED
    BY <2>1, TopologyAssumption, WiringAssumption
<1> DEFINE p == Port[<<x, y>>]
<1>6. ToSet(notices'[x]) = ToSet(notices[x]) \union {p}
  <2>1. notices[x] \in Seq(Nat) /\ notices'[x] = Append(notices[x], p)
    BY <1>1, <1>4
  <2> QED
    BY <1>5, <2>1, AppendHolds
<1>7. \A s \in Switches : s # x => notices'[s] = notices[s]
  BY <1>1, <1>4
<1>8. ASSUME NEW l \in links, NEW s \in l.ends, NEW t \in l.ends, s # t, <<s, t>> \notin up'
      PROVE  Port[<<s, t>>] \in ToSet(notices'[s])
  <2>1. s \in Switches
    BY <1>8, LinkIsWired DEF GhostInv, PortInv
  <2>2. CASE <<s, t>> = <<x, y>>
    BY <1>6, <2>2
  <2>3. CASE <<s, t>> # <<x, y>>
    <3>1. Port[<<s, t>>] \in ToSet(notices[s])
      BY <1>2, <1>8, <2>3 DEF GhostInv, NoGhostLink
    <3> QED
      BY <1>6, <1>7, <2>1, <3>1
  <2> QED
    BY <2>2, <2>3
<1> QED
  BY <1>2, <1>8 DEF NoGhostLink

LEMMA GhostInvStep == ASSUME GhostInv, Told, [Next]_vars PROVE GhostInv'
<1>1. PortInv' /\ ControlTypeOK'
  BY PortInvStep, ControlTypesStep DEF GhostInv
<1> SUFFICES NoGhostLink'
  BY <1>1 DEF GhostInv
<1>2. CASE PutInit
  BY <1>2 DEF PutInit, CalcReset, NoGhostLink
<1>3. CASE Registration
  <2>1. ASSUME NEW w \in Wires, NEW bw \in Bandwidths, PostLink(w, bw) PROVE NoGhostLink'
    BY <2>1, PostLinkTold
  <2>2. ASSUME NEW w \in Wires, NEW t \in FailTimes, PutLink(w, t) PROVE NoGhostLink'
    <3>1. /\ links' = {IF l.ends = w THEN [l EXCEPT !.failAt = t] ELSE l : l \in links}
          /\ UNCHANGED <<up, notices>>
      BY <2>2 DEF PutLink, RegisterLinkFailTime, netVars
    <3>2. \A l \in links : [l EXCEPT !.failAt = t].ends = l.ends
      BY DEF GhostInv, PortInv, Link
    <3> QED
      BY <3>1, <3>2, StaysTold
  <2>3. ASSUME NEW c, NEW v, PostHostPair(c, v) PROVE NoGhostLink'
    BY <2>3, StaysTold DEF PostHostPair, AddHostPair, netVars
  <2>4. ASSUME NEW h, NEW t, NEW n, PutHostClient(h, t, n) PROVE NoGhostLink'
    BY <2>4, StaysTold DEF PutHostClient, UpdateHostClient, netVars
  <2> QED
    BY <1>3, <2>1, <2>2, <2>3, <2>4 DEF Registration
<1>4. CASE PostDisaster
  BY <1>4, StaysTold DEF PostDisaster, calcVars, netVars
<1>5. CASE TaskStep
  BY <1>5, StaysTold DEF TaskStep, TakeStep, Wait, Raise, FinishUpdate, FinishHosts, calcVars, netVars
<1>6. CASE Resuming \/ Firing
  BY <1>6, StaysTold DEF Resuming, Resume, Firing, TimerFires, calcVars, netVars
<1>7. CASE Applying
  BY <1>7, StaysTold DEF Applying, Apply, calcVars
<1>8. CASE Noticing
  BY <1>8, PortStatusTold DEF Noticing
<1>9. CASE Failing
  <2>1. PICK e \in LinkPorts : DeletePort(e[1], e[2])
    BY <1>9 DEF Failing
  <2>2. <<e[1], e[2]>> \in LinkPorts
    BY DEF LinkPorts
  <2> QED
    BY <2>1, <2>2, DeletePortTold
<1>10. CASE Connecting \/ Tick
  BY <1>10, StaysTold DEF Connecting, SwitchFeatures, AddSwitch, Tick, calcVars, netVars
<1>11. ASSUME NEW s \in Switches, NEW restarts, LoseSwitch(s, restarts) PROVE NoGhostLink'
  <2>1. s \in live \ live' /\ links' = links /\ up' = up
    BY <1>11 DEF LoseSwitch, calcVars
  <2>2. notices[s] = <<>> /\ notices \in [Switches -> Seq(Nat)]
    BY <2>1 DEF Told, GhostInv, ControlTypeOK
  <2>3. PICK n \in 0..Len(notices[s]) : notices' = [notices EXCEPT ![s] = SubSeq(@, 1, n)]
    BY <1>11 DEF LoseSwitch
  <2>4. n = 0 /\ SubSeq(<<>>, 1, 0) = <<>>
    BY <2>2, <2>3
  <2>5. notices' = notices
    BY <2>2, <2>3, <2>4
  <2> QED
    BY <2>1, <2>5, StaysTold
<1>12. CASE UNCHANGED vars
  BY <1>12, StaysTold DEF vars, calcVars, netVars
<1> QED
  BY <1>2, <1>3, <1>4, <1>5, <1>6, <1>7, <1>8, <1>9, <1>10, <1>11, <1>12
  DEF Next, RunNext, Losing

\* As long as the network tells the controller what it loses, no link survives
\* its ports in the controller for longer than the notice takes: the handler
\* finds the link of every port, whichever of the two ends comes first, and
\* whatever is registered in between (port_status_handler, add_link, init).
THEOREM TellingLeavesNoGhost == Spec /\ [][Told]_vars => []NoGhostLink
<1>1. Init => GhostInv
  BY PortInvInit, InitTypes DEF GhostInv, NoGhostLink, Init, CalcInit
<1>2. GhostInv /\ [Next]_vars /\ [Told]_vars => GhostInv'
  <2> SUFFICES ASSUME GhostInv, [Next]_vars, [Told]_vars PROVE GhostInv'
    OBVIOUS
  <2>1. CASE Told
    BY <2>1, GhostInvStep
  <2>2. CASE UNCHANGED vars
    <3>1. PortInv' /\ ControlTypeOK'
      BY PortInvStep, ControlTypesStep DEF GhostInv
    <3>2. NoGhostLink'
      BY <2>2, StaysTold DEF vars, calcVars, netVars
    <3> QED
      BY <3>1, <3>2 DEF GhostInv
  <2> QED
    BY <2>1, <2>2
<1>3. GhostInv => NoGhostLink
  BY DEF GhostInv
<1> QED
  BY <1>1, <1>2, <1>3, PTL DEF Spec
-----------------------------------------------------------------------------
(* UpdatesGoOn, for every network and whatever happens to it.  The run     *)
(* updates_stop shows that a chain of updates can end; here is that it     *)
(* does so in three ways only: the calculation raises; an update waits for *)
(* a queue, and meanwhile a port is forgotten; or it waits, and meanwhile  *)
(* everything is reset.                                                    *)

\* An update waits for a queue.
UpdateWaits == \E i \in DOMAIN waiting : waiting[i].task.kind = "update"

\* None of the three happens.
Undisturbed ==
  /\ isUpdating /\ Firing => ~CalcRaises
  /\ UpdateWaits => ~PutInit /\ portTo \subseteq portTo'

\* Nothing that is left to do of an update fails; so it starts the next timer.
\* There are pairs for it then, as there were, and the datapath of a switch
\* is forgotten only with the switch.
Able(q) == IsSeq(q) /\ \A i \in DOMAIN q : ~Fails(q[i])
AbleUpdate(t) == t.kind = "update" => hostPairs # <<>> /\ Able(t.todo)
NoneWaits == \A i \in DOMAIN waiting : waiting[i].task.kind # "update"
OffInv ==
  ~isUpdating => /\ updateTimes = 0 /\ routePriority = InitialRoutePriority
                 /\ running.kind # "update" /\ ~UpdateWaits
OnInv ==
  updateTimes > 0 => /\ hostPairs # <<>>
                     /\ isUpdating => running.kind = "update" \/ timers # <<>> \/ UpdateWaits
GoOnInv ==
  /\ TypeInv /\ PortInv /\ IpInv
  /\ \A s \in ToSet(switches) : KnownDp(s)
  /\ AbleUpdate(running)
  /\ \A i \in DOMAIN waiting : AbleUpdate(waiting[i].task)
  /\ OffInv /\ OnInv

\* What was registered for a step of a route may not be forgotten.
LEMMA StillAble ==
  ASSUME NEW q, Able(q), hostIp \subseteq hostIp', portTo \subseteq portTo',
         \A s : KnownDp(s) => KnownDp(s)'
  PROVE  Able(q)'
<1>1. \A s, x : PortsTo(s, x) \subseteq PortsTo(s, x)'
  BY DEF PortsTo
<1>2. ASSUME NEW x, ~Fails(x) PROVE ~Fails(x)'
  BY <1>1, <1>2 DEF Fails
<1> QED
  BY <1>2 DEF Able, IsSeq

\* What remains of such a sequence.
LEMMA RestIsAble ==
  ASSUME NEW q, Able(q), q # <<>>
  PROVE  Able(Tail(q)) /\ ~Fails(Head(q))
BY TailIsSeq DEF Able

\* The flows of a route computed now can be sent.
LEMMA RoutesAreAble ==
  ASSUME CalcTypeOK, PortInv, IpInv, ~CalcRaises,
         \A s \in ToSet(switches) : KnownDp(s), NEW nth \in Nat
  PROVE  UpdateTask(Routes(nth)).kind = "update" /\ Able(UpdateTask(Routes(nth)).todo)
<1>1. hostPairs \in Seq(Addressed) /\ links \subseteq Link /\ LinkHasPorts
  BY DEF IpInv, PortInv
<1>2. \A i \in DOMAIN hostPairs : hostPairs[i] \in Addressed
  BY <1>1, ElementOfSeq, LenProperties
<1> DEFINE W == Ways(ToSet(switches), Known(links))
           S == RouteStep(ToSet(hostPairs), W)
           t == UpdateTask(Routes(nth))
<1>3. t \in [kind : {"update"}, nr : {NextRouting}, todo : Seq(S)]
  BY UpdateFor
<1>4. ASSUME NEW x \in S PROVE ~Fails(x)
  <2>1. CASE \E p \in ToSet(hostPairs) : x = ResolveStep(p.client, p.server)
    <3>1. PICK p \in ToSet(hostPairs) : x = ResolveStep(p.client, p.server)
      BY <2>1
    <3>2. x.do = "resolve" /\ x.hosts = {p.client, p.server}
      BY <3>1 DEF ResolveStep
    <3>3. p \in Addressed
      BY <1>2 DEF ToSet
    <3> QED
      BY <3>2, <3>3 DEF Fails, Addressed
  <2>2. CASE \E e \in W, h \in Hosts : x = SendStep(e[1], e[2], h)
    <3>1. PICK e \in W, h \in Hosts : x = SendStep(e[1], e[2], h)
      BY <2>2
    <3>2. x.do = "send" /\ x.at = e[1] /\ x.to = e[2]
      BY <3>1 DEF SendStep
    <3>3. e[1] \in ToSet(switches) /\ {e[1], e[2]} \in Known(links)
      BY DEF Ways
    <3>4. PICK l \in links : l.ends = {e[1], e[2]}
      BY <3>3 DEF Known
    <3>5. e[1] # e[2]
      <4>1. {e[1], e[2]} \in Wires
        BY <1>1, <3>4 DEF Link
      <4>2. PICK a \in Switches, b \in Switches : a # b /\ {e[1], e[2]} = {a, b}
        BY <4>1, TopologyAssumption
      <4> QED
        BY <4>2
    <3>6. PortsTo(e[1], e[2]) # {}
      BY <1>1, <3>4, <3>5 DEF LinkHasPorts
    <3>7. KnownDp(e[1])
      BY <3>3
    <3> QED
      BY <3>2, <3>6, <3>7 DEF Fails
  <2> QED
    BY <2>1, <2>2 DEF RouteStep
<1> HIDE DEF S, t
<1>5. Able(t.todo)
  <2>1. t.todo \in Seq(S)
    BY <1>3
  <2>2. IsSeq(t.todo) /\ \A i \in DOMAIN t.todo : t.todo[i] \in S
    BY <2>1, SeqIsSeq, ElementOfSeq, LenProperties
  <2> QED
    BY <1>4, <2>2 DEF Able
<1> QED
  BY <1>3, <1>5 DEF t

\* An update that begins is able to end.
LEMMA UpdatePathIsAble ==
  ASSUME GoOnInv, NEW updating, UpdatePath(updating)
  PROVE  /\ running'.kind = "update" => hostPairs # <<>> /\ Able(running'.todo)
         /\ updating /\ hostPairs # <<>> /\ ~CalcRaises => running'.kind = "update"
<1>1. updateTimes \in Nat /\ routings \in Nat
  BY TimeAssumption DEF GoOnInv, TypeInv, ControlTypeOK
<1>2. CASE updating /\ ~CalcRaises /\ hostPairs # <<>>
  <2> DEFINE t == UpdateTask(Routes(updateTimes))
  <2>1. t.kind = "update" /\ Able(t.todo)
    BY <1>1, <1>2, RoutesAreAble DEF GoOnInv, TypeInv
  <2>2. running' = t
    BY <1>2 DEF UpdatePath
  <2> HIDE DEF t
  <2> QED
    BY <1>2, <2>1, <2>2
<1>3. CASE ~(updating /\ ~CalcRaises /\ hostPairs # <<>>)
  <2>1. running' = Idle
    BY <1>3 DEF UpdatePath
  <2> QED
    BY <1>3, <2>1 DEF Idle
<1> QED
  BY <1>2, <1>3

LEMMA AppendMakesMore == ASSUME NEW q, IsSeq(q), NEW x PROVE Append(q, x) # <<>>
<1>1. Len(q) \in Nat /\ DOMAIN Append(q, x) = 1..(Len(q) + 1)
  BY AppendIsSeq, IsSeqLen
<1>2. 1 \in DOMAIN Append(q, x)
  BY <1>1
<1> QED
  BY <1>2

LEMMA IdleIsNoUpdate == Idle.kind # "update" /\ AbleUpdate(Idle)
BY DEF Idle, AbleUpdate

\* Steps outside the task that runs: they forget nothing a waiting update needs.
LEMMA StillGoesOn ==
  ASSUME GoOnInv, (TypeInv /\ PortInv /\ IpInv)',
         UNCHANGED <<isUpdating, updateTimes, routePriority, waiting>>,
         hostIp \subseteq hostIp', UpdateWaits => portTo \subseteq portTo',
         \A s : KnownDp(s) => KnownDp(s)', \A s \in ToSet(switches') : KnownDp(s)',
         hostPairs # <<>> => hostPairs' # <<>>, timers # <<>> => timers' # <<>>,
         \/ running = Idle /\ running'.kind # "update"
         \/ UNCHANGED <<running, portTo>>
  PROVE  GoOnInv'
<1>1. ASSUME NEW t, AbleUpdate(t), portTo \subseteq portTo' PROVE AbleUpdate(t)'
  <2> SUFFICES ASSUME t.kind = "update" PROVE hostPairs' # <<>> /\ Able(t.todo)'
    BY DEF AbleUpdate
  <2>1. hostPairs # <<>> /\ Able(t.todo)
    BY <1>1 DEF AbleUpdate
  <2>2. \A q : Able(q) => Able(q)'
    BY <1>1, StillAble
  <2> QED
    BY <2>1, <2>2
<1>2. \A i \in DOMAIN waiting' : AbleUpdate(waiting[i].task)'
  <2> SUFFICES ASSUME NEW i \in DOMAIN waiting' PROVE AbleUpdate(waiting[i].task)'
    OBVIOUS
  <2>1. CASE waiting[i].task.kind = "update"
    <3>1. AbleUpdate(waiting[i].task) /\ portTo \subseteq portTo'
      BY <2>1 DEF GoOnInv, UpdateWaits
    <3> QED
      BY <1>1, <3>1
  <2>2. CASE waiting[i].task.kind # "update"
    BY <2>2 DEF AbleUpdate
  <2> QED
    BY <2>1, <2>2
<1>3. AbleUpdate(running)'
  <2>1. CASE running'.kind # "update"
    BY <2>1 DEF AbleUpdate
  <2>2. CASE UNCHANGED <<running, portTo>>
    BY <1>1, <2>2 DEF GoOnInv
  <2> QED
    BY <2>1, <2>2
<1>4. UpdateWaits' <=> UpdateWaits
  BY DEF UpdateWaits
<1>5. running'.kind = "update" <=> running.kind = "update"
  BY IdleIsNoUpdate
<1>6. OffInv' /\ OnInv'
  BY <1>4, <1>5 DEF GoOnInv, OffInv, OnInv
<1> QED
  BY <1>2, <1>3, <1>6 DEF GoOnInv

\* PUT /init, while no update waits.
LEMMA PutInitGoesOn ==
  ASSUME GoOnInv, (TypeInv /\ PortInv /\ IpInv)', PutInit, ~UpdateWaits
  PROVE  GoOnInv'
<1>1. /\ running = Idle /\ isUpdating' = FALSE /\ updateTimes' = 0
      /\ routePriority' = InitialRoutePriority /\ switches' = <<>>
      /\ UNCHANGED <<running, waiting>>
  BY DEF PutInit, CalcReset, taskVars
<1>2. ~UpdateWaits' /\ \A i \in DOMAIN waiting' : AbleUpdate(waiting[i].task)'
  BY <1>1 DEF UpdateWaits, AbleUpdate
<1>3. ToSet(switches') = {}
  BY <1>1 DEF ToSet
<1>4. AbleUpdate(running)' /\ running'.kind # "update"
  BY <1>1, IdleIsNoUpdate DEF AbleUpdate
<1>5. OffInv' /\ OnInv'
  BY <1>1, <1>2, <1>4 DEF OffInv, OnInv
<1> QED
  BY <1>2, <1>3, <1>4, <1>5 DEF GoOnInv

\* The other requests but POST /disaster.
LEMMA RegistrationGoesOn ==
  ASSUME GoOnInv, (TypeInv /\ PortInv /\ IpInv)', Registration, UpdateWaits => portTo \subseteq portTo'
  PROVE  GoOnInv'
<1>1. /\ UNCHANGED <<isUpdating, updateTimes, routePriority, waiting, datapaths, switches, timers>>
      /\ hostIp \subseteq hostIp' /\ running = Idle /\ running'.kind # "update"
  <2>1. \A p \in Pairs : HostsTask(p[1], p[2]).kind # "update"
    BY DEF HostsTask
  <2> QED
    BY <2>1, IdleIsNoUpdate
       DEF Registration, PostLink, AddLink, PutLink, RegisterLinkFailTime, PostHostPair, AddHostPair,
           PutHostClient, UpdateHostClient, ctlVars, taskVars
<1>2. hostPairs # <<>> => hostPairs' # <<>>
  <2>1. IsSeq(hostPairs) /\ hostPairs \in Seq(HostPair)
    BY SeqIsSeq DEF GoOnInv, TypeInv, CalcTypeOK
  <2>2. ASSUME NEW p \in Pairs, PostHostPair(p[1], p[2]) PROVE hostPairs' # <<>>
    BY <2>1, <2>2, AppendMakesMore DEF PostHostPair, AddHostPair
  <2>3. ASSUME NEW h \in Hosts, NEW t \in ClientFailTimes, NEW size \in DataSizes, PutHostClient(h, t, size)
        PROVE  hostPairs' # <<>>
    <3> DEFINE first == SelectInSeq(hostPairs, LAMBDA p : p.client = h)
    <3>1. /\ h \in {hostPairs[i].client : i \in DOMAIN hostPairs}
          /\ hostPairs' = Append(RemoveAt(hostPairs, first),
                                 [hostPairs[first] EXCEPT !.failAt = t, !.size = size])
      BY <2>3 DEF PutHostClient, UpdateHostClient
    <3>2. first \in DOMAIN hostPairs
      <4>1. DOMAIN hostPairs = 1..Len(hostPairs) /\ Len(hostPairs) \in Nat
        BY <2>1, LenProperties
      <4>2. \E k \in 1..Len(hostPairs) : hostPairs[k].client = h
        BY <3>1, <4>1
      <4>3. first = Min({k \in 1..Len(hostPairs) : hostPairs[k].client = h})
        BY <4>2 DEF SelectInSeq
      <4> QED
        BY <2>1, <4>1, <4>2, <4>3, FirstOfClient
    <3> HIDE DEF first
    <3>3. IsSeq(RemoveAt(hostPairs, first))
      BY <2>1, <3>2, RemoveAtIsSeq
    <3> QED
      BY <3>1, <3>3, AppendMakesMore
  <2>4. CASE (\E w \in Wires, bw \in Bandwidths : PostLink(w, bw)) \/ \E w \in Wires, t \in FailTimes : PutLink(w, t)
    BY <2>4 DEF PostLink, AddLink, PutLink, RegisterLinkFailTime
  <2> QED
    BY <2>2, <2>3, <2>4 DEF Registration
<1>3. \A s : KnownDp(s)' <=> KnownDp(s)
  BY <1>1 DEF KnownDp
<1>4. \A s \in ToSet(switches') : KnownDp(s)'
  BY <1>1, <1>3 DEF GoOnInv
<1> QED
  BY <1>1, <1>2, <1>3, <1>4, StillGoesOn

\* A switch that connects gets a datapath.
LEMMA ConnectingGoesOn ==
  ASSUME GoOnInv, (TypeInv /\ PortInv /\ IpInv)', NEW s \in Switches, SwitchFeatures(s)
  PROVE  GoOnInv'
<1> DEFINE d == [sw |-> s, conn |-> conn[s] + 1]
<1>1. /\ switches' = Append(switches, s) /\ datapaths' = Append(datapaths, d)
      /\ UNCHANGED <<isUpdating, updateTimes, routePriority, waiting, timers, running, portTo, hostIp, hostPairs>>
  BY DEF SwitchFeatures, AddSwitch, taskVars
<1>2. d.sw = s
  OBVIOUS
<1> HIDE DEF d
<1>3. IsSeq(switches) /\ IsSeq(datapaths)
  BY SeqIsSeq DEF GoOnInv, TypeInv, CalcTypeOK, ControlTypeOK
<1>4. /\ Len(datapaths) + 1 \in DOMAIN datapaths' /\ datapaths'[Len(datapaths) + 1] = d
      /\ \A i \in DOMAIN datapaths : i \in DOMAIN datapaths' /\ datapaths'[i] = datapaths[i]
  BY <1>1, <1>3, AppendIsSeq, IsSeqLen
<1>5. KnownDp(s)' /\ \A x : KnownDp(x) => KnownDp(x)'
  BY <1>2, <1>4 DEF KnownDp
<1>6. ToSet(switches') \subseteq ToSet(switches) \union {s}
  <2>1. ASSUME NEW i \in DOMAIN switches' PROVE switches'[i] \in ToSet(switches) \union {s}
    <3>1. /\ Len(switches) \in Nat /\ DOMAIN switches = 1..Len(switches)
          /\ DOMAIN switches' = 1..(Len(switches) + 1) /\ switches'[Len(switches) + 1] = s
          /\ \A k \in DOMAIN switches : switches'[k] = switches[k]
      BY <1>1, <1>3, AppendIsSeq, IsSeqLen
    <3>2. i \in DOMAIN switches \/ i = Len(switches) + 1
      BY <3>1
    <3> QED
      BY <3>1, <3>2 DEF ToSet
  <2> QED
    BY <2>1 DEF ToSet
<1>7. \A x \in ToSet(switches') : KnownDp(x)'
  BY <1>5, <1>6 DEF GoOnInv
<1> QED
  BY <1>1, <1>5, <1>7, StillGoesOn

\* The network, notices and time.
LEMMA NetworkGoesOn ==
  ASSUME GoOnInv, (TypeInv /\ PortInv /\ IpInv)', UpdateWaits => portTo \subseteq portTo',
         Applying \/ Noticing \/ Failing \/ Losing \/ Tick
  PROVE  GoOnInv'
<1>1. /\ UNCHANGED <<isUpdating, updateTimes, routePriority, waiting, datapaths, switches, running,
                     hostIp, hostPairs>>
      /\ running = Idle
  BY DEF Applying, Apply, Noticing, PortStatus, Failing, DeletePort, Losing, LoseSwitch, Tick,
         calcVars, ctlVars, taskVars
<1>2. timers # <<>> => timers' # <<>>
  <2>1. CASE Tick
    <3>1. DOMAIN timers' = DOMAIN timers
      BY <2>1 DEF Tick
    <3>2. IsSeq(timers)
      BY SeqIsSeq DEF GoOnInv, TypeInv, ControlTypeOK
    <3> QED
      BY <3>1, <3>2, TailIsSeq
  <2>2. CASE Applying \/ Noticing \/ Failing \/ Losing
    BY <2>2 DEF Applying, Apply, Noticing, PortStatus, Failing, DeletePort, Losing, LoseSwitch, ctlVars
  <2> QED
    BY <2>1, <2>2
<1>3. \A s : KnownDp(s)' <=> KnownDp(s)
  BY <1>1 DEF KnownDp
<1>4. \A s \in ToSet(switches') : KnownDp(s)'
  BY <1>1, <1>3 DEF GoOnInv
<1> QED
  BY <1>1, <1>2, <1>3, <1>4, IdleIsNoUpdate, StillGoesOn

\* An update that begins goes on until it starts the next timer.
LEMMA BeginningGoesOn ==
  ASSUME GoOnInv, (TypeInv /\ PortInv /\ IpInv)', NEW updating, UpdatePath(updating), updating \in BOOLEAN,
         isUpdating' = updating, ~updating => ~isUpdating, running = Idle,
         UNCHANGED <<switches, hostPairs, datapaths, portTo, hostIp, updateTimes, routePriority, waiting>>,
         \/ running'.kind = "update"
         \/ updateTimes > 0 /\ updating => timers' # <<>> \/ UpdateWaits
  PROVE  GoOnInv'
<1>1. \A x : Fails(x)' <=> Fails(x)
  BY DEF Fails, PortsTo, KnownDp
<1>2. \A q : Able(q) => Able(q)'
  BY <1>1 DEF Able, IsSeq
<1>3. \A s \in ToSet(switches') : KnownDp(s)'
  BY DEF GoOnInv, KnownDp
<1>4. AbleUpdate(running)'
  <2>1. running'.kind = "update" => hostPairs # <<>> /\ Able(running'.todo)
    BY UpdatePathIsAble
  <2> QED
    BY <1>1, <2>1 DEF AbleUpdate, Able, IsSeq
<1>5. \A i \in DOMAIN waiting' : AbleUpdate(waiting[i].task)'
  BY <1>2 DEF GoOnInv, AbleUpdate
<1>6. UpdateWaits' <=> UpdateWaits
  BY DEF UpdateWaits
<1>7. ~updating => running' = Idle
  BY DEF UpdatePath
<1>8. OffInv' /\ OnInv'
  BY <1>6, <1>7, IdleIsNoUpdate DEF GoOnInv, OffInv, OnInv
<1> QED
  BY <1>3, <1>4, <1>5, <1>8 DEF GoOnInv

LEMMA DisasterGoesOn ==
  ASSUME GoOnInv, (TypeInv /\ PortInv /\ IpInv)', PostDisaster
  PROVE  GoOnInv'
<1>1. /\ UpdatePath(TRUE) /\ isUpdating' = TRUE /\ running = Idle
      /\ UNCHANGED <<switches, hostPairs, datapaths, portTo, hostIp, updateTimes, routePriority, waiting, timers>>
  BY DEF PostDisaster, calcVars
<1>2. updateTimes > 0 => isUpdating
  BY DEF GoOnInv, OffInv
<1>3. updateTimes > 0 => timers' # <<>> \/ UpdateWaits
  BY <1>1, <1>2, IdleIsNoUpdate DEF GoOnInv, OnInv
<1> QED
  BY <1>1, <1>3, BeginningGoesOn

LEMMA FiringGoesOn ==
  ASSUME GoOnInv, (TypeInv /\ PortInv /\ IpInv)', Firing, isUpdating => ~CalcRaises
  PROVE  GoOnInv'
<1>1. /\ UpdatePath(isUpdating) /\ running = Idle
      /\ UNCHANGED <<switches, hostPairs, datapaths, portTo, hostIp, updateTimes, routePriority, waiting, isUpdating>>
  BY DEF Firing, TimerFires, calcVars
<1>2. isUpdating \in BOOLEAN
  BY DEF GoOnInv, TypeInv, ControlTypeOK
<1>3. updateTimes > 0 /\ isUpdating => running'.kind = "update"
  BY <1>1, <1>2, UpdatePathIsAble DEF GoOnInv, OnInv
<1> QED
  BY <1>1, <1>2, <1>3, BeginningGoesOn

\* A task waits with its rest, and goes on with it.
LEMMA RestOfUpdate ==
  ASSUME GoOnInv, running \in GoodTask
  PROVE  Rest.kind = running.kind /\ Rest.todo = Tail(running.todo)
         /\ (running.todo # <<>> => AbleUpdate(Rest))
<1>1. Rest.kind = running.kind /\ Rest.todo = Tail(running.todo)
  BY DEF GoodTask, Rest
<1>2. AbleUpdate(running)
  BY DEF GoOnInv
<1> QED
  BY <1>1, <1>2, RestIsAble DEF AbleUpdate

LEMMA TaskStepGoesOn ==
  ASSUME GoOnInv, (TypeInv /\ PortInv /\ IpInv)', TaskStep
  PROVE  GoOnInv'
<1>1. UNCHANGED <<hostPairs, isUpdating, switches, datapaths, hostIp, portTo>>
  BY DEF TaskStep, TakeStep, Wait, Raise, FinishUpdate, FinishHosts, calcVars, ctlVars
<1>2. running \in GoodTask
  <2>1. running \in GoodTask \union {Idle}
    BY DEF GoOnInv, TypeInv, TaskInv
  <2>2. running # Idle
    BY DEF Idle, TaskStep, TakeStep, Wait, Raise, FinishUpdate, FinishHosts
  <2> QED
    BY <2>1, <2>2
<1>3. \A s \in ToSet(switches') : KnownDp(s)'
  BY <1>1 DEF GoOnInv, KnownDp
<1>4. ASSUME NEW t, AbleUpdate(t) PROVE AbleUpdate(t)'
  <2>1. \A x : Fails(x)' <=> Fails(x)
    BY <1>1 DEF Fails, PortsTo, KnownDp
  <2> QED
    BY <1>1, <1>4, <2>1 DEF AbleUpdate, Able, IsSeq
<1>5. IsSeq(waiting) /\ IsSeq(timers)
  BY SeqIsSeq DEF GoOnInv, TypeInv, TaskInv, ControlTypeOK
<1>6. /\ Rest.kind = running.kind /\ Rest.todo = Tail(running.todo)
      /\ running.todo # <<>> => AbleUpdate(Rest)
  BY <1>2, RestOfUpdate
<1>7. /\ AbleUpdate(running) /\ \A i \in DOMAIN waiting : AbleUpdate(waiting[i].task)
      /\ OffInv /\ OnInv
  BY DEF GoOnInv
<1>8. ASSUME UNCHANGED waiting
      PROVE  (UpdateWaits' <=> UpdateWaits) /\ \A i \in DOMAIN waiting' : AbleUpdate(waiting[i].task)'
  BY <1>4, <1>7, <1>8 DEF UpdateWaits
<1>9. CASE TakeStep
  <2>1. running' = Rest /\ running.todo # <<>> /\ UNCHANGED <<waiting, timers, updateTimes, routePriority>>
    BY <1>9 DEF TakeStep, ctlVars
  <2>2. AbleUpdate(running)' /\ running'.kind = running.kind
    BY <1>4, <1>6, <2>1
  <2>3. OffInv' /\ OnInv'
    BY <1>1, <1>7, <1>8, <2>1, <2>2 DEF OffInv, OnInv
  <2> QED
    BY <1>3, <1>8, <2>1, <2>2, <2>3 DEF GoOnInv
<1>10. CASE Wait
  <2> DEFINE step == Head(running.todo)
             w == [task |-> Rest, dp |-> FindDp(step.at), flow |-> FlowOf(step)]
  <2>1. /\ running' = Idle /\ waiting' = Append(waiting, w) /\ running.todo # <<>>
        /\ UNCHANGED <<timers, updateTimes, routePriority>>
    BY <1>10 DEF Wait, ctlVars
  <2>2. w.task = Rest
    OBVIOUS
  <2> HIDE DEF w
  <2>3. /\ DOMAIN waiting = 1..Len(waiting) /\ Len(waiting) \in Nat
        /\ DOMAIN waiting' = 1..(Len(waiting) + 1)
        /\ waiting'[Len(waiting) + 1] = w
        /\ \A i \in DOMAIN waiting : waiting'[i] = waiting[i]
    BY <1>5, <2>1, AppendIsSeq, IsSeqLen
  <2>4. /\ Len(waiting) + 1 \in DOMAIN waiting' /\ \A i \in DOMAIN waiting : i \in DOMAIN waiting'
        /\ \A i \in DOMAIN waiting' : i \in DOMAIN waiting \/ i = Len(waiting) + 1
    BY <2>3
  <2>5. UpdateWaits' <=> UpdateWaits \/ running.kind = "update"
    BY <1>6, <2>2, <2>3, <2>4 DEF UpdateWaits
  <2>6. \A i \in DOMAIN waiting' : AbleUpdate(waiting[i].task)'
    <3>1. \A i \in DOMAIN waiting' : AbleUpdate(waiting'[i].task)
      BY <1>6, <1>7, <2>1, <2>2, <2>3, <2>4
    <3> QED
      BY <1>4, <3>1
  <2>7. OffInv' /\ OnInv'
    BY <1>1, <1>7, <2>1, <2>5, IdleIsNoUpdate DEF OffInv, OnInv
  <2> QED
    BY <1>3, <1>4, <2>1, <2>6, <2>7, IdleIsNoUpdate DEF GoOnInv
<1>11. CASE Raise
  <2>1. /\ running' = Idle /\ running.todo # <<>> /\ Fails(Head(running.todo))
        /\ UNCHANGED <<waiting, timers, updateTimes, routePriority>>
    BY <1>11 DEF Raise, ctlVars
  <2>2. running.kind # "update"
    BY <1>7, <2>1, RestIsAble DEF AbleUpdate
  <2>3. OffInv' /\ OnInv'
    BY <1>1, <1>7, <1>8, <2>1, <2>2, IdleIsNoUpdate DEF OffInv, OnInv
  <2> QED
    BY <1>3, <1>4, <1>8, <2>1, <2>3, IdleIsNoUpdate DEF GoOnInv
<1>12. CASE FinishUpdate
  <2>1. /\ running' = Idle /\ running.kind = "update" /\ timers' = Append(timers, UpdateInterval)
        /\ UNCHANGED waiting
    BY <1>12 DEF FinishUpdate
  <2>2. timers' # <<>> /\ hostPairs # <<>> /\ isUpdating
    BY <1>5, <1>7, <2>1, AppendMakesMore DEF AbleUpdate, OffInv, GoOnInv, TypeInv, ControlTypeOK
  <2>3. OffInv' /\ OnInv'
    BY <1>1, <2>2 DEF OffInv, OnInv
  <2> QED
    BY <1>3, <1>4, <1>8, <2>1, <2>3, IdleIsNoUpdate DEF GoOnInv
<1>13. CASE FinishHosts
  <2>1. /\ running' = Idle /\ running.kind # "update"
        /\ UNCHANGED <<waiting, timers, updateTimes, routePriority>>
    BY <1>13 DEF FinishHosts, ctlVars
  <2>2. OffInv' /\ OnInv'
    BY <1>1, <1>7, <1>8, <2>1, IdleIsNoUpdate DEF OffInv, OnInv
  <2> QED
    BY <1>3, <1>4, <1>8, <2>1, <2>2, IdleIsNoUpdate DEF GoOnInv
<1> QED
  BY <1>9, <1>10, <1>11, <1>12, <1>13 DEF TaskStep

\* What is not removed is still there.
LEMMA RemoveAtKeeps ==
  ASSUME NEW q, IsSeq(q), NEW i \in DOMAIN q
  PROVE  \A j \in DOMAIN q \ {i} : \E k \in DOMAIN RemoveAt(q, i) : RemoveAt(q, i)[k] = q[j]
<1> SUFFICES ASSUME NEW j \in DOMAIN q \ {i}
             PROVE  \E k \in DOMAIN RemoveAt(q, i) : RemoveAt(q, i)[k] = q[j]
  OBVIOUS
<1> DEFINE k == IF j < i THEN j ELSE j - 1
<1>1. DOMAIN q = 1..Len(q) /\ Len(q) \in Nat
  BY IsSeqLen
<1>2. k \in 1..(Len(q) - 1) /\ Shift(i, k) = j
  BY <1>1 DEF Shift
<1>3. k \in DOMAIN RemoveAt(q, i) /\ RemoveAt(q, i)[k] = q[j]
  BY <1>2, RemoveAtIsSeq
<1> QED
  BY <1>3

LEMMA ResumingGoesOn ==
  ASSUME GoOnInv, (TypeInv /\ PortInv /\ IpInv)', Resuming
  PROVE  GoOnInv'
<1>1. PICK i \in DOMAIN waiting : Resume(i)
  BY DEF Resuming
<1>2. /\ running = Idle /\ running' = waiting[i].task /\ waiting' = RemoveAt(waiting, i)
      /\ UNCHANGED <<hostPairs, isUpdating, switches, datapaths, hostIp, portTo,
                     timers, updateTimes, routePriority>>
  BY <1>1 DEF Resume, calcVars, ctlVars
<1>3. \A s \in ToSet(switches') : KnownDp(s)'
  BY <1>2 DEF GoOnInv, KnownDp
<1>4. ASSUME NEW t, AbleUpdate(t) PROVE AbleUpdate(t)'
  <2>1. \A x : Fails(x)' <=> Fails(x)
    BY <1>2 DEF Fails, PortsTo, KnownDp
  <2> QED
    BY <1>2, <1>4, <2>1 DEF AbleUpdate, Able, IsSeq
<1>5. \A k \in DOMAIN waiting : AbleUpdate(waiting[k].task)
  BY DEF GoOnInv
<1>6. \A k \in DOMAIN waiting' : \E j \in DOMAIN waiting : waiting'[k] = waiting[j]
  <2>1. IsSeq(waiting)
    BY SeqIsSeq DEF GoOnInv, TypeInv, TaskInv
  <2>2. \A k \in DOMAIN waiting' : Shift(i, k) \in DOMAIN waiting /\ waiting'[k] = waiting[Shift(i, k)]
    BY <1>2, <2>1, RemoveAtIsSeq
  <2> QED
    BY <2>2
<1>7. AbleUpdate(running)' /\ \A k \in DOMAIN waiting' : AbleUpdate(waiting[k].task)'
  <2>1. AbleUpdate(running') /\ \A k \in DOMAIN waiting' : AbleUpdate(waiting'[k].task)
    BY <1>2, <1>5, <1>6
  <2> QED
    BY <1>4, <2>1
<1>8. /\ UpdateWaits' => UpdateWaits
      /\ running'.kind = "update" => UpdateWaits
      /\ UpdateWaits => UpdateWaits' \/ running'.kind = "update"
  <2>1. IsSeq(waiting)
    BY SeqIsSeq DEF GoOnInv, TypeInv, TaskInv
  <2>2. \A j \in DOMAIN waiting \ {i} : \E k \in DOMAIN waiting' : waiting'[k] = waiting[j]
    BY <1>2, <2>1, RemoveAtKeeps
  <2> QED
    BY <1>2, <1>6, <2>2 DEF UpdateWaits
<1>9. OffInv' /\ OnInv'
  BY <1>2, <1>8, IdleIsNoUpdate DEF GoOnInv, OffInv, OnInv
<1> QED
  BY <1>3, <1>7, <1>9 DEF GoOnInv

LEMMA GoOnInvInit == Init => GoOnInv
<1> SUFFICES ASSUME Init PROVE GoOnInv
  OBVIOUS
<1>1. TypeInv /\ PortInv
  BY InitTypeInv, PortInvInit
<1>2. IpInv
  BY EmptySeq DEF Init, CalcInit, IpInv
<1>3. /\ running = Idle /\ waiting = <<>> /\ switches = <<>>
      /\ updateTimes = 0 /\ routePriority = InitialRoutePriority
  BY DEF Init, CalcInit
<1> QED
  BY <1>1, <1>2, <1>3, IdleIsNoUpdate DEF GoOnInv, OffInv, OnInv, UpdateWaits, ToSet

LEMMA StutterGoesOn == ASSUME GoOnInv, UNCHANGED vars PROVE GoOnInv'
<1>1. (TypeInv /\ PortInv /\ IpInv)'
  BY TypeInvStep, PortInvStep, IpInvStep DEF GoOnInv
<1>2. UNCHANGED <<isUpdating, updateTimes, routePriority, waiting, timers, running, datapaths, portTo,
                  switches, hostIp, hostPairs>>
  BY DEF vars, calcVars, ctlVars, taskVars
<1>3. \A s : KnownDp(s)' <=> KnownDp(s)
  BY <1>2 DEF KnownDp
<1>4. \A s \in ToSet(switches') : KnownDp(s)'
  BY <1>2, <1>3 DEF GoOnInv
<1> QED
  BY <1>1, <1>2, <1>3, <1>4, StillGoesOn

LEMMA GoOnInvStep == ASSUME GoOnInv, Undisturbed, Next PROVE GoOnInv'
<1>1. (TypeInv /\ PortInv /\ IpInv)'
  BY TypeInvStep, PortInvStep, IpInvStep DEF GoOnInv
<1>2. UpdateWaits => ~PutInit /\ portTo \subseteq portTo'
  BY DEF Undisturbed
<1>3. CASE PutInit
  BY <1>1, <1>2, <1>3, PutInitGoesOn
<1>4. CASE Registration
  BY <1>1, <1>2, <1>4, RegistrationGoesOn
<1>5. CASE PostDisaster
  BY <1>1, <1>5, DisasterGoesOn
<1>6. CASE Firing
  BY <1>1, <1>6, FiringGoesOn DEF Undisturbed
<1>7. CASE TaskStep \/ Resuming
  BY <1>1, <1>7, TaskStepGoesOn, ResumingGoesOn
<1>8. CASE Connecting
  BY <1>1, <1>8, ConnectingGoesOn DEF Connecting
<1>9. CASE Applying \/ Noticing \/ Failing \/ Losing \/ Tick
  BY <1>1, <1>2, <1>9, NetworkGoesOn
<1> QED
  BY <1>3, <1>4, <1>5, <1>6, <1>7, <1>8, <1>9 DEF Next, RunNext

\* Unless one of the three happens, paths that were updated are updated again,
\* until PUT /init, and then the next run starts from zero: no lookup of an
\* update fails, whatever is registered, fails and reconnects while it runs or
\* waits (__update_path, start_update_path, init).
THEOREM UpdatesGoOnUndisturbed == Spec /\ [][Undisturbed]_vars => [](UpdatesGoOn /\ RestartsFromZero)
<1>1. ASSUME GoOnInv, [Next]_vars, [Undisturbed]_vars PROVE GoOnInv'
  BY <1>1, GoOnInvStep, StutterGoesOn
<1>2. GoOnInv => UpdatesGoOn /\ RestartsFromZero
  <2> SUFFICES ASSUME GoOnInv PROVE UpdatesGoOn /\ RestartsFromZero
    OBVIOUS
  <2>1. RestartsFromZero
    BY DEF GoOnInv, OffInv, RestartsFromZero
  <2>2. ASSUME timers # <<>> \/ UpdateWaits PROVE Chains > 0
    <3> DEFINE W == {i \in DOMAIN waiting : waiting[i].task.kind = "update"}
    <3>1. IsSeq(timers) /\ IsSeq(waiting)
      BY SeqIsSeq DEF GoOnInv, TypeInv, TaskInv, ControlTypeOK
    <3>2. Len(timers) \in Nat /\ (timers # <<>> => Len(timers) > 0)
      <4>1. Len(timers) \in Nat /\ DOMAIN timers = 1..Len(timers)
        BY <3>1, IsSeqLen
      <4>2. timers # <<>> => 1 \in DOMAIN timers
        BY <3>1, TailIsSeq
      <4> QED
        BY <4>1, <4>2
    <3>3. IsFiniteSet(W)
      <4>1. DOMAIN waiting = 1..Len(waiting) /\ Len(waiting) \in Nat
        BY <3>1, IsSeqLen
      <4>2. W \subseteq 1..Len(waiting) /\ IsFiniteSet(1..Len(waiting))
        BY <4>1, FS_Interval
      <4> QED
        BY <4>2, FS_Subset
    <3>4. Cardinality(W) \in Nat /\ (UpdateWaits => Cardinality(W) # 0)
      BY <3>3, FS_CardinalityType, FS_EmptySet DEF UpdateWaits
    <3> HIDE DEF W
    <3>5. Len(timers) + Cardinality(W) > 0
      BY <2>2, <3>2, <3>4
    <3> QED
      BY <3>5 DEF Chains, W
  <2> QED
    BY <2>1, <2>2 DEF GoOnInv, OnInv, UpdatesGoOn
<1> QED
  BY <1>1, <1>2, GoOnInvInit, PTL DEF Spec
=============================================================================
