--------------------------- MODULE Topology_proof ---------------------------
(***************************************************************************)
(* In every size, build() notes the ports that Mininet uses, and which     *)
(* these are: the failures of the experiment rely on their numbers.        *)
(***************************************************************************)
EXTENDS Topology, TLAPS

Node == Grid \union HostNames
HostPair == [client : [host : HostNames, sw : Grid], server : [host : HostNames, sw : Grid]]

\* The counts are those of Mininet, and the loops stay on the grid.
LoopInv ==
  /\ size \in Nat /\ size >= 3
  /\ at \in (0..size) \X Index
  /\ side \in {"right", "bottom"}
  /\ pairsLeft \in Seq({p \in HostPair : p.client.sw # p.server.sw})
CountInv ==
  /\ counts \in [Grid -> Nat]
  /\ ports \in [Grid -> Seq(Node)]
  /\ \A s \in Grid : counts[s] = Len(ports[s])
TopoInv == LoopInv /\ CountInv /\ NotesWhatIsBuilt

-----------------------------------------------------------------------------

LEMMA InitInv == Init => TopoInv
<1> SUFFICES ASSUME Init PROVE TopoInv
  OBVIOUS
<1> USE DEF Init, Grid, Index
<1>1. size \in Nat /\ size >= 3
  BY SizeAssumption
<1>2. pairsLeft \in Seq({p \in HostPair : p.client.sw # p.server.sw})
  <2>1. size - 1 \in Index /\ 0 \in Index /\ 1 \in Index /\ 0 # size - 1
    BY <1>1
  <2>2. size \div 2 \in Index
    BY <1>1
  <2> DEFINE S == {p \in HostPair : p.client.sw # p.server.sw}
             P(a, s, b, t) == [client |-> Placed(a, s), server |-> Placed(b, t)]
  <2>3. ASSUME NEW a \in HostNames, NEW b \in HostNames, NEW s \in Grid, NEW t \in Grid, s # t
        PROVE  P(a, s, b, t) \in S
    BY <2>3 DEF HostPair, Placed
  <2>4. P(h1c, <<0, size - 1>>, h1s, <<1, 0>>) \in S
    BY <2>1, <2>3 DEF HostNames
  <2>5. P(h2c, <<size \div 2, size - 1>>, h2s, <<size - 1, 0>>) \in S
    BY <2>1, <2>2, <2>3 DEF HostNames
  <2>6. P(h3c, <<size - 1, size - 1>>, h3s, <<0, 0>>) \in S
    BY <2>1, <2>3 DEF HostNames
  <2> QED
    BY <2>4, <2>5, <2>6 DEF HostPairs
<1>3. LoopInv
  BY <1>1, <1>2 DEF LoopInv
<1>4. CountInv
  BY DEF CountInv
<1>5. NotesWhatIsBuilt
  <2>1. Noted = {}
    BY DEF Noted
  <2>2. InMininet = {}
    BY DEF InMininet
  <2> QED
    BY <2>1, <2>2 DEF NotesWhatIsBuilt
<1> QED
  BY <1>3, <1>4, <1>5 DEF TopoInv

\* What a new cable adds to Mininet, and that the counts follow.
LEMMA NewCable ==
  ASSUME CountInv, UNCHANGED size,
         NEW a \in Grid, NEW b \in Grid, a # b, NEW x \in Node, NEW y \in Node,
         Count(a, b), Connect(a, x, b, y)
  PROVE  /\ CountInv'
         /\ InMininet' = InMininet \union {<<a, counts'[a], x>>, <<b, counts'[b], y>>}
<1>0. Grid' = Grid /\ Node' = Node
  BY DEF Grid, Index, Node, HostNames
<1>1. counts' \in [Grid -> Nat] /\ counts'[a] = Len(ports[a]) + 1 /\ counts'[b] = Len(ports[b]) + 1
  <2>1. counts[a] = Len(ports[a]) /\ counts[b] = Len(ports[b])
    BY DEF CountInv
  <2>2. counts \in [Grid -> Nat] /\ counts' = [counts EXCEPT ![a] = counts[a] + 1, ![b] = counts[b] + 1]
    BY DEF CountInv, Count
  <2> QED
    BY <2>1, <2>2
<1>2. ports' \in [Grid -> Seq(Node)]
  <2>1. /\ ports \in [Grid -> Seq(Node)]
        /\ ports' = [ports EXCEPT ![a] = Append(ports[a], x), ![b] = Append(ports[b], y)]
    BY DEF CountInv, Connect
  <2>2. Append(ports[a], x) \in Seq(Node) /\ Append(ports[b], y) \in Seq(Node)
    BY <2>1
  <2> QED
    BY <2>1, <2>2, Zenon
<1>3. ports'[a] = Append(ports[a], x) /\ ports'[b] = Append(ports[b], y)
  BY DEF CountInv, Connect
<1>4. \A s \in Grid : s # a /\ s # b => ports'[s] = ports[s] /\ counts'[s] = counts[s]
  BY DEF CountInv, Connect, Count
<1>5. ASSUME NEW s \in Grid PROVE counts'[s] = Len(ports'[s])
  <2>1. ports[s] \in Seq(Node) /\ counts[s] = Len(ports[s])
    BY DEF CountInv
  <2>2. CASE s = a
    BY <1>1, <1>3, <2>1, <2>2
  <2>3. CASE s = b
    BY <1>1, <1>3, <2>1, <2>3
  <2>4. CASE s # a /\ s # b
    BY <1>4, <2>1, <2>4
  <2> QED
    BY <2>2, <2>3, <2>4
<1>6. CountInv'
  BY <1>0, <1>1, <1>2, <1>5 DEF CountInv
<1> DEFINE Ends(s) == {<<s, p, ports[s][p]>> : p \in DOMAIN ports[s]}
           EndsAfter(s) == {<<s, p, ports'[s][p]>> : p \in DOMAIN ports'[s]}
<1>7. ASSUME NEW q \in Seq(Node), NEW z \in Node, NEW s \in Grid
      PROVE  {<<s, p, Append(q, z)[p]>> : p \in DOMAIN Append(q, z)}
               = {<<s, p, q[p]>> : p \in DOMAIN q} \union {<<s, Len(q) + 1, z>>}
  <2>1. DOMAIN Append(q, z) = DOMAIN q \union {Len(q) + 1}
    OBVIOUS
  <2>2. \A p \in DOMAIN q : Append(q, z)[p] = q[p] /\ p # Len(q) + 1
    OBVIOUS
  <2>3. Append(q, z)[Len(q) + 1] = z
    OBVIOUS
  <2> HIDE DEF Ends, EndsAfter
  <2> QED
    BY <2>1, <2>2, <2>3, Zenon
<1>8. EndsAfter(a) = Ends(a) \union {<<a, counts'[a], x>>}
  BY <1>1, <1>3, <1>7 DEF CountInv
<1>9. EndsAfter(b) = Ends(b) \union {<<b, counts'[b], y>>}
  BY <1>1, <1>3, <1>7 DEF CountInv
<1>10. \A s \in Grid : s # a /\ s # b => EndsAfter(s) = Ends(s)
  BY <1>4
<1>11. InMininet = UNION {Ends(s) : s \in Grid}
  BY DEF InMininet
<1>12. InMininet' = UNION {EndsAfter(s) : s \in Grid}
  BY <1>0 DEF InMininet
<1> HIDE DEF Ends, EndsAfter
<1>13. InMininet' = InMininet \union {<<a, counts'[a], x>>, <<b, counts'[b], y>>}
  BY <1>8, <1>9, <1>10, <1>11, <1>12
<1> QED
  BY <1>6, <1>13

LEMMA LinkStepInv == TopoInv /\ LinkStep => TopoInv'
<1> SUFFICES ASSUME TopoInv, LinkStep PROVE TopoInv'
  OBVIOUS
<1> DEFINE next == NeighborOf(at[1], at[2])
<1>1. UNCHANGED size /\ Index' = Index /\ Grid' = Grid /\ HostPair' = HostPair
  BY DEF LinkStep, Index, Grid, HostPair, HostNames
<1>2. LoopInv'
  <2>1. at' \in (0..size) \X Index
    BY DEF TopoInv, LoopInv, LinkStep, Index
  <2>2. side' \in {"right", "bottom"}
    BY DEF LinkStep
  <2> QED
    BY <1>1, <2>1, <2>2 DEF TopoInv, LoopInv, LinkStep
<1>3. CASE next \in Grid
  <2>1. AddLink(at, next)
    BY <1>3 DEF LinkStep
  <2>2. at \in Grid /\ at # next
    BY <1>3 DEF TopoInv, LoopInv, LinkStep, Grid, Index, NeighborOf
  <2>3. at \in Node /\ next \in Node
    BY <1>3, <2>2 DEF Node
  <2> HIDE DEF next
  <2>4. /\ CountInv'
        /\ InMininet' = InMininet \union {<<at, counts'[at], next>>, <<next, counts'[next], at>>}
    BY <1>1, <1>3, <2>1, <2>2, <2>3, NewCable DEF TopoInv, AddLink
  <2>5. Noted' = Noted \union {<<at, counts'[at], next>>, <<next, counts'[next], at>>}
    <3>1. links' = links \union {[sw1 |-> at, port1 |-> counts'[at], sw2 |-> next, port2 |-> counts'[next]]}
      BY <2>1 DEF AddLink
    <3>2. hosts' = hosts
      BY <2>1 DEF AddLink
    <3> DEFINE new == [sw1 |-> at, port1 |-> counts'[at], sw2 |-> next, port2 |-> counts'[next]]
    <3>3. /\ new.sw1 = at /\ new.port1 = counts'[at]
          /\ new.sw2 = next /\ new.port2 = counts'[next]
      OBVIOUS
    <3> HIDE DEF new
    <3>4. {<<l.sw1, l.port1, l.sw2>> : l \in links'}
            = {<<l.sw1, l.port1, l.sw2>> : l \in links} \union {<<at, counts'[at], next>>}
      BY <3>1, <3>3 DEF new
    <3>5. {<<l.sw2, l.port2, l.sw1>> : l \in links'}
            = {<<l.sw2, l.port2, l.sw1>> : l \in links} \union {<<next, counts'[next], at>>}
      BY <3>1, <3>3 DEF new
    <3> QED
      BY <3>2, <3>4, <3>5 DEF Noted
  <2> QED
    BY <1>2, <2>4, <2>5 DEF TopoInv, NotesWhatIsBuilt
<1>4. CASE next \notin Grid
  <2>1. UNCHANGED <<counts, links, hosts, ports>>
    BY <1>4 DEF LinkStep, NoLink
  <2>2. CountInv'
    BY <1>1, <2>1 DEF TopoInv, CountInv, Node, HostNames
  <2>3. Noted' = Noted /\ InMininet' = InMininet
    BY <1>1, <2>1 DEF Noted, InMininet
  <2> QED
    BY <1>2, <2>2, <2>3 DEF TopoInv, NotesWhatIsBuilt
<1> QED
  BY <1>3, <1>4

LEMMA HostStepInv == TopoInv /\ HostStep => TopoInv'
<1> SUFFICES ASSUME TopoInv, HostStep PROVE TopoInv'
  OBVIOUS
<1> DEFINE c == Head(pairsLeft).client
           v == Head(pairsLeft).server
<1>1. UNCHANGED size /\ Index' = Index /\ Grid' = Grid /\ HostPair' = HostPair
  BY DEF HostStep, Index, Grid, HostPair, HostNames
<1>2. Head(pairsLeft) \in HostPair /\ c.sw # v.sw
  BY DEF TopoInv, LoopInv, HostStep
<1>3. c.sw \in Grid /\ v.sw \in Grid /\ c.host \in Node /\ v.host \in Node
  BY <1>2 DEF HostPair, Node
<1>4. LoopInv'
  BY <1>1 DEF TopoInv, LoopInv, HostStep
<1>5. Count(c.sw, v.sw) /\ Connect(c.sw, c.host, v.sw, v.host)
  BY DEF HostStep
<1>6. hosts' = hosts \union {[host |-> x.host, sw |-> x.sw, port |-> counts'[x.sw]] : x \in {c, v}}
  BY DEF HostStep
<1>7. links' = links
  BY DEF HostStep
<1> HIDE DEF c, v
<1>8. /\ CountInv'
      /\ InMininet' = InMininet \union {<<c.sw, counts'[c.sw], c.host>>, <<v.sw, counts'[v.sw], v.host>>}
  BY <1>1, <1>2, <1>3, <1>5, NewCable DEF TopoInv
<1>9. Noted' = Noted \union {<<c.sw, counts'[c.sw], c.host>>, <<v.sw, counts'[v.sw], v.host>>}
  <2> DEFINE Note(x) == [host |-> x.host, sw |-> x.sw, port |-> counts'[x.sw]]
  <2>1. \A x : Note(x).sw = x.sw /\ Note(x).port = counts'[x.sw] /\ Note(x).host = x.host
    OBVIOUS
  <2>2. hosts' = hosts \union {Note(c), Note(v)}
    BY <1>6
  <2> HIDE DEF Note
  <2>3. {<<h.sw, h.port, h.host>> : h \in hosts'}
          = {<<h.sw, h.port, h.host>> : h \in hosts}
              \union {<<c.sw, counts'[c.sw], c.host>>, <<v.sw, counts'[v.sw], v.host>>}
    BY <2>1, <2>2
  <2> QED
    BY <1>7, <2>3 DEF Noted
<1> QED
  BY <1>4, <1>8, <1>9 DEF TopoInv, NotesWhatIsBuilt

LEMMA StutterInv == TopoInv /\ UNCHANGED topoVars => TopoInv'
<1> SUFFICES ASSUME TopoInv, UNCHANGED topoVars PROVE TopoInv'
  OBVIOUS
<1> USE DEF topoVars, loopVars
<1>1. Index' = Index /\ Grid' = Grid /\ Node' = Node /\ HostPair' = HostPair
  BY DEF Index, Grid, Node, HostPair, HostNames
<1>2. LoopInv'
  BY <1>1 DEF TopoInv, LoopInv
<1>3. CountInv'
  BY <1>1 DEF TopoInv, CountInv
<1>4. Noted' = Noted /\ InMininet' = InMininet
  BY <1>1 DEF Noted, InMininet
<1> QED
  BY <1>2, <1>3, <1>4 DEF TopoInv, NotesWhatIsBuilt

\* In every size the driver has, for each end of each link, the port that
\* Mininet uses (DisasterResistantNetworkTopo.build).
THEOREM NotesWhatIsBuiltTheorem == Spec => []NotesWhatIsBuilt
<1>1. TopoInv /\ [Next]_topoVars => TopoInv'
  BY LinkStepInv, HostStepInv, StutterInv DEF Next
<1>2. TopoInv => NotesWhatIsBuilt
  BY DEF TopoInv
<1> QED
  BY InitInv, <1>1, <1>2, PTL DEF Spec
-----------------------------------------------------------------------------
(* The numbers of the ports. *)

One(c) == IF c THEN 1 ELSE 0

\* The loops have left switch <<x, y>>; or have added its link to the right.
Passed(x, y) == x < at[1] \/ (x = at[1] /\ y < at[2])
Begun(x, y)  == Passed(x, y) \/ (<<x, y>> = at /\ side = "bottom")

\* The ports in use before hosts are added: to the top, to the left, to the
\* right, to the bottom.
Used(x, y) ==
  One(x > 0 /\ Passed(x - 1, y)) + One(y > 0 /\ Begun(x, y - 1))
    + One(y < size - 1 /\ Begun(x, y)) + One(x < size - 1 /\ Passed(x, y))

\* The links of a switch in their final numbers.
ToRight(x, y) ==
  [sw1 |-> <<x, y>>,     port1 |-> One(x > 0) + One(y > 0) + 1,
   sw2 |-> <<x, y + 1>>, port2 |-> One(x > 0) + 1]
ToBottom(x, y) ==
  [sw1 |-> <<x, y>>,     port1 |-> One(x > 0) + One(y > 0) + One(y < size - 1) + 1,
   sw2 |-> <<x + 1, y>>, port2 |-> 1]

NumberInv ==
  /\ at[1] < size => \A x, y \in Index : counts[<<x, y>>] = Used(x, y)
  /\ \A x, y \in Index :
       /\ Begun(x, y) /\ y < size - 1 => ToRight(x, y) \in links
       /\ Passed(x, y) /\ x < size - 1 => ToBottom(x, y) \in links

LEMMA InitNumbers == Init => NumberInv
<1> SUFFICES ASSUME Init PROVE NumberInv
  OBVIOUS
<1>1. size \in Nat /\ at = <<0, 0>> /\ at[1] = 0 /\ at[2] = 0 /\ side = "right"
  BY SizeAssumption DEF Init
<1>2. \A x, y \in Index : ~Passed(x, y) /\ ~Begun(x, y)
  BY <1>1 DEF Passed, Begun, Index
<1>3. ASSUME NEW x \in Index, NEW y \in Index PROVE counts[<<x, y>>] = 0 /\ Used(x, y) = 0
  <2>1. counts[<<x, y>>] = 0
    BY DEF Init, Grid
  <2>2. /\ x > 0 => ~Passed(x - 1, y)
        /\ y > 0 => ~Begun(x, y - 1)
    BY <1>1 DEF Passed, Begun, Index
  <2> QED
    BY <1>2, <2>1, <2>2 DEF Used, One
<1> QED
  BY <1>2, <1>3 DEF NumberInv

\* A link that is added has the ports that come next.
LEMMA NextPorts ==
  ASSUME TopoInv, NEW a \in Grid, NEW b \in Grid, a # b, AddLink(a, b)
  PROVE  /\ links' = links \union {[sw1 |-> a, port1 |-> counts[a] + 1,
                                    sw2 |-> b, port2 |-> counts[b] + 1]}
         /\ \A s \in Grid : counts'[s] = counts[s] + One(s = a \/ s = b)
<1>1. counts \in [Grid -> Nat]
  BY DEF TopoInv, CountInv
<1>2. counts' = [counts EXCEPT ![a] = counts[a] + 1, ![b] = counts[b] + 1]
  BY DEF AddLink, Count
<1>3. counts'[a] = counts[a] + 1 /\ counts'[b] = counts[b] + 1
  BY <1>1, <1>2
<1>4. \A s \in Grid : s # a /\ s # b => counts'[s] = counts[s] /\ counts[s] + 0 = counts[s]
  BY <1>1, <1>2
<1> QED
  BY <1>3, <1>4 DEF AddLink, One

LEMMA RightNumbers == TopoInv /\ NumberInv /\ LinkStep /\ side = "right" => NumberInv'
<1> SUFFICES ASSUME TopoInv, NumberInv, LinkStep, side = "right" PROVE NumberInv'
  OBVIOUS
<1>1. PICK i \in Index, j \in Index : at = <<i, j>>
  BY DEF TopoInv, LoopInv, LinkStep, Index
<1>2. at' = at /\ side' = "bottom" /\ size' = size /\ Index' = Index /\ at[1] = i /\ at[2] = j
  BY <1>1 DEF LinkStep, Index
<1>3. size \in Nat /\ i \in Int /\ j \in Int /\ 0 <= i /\ i < size /\ 0 <= j /\ j < size
  BY DEF TopoInv, LoopInv, Index
<1>4. \A x, y : /\ Passed(x, y)' <=> Passed(x, y)
                /\ Begun(x, y)' <=> Begun(x, y) \/ (x = i /\ y = j)
                /\ Begun(x, y) <=> Passed(x, y)
                /\ ToRight(x, y)' = ToRight(x, y) /\ ToBottom(x, y)' = ToBottom(x, y)
  BY <1>1, <1>2 DEF Passed, Begun, ToRight, ToBottom
<1>5. links \subseteq links'
  BY DEF LinkStep, AddLink, NoLink
<1>6. \A x, y \in Index : counts[<<x, y>>] = Used(x, y)
  BY <1>2, <1>3 DEF NumberInv
<1>7. CASE j = size - 1
  <2>1. NeighborOf(at[1], at[2]) \notin Grid
    BY <1>2, <1>3, <1>7 DEF NeighborOf, Grid, Index
  <2>2. counts' = counts /\ links' = links
    BY <2>1 DEF LinkStep, NoLink
  <2>3. ASSUME NEW x \in Index, NEW y \in Index PROVE Used(x, y)' = Used(x, y)
    <3>1. /\ y < size - 1 => (Begun(x, y)' <=> Begun(x, y))
          /\ Begun(x, y - 1)' <=> Begun(x, y - 1)
      BY <1>3, <1>4, <1>7 DEF Index
    <3> QED
      BY <1>2, <1>4, <3>1 DEF Used
  <2>4. \A x, y \in Index : Begun(x, y)' /\ y < size - 1 => ToRight(x, y) \in links
    BY <1>4, <1>7 DEF NumberInv
  <2> QED
    BY <1>2, <1>4, <1>6, <2>2, <2>3, <2>4 DEF NumberInv
<1>8. CASE j # size - 1
  <2> DEFINE next == <<i, j + 1>>
  <2>1. NeighborOf(at[1], at[2]) = next /\ next \in Grid /\ at \in Grid /\ at # next
    BY <1>1, <1>2, <1>3, <1>8 DEF NeighborOf, Grid, Index
  <2>2. AddLink(at, next)
    BY <2>1 DEF LinkStep
  <2>3. /\ links' = links \union {[sw1 |-> at, port1 |-> counts[at] + 1,
                                   sw2 |-> next, port2 |-> counts[next] + 1]}
        /\ \A s \in Grid : counts'[s] = counts[s] + One(s = at \/ s = next)
    BY <2>1, <2>2, NextPorts
  <2>4. counts[at] = One(i > 0) + One(j > 0) /\ counts[next] = One(i > 0)
    <3>1. counts[at] = Used(i, j) /\ counts[next] = Used(i, j + 1)
      BY <1>1, <1>3, <1>6, <1>8 DEF Index
    <3>2. /\ i > 0 => Passed(i - 1, j) /\ Passed(i - 1, j + 1)
          /\ j > 0 => Begun(i, j - 1)
          /\ ~Passed(i, j) /\ ~Begun(i, j) /\ ~Passed(i, j + 1) /\ ~Begun(i, j + 1)
      BY <1>2, <1>3, <1>4 DEF Passed
    <3>3. ~Begun(i, (j + 1) - 1)
      BY <1>3, <3>2
    <3> QED
      BY <3>1, <3>2, <3>3 DEF Used, One
  <2>5. ToRight(i, j) \in links'
    BY <1>1, <2>3, <2>4 DEF ToRight
  <2>6. ASSUME NEW x \in Index, NEW y \in Index
        PROVE  Used(x, y)' = Used(x, y) + One(<<x, y>> = at \/ <<x, y>> = next)
    <3>1. /\ x \in Int /\ y \in Int
          /\ <<x, y>> = at <=> x = i /\ y = j
          /\ <<x, y>> = next <=> x = i /\ y - 1 = j
      BY <1>1, <1>3 DEF Index
    <3>2. CASE x = i /\ y = j
      <4>1. Begun(x, y)' /\ ~Begun(x, y) /\ y < size - 1 /\ (Begun(x, y - 1)' <=> Begun(x, y - 1))
        BY <1>2, <1>3, <1>4, <1>8, <3>2 DEF Passed
      <4> QED
        BY <1>2, <1>4, <3>1, <3>2, <4>1 DEF Used, One
    <3>3. CASE x = i /\ y - 1 = j
      <4>1. Begun(x, y - 1)' /\ ~Begun(x, y - 1) /\ y > 0 /\ (Begun(x, y)' <=> Begun(x, y))
        BY <1>2, <1>3, <1>4, <3>1, <3>3 DEF Passed
      <4> QED
        BY <1>2, <1>4, <3>1, <3>3, <4>1 DEF Used, One
    <3>4. CASE ~(x = i /\ y = j) /\ ~(x = i /\ y - 1 = j)
      <4>1. (Begun(x, y)' <=> Begun(x, y)) /\ (Begun(x, y - 1)' <=> Begun(x, y - 1))
        BY <1>4, <3>4
      <4> QED
        BY <1>2, <1>4, <3>1, <3>4, <4>1 DEF Used, One
    <3> QED
      BY <3>2, <3>3, <3>4
  <2>7. ASSUME NEW x \in Index, NEW y \in Index PROVE counts'[<<x, y>>] = Used(x, y)'
    <3>1. <<x, y>> \in Grid
      BY DEF Grid
    <3>2. counts'[<<x, y>>] = counts[<<x, y>>] + One(<<x, y>> = at \/ <<x, y>> = next)
      BY <2>3, <3>1
    <3>3. counts[<<x, y>>] = Used(x, y)
      BY <1>6
    <3> QED
      BY <2>6, <3>2, <3>3
  <2> QED
    BY <1>2, <1>4, <1>5, <2>5, <2>7 DEF NumberInv
<1> QED
  BY <1>7, <1>8

LEMMA BottomNumbers == TopoInv /\ NumberInv /\ LinkStep /\ side = "bottom" => NumberInv'
<1> SUFFICES ASSUME TopoInv, NumberInv, LinkStep, side = "bottom" PROVE NumberInv'
  OBVIOUS
<1>1. PICK i \in Index, j \in Index : at = <<i, j>>
  BY DEF TopoInv, LoopInv, LinkStep, Index
<1>2. /\ at' = IF j < size - 1 THEN <<i, j + 1>> ELSE <<i + 1, 0>>
      /\ side' = "right" /\ size' = size /\ Index' = Index /\ at[1] = i /\ at[2] = j
  BY <1>1 DEF LinkStep, Index
<1>3. size \in Nat /\ i \in Int /\ j \in Int /\ 0 <= i /\ i < size /\ 0 <= j /\ j < size
  BY DEF TopoInv, LoopInv, Index
<1>4. /\ \A x \in Int, y \in Index :
           /\ Passed(x, y)' <=> Passed(x, y) \/ (x = i /\ y = j)
           /\ Begun(x, y) <=> Passed(x, y)'
           /\ Begun(x, y)' <=> Begun(x, y)
      /\ \A x, y : ToRight(x, y)' = ToRight(x, y) /\ ToBottom(x, y)' = ToBottom(x, y)
  BY <1>1, <1>2, <1>3 DEF Passed, Begun, ToRight, ToBottom, Index
<1>5. links \subseteq links'
  BY DEF LinkStep, AddLink, NoLink
<1>6. \A x, y \in Index : counts[<<x, y>>] = Used(x, y)
  BY <1>2, <1>3 DEF NumberInv
<1>7. \A x, y \in Index : /\ y > 0 => (Begun(x, y - 1)' <=> Begun(x, y - 1))
                          /\ x - 1 \in Int /\ x \in Int /\ y \in Int
  <2> SUFFICES ASSUME NEW x \in Index, NEW y \in Index
               PROVE  /\ y > 0 => (Begun(x, y - 1)' <=> Begun(x, y - 1))
                      /\ x - 1 \in Int /\ x \in Int /\ y \in Int
    OBVIOUS
  <2>1. x - 1 \in Int /\ x \in Int /\ y \in Int
    BY <1>3 DEF Index
  <2>2. y > 0 => y - 1 \in Index
    BY <1>3 DEF Index
  <2> QED
    BY <1>4, <2>1, <2>2
<1>8. CASE i = size - 1
  <2>1. NeighborOf(at[1], at[2]) \notin Grid
    BY <1>2, <1>3, <1>8 DEF NeighborOf, Grid, Index
  <2>2. counts' = counts /\ links' = links
    BY <2>1 DEF LinkStep, NoLink
  <2>3. ASSUME NEW x \in Index, NEW y \in Index PROVE Used(x, y)' = Used(x, y)
    <3>1. /\ x < size - 1 => (Passed(x, y)' <=> Passed(x, y))
          /\ Passed(x - 1, y)' <=> Passed(x - 1, y)
      BY <1>3, <1>4, <1>7, <1>8 DEF Index
    <3> QED
      BY <1>2, <1>4, <1>7, <3>1 DEF Used
  <2>4. \A x, y \in Index : Passed(x, y)' /\ x < size - 1 => ToBottom(x, y) \in links
    BY <1>4, <1>7, <1>8 DEF NumberInv
  <2> QED
    BY <1>2, <1>4, <1>6, <1>7, <2>2, <2>3, <2>4 DEF NumberInv
<1>9. CASE i # size - 1
  <2> DEFINE next == <<i + 1, j>>
  <2>1. NeighborOf(at[1], at[2]) = next /\ next \in Grid /\ at \in Grid /\ at # next
    BY <1>1, <1>2, <1>3, <1>9 DEF NeighborOf, Grid, Index
  <2>2. AddLink(at, next)
    BY <2>1 DEF LinkStep
  <2>3. /\ links' = links \union {[sw1 |-> at, port1 |-> counts[at] + 1,
                                   sw2 |-> next, port2 |-> counts[next] + 1]}
        /\ \A s \in Grid : counts'[s] = counts[s] + One(s = at \/ s = next)
    BY <2>1, <2>2, NextPorts
  <2>4. counts[at] = One(i > 0) + One(j > 0) + One(j < size - 1) /\ counts[next] = 0
    <3>1. counts[at] = Used(i, j) /\ counts[next] = Used(i + 1, j)
      BY <1>1, <1>3, <1>6, <1>9 DEF Index
    <3>2. /\ i > 0 => Passed(i - 1, j)
          /\ j > 0 => Begun(i, j - 1) /\ ~Begun(i + 1, j - 1)
          /\ ~Passed(i, j) /\ Begun(i, j) /\ ~Passed(i + 1, j) /\ ~Begun(i + 1, j)
      BY <1>1, <1>2, <1>3 DEF Passed, Begun
    <3>3. ~Passed((i + 1) - 1, j)
      BY <1>3, <3>2
    <3> QED
      BY <3>1, <3>2, <3>3 DEF Used, One
  <2>5. ToBottom(i, j) \in links'
    BY <1>1, <2>3, <2>4 DEF ToBottom
  <2>6. ASSUME NEW x \in Index, NEW y \in Index
        PROVE  Used(x, y)' = Used(x, y) + One(<<x, y>> = at \/ <<x, y>> = next)
    <3>1. /\ x \in Int /\ y \in Int
          /\ <<x, y>> = at <=> x = i /\ y = j
          /\ <<x, y>> = next <=> x - 1 = i /\ y = j
      BY <1>1, <1>3 DEF Index
    <3>2. CASE x = i /\ y = j
      <4>1. Passed(x, y)' /\ ~Passed(x, y) /\ x < size - 1 /\ (Passed(x - 1, y)' <=> Passed(x - 1, y))
        BY <1>2, <1>3, <1>4, <1>7, <1>9, <3>2 DEF Passed
      <4> QED
        BY <1>2, <1>4, <1>7, <3>1, <3>2, <4>1 DEF Used, One
    <3>3. CASE x - 1 = i /\ y = j
      <4>1. Passed(x - 1, y)' /\ ~Passed(x - 1, y) /\ x > 0 /\ (Passed(x, y)' <=> Passed(x, y))
        BY <1>2, <1>3, <1>4, <1>7, <3>1, <3>3 DEF Passed
      <4> QED
        BY <1>2, <1>4, <1>7, <3>1, <3>3, <4>1 DEF Used, One
    <3>4. CASE ~(x = i /\ y = j) /\ ~(x - 1 = i /\ y = j)
      <4>1. (Passed(x, y)' <=> Passed(x, y)) /\ (Passed(x - 1, y)' <=> Passed(x - 1, y))
        BY <1>4, <1>7, <3>4
      <4> QED
        BY <1>2, <1>4, <1>7, <3>1, <3>4, <4>1 DEF Used, One
    <3> QED
      BY <3>2, <3>3, <3>4
  <2>7. ASSUME NEW x \in Index, NEW y \in Index PROVE counts'[<<x, y>>] = Used(x, y)'
    <3>1. <<x, y>> \in Grid
      BY DEF Grid
    <3>2. counts'[<<x, y>>] = counts[<<x, y>>] + One(<<x, y>> = at \/ <<x, y>> = next)
      BY <2>3, <3>1
    <3>3. counts[<<x, y>>] = Used(x, y)
      BY <1>6
    <3> QED
      BY <2>6, <3>2, <3>3
  <2> QED
    BY <1>2, <1>4, <1>5, <1>7, <2>5, <2>7 DEF NumberInv
<1> QED
  BY <1>8, <1>9

LEMMA KeepsNumbers == TopoInv /\ NumberInv /\ (HostStep \/ UNCHANGED topoVars) => NumberInv'
<1> SUFFICES ASSUME TopoInv, NumberInv, HostStep \/ UNCHANGED topoVars PROVE NumberInv'
  OBVIOUS
<1>1. UNCHANGED <<size, at, side, links>> /\ Index' = Index
  BY DEF HostStep, topoVars, loopVars, Index
<1>2. \A x, y : /\ Passed(x, y)' <=> Passed(x, y)
                /\ Begun(x, y)' <=> Begun(x, y)
                /\ Used(x, y)' = Used(x, y)
                /\ ToRight(x, y)' = ToRight(x, y) /\ ToBottom(x, y)' = ToBottom(x, y)
  BY <1>1 DEF Passed, Begun, Used, ToRight, ToBottom
<1>3. at[1] < size => counts' = counts
  BY DEF HostStep, topoVars, TopoInv, LoopInv
<1> QED
  BY <1>1, <1>2, <1>3 DEF NumberInv

\* In the topology of size 5, the two ports that each failure of the experiment
\* deletes are those of one link: their numbers are the ones that the order of
\* build() leads to, for every size (NumberInv).
THEOREM FailuresCutLinksTheorem == Spec => []FailuresCutLinks
<1>1. TopoInv /\ NumberInv /\ [Next]_topoVars => TopoInv' /\ NumberInv'
  <2>1. TopoInv /\ [Next]_topoVars => TopoInv'
    BY LinkStepInv, HostStepInv, StutterInv DEF Next
  <2>2. TopoInv => side \in {"right", "bottom"}
    BY DEF TopoInv, LoopInv
  <2> QED
    BY <2>1, <2>2, RightNumbers, BottomNumbers, KeepsNumbers DEF Next
<1>2. NumberInv => FailuresCutLinks
  <2> SUFFICES ASSUME NumberInv, at[1] = 5, size = 5, NEW f \in LinkFailures
               PROVE  f \in {<<Dpid(l.sw1), l.port1, Dpid(l.sw2), l.port2>> : l \in links}
    BY DEF FailuresCutLinks, Built
  <2> DEFINE Of(l) == <<Dpid(l.sw1), l.port1, Dpid(l.sw2), l.port2>>
  <2>1. Index = 0..4 /\ \A x, y \in 0..4 : Passed(x, y) /\ Begun(x, y)
    BY DEF Index, Passed, Begun
  <2>2. ASSUME NEW x \in 0..4, NEW y \in 0..3
        PROVE  /\ ToRight(x, y) \in links
               /\ Of(ToRight(x, y)) = <<5 * x + y + 1, One(x > 0) + One(y > 0) + 1,
                                        5 * x + y + 2, One(x > 0) + 1>>
    <3>1. x \in Index /\ y \in Index /\ x \in Int /\ y \in Int /\ y < size - 1
      BY <2>1
    <3>2. ToRight(x, y) \in links
      BY <2>1, <3>1 DEF NumberInv
    <3>3. Of(ToRight(x, y)) = <<5 * x + y + 1, ToRight(x, y).port1, 5 * x + y + 2, ToRight(x, y).port2>>
      BY <3>1 DEF ToRight, Dpid
    <3> QED
      BY <3>2, <3>3 DEF ToRight
  <2>3. ASSUME NEW x \in 0..3, NEW y \in 0..4
        PROVE  /\ ToBottom(x, y) \in links
               /\ Of(ToBottom(x, y)) = <<5 * x + y + 1, One(x > 0) + One(y > 0) + One(y < 4) + 1,
                                         5 * x + y + 6, 1>>
    <3>1. x \in Index /\ y \in Index /\ x \in Int /\ y \in Int /\ x < size - 1
      BY <2>1
    <3>2. ToBottom(x, y) \in links
      BY <2>1, <3>1 DEF NumberInv
    <3>3. Of(ToBottom(x, y)) = <<5 * x + y + 1, ToBottom(x, y).port1, 5 * x + y + 6, ToBottom(x, y).port2>>
      BY <3>1 DEF ToBottom, Dpid
    <3> QED
      BY <3>2, <3>3 DEF ToBottom
  <2> HIDE DEF Of
  <2>4. \E l \in links : f = Of(l)
    <3>1. /\ <<4, 2, 5, 1>> = Of(ToRight(0, 3)) /\ <<8, 3, 9, 2>> = Of(ToRight(1, 2))
          /\ <<13, 3, 14, 2>> = Of(ToRight(2, 2)) /\ <<19, 3, 20, 2>> = Of(ToRight(3, 3))
          /\ <<23, 3, 24, 2>> = Of(ToRight(4, 2))
      BY <2>2 DEF One
    <3>2. /\ <<9, 4, 14, 1>> = Of(ToBottom(1, 3)) /\ <<10, 3, 15, 1>> = Of(ToBottom(1, 4))
          /\ <<13, 4, 18, 1>> = Of(ToBottom(2, 2)) /\ <<15, 3, 20, 1>> = Of(ToBottom(2, 4))
          /\ <<20, 3, 25, 1>> = Of(ToBottom(3, 4))
      BY <2>3 DEF One
    <3>3. /\ \A l \in {ToRight(0, 3), ToRight(1, 2), ToRight(2, 2), ToRight(3, 3), ToRight(4, 2)} : l \in links
          /\ \A l \in {ToBottom(1, 3), ToBottom(1, 4), ToBottom(2, 2), ToBottom(2, 4), ToBottom(3, 4)} : l \in links
      BY <2>2, <2>3
    <3> QED
      BY <3>1, <3>2, <3>3, Zenon DEF LinkFailures
  <2> QED
    BY <2>4 DEF Of
<1> QED
  BY InitInv, InitNumbers, <1>1, <1>2, PTL DEF Spec
=============================================================================
