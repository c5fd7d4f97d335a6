------------------------ MODULE LearningSwitch_proof ------------------------
(***************************************************************************)
(* NothingLeadsAstray, for every tree of switches and every set of packets.*)
(* It is strengthened by what makes it inductive: every packet on its way, *)
(* into a switch, to the controller or back, carries as its origin the way *)
(* to its source.  From that the handler learns.                           *)
(***************************************************************************)
EXTENDS LearningSwitch, TLAPS

\* A packet at a switch, come in from the side of its source.
Copy == {c \in [pkt : Packet, at : Switches, from : Switches \union Hosts] :
           c.from = Toward[c.at][c.pkt.src]}

FlowMsg == {m \in [type : {"flow"}, at : Switches, dst : Hosts, port : Switches \union Hosts] :
              m.port = Toward[m.at][m.dst]}
PacketMsg == {m \in [type : {"packet"}, at : Switches, pkt : Packet,
                     from : Switches \union Hosts, port : Switches \union Hosts \union {None}] :
                /\ m.from = Toward[m.at][m.pkt.src]
                /\ m.port # None => m.port \in Ports[m.at]}
MissMsg == [type : {"miss"}]
Ans     == FlowMsg \union PacketMsg
For(s)  == MissMsg \union {m \in Ans : m.at = s}

Table == [Switches -> [Hosts -> Switches \union Hosts \union {None}]]
TableRight(T) == \A s \in Switches, h \in Hosts : Right(s, h, T[s][h])

LInv ==
  /\ macToPort \in Table /\ TableRight(macToPort)
  /\ flows \in Table /\ TableRight(flows)
  /\ copies \subseteq Copy
  /\ events \in Seq(Copy)
  /\ sending \in Seq(Ans)
  /\ DOMAIN sendq = Switches /\ \A s \in Switches : sendq[s] \in Seq(For(s))

-----------------------------------------------------------------------------

\* A packet that leaves a switch by ports it has, but not where it came in,
\* comes from the side of its source at the next switch, too.
LEMMA EmitRight ==
  ASSUME NEW p \in Packet, NEW s \in Switches, NEW from, from = Toward[s][p.src],
         NEW port, port # None => port \in Ports[s],
         NEW rest, rest \subseteq Copy, Emit(p, s, Out(s, from, port), rest)
  PROVE  copies' \subseteq Copy
<1>1. p.src \in Hosts
  BY PacketAssumption
<1>2. Out(s, from, port) \subseteq Ports[s] \ {Toward[s][p.src]}
  BY DEF Out
<1>3. ASSUME NEW t \in Out(s, from, port) \intersect Switches
      PROVE  [pkt |-> p, at |-> t, from |-> s] \in Copy
  <2>1. Toward[t][p.src] = s
    BY <1>1, <1>2, <1>3, TreeAssumption
  <2> QED
    BY <2>1 DEF Copy
<1> QED
  BY <1>3 DEF Emit

\* A learned or looked-up port is one the switch has, on the way to the host.
LEMMA RightIsPort ==
  ASSUME NEW T, TableRight(T), NEW s \in Switches, NEW h \in Hosts, T[s][h] # None
  PROVE  T[s][h] = Toward[s][h] /\ T[s][h] \in Ports[s]
BY TreeAssumption DEF TableRight, Right

-----------------------------------------------------------------------------

LEMMA LInit == Init => LInv
BY DEF Init, LInv, Table, TableRight, Right

LEMMA ForwardStep == ASSUME LInv, NEW c \in copies, Forward(c) PROVE LInv'
<1> DEFINE port == IF c.pkt.dst = Everyone THEN None ELSE flows[c.at][c.pkt.dst]
<1>1. c \in Copy /\ c.pkt \in Packet /\ c.at \in Switches /\ c.from = Toward[c.at][c.pkt.src]
  BY DEF LInv, Copy
<1>2. macToPort' = macToPort /\ flows' = flows /\ sending' = sending /\ sendq' = sendq
  BY DEF Forward, swVars
<1>3. copies \ {c} \subseteq Copy
  BY DEF LInv
<1>4. CASE port # None
  <2>1. port \in Ports[c.at]
    <3>1. c.pkt.dst \in Hosts
      BY <1>1, <1>4, PacketAssumption
    <3> QED
      BY <1>1, <1>4, <3>1, RightIsPort DEF LInv
  <2>2. Emit(c.pkt, c.at, Out(c.at, c.from, port), copies \ {c}) /\ events' = events
    BY <1>4 DEF Forward
  <2>3. copies' \subseteq Copy
    <3> HIDE DEF port
    <3> QED
      BY <1>1, <1>3, <2>1, <2>2, EmitRight
  <2> QED
    BY <1>2, <2>2, <2>3 DEF LInv, TableRight, Right
<1>5. CASE port = None
  <2>1. copies' = copies \ {c} /\ events' = IF c.at \in miss THEN Append(events, c) ELSE events
    BY <1>5 DEF Forward
  <2>2. events' \in Seq(Copy)
    BY <1>1, <2>1 DEF LInv
  <2> QED
    BY <1>2, <1>3, <2>1, <2>2 DEF LInv, TableRight, Right
<1> QED
  BY <1>4, <1>5

LEMMA TakeStep == ASSUME LInv, NEW s \in Switches, Take(s) PROVE LInv'
<1> DEFINE m == Head(sendq[s])
<1>1. m \in For(s) /\ Tail(sendq[s]) \in Seq(For(s))
  BY DEF Take, LInv
<1>2. /\ macToPort' = macToPort /\ events' = events /\ sending' = sending
      /\ sendq' = [sendq EXCEPT ![s] = Tail(@)]
  BY DEF Take, ctlVars
<1>3. DOMAIN sendq' = Switches /\ \A t \in Switches : sendq'[t] \in Seq(For(t))
  BY <1>1, <1>2 DEF LInv
<1>4. flows' \in Table /\ TableRight(flows') /\ copies' \subseteq Copy
  <2>1. CASE m.type = "miss"
    BY <2>1 DEF Take, LInv, TableRight, Right
  <2>2. CASE m.type = "flow"
    <3>1. m \in FlowMsg /\ m.at = s
      BY <1>1, <2>2 DEF For, Ans, MissMsg, PacketMsg
    <3>2. m.dst \in Hosts /\ m.port = Toward[s][m.dst] /\ m.port \in Switches \union Hosts
      BY <3>1 DEF FlowMsg
    <3>3. flows' = [flows EXCEPT ![s][m.dst] = m.port] /\ copies' = copies
      BY <2>2 DEF Take
    <3> QED
      BY <3>2, <3>3 DEF LInv, Table, TableRight, Right
  <2>3. CASE m.type = "packet"
    <3>1. m \in PacketMsg /\ m.at = s
      BY <1>1, <2>3 DEF For, Ans, MissMsg, FlowMsg
    <3>2. m.pkt \in Packet /\ m.from = Toward[s][m.pkt.src] /\ (m.port # None => m.port \in Ports[s])
      BY <3>1 DEF PacketMsg
    <3>3. Emit(m.pkt, s, Out(s, m.from, m.port), copies) /\ flows' = flows
      BY <2>3 DEF Take
    <3>4. copies \subseteq Copy
      BY DEF LInv
    <3>5. copies' \subseteq Copy
      <4> HIDE DEF m
      <4> QED
        BY <3>2, <3>3, <3>4, EmitRight
    <3> QED
      BY <3>3, <3>5 DEF LInv, TableRight, Right
  <2> QED
    BY <1>1, <2>1, <2>2, <2>3 DEF For, Ans, MissMsg, FlowMsg, PacketMsg
<1> QED
  BY <1>2, <1>3, <1>4 DEF LInv, TableRight, Right

LEMMA HandleStep == ASSUME LInv, Handle PROVE LInv'
<1> DEFINE c == Head(events)
           port == IF c.pkt.dst = Everyone THEN None ELSE macToPort'[c.at][c.pkt.dst]
<1>1. c \in Copy /\ Tail(events) \in Seq(Copy)
  BY DEF Handle, LInv
<1>2. /\ c.pkt \in Packet /\ c.at \in Switches /\ c.from \in Switches \union Hosts
      /\ c.from = Toward[c.at][c.pkt.src] /\ c.pkt.src \in Hosts
  BY <1>1, PacketAssumption DEF Copy
<1>3. macToPort' \in Table /\ TableRight(macToPort')
  <2>1. macToPort' = [macToPort EXCEPT ![c.at][c.pkt.src] = c.from]
    BY DEF Handle
  <2> QED
    BY <1>2, <2>1 DEF LInv, Table, TableRight, Right
<1>4. sending' \in Seq(Ans)
  <2>1. sending' = Answer(c, port)
    BY DEF Handle
  <2>2. port # None => /\ c.pkt.dst \in Hosts /\ port = Toward[c.at][c.pkt.dst]
                       /\ port \in Ports[c.at] /\ port \in Switches \union Hosts
    <3>1. c.pkt.dst # Everyone => c.pkt.dst \in Hosts
      BY <1>2, PacketAssumption
    <3> QED
      BY <1>2, <1>3, <3>1, RightIsPort, TreeAssumption
  <2>3. PacketOut(c, port) \in Ans
    BY <1>2, <2>2 DEF PacketOut, Ans, PacketMsg
  <2>4. port # None => FlowMod(c, port) \in Ans
    BY <1>2, <2>2 DEF FlowMod, Ans, FlowMsg
  <2> HIDE DEF port
  <2>5. port = None => Answer(c, port) \in Seq(Ans)
    BY <2>3 DEF Answer
  <2>6. port # None => Answer(c, port) \in Seq(Ans)
    BY <2>3, <2>4 DEF Answer
  <2> QED
    BY <2>1, <2>5, <2>6
<1>5. events' \in Seq(Copy)
  BY <1>1 DEF Handle
<1> QED
  BY <1>3, <1>4, <1>5 DEF Handle, LInv, swVars, TableRight, Right

LEMMA SendStep == ASSUME LInv, SendMsg PROVE LInv'
<1> DEFINE m == Head(sending)
<1>1. m \in Ans /\ m.at \in Switches /\ sending' \in Seq(Ans)
  BY DEF SendMsg, LInv, Ans, FlowMsg, PacketMsg
<1>2. sendq' = [sendq EXCEPT ![m.at] = Append(@, m)]
  BY DEF SendMsg
<1>3. m \in For(m.at)
  BY <1>1 DEF For
<1>4. DOMAIN sendq' = Switches /\ \A s \in Switches : sendq'[s] \in Seq(For(s))
  <2> HIDE DEF m
  <2> QED
    BY <1>1, <1>2, <1>3 DEF LInv
<1> QED
  BY <1>1, <1>4 DEF SendMsg, LInv, TableRight, Right

LEMMA ConnectStep == ASSUME LInv, NEW s \in Switches, SwitchFeatures(s) PROVE LInv'
<1>1. sendq' = [sendq EXCEPT ![s] = <<[type |-> "miss"]>>]
  BY DEF SwitchFeatures
<1>2. <<[type |-> "miss"]>> \in Seq(For(s))
  BY DEF For, MissMsg
<1>3. DOMAIN sendq' = Switches /\ \A t \in Switches : sendq'[t] \in Seq(For(t))
  BY <1>1, <1>2 DEF LInv
<1> QED
  BY <1>3 DEF SwitchFeatures, LInv, ctlVars, TableRight, Right

LEMMA HostStep == ASSUME LInv, NEW p \in Packet, HostSends(p) PROVE LInv'
<1>1. p.src \in Hosts
  BY PacketAssumption
<1>2. AtSwitch(p.src) \in Switches /\ p.src \in Ports[AtSwitch(p.src)]
  BY <1>1, TreeAssumption DEF AtSwitch
<1>3. Toward[AtSwitch(p.src)][p.src] = p.src
  BY <1>1, <1>2, TreeAssumption
<1>4. [pkt |-> p, at |-> AtSwitch(p.src), from |-> p.src] \in Copy
  BY <1>1, <1>2, <1>3 DEF Copy
<1>5. copies' \subseteq Copy
  BY <1>4 DEF HostSends, LInv
<1> QED
  BY <1>5 DEF HostSends, LInv, ctlVars, swVars, TableRight, Right

LEMMA InitStep == ASSUME LInv, PutInit PROVE LInv'
BY DEF PutInit, LInv, swVars, Table, TableRight, Right

LEMMA LNext == LInv /\ [Next]_vars => LInv'
<1> SUFFICES ASSUME LInv, [Next]_vars PROVE LInv'
  OBVIOUS
<1>1. CASE UNCHANGED vars
  BY <1>1 DEF LInv, vars, ctlVars, swVars, TableRight, Right
<1> QED
  BY <1>1, ForwardStep, TakeStep, HandleStep, SendStep, ConnectStep, HostStep, InitStep
     DEF Next, Forwarding

LEMMA LImplies == LInv => NothingLeadsAstray
<1> SUFFICES ASSUME LInv, NEW s \in Switches, NEW h \in Hosts,
                    NEW i \in DOMAIN sendq[s], sendq[s][i].type = "flow", sendq[s][i].dst = h
             PROVE  sendq[s][i].port = Toward[s][h]
  BY DEF NothingLeadsAstray, LInv, TableRight
<1>1. sendq[s][i] \in For(s)
  BY DEF LInv
<1> QED
  BY <1>1 DEF For, Ans, MissMsg, PacketMsg, FlowMsg

\* In every tree of switches, whatever packets cross, no learned port and no
\* flow leads away from its host (__handle_eth).
THEOREM NothingLeadsAstrayTheorem == Spec => []NothingLeadsAstray
<1>1. Spec => []LInv
  BY LInit, LNext, PTL DEF Spec
<1> QED
  BY <1>1, LImplies, PTL
-----------------------------------------------------------------------------
(* ArrivesOnce.  Per packet and host there is at most one copy or message  *)
(* that is not on the way back from the host, as a tree has one way to it. *)

Heads(p, h, r) == r.pkt = p /\ Toward[r.at][h] # r.from
Heading(p, h)  == {c \in Copy : Heads(p, h, c)}
Carrying(p, h) == {m \in PacketMsg : Heads(p, h, m)}

Some(q, X)    == \E i \in DOMAIN q : q[i] \in X
OnlyOne(q, X) == \A i, j \in DOMAIN q : q[i] \in X /\ q[j] \in X => i = j

InCopies(p, h)   == \E c \in copies : c \in Heading(p, h)
InEvents(p, h)   == Some(events, Heading(p, h))
InSending(p, h)  == Some(sending, Carrying(p, h))
InQueue(p, h, s) == Some(sendq[s], Carrying(p, h))
Held(p, h) ==
  \/ InCopies(p, h) \/ InEvents(p, h) \/ InSending(p, h)
  \/ \E s \in Switches : InQueue(p, h, s)

OneCopy(p, h)     == \A c, d \in copies : c \in Heading(p, h) /\ d \in Heading(p, h) => c = d
OneEvent(p, h)    == OnlyOne(events, Heading(p, h))
OneSending(p, h)  == OnlyOne(sending, Carrying(p, h))
OneQueued(p, h, s) == OnlyOne(sendq[s], Carrying(p, h))
Apart(p, h) ==
  /\ InCopies(p, h) => ~InEvents(p, h) /\ ~InSending(p, h)
  /\ InEvents(p, h) => ~InSending(p, h)
  /\ \A s \in Switches : InQueue(p, h, s) =>
       /\ ~InCopies(p, h) /\ ~InEvents(p, h) /\ ~InSending(p, h)
       /\ \A t \in Switches : InQueue(p, h, t) => s = t
Came(p, h) ==
  /\ arrived[p][h] \in {0, 1}
  /\ p \notin sent \/ arrived[p][h] = 1 => ~Held(p, h)
  /\ p \notin sent => arrived[p][h] = 0
Once(p, h) ==
  /\ OneCopy(p, h) /\ OneEvent(p, h) /\ OneSending(p, h)
  /\ \A s \in Switches : OneQueued(p, h, s)
  /\ Apart(p, h) /\ Came(p, h)

ArrivedType == arrived = [p \in Packet |-> [h \in To[p] |-> arrived[p][h]]]
OInv == ArrivedType /\ \A p \in Packet : \A h \in To[p] : Once(p, h)

-----------------------------------------------------------------------------

LEMMA EmptyHasNone == ASSUME NEW X PROVE ~Some(<<>>, X) /\ OnlyOne(<<>>, X)
BY DEF Some, OnlyOne

LEMMA PopOne ==
  ASSUME NEW S, NEW q \in Seq(S), q # <<>>, NEW X
  PROVE  /\ Some(q, X) <=> Head(q) \in X \/ Some(Tail(q), X)
         /\ OnlyOne(q, X) => OnlyOne(Tail(q), X) /\ ~(Head(q) \in X /\ Some(Tail(q), X))
<1>1. /\ Len(q) \in Nat /\ Len(q) >= 1 /\ DOMAIN q = 1..Len(q) /\ Head(q) = q[1]
      /\ DOMAIN Tail(q) = 1..(Len(q) - 1)
      /\ \A i \in 1..(Len(q) - 1) : Tail(q)[i] = q[i + 1]
  OBVIOUS
<1>2. \A i \in 1..Len(q) : i = 1 \/ (i - 1 \in 1..(Len(q) - 1) /\ Tail(q)[i - 1] = q[i])
  BY <1>1
<1>3. \A i \in 1..(Len(q) - 1) : i + 1 \in 1..Len(q) /\ i + 1 # 1
  BY <1>1
<1>4. Some(q, X) <=> Head(q) \in X \/ Some(Tail(q), X)
  <2>1. ASSUME Some(q, X) PROVE Head(q) \in X \/ Some(Tail(q), X)
    <3>1. PICK i \in 1..Len(q) : q[i] \in X
      BY <1>1, <2>1 DEF Some
    <3> QED
      BY <1>1, <1>2, <3>1 DEF Some
  <2>2. ASSUME Some(Tail(q), X) PROVE Some(q, X)
    <3>1. PICK i \in 1..(Len(q) - 1) : Tail(q)[i] \in X
      BY <1>1, <2>2 DEF Some
    <3> QED
      BY <1>1, <1>3, <3>1 DEF Some
  <2>3. ASSUME Head(q) \in X PROVE Some(q, X)
    BY <1>1, <2>3 DEF Some
  <2> QED
    BY <2>1, <2>2, <2>3
<1>5. ASSUME OnlyOne(q, X) PROVE OnlyOne(Tail(q), X)
  BY <1>1, <1>3, <1>5 DEF OnlyOne
<1>6. ASSUME OnlyOne(q, X) PROVE ~(Head(q) \in X /\ Some(Tail(q), X))
  BY <1>1, <1>3, <1>6 DEF OnlyOne, Some
<1> QED
  BY <1>4, <1>5, <1>6

LEMMA PushOne ==
  ASSUME NEW S, NEW q \in Seq(S), NEW m \in S, NEW X
  PROVE  /\ Some(Append(q, m), X) <=> Some(q, X) \/ m \in X
         /\ OnlyOne(q, X) /\ ~(m \in X /\ Some(q, X)) => OnlyOne(Append(q, m), X)
<1>1. /\ Len(q) \in Nat /\ DOMAIN q = 1..Len(q) /\ DOMAIN Append(q, m) = 1..(Len(q) + 1)
      /\ Append(q, m)[Len(q) + 1] = m
      /\ \A i \in 1..Len(q) : Append(q, m)[i] = q[i]
  OBVIOUS
<1>2. /\ \A i \in 1..Len(q) : i \in 1..(Len(q) + 1)
      /\ \A i \in 1..(Len(q) + 1) : i \in 1..Len(q) \/ i = Len(q) + 1
      /\ Len(q) + 1 \in 1..(Len(q) + 1)
  BY <1>1
<1>3. Some(Append(q, m), X) <=> Some(q, X) \/ m \in X
  BY <1>1, <1>2 DEF Some
<1>4. OnlyOne(q, X) /\ ~(m \in X /\ Some(q, X)) => OnlyOne(Append(q, m), X)
  BY <1>1, <1>2 DEF Some, OnlyOne
<1> QED
  BY <1>3, <1>4

\* Of what leaves a switch only one copy heads for h: on the way to h, if the
\* packet was not on the way back from h; or it arrives.
LEMMA EmitOnce ==
  ASSUME NEW q \in Packet, NEW s \in Switches, NEW from, from = Toward[s][q.src],
         NEW port, port # None => port \in Ports[s],
         NEW rest, ArrivedType, Emit(q, s, Out(s, from, port), rest),
         NEW p \in Packet, NEW h \in To[p]
  PROVE  /\ \A c \in copies' : c \in Heading(p, h) =>
              \/ c \in rest
              \/ /\ p = q /\ Toward[s][h] # from
                 /\ c = [pkt |-> q, at |-> Toward[s][h], from |-> s]
         /\ \/ arrived'[p][h] = arrived[p][h]
            \/ /\ p = q /\ Toward[s][h] # from /\ arrived'[p][h] = arrived[p][h] + 1
               /\ \A c \in copies' : c \in Heading(p, h) => c \in rest
<1>0. h \in Hosts
  BY PacketAssumption DEF To
<1>1. Out(s, from, port) \subseteq Ports[s] \ {from}
  BY DEF Out
<1>2. ASSUME NEW c \in copies', c \in Heading(p, h), c \notin rest
      PROVE  /\ p = q /\ Toward[s][h] # from /\ Toward[s][h] \in Switches
             /\ c = [pkt |-> q, at |-> Toward[s][h], from |-> s]
  <2>1. PICK t \in Out(s, from, port) \intersect Switches : c = [pkt |-> q, at |-> t, from |-> s]
    BY <1>2 DEF Emit
  <2>2. p = q /\ Toward[t][h] # s
    BY <1>2, <2>1 DEF Heading, Heads
  <2>3. Toward[s][h] = t
    BY <1>0, <1>1, <2>1, <2>2, TreeAssumption
  <2> QED
    BY <1>1, <2>1, <2>2, <2>3
<1>3. arrived' = [arrived EXCEPT ![q] =
                    [k \in To[q] |-> IF k \in Out(s, from, port) THEN @[k] + 1 ELSE @[k]]]
  BY DEF Emit
<1>4. CASE p = q /\ h \in Out(s, from, port)
  <2>1. arrived'[p][h] = arrived[p][h] + 1
    BY <1>3, <1>4 DEF ArrivedType
  <2>2. Toward[s][h] = h /\ h # from
    BY <1>0, <1>1, <1>4, TreeAssumption
  <2>3. h \notin Switches
    BY <1>0, TreeAssumption
  <2> QED
    BY <1>2, <1>4, <2>1, <2>2, <2>3
<1>5. CASE ~(p = q /\ h \in Out(s, from, port))
  <2>1. arrived'[p][h] = arrived[p][h]
    BY <1>3, <1>5 DEF ArrivedType
  <2> QED
    BY <1>2, <2>1
<1> QED
  BY <1>4, <1>5

LEMMA EmitType ==
  ASSUME NEW q \in Packet, NEW s, NEW out, NEW rest, ArrivedType, Emit(q, s, out, rest)
  PROVE  ArrivedType'
BY DEF Emit, ArrivedType

LEMMA OInit == Init => OInv
<1> SUFFICES ASSUME Init PROVE OInv
  OBVIOUS
<1>1. /\ copies = {} /\ events = <<>> /\ sending = <<>> /\ sendq = [s \in Switches |-> <<>>]
      /\ sent = {} /\ arrived = [p \in Packet |-> [h \in To[p] |-> 0]]
  BY DEF Init
<1>2. ASSUME NEW p \in Packet, NEW h \in To[p] PROVE Once(p, h)
  <2>1. /\ ~InCopies(p, h) /\ ~InEvents(p, h) /\ ~InSending(p, h)
        /\ \A s \in Switches : ~InQueue(p, h, s)
    BY <1>1, EmptyHasNone DEF InCopies, InEvents, InSending, InQueue
  <2>2. /\ OneCopy(p, h) /\ OneEvent(p, h) /\ OneSending(p, h)
        /\ \A s \in Switches : OneQueued(p, h, s)
    BY <1>1, EmptyHasNone DEF OneCopy, OneEvent, OneSending, OneQueued
  <2>3. arrived[p][h] = 0
    BY <1>1
  <2> QED
    BY <2>1, <2>2, <2>3 DEF Once, Apart, Came, Held
<1> QED
  BY <1>1, <1>2 DEF OInv, ArrivedType

\* A packet that comes into a switch.
LEMMA ForwardOnce ==
  ASSUME LInv, OInv, NEW c \in copies, Forward(c), NEW p \in Packet, NEW h \in To[p]
  PROVE  Once(p, h)'
<1> DEFINE port == IF c.pkt.dst = Everyone THEN None ELSE flows[c.at][c.pkt.dst]
<1>0. Once(p, h)
  BY DEF OInv
<1>1. c \in Copy /\ c.pkt \in Packet /\ c.at \in Switches /\ c.from = Toward[c.at][c.pkt.src]
  BY DEF LInv, Copy
<1>2. UNCHANGED <<sending, sendq, sent>>
  BY DEF Forward, swVars
<1>3. /\ InSending(p, h)' = InSending(p, h) /\ OneSending(p, h)' = OneSending(p, h)
      /\ \A s \in Switches : /\ InQueue(p, h, s)' = InQueue(p, h, s)
                             /\ OneQueued(p, h, s)' = OneQueued(p, h, s)
  BY <1>2 DEF InSending, OneSending, InQueue, OneQueued
<1>4. CASE port # None
  <2>1. port \in Ports[c.at]
    <3>1. c.pkt.dst \in Hosts
      BY <1>1, <1>4, PacketAssumption
    <3> QED
      BY <1>1, <1>4, <3>1, RightIsPort DEF LInv
  <2>2. Emit(c.pkt, c.at, Out(c.at, c.from, port), copies \ {c}) /\ events' = events
    BY <1>4 DEF Forward
  <2> HIDE DEF port
  <2> DEFINE next == [pkt |-> c.pkt, at |-> Toward[c.at][h], from |-> c.at]
             Mine == p = c.pkt /\ Toward[c.at][h] # c.from
  <2>3. /\ \A d \in copies' : d \in Heading(p, h) => d \in copies \ {c} \/ (Mine /\ d = next)
        /\ \/ arrived'[p][h] = arrived[p][h]
           \/ /\ Mine /\ arrived'[p][h] = arrived[p][h] + 1
              /\ \A d \in copies' : d \in Heading(p, h) => d \in copies \ {c}
    BY <1>1, <2>1, <2>2, EmitOnce DEF OInv
  <2> HIDE DEF next
  <2>4. Mine => c \in Heading(p, h) /\ InCopies(p, h)
    BY <1>1 DEF Heading, Heads, InCopies
  <2> HIDE DEF Mine
  <2>5. Mine => \A d \in copies \ {c} : d \notin Heading(p, h)
    BY <1>0, <2>4 DEF Once, OneCopy
  <2>6. OneCopy(p, h)'
    BY <1>0, <2>3, <2>5 DEF Once, OneCopy
  <2>7. InCopies(p, h)' => InCopies(p, h)
    BY <2>3, <2>4 DEF InCopies
  <2>8. /\ InEvents(p, h)' = InEvents(p, h) /\ OneEvent(p, h)' = OneEvent(p, h)
    BY <2>2 DEF InEvents, OneEvent
  <2>9. arrived'[p][h] # arrived[p][h] => ~InCopies(p, h)'
    BY <2>3, <2>5 DEF InCopies
  <2>10. arrived'[p][h] \in {arrived[p][h], arrived[p][h] + 1}
    BY <2>3
  <2>11. arrived'[p][h] # arrived[p][h] => InCopies(p, h)
    BY <2>3, <2>4
  <2>12. Apart(p, h)'
    BY <1>0, <1>3, <2>7, <2>8 DEF Once, Apart
  <2>13. Came(p, h)'
    <3>1. CASE arrived'[p][h] = arrived[p][h]
      BY <1>0, <1>2, <1>3, <2>7, <2>8, <3>1 DEF Once, Came, Held
    <3>2. CASE arrived'[p][h] # arrived[p][h]
      <4>1. InCopies(p, h) /\ ~InCopies(p, h)'
        BY <2>9, <2>11, <3>2
      <4>2. p \in sent /\ arrived[p][h] = 0
        BY <1>0, <4>1 DEF Once, Came, Held
      <4>3. ~Held(p, h)'
        BY <1>0, <1>3, <2>8, <4>1 DEF Once, Apart, Held
      <4> QED
        BY <1>2, <2>10, <4>2, <4>3 DEF Came
    <3> QED
      BY <3>1, <3>2
  <2> QED
    BY <1>0, <1>3, <2>6, <2>8, <2>12, <2>13 DEF Once
<1>5. CASE port = None
  <2>1. /\ copies' = copies \ {c} /\ arrived' = arrived
        /\ events' = IF c.at \in miss THEN Append(events, c) ELSE events
    BY <1>5 DEF Forward
  <2>2. events \in Seq(Copy)
    BY DEF LInv
  <2>3. /\ OneCopy(p, h)' /\ (InCopies(p, h)' => InCopies(p, h))
        /\ c \in Heading(p, h) => InCopies(p, h) /\ ~InCopies(p, h)'
    BY <1>0, <2>1 DEF Once, OneCopy, InCopies
  <2>4. InEvents(p, h)' => InEvents(p, h) \/ c \in Heading(p, h)
    BY <1>1, <2>1, <2>2, PushOne DEF InEvents
  <2>5. OneEvent(p, h)'
    <3>1. ~(c \in Heading(p, h) /\ InEvents(p, h)) /\ OneEvent(p, h)
      BY <1>0, <2>3 DEF Once, Apart
    <3> QED
      BY <1>1, <2>1, <2>2, <3>1, PushOne DEF InEvents, OneEvent
  <2>6. Apart(p, h)'
    BY <1>0, <1>3, <2>3, <2>4 DEF Once, Apart
  <2>7. Came(p, h)'
    BY <1>0, <1>2, <1>3, <2>1, <2>3, <2>4 DEF Once, Came, Held
  <2> QED
    BY <1>0, <1>3, <2>3, <2>5, <2>6, <2>7 DEF Once
<1> QED
  BY <1>4, <1>5

\* A message that a switch takes.
LEMMA TakeOnce ==
  ASSUME LInv, OInv, NEW s \in Switches, Take(s), NEW p \in Packet, NEW h \in To[p]
  PROVE  Once(p, h)'
<1> DEFINE m == Head(sendq[s])
           Mine == m \in Carrying(p, h)
<1>0. Once(p, h)
  BY DEF OInv
<1>1. /\ m \in For(s) /\ sendq[s] \in Seq(For(s)) /\ sendq[s] # <<>>
      /\ sendq' = [sendq EXCEPT ![s] = Tail(@)] /\ DOMAIN sendq = Switches
  BY DEF Take, LInv
<1>2. UNCHANGED <<events, sending, sent>>
  BY DEF Take, ctlVars
<1>3. /\ InSending(p, h)' = InSending(p, h) /\ OneSending(p, h)' = OneSending(p, h)
      /\ InEvents(p, h)' = InEvents(p, h) /\ OneEvent(p, h)' = OneEvent(p, h)
  BY <1>2 DEF InSending, OneSending, InEvents, OneEvent
<1>4. /\ InQueue(p, h, s) <=> Mine \/ InQueue(p, h, s)'
      /\ OneQueued(p, h, s)' /\ ~(Mine /\ InQueue(p, h, s)')
      /\ \A t \in Switches \ {s} : /\ InQueue(p, h, t)' = InQueue(p, h, t)
                                   /\ OneQueued(p, h, t)' = OneQueued(p, h, t)
  <2>1. sendq'[s] = Tail(sendq[s]) /\ \A t \in Switches \ {s} : sendq'[t] = sendq[t]
    BY <1>1
  <2>2. OnlyOne(sendq[s], Carrying(p, h))
    BY <1>0 DEF Once, OneQueued
  <2> QED
    BY <1>1, <2>1, <2>2, PopOne DEF InQueue, OneQueued
<1>5. \A t \in Switches : OneQueued(p, h, t)'
  BY <1>0, <1>4 DEF Once
<1>6. CASE m.type # "packet"
  <2>1. copies' = copies /\ arrived' = arrived
    BY <1>6 DEF Take
  <2>2. ~Mine
    BY <1>6 DEF Carrying, PacketMsg
  <2>3. /\ InCopies(p, h)' = InCopies(p, h) /\ OneCopy(p, h)' = OneCopy(p, h)
    BY <2>1 DEF InCopies, OneCopy
  <2>4. \A t \in Switches : InQueue(p, h, t)' <=> InQueue(p, h, t)
    BY <1>4, <2>2
  <2> HIDE DEF m
  <2>5. Apart(p, h)' /\ Came(p, h)'
    BY <1>0, <1>2, <1>3, <2>1, <2>3, <2>4 DEF Once, Apart, Came, Held
  <2> QED
    BY <1>0, <1>3, <1>5, <2>3, <2>5 DEF Once
<1>7. CASE m.type = "packet"
  <2>1. /\ m \in PacketMsg /\ m.at = s
    BY <1>1, <1>7 DEF For, Ans, MissMsg, FlowMsg
  <2>2. m.pkt \in Packet /\ m.from = Toward[s][m.pkt.src] /\ (m.port # None => m.port \in Ports[s])
    BY <2>1 DEF PacketMsg
  <2>3. Emit(m.pkt, s, Out(s, m.from, m.port), copies)
    BY <1>7 DEF Take
  <2>4. Mine <=> p = m.pkt /\ Toward[s][h] # m.from
    BY <2>1 DEF Carrying, Heads
  <2> DEFINE next == [pkt |-> m.pkt, at |-> Toward[s][h], from |-> s]
  <2> HIDE DEF m
  <2>5. /\ \A d \in copies' : d \in Heading(p, h) => d \in copies \/ (Mine /\ d = next)
        /\ \/ arrived'[p][h] = arrived[p][h]
           \/ /\ Mine /\ arrived'[p][h] = arrived[p][h] + 1
              /\ \A d \in copies' : d \in Heading(p, h) => d \in copies
    <3> HIDE DEF Mine
    <3>1. /\ \A d \in copies' : d \in Heading(p, h) =>
               \/ d \in copies
               \/ p = m.pkt /\ Toward[s][h] # m.from /\ d = next
          /\ \/ arrived'[p][h] = arrived[p][h]
             \/ /\ p = m.pkt /\ Toward[s][h] # m.from /\ arrived'[p][h] = arrived[p][h] + 1
                /\ \A d \in copies' : d \in Heading(p, h) => d \in copies
      BY <2>2, <2>3, EmitOnce DEF OInv
    <3> QED
      BY <2>4, <3>1
  <2> HIDE DEF Mine, next
  <2>6. Mine => /\ ~InCopies(p, h) /\ ~InEvents(p, h) /\ ~InSending(p, h)
                /\ \A t \in Switches : ~InQueue(p, h, t)'
    BY <1>0, <1>4 DEF Once, Apart
  <2>7. OneCopy(p, h)'
    BY <1>0, <2>5, <2>6 DEF Once, OneCopy, InCopies
  <2>8. InCopies(p, h)' => InCopies(p, h) \/ Mine
    BY <2>5 DEF InCopies
  <2>9. arrived'[p][h] # arrived[p][h] => Mine /\ ~InCopies(p, h)'
    BY <2>5, <2>6 DEF InCopies
  <2>10. arrived'[p][h] \in {arrived[p][h], arrived[p][h] + 1}
    BY <2>5
  <2>11. Apart(p, h)'
    <3>1. CASE Mine
      BY <1>3, <2>6, <3>1 DEF Apart
    <3>2. CASE ~Mine
      <4>1. \A t \in Switches : InQueue(p, h, t)' => InQueue(p, h, t)
        BY <1>4
      <4> QED
        BY <1>0, <1>3, <2>8, <3>2, <4>1 DEF Once, Apart
    <3> QED
      BY <3>1, <3>2
  <2>12. Came(p, h)'
    <3>1. Held(p, h)' => Held(p, h)
      <4>1. \A t \in Switches : InQueue(p, h, t)' => InQueue(p, h, t)
        BY <1>4
      <4> QED
        BY <1>3, <1>4, <2>8, <4>1 DEF Held
    <3>2. CASE arrived'[p][h] = arrived[p][h]
      BY <1>0, <1>2, <3>1, <3>2 DEF Once, Came
    <3>3. CASE arrived'[p][h] # arrived[p][h]
      <4>1. Mine /\ ~Held(p, h)'
        BY <1>3, <2>6, <2>9, <3>3 DEF Held
      <4>2. Held(p, h)
        BY <1>4, <4>1 DEF Held
      <4>3. p \in sent /\ arrived[p][h] = 0
        BY <1>0, <4>2 DEF Once, Came
      <4> QED
        BY <1>2, <2>10, <4>1, <4>3 DEF Came
    <3> QED
      BY <3>2, <3>3
  <2> QED
    BY <1>0, <1>3, <1>5, <2>7, <2>11, <2>12 DEF Once
<1> QED
  BY <1>6, <1>7

\* The handler answers with one packet.
LEMMA HandleOnce ==
  ASSUME LInv, OInv, Handle, NEW p \in Packet, NEW h \in To[p]
  PROVE  Once(p, h)'
<1> DEFINE c == Head(events)
           port == IF c.pkt.dst = Everyone THEN None ELSE macToPort'[c.at][c.pkt.dst]
           Mine == c \in Heading(p, h)
<1>0. Once(p, h)
  BY DEF OInv
<1>1. /\ c \in Copy /\ events \in Seq(Copy) /\ events # <<>> /\ sending = <<>>
      /\ events' = Tail(events) /\ sending' = Answer(c, port)
  BY DEF Handle, LInv
<1>2. UNCHANGED <<copies, sendq, sent, arrived>>
  BY DEF Handle, swVars, hostVars
<1>3. /\ InCopies(p, h)' = InCopies(p, h) /\ OneCopy(p, h)' = OneCopy(p, h)
      /\ \A s \in Switches : /\ InQueue(p, h, s)' = InQueue(p, h, s)
                             /\ OneQueued(p, h, s)' = OneQueued(p, h, s)
  BY <1>2 DEF InCopies, OneCopy, InQueue, OneQueued
<1>4. /\ InEvents(p, h) <=> Mine \/ InEvents(p, h)'
      /\ OneEvent(p, h)' /\ ~(Mine /\ InEvents(p, h)')
  <2>1. OnlyOne(events, Heading(p, h))
    BY <1>0 DEF Once, OneEvent
  <2> QED
    BY <1>1, <2>1, PopOne DEF InEvents, OneEvent
<1>5. (InSending(p, h)' => Mine) /\ OneSending(p, h)'
  <2>1. FlowMod(c, port) \notin Carrying(p, h)
    BY DEF FlowMod, Carrying, PacketMsg
  <2>2. PacketOut(c, port) \in Carrying(p, h) => Mine
    BY <1>1 DEF PacketOut, Carrying, Heading, Heads
  <2>3. PacketOut(c, port) \in Carrying(p, h) => p = c.pkt
    BY DEF PacketOut, Carrying, Heads
  <2> HIDE DEF c, port
  <2>4. CASE port = None
    <3>1. sending' = <<PacketOut(c, port)>>
      BY <1>1, <2>4 DEF Answer
    <3> QED
      BY <2>2, <3>1 DEF InSending, OneSending, Some, OnlyOne
  <2>5. CASE port # None
    <3>1. sending' = <<FlowMod(c, port), PacketOut(c, port)>>
      BY <1>1, <2>5 DEF Answer
    <3> QED
      BY <2>1, <2>2, <3>1 DEF InSending, OneSending, Some, OnlyOne
  <2> QED
    BY <2>4, <2>5
<1>6. ~InSending(p, h)
  BY <1>1, EmptyHasNone DEF InSending
<1> HIDE DEF Mine
<1>7. Apart(p, h)'
  BY <1>0, <1>3, <1>4, <1>5 DEF Once, Apart
<1>8. Came(p, h)'
  BY <1>0, <1>2, <1>3, <1>4, <1>5 DEF Once, Came, Held
<1> QED
  BY <1>0, <1>3, <1>4, <1>5, <1>7, <1>8 DEF Once

LEMMA SendOnce ==
  ASSUME LInv, OInv, SendMsg, NEW p \in Packet, NEW h \in To[p]
  PROVE  Once(p, h)'
<1> DEFINE m == Head(sending)
           Mine == m \in Carrying(p, h)
<1>0. Once(p, h)
  BY DEF OInv
<1>1. /\ m \in Ans /\ m.at \in Switches /\ sending \in Seq(Ans) /\ sending # <<>>
      /\ sending' = Tail(sending) /\ sendq' = [sendq EXCEPT ![m.at] = Append(@, m)]
      /\ sendq[m.at] \in Seq(For(m.at)) /\ m \in For(m.at) /\ DOMAIN sendq = Switches
  BY DEF SendMsg, LInv, Ans, FlowMsg, PacketMsg, For
<1>2. UNCHANGED <<copies, events, sent, arrived>>
  BY DEF SendMsg, hostVars
<1>3. /\ InCopies(p, h)' = InCopies(p, h) /\ OneCopy(p, h)' = OneCopy(p, h)
      /\ InEvents(p, h)' = InEvents(p, h) /\ OneEvent(p, h)' = OneEvent(p, h)
  BY <1>2 DEF InCopies, OneCopy, InEvents, OneEvent
<1>4. /\ InSending(p, h) <=> Mine \/ InSending(p, h)'
      /\ OneSending(p, h)' /\ ~(Mine /\ InSending(p, h)')
  <2>1. OnlyOne(sending, Carrying(p, h))
    BY <1>0 DEF Once, OneSending
  <2> QED
    BY <1>1, <2>1, PopOne DEF InSending, OneSending
<1> HIDE DEF m
<1>4a. PICK to \in Switches : to = m.at
  BY <1>1
<1>5. Mine => \A s \in Switches : ~InQueue(p, h, s)
  BY <1>0, <1>4 DEF Once, Apart
<1>6. /\ InQueue(p, h, to)' <=> InQueue(p, h, to) \/ Mine
      /\ OneQueued(p, h, to)'
      /\ \A t \in Switches \ {to} : /\ InQueue(p, h, t)' = InQueue(p, h, t)
                                      /\ OneQueued(p, h, t)' = OneQueued(p, h, t)
  <2>1. sendq'[to] = Append(sendq[to], m) /\ \A t \in Switches \ {to} : sendq'[t] = sendq[t]
    BY <1>1, <1>4a
  <2>2. OnlyOne(sendq[to], Carrying(p, h)) /\ ~(Mine /\ Some(sendq[to], Carrying(p, h)))
    BY <1>0, <1>5 DEF Once, OneQueued, InQueue
  <2>3. /\ Some(sendq'[to], Carrying(p, h)) <=> Some(sendq[to], Carrying(p, h)) \/ Mine
        /\ OnlyOne(sendq'[to], Carrying(p, h))
    BY <1>1, <1>4a, <2>1, <2>2, PushOne
  <2> QED
    BY <1>1, <2>1, <2>3 DEF InQueue, OneQueued
<1> HIDE DEF Mine
<1>7. \A s \in Switches : OneQueued(p, h, s)'
  BY <1>0, <1>6 DEF Once
<1>8. \A s \in Switches : InQueue(p, h, s)' => InQueue(p, h, s) \/ (Mine /\ s = to)
  BY <1>6
<1>9. Apart(p, h)'
  BY <1>0, <1>3, <1>4, <1>5, <1>8 DEF Once, Apart
<1>10. Came(p, h)'
  BY <1>0, <1>2, <1>3, <1>4, <1>8 DEF Once, Came, Held
<1> QED
  BY <1>0, <1>3, <1>4, <1>7, <1>9, <1>10 DEF Once

LEMMA ConnectOnce ==
  ASSUME LInv, OInv, NEW s \in Switches, SwitchFeatures(s), NEW p \in Packet, NEW h \in To[p]
  PROVE  Once(p, h)'
<1>0. Once(p, h)
  BY DEF OInv
<1>1. /\ sendq' = [sendq EXCEPT ![s] = <<[type |-> "miss"]>>] /\ DOMAIN sendq = Switches
      /\ UNCHANGED <<copies, events, sending, sent, arrived>>
  BY DEF SwitchFeatures, LInv, ctlVars, hostVars
<1>2. /\ InCopies(p, h)' = InCopies(p, h) /\ OneCopy(p, h)' = OneCopy(p, h)
      /\ InEvents(p, h)' = InEvents(p, h) /\ OneEvent(p, h)' = OneEvent(p, h)
      /\ InSending(p, h)' = InSending(p, h) /\ OneSending(p, h)' = OneSending(p, h)
  BY <1>1 DEF InCopies, OneCopy, InEvents, OneEvent, InSending, OneSending
<1>3. ~InQueue(p, h, s)' /\ OneQueued(p, h, s)'
  <2>1. sendq'[s] = <<[type |-> "miss"]>> /\ [type |-> "miss"] \notin Carrying(p, h)
    <3>1. [type |-> "miss"].type # "packet"
      OBVIOUS
    <3>2. \A m \in Carrying(p, h) : m.type = "packet"
      BY DEF Carrying, PacketMsg
    <3> QED
      BY <1>1, <3>1, <3>2
  <2> QED
    BY <2>1 DEF InQueue, OneQueued, Some, OnlyOne
<1>4. \A t \in Switches \ {s} : /\ InQueue(p, h, t)' = InQueue(p, h, t)
                                /\ OneQueued(p, h, t)' = OneQueued(p, h, t)
  BY <1>1 DEF InQueue, OneQueued
<1>5. \A t \in Switches : (InQueue(p, h, t)' => InQueue(p, h, t)) /\ OneQueued(p, h, t)'
  BY <1>0, <1>3, <1>4 DEF Once
<1>6. Apart(p, h)' /\ Came(p, h)'
  BY <1>0, <1>1, <1>2, <1>5 DEF Once, Apart, Came, Held
<1> QED
  BY <1>0, <1>2, <1>5, <1>6 DEF Once

\* A host sends a packet it did not send before.
LEMMA HostOnce ==
  ASSUME LInv, OInv, NEW q \in Packet, HostSends(q), NEW p \in Packet, NEW h \in To[p]
  PROVE  Once(p, h)'
<1> DEFINE c == [pkt |-> q, at |-> AtSwitch(q.src), from |-> q.src]
<1>0. Once(p, h)
  BY DEF OInv
<1>1. /\ q \notin sent /\ sent' = sent \union {q} /\ copies' = copies \union {c}
      /\ UNCHANGED <<events, sending, sendq, arrived>>
  BY DEF HostSends, ctlVars, swVars
<1>2. /\ InEvents(p, h)' = InEvents(p, h) /\ OneEvent(p, h)' = OneEvent(p, h)
      /\ InSending(p, h)' = InSending(p, h) /\ OneSending(p, h)' = OneSending(p, h)
      /\ \A s \in Switches : /\ InQueue(p, h, s)' = InQueue(p, h, s)
                             /\ OneQueued(p, h, s)' = OneQueued(p, h, s)
  BY <1>1 DEF InEvents, OneEvent, InSending, OneSending, InQueue, OneQueued
<1>3. c.pkt = q
  OBVIOUS
<1> HIDE DEF c
<1>4. CASE p = q
  <2>1. ~Held(p, h) /\ arrived[p][h] = 0
    BY <1>0, <1>1, <1>4 DEF Once, Came
  <2>2. OneCopy(p, h)'
    BY <1>1, <2>1 DEF Held, InCopies, OneCopy
  <2>3. Apart(p, h)' /\ Came(p, h)'
    BY <1>1, <1>2, <1>4, <2>1 DEF Apart, Came, Held
  <2> QED
    BY <1>0, <1>2, <2>2, <2>3 DEF Once
<1>5. CASE p # q
  <2>1. c \notin Heading(p, h)
    BY <1>3, <1>5 DEF Heading, Heads
  <2>2. /\ InCopies(p, h)' <=> InCopies(p, h)
        /\ OneCopy(p, h)'
    BY <1>0, <1>1, <2>1 DEF Once, InCopies, OneCopy
  <2>3. Apart(p, h)' /\ Came(p, h)'
    BY <1>0, <1>1, <1>2, <1>5, <2>2 DEF Once, Apart, Came, Held
  <2> QED
    BY <1>0, <1>2, <2>2, <2>3 DEF Once
<1> QED
  BY <1>4, <1>5

LEMMA RestOnce ==
  ASSUME OInv, UNCHANGED <<copies, events, sending, sendq, sent, arrived>>,
         NEW p \in Packet, NEW h \in To[p]
  PROVE  Once(p, h)'
<1>1. Once(p, h)
  BY DEF OInv
<1> QED
  BY <1>1 DEF Once, OneCopy, OneEvent, OneSending, OneQueued, Apart, Came, Held, InCopies,
              InEvents, InSending, InQueue

LEMMA ONext == LInv /\ OInv /\ [Next]_vars => OInv'
<1> SUFFICES ASSUME LInv, OInv, [Next]_vars PROVE OInv'
  OBVIOUS
<1>1. ArrivedType'
  <2>1. CASE arrived' = arrived
    BY <2>1 DEF OInv, ArrivedType
  <2>2. CASE arrived' # arrived
    <3>1. PICK q \in Packet : \E s, out, rest : Emit(q, s, out, rest)
      <4>1. (\E c \in copies : Forward(c)) \/ (\E s \in Switches : Take(s))
        BY <2>2 DEF Next, Forwarding, Handle, SendMsg, PutInit, HostSends, SwitchFeatures,
                    vars, hostVars
      <4>2. ASSUME NEW c \in copies, Forward(c)
            PROVE  \E q \in Packet : \E s, out, rest : Emit(q, s, out, rest)
        <5>1. c.pkt \in Packet
          BY DEF LInv, Copy
        <5> QED
          BY <2>2, <4>2, <5>1 DEF Forward
      <4>3. ASSUME NEW s \in Switches, Take(s)
            PROVE  \E q \in Packet : \E out, rest : Emit(q, s, out, rest)
        <5> DEFINE m == Head(sendq[s])
        <5>1. m.type = "packet" /\ Emit(m.pkt, s, Out(s, m.from, m.port), copies)
          BY <2>2, <4>3 DEF Take
        <5>2. m \in For(s)
          BY <4>3 DEF Take, LInv
        <5>3. m.pkt \in Packet
          BY <5>1, <5>2 DEF For, Ans, MissMsg, FlowMsg, PacketMsg
        <5> QED
          BY <5>1, <5>3
      <4> QED
        BY <4>1, <4>2, <4>3
    <3> QED
      BY <3>1, EmitType DEF OInv
  <2> QED
    BY <2>1, <2>2
<1>2. ASSUME NEW p \in Packet, NEW h \in To[p] PROVE Once(p, h)'
  <2>1. CASE PutInit \/ UNCHANGED vars
    BY <2>1, RestOnce DEF PutInit, vars, ctlVars, swVars, hostVars
  <2> QED
    BY <2>1, ForwardOnce, TakeOnce, HandleOnce, SendOnce, ConnectOnce, HostOnce
       DEF Next, Forwarding
<1> QED
  BY <1>1, <1>2 DEF OInv

-----------------------------------------------------------------------------

\* What leaves a switch arrives in one step of Wire, or not at all.
LEMMA EmitArrives ==
  ASSUME OInv, NEW q \in Packet, NEW s \in Switches, NEW from, from = Toward[s][q.src],
         NEW port, port # None => port \in Ports[s],
         NEW rest, Emit(q, s, Out(s, from, port), rest),
         \A h \in To[q] : Toward[s][h] # from => Held(q, h),
         UNCHANGED <<miss, sent, owed>>
  PROVE  \/ UNCHANGED IsAWire!wireVars
         \/ \E some \in SUBSET To[q] : IsAWire!Arrive(q, some)
<1> DEFINE some == To[q] \intersect Out(s, from, port)
<1>1. arrived' = [arrived EXCEPT ![q] =
                    [h \in To[q] |-> IF h \in Out(s, from, port) THEN @[h] + 1 ELSE @[h]]]
  BY DEF Emit
<1>2. /\ arrived = [p \in Packet |-> arrived[p]]
      /\ arrived[q] = [h \in To[q] |-> arrived[q][h]]
  <2>1. arrived = [p \in Packet |-> [h \in To[p] |-> arrived[p][h]]]
    BY DEF OInv, ArrivedType
  <2>2. \A p \in Packet : arrived[p] = [h \in To[p] |-> arrived[p][h]]
    BY <2>1
  <2> QED
    BY <2>1, <2>2
<1>3. ASSUME NEW h \in some PROVE arrived[q][h] = 0 /\ q \in sent
  <2>1. h \in Hosts /\ h \in Ports[s] \ {from}
    BY PacketAssumption DEF To, Out
  <2>2. Toward[s][h] # from
    BY <2>1, TreeAssumption
  <2>3. Held(q, h)
    BY <2>2
  <2> QED
    BY <2>3 DEF OInv, Once, Came
<1>4. Ready' = Ready
  BY DEF Ready
<1>5. [h \in To[q] |-> IF h \in Out(s, from, port) THEN arrived[q][h] + 1 ELSE arrived[q][h]]
        = [h \in To[q] |-> IF h \in some THEN 1 ELSE arrived[q][h]]
  BY <1>3
<1>6. arrived' = [arrived EXCEPT ![q] = [h \in To[q] |-> IF h \in some THEN 1 ELSE @[h]]]
  BY <1>1, <1>5
<1>7. CASE some = {}
  <2>1. [h \in To[q] |-> IF h \in some THEN 1 ELSE arrived[q][h]] = arrived[q]
    BY <1>2, <1>7
  <2>2. arrived' = arrived
    BY <1>2, <1>6, <2>1
  <2> QED
    BY <1>4, <2>2 DEF IsAWire!wireVars
<1>8. CASE some # {}
  <2> HIDE DEF some
  <2>1. q \in sent /\ \A h \in some : arrived[q][h] = 0
    BY <1>3, <1>8
  <2>2. IsAWire!Arrive(q, some)
    BY <1>4, <1>6, <1>8, <2>1 DEF IsAWire!Arrive
  <2> QED
    BY <2>2 DEF some
<1> QED
  BY <1>7, <1>8

\* Every step of the network is one of Wire, or none.
LEMMA StepOfWire == LInv /\ OInv /\ [Next]_vars => [IsAWire!Next]_(IsAWire!wireVars)
<1> SUFFICES ASSUME LInv, OInv, [Next]_vars PROVE [IsAWire!Next]_(IsAWire!wireVars)
  OBVIOUS
<1>1. CASE UNCHANGED vars
  BY <1>1 DEF vars, swVars, hostVars, IsAWire!wireVars, Ready
<1>2. ASSUME NEW p \in Packet, HostSends(p) PROVE IsAWire!Next
  BY <1>2 DEF HostSends, swVars, Ready, IsAWire!Next, IsAWire!Send
<1>3. ASSUME NEW c \in copies, Forward(c) PROVE [IsAWire!Next]_(IsAWire!wireVars)
  <2> DEFINE port == IF c.pkt.dst = Everyone THEN None ELSE flows[c.at][c.pkt.dst]
  <2>1. c \in Copy /\ c.pkt \in Packet /\ c.at \in Switches /\ c.from = Toward[c.at][c.pkt.src]
    BY DEF LInv, Copy
  <2>2. UNCHANGED <<miss, sent, owed>>
    BY <1>3 DEF Forward, swVars
  <2>3. CASE port # None
    <3>1. port \in Ports[c.at]
      <4>1. c.pkt.dst \in Hosts
        BY <2>1, <2>3, PacketAssumption
      <4> QED
        BY <2>1, <2>3, <4>1, RightIsPort DEF LInv
    <3>2. Emit(c.pkt, c.at, Out(c.at, c.from, port), copies \ {c})
      BY <1>3, <2>3 DEF Forward
    <3>3. \A h \in To[c.pkt] : Toward[c.at][h] # c.from => Held(c.pkt, h)
      BY <2>1 DEF Held, InCopies, Heading, Heads
    <3> HIDE DEF port
    <3> QED
      BY <2>1, <2>2, <3>1, <3>2, <3>3, EmitArrives DEF IsAWire!Next
  <2>4. CASE port = None
    <3>1. arrived' = arrived
      BY <1>3, <2>4 DEF Forward
    <3> QED
      BY <2>2, <3>1 DEF IsAWire!wireVars, Ready
  <2> QED
    BY <2>3, <2>4
<1>4. ASSUME NEW s \in Switches, Take(s) PROVE [IsAWire!Next]_(IsAWire!wireVars)
  <2> DEFINE m == Head(sendq[s])
  <2>1. m \in For(s) /\ UNCHANGED <<sent, owed>> /\ sendq[s] \in Seq(For(s)) /\ sendq[s] # <<>>
    BY <1>4 DEF Take, LInv
  <2>2. CASE m.type = "miss"
    <3>1. miss' = miss \union {s} /\ arrived' = arrived
      BY <1>4, <2>2 DEF Take
    <3>2. CASE Ready'
      BY <2>1, <3>1, <3>2 DEF IsAWire!Next, IsAWire!Open
    <3>3. CASE ~Ready'
      <4>1. ~Ready
        BY <3>1, <3>3 DEF Ready
      <4> QED
        BY <2>1, <3>1, <3>3, <4>1 DEF IsAWire!wireVars, Ready
    <3> QED
      BY <3>2, <3>3
  <2>3. CASE m.type = "flow"
    BY <1>4, <2>1, <2>3 DEF Take, IsAWire!wireVars, Ready
  <2>4. CASE m.type = "packet"
    <3>1. m \in PacketMsg /\ m.at = s
      BY <2>1, <2>4 DEF For, Ans, MissMsg, FlowMsg
    <3>2. /\ m.pkt \in Packet /\ m.from = Toward[s][m.pkt.src]
          /\ m.port # None => m.port \in Ports[s]
      BY <3>1 DEF PacketMsg
    <3>3. Emit(m.pkt, s, Out(s, m.from, m.port), copies) /\ miss' = miss
      BY <1>4, <2>4 DEF Take
    <3>4. \A h \in To[m.pkt] : Toward[s][h] # m.from => Held(m.pkt, h)
      <4> SUFFICES ASSUME NEW h \in To[m.pkt], Toward[s][h] # m.from PROVE Held(m.pkt, h)
        OBVIOUS
      <4>1. m \in Carrying(m.pkt, h)
        BY <3>1 DEF Carrying, Heads
      <4>2. Some(sendq[s], Carrying(m.pkt, h))
        BY <2>1, <4>1, PopOne
      <4> QED
        BY <4>2 DEF Held, InQueue
    <3> HIDE DEF m
    <3> QED
      BY <2>1, <3>2, <3>3, <3>4, EmitArrives DEF IsAWire!Next
  <2> QED
    BY <2>1, <2>2, <2>3, <2>4 DEF For, Ans, MissMsg, FlowMsg, PacketMsg
<1>5. CASE Handle \/ SendMsg \/ PutInit
  BY <1>5 DEF Handle, SendMsg, PutInit, swVars, hostVars, IsAWire!wireVars, Ready
<1>6. ASSUME NEW s \in Switches, SwitchFeatures(s) PROVE UNCHANGED IsAWire!wireVars
  BY <1>6 DEF SwitchFeatures, hostVars, IsAWire!wireVars, Ready
<1> QED
  BY <1>1, <1>2, <1>3, <1>4, <1>5, <1>6 DEF Next, Forwarding

\* In every tree of switches each packet comes to each host it is for at most
\* once, and to nobody else, whatever is flooded, learned or forgotten in the
\* meantime, and however messages to different switches overtake each other.
THEOREM ArrivesOnceTheorem == Spec => ArrivesOnce
<1>1. Init => IsAWire!Init
  BY TreeAssumption DEF Init, IsAWire!Init, Ready
<1>2. Spec => [](LInv /\ OInv)
  BY LInit, LNext, OInit, ONext, PTL DEF Spec
<1> QED
  BY <1>1, <1>2, StepOfWire, PTL DEF Spec, ArrivesOnce, IsAWire!Safety
=============================================================================
