---------------------------- MODULE MCController ----------------------------
(***************************************************************************)
(* Controller on small networks.                                           *)
(***************************************************************************)
EXTENDS Controller

AllWires == {w \in SUBSET Switches : Cardinality(w) = 2}
MCHosts == {"c", "v"}
MCPairs == {<<"c", "v">>}
MCNeighbor == [h \in MCHosts |-> IF h = "c" THEN "s1" ELSE "s2"]

\* Ports are numbered from 1 as links are added, those of hosts come last.
TwoPort == [e \in {<<"s1", "s2">>, <<"s2", "s1">>} |-> 1]
             @@ [e \in {<<"s1", "c">>, <<"s2", "v">>} |-> 2]
ThreePort == [e \in {<<"s1", "s2">>, <<"s2", "s1">>, <<"s3", "s1">>} |-> 1]
               @@ [e \in {<<"s1", "s3">>, <<"s2", "s3">>, <<"s3", "s2">>} |-> 2]
               @@ [e \in {<<"s1", "c">>, <<"s2", "v">>} |-> 3]

-----------------------------------------------------------------------------
(* The network is up: all switches have connected, all links and the host  *)
(* pair are registered, and the switches have applied the first flows.     *)

Everywhere(s) ==
  [h \in Hosts \union {AnyHost} |->
     IF h = AnyHost THEN [prio |-> 0, nr |-> 0, out |-> ToController]
     ELSE IF Neighbor[h] = s THEN [prio |-> HostPriority, nr |-> 0, out |-> Port[s, h]]
     ELSE NoFlow]

ReadyInit ==
  /\ switches = SubSeq(<<"s1", "s2", "s3">>, 1, Cardinality(Switches))
  /\ \E bw \in [Wires -> Bandwidths] :
       links = {[ends |-> w, bw |-> bw[w], failAt |-> Unknown] : w \in Wires}
  /\ hostPairs = <<[client |-> "c", server |-> "v", failAt |-> Unknown, size |-> Unknown]>>
  /\ datapaths = [i \in DOMAIN switches |-> [sw |-> switches[i], conn |-> 1]]
  /\ portTo = UNION {PortEntries(w) : w \in Wires}
  /\ hostIp = Hosts
  /\ isUpdating = FALSE /\ updateTimes = 0 /\ routePriority = InitialRoutePriority
  /\ timers = <<>>
  /\ running = Idle /\ waiting = <<>> /\ routings = 0
  /\ conn = [s \in Switches |-> 1] /\ live = Switches
  /\ sendq = [s \in Switches |-> <<>>]
  /\ table = [s \in Switches |-> Everywhere(s)]
  /\ up = LinkPorts
  /\ notices = [s \in Switches |-> <<>>]
  /\ age = 0

Updating == PostDisaster \/ TaskStep \/ Resuming \/ Firing \/ Applying \/ Noticing \/ Tick

-----------------------------------------------------------------------------
(* Updates while links fail. *)

UpdatesNext ==
  \/ Updating
  \/ DeletePort("s1", "s2") \/ DeletePort("s2", "s1")
  \/ SwitchFeatures("s1") \/ \E restarts \in BOOLEAN : LoseSwitch("s1", restarts)
UpdatesSpec == ReadyInit /\ [][UpdatesNext]_vars

\* Switches that keep up with the controller: no time passes before they have
\* applied what was sent.
Quiet == \A s \in Switches : sendq[s] = <<>>
HealsNext ==
  \/ PostDisaster \/ TaskStep \/ Applying \/ Noticing \/ Firing \/ Failing
  \/ Quiet /\ Tick

\* The hub runs every greenlet that is ready in its turn, and switches work on
\* their own: but what is ready waits while a task runs, so that fairness is
\* strong.  For the actions that compute routes the condition under which they
\* are enabled is written out: TLC evaluates ENABLED of a calculation too slowly.
FairlyStarted == []<>isUpdating \/ []<><<PostDisaster>>_vars
CanFire       == running = Idle /\ \E i \in DOMAIN timers : timers[i] = 0
FairlyFired   == <>[](~CanFire) \/ []<><<Firing>>_vars
HealsSpec ==
  /\ ReadyInit /\ [][HealsNext]_vars
  /\ WF_vars(TaskStep) /\ SF_vars(Quiet /\ Tick)
  /\ FairlyStarted /\ FairlyFired
  /\ \A s \in Switches : SF_vars(Apply(s)) /\ SF_vars(PortStatus(s))

=============================================================================
