----------------------------- MODULE Experiment -----------------------------
(***************************************************************************)
(* The driver of the experiments (main.py, class Experiment), the topology *)
(* that registers itself with the controller, and class DisasterScheduler, *)
(* around Controller.                                                      *)
(*                                                                         *)
(* An experiment is a straight program: the driver has a list of the steps *)
(* it still has to take.  A request ends with its answer, which is read    *)
(* for an error message at most.  An exception, the operator's interrupt   *)
(* included, skips to the finally clause; then the process ends, and the   *)
(* operator may start the next one at once.                                *)
(*                                                                         *)
(* Driver and scheduler may be late, without limit; the controller and the *)
(* switches keep up, and switches connect while the driver waits for it.   *)
(***************************************************************************)
EXTENDS Controller

CONSTANTS
  Cables,       \* the links in the order they are registered
  Served,       \* the host pairs in the order they are registered
  Doomed,       \* the links that will fail, in the order of the list
  Boot,         \* what the driver sleeps before it registers links,
  Prepare,      \* for the servers to start,
  RunTime,      \* until the disaster is over,
  CleanupTime,  \* and before the next experiment
  EarliestFail, \* the least time after which a link fails
  MaxRounds     \* bound: experiments, interrupted ones included

VARIABLES
  todo,     \* the steps the driver still has to take
  sleep,    \* what is left of its sleep
  rounds,   \* experiments begun
  failAt,   \* fail_at_sec of the links of this experiment
  netUp,    \* the network is started
  fuse,     \* what each scheduled failure has left to wait
  foreseen  \* links an update has avoided for a known failure (history)

drvVars == <<todo, sleep, rounds, failAt>>
envVars == <<netUp, fuse>>
expVars == <<drvVars, envVars, foreseen>>
allVars == <<vars, expVars>>

\* The driver names links, pairs of hosts and links again; it waits before it
\* registers links, and what it sleeps before it reports the disaster is more
\* than an interval between updates (10 s and 30 s; 30 s).
ASSUME ScheduleAssumption ==
  /\ Cables \in Seq(Wires) /\ Served \in Seq(Pairs) /\ Doomed \in Seq(Wires)
  /\ {Boot, Prepare, RunTime, CleanupTime} \subseteq Nat
  /\ Boot > 0 /\ Boot + Prepare > UpdateInterval

\* There are pairs to serve; no client fails at second 0 (they fail from 300 s
\* on), and no link before there was time for an update (60 s and 30 s).
ASSUME FailureAssumption ==
  /\ Served # <<>> /\ 0 \notin ClientFailTimes
  /\ EarliestFail \in Nat /\ EarliestFail > UpdateInterval

-----------------------------------------------------------------------------
(* The program. *)

Do(op, arg)  == <<[do |-> op, arg |-> arg]>>
All(op, s)   == [i \in DOMAIN s |-> [do |-> op, arg |-> s[i]]]

Cleanup == Do("stop", 0) \o Do("init", 0)

\* Slip: the switches are not waited for.
SlipRun ==
  Do("start", 0) \o All("link", Cables) \o All("pair", Served) \o Do("sleep", Prepare)
  \o Do("disaster", 0) \o All("fail", Doomed) \o All("client", Served)
  \o Do("schedule", 0) \o Do("sleep", RunTime)

\* Slip: the disaster starts before the servers had their time to boot.
SlipRunEarly ==
  Do("start", 0) \o Do("sleep", Boot) \o All("link", Cables) \o All("pair", Served)
  \o Do("disaster", 0) \o Do("sleep", Prepare) \o All("fail", Doomed) \o All("client", Served)
  \o Do("schedule", 0) \o Do("sleep", RunTime)

\* The try clause of run.
Run ==
  Do("start", 0) \o Do("sleep", Boot) \o All("link", Cables) \o All("pair", Served)
  \o Do("sleep", Prepare) \o Do("disaster", 0) \o All("fail", Doomed) \o All("client", Served)
  \o Do("schedule", 0) \o Do("sleep", RunTime)

\* Slip: a link may fail at any time.
SlipRandFailTimes == FailTimes

\* __rand_link_fail_time.
RandFailTimes == {t \in FailTimes : t >= EarliestFail}

\* The next experiment of main.
Begin ==
  /\ todo = <<>> /\ sleep = 0 /\ rounds < MaxRounds
  /\ todo' = Run \o Cleanup \o Do("sleep", CleanupTime)
  /\ failAt' \in [ToSet(Doomed) -> RandFailTimes]
  /\ rounds' = rounds + 1
  /\ UNCHANGED <<vars, sleep, envVars, foreseen>>

\* Something raises: the finally clause, without the pause after it.
Interrupt ==
  /\ Len(todo) > Len(Cleanup) + 1 \/ sleep > 0
  /\ todo' = (IF todo = <<>> THEN <<>> ELSE Cleanup) /\ sleep' = 0
  /\ UNCHANGED <<vars, rounds, failAt, envVars, foreseen>>

-----------------------------------------------------------------------------
(* The steps of the driver. *)

Takes(op) ==
  /\ sleep = 0 /\ running = Idle
  /\ todo # <<>> /\ Head(todo).do = op
  /\ todo' = Tail(todo)
  /\ UNCHANGED <<rounds, failAt>>
Arg == Head(todo).arg

Sleep == Takes("sleep") /\ sleep' = Arg /\ UNCHANGED <<vars, envVars, foreseen>>

\* The requests: register_links, register_host_pairs, __start_backup and
\* __register_disaster_info.  The links are there, so that no request fails.
Request ==
  /\ \/ Takes("link") /\ \E bw \in Bandwidths : PostLink(Arg, bw)
     \/ Takes("pair") /\ PostHostPair(Arg[1], Arg[2])
     \/ Takes("fail") /\ PutLink(Arg, failAt[Arg])
     \/ Takes("client") /\ \E t \in ClientFailTimes, n \in DataSizes : PutHostClient(Arg[1], t, n)
     \/ Takes("init") /\ PutInit
  /\ UNCHANGED <<sleep, envVars, foreseen>>

\* The links of which an update that begins now expects less than an interval.
Weighted ==
  {l.ends : l \in {m \in links :
     /\ m.failAt # Unknown
     /\ OperatingSec(m.failAt, updateTimes * UpdateInterval, UpdateInterval) < UpdateInterval}}
Foresee ==
  foreseen' = IF running'.kind = "update" THEN foreseen \union Weighted ELSE foreseen
Disaster == Takes("disaster") /\ PostDisaster /\ Foresee /\ UNCHANGED <<sleep, envVars>>

\* Mininet starts and stops the network.  Stopping it deletes all ports, which
\* the controller is told of by switches that are not gone before.  A timer of
\* the scheduler that is left over is not cancelled, but finds a switch whose
\* shell has ended: vsctl raises in its thread, and nothing follows from it.
Start ==
  /\ Takes("start")
  /\ netUp' = TRUE /\ up' = LinkPorts /\ foreseen' = {}
  /\ UNCHANGED <<calcVars, ctlVars, taskVars, conn, live, sendq, table, notices, age, sleep, fuse>>
Stop ==
  /\ Takes("stop")
  /\ netUp' = FALSE /\ up' = {} /\ live' = {} /\ fuse' = <<>>
  /\ sendq' = [s \in Switches |-> <<>>]
  /\ table' = [s \in Switches |-> [h \in DOMAIN table[s] |-> NoFlow]]
  /\ \E telling \in SUBSET live :
       notices' = [s \in Switches |->
         IF s \in telling THEN notices[s] \o SetToSeq({Port[e] : e \in {f \in up : f[1] = s}})
         ELSE notices[s]]
  /\ UNCHANGED <<calcVars, ctlVars, taskVars, conn, age, sleep, foreseen>>

\* DisasterScheduler.run, and __fail for a link: the timer of each failure is a
\* thread of its own, and deletes one port after the other.
Schedule ==
  Takes("schedule") /\ fuse' = failAt /\ UNCHANGED <<vars, sleep, netUp, foreseen>>
OneEnd(w) == CHOOSE e \in LinkPorts : {e[1], e[2]} = w
LinkFails(w) ==
  /\ fuse[w] = 0
  /\ IF OneEnd(w) \in up
     THEN DeletePort(OneEnd(w)[1], OneEnd(w)[2]) /\ UNCHANGED fuse
     ELSE DeletePort(OneEnd(w)[2], OneEnd(w)[1]) /\ fuse' = Restrict(fuse, DOMAIN fuse \ {w})
  /\ UNCHANGED <<drvVars, netUp, foreseen>>

-----------------------------------------------------------------------------
(* The controller, the switches and the time. *)

TimersFire == Firing /\ Foresee /\ UNCHANGED <<drvVars, envVars>>
SystemStep ==
  /\ TaskStep \/ Applying \/ Noticing \/ (netUp /\ Connecting)
  /\ UNCHANGED expVars

\* Controller and switches have done what there is to do.
Settled ==
  /\ \A s \in Switches : sendq[s] = <<>> /\ notices[s] = <<>>
  /\ \A i \in DOMAIN timers : timers[i] > 0
  /\ netUp => live = Switches
Down(n) == IF n = 0 THEN 0 ELSE n - 1
TimePasses ==
  /\ Settled /\ Tick
  /\ sleep' = Down(sleep)
  /\ fuse' = [w \in DOMAIN fuse |-> Down(fuse[w])]
  /\ UNCHANGED <<todo, rounds, failAt, netUp, foreseen>>

ExpInit ==
  /\ Init
  /\ todo = <<>> /\ sleep = 0 /\ rounds = 0 /\ failAt = <<>>
  /\ netUp = FALSE /\ fuse = <<>> /\ foreseen = {}
ExpNext ==
  \/ Begin \/ Interrupt \/ Sleep \/ Request \/ Disaster \/ Start \/ Stop \/ Schedule
  \/ \E w \in DOMAIN fuse : LinkFails(w)
  \/ TimersFire \/ SystemStep \/ TimePasses
ExpSpec == ExpInit /\ [][ExpNext]_allVars

-----------------------------------------------------------------------------
(* Properties.  RestartsFromZero and ElapsedNotAhead of Controller are     *)
(* checked here too: a timer may outlive PUT /init, and must be gone when  *)
(* the next experiment reports its disaster.                               *)

\* When the driver reports the disaster, updates begin, and they go on until
\* PUT /init: neither is the calculation without the switches it needs nor the
\* list of host pairs empty (run, start_update_path).
DisasterStartsUpdates == isUpdating => running.kind = "update" \/ Chains > 0

\* From the first update until a link fails, packets of every pair get to the
\* server and back: the flows of the hosts, sent once when the pair was
\* registered, and those of the routes are there (run, add_host_pair).
RoutesWork == isUpdating /\ up = LinkPorts /\ running = Idle /\ Settled => AllDelivered

\* The controller knows every link that works, from its registration on: the
\* deletion of a port of an earlier network, heard of late, takes away no link
\* of this one (the pause after Mininet.start, port_status_handler).
KnowsWhatWorks ==
  hostPairs # <<>> =>
    \A w \in ToSet(Cables) :
      (\A e \in LinkPorts : {e[1], e[2]} = w => e \in up) => Linked(w)

\* And it knows nothing else: a known link has both its ports, or the notice
\* that one is gone is on its way, whatever an earlier network has left behind
\* (the order of the steps of run, init, port_status_handler).
KnowsNothingElse == netUp => NoGhostLink

\* When a link fails, routes have been computed that expect less of it for that
\* failure, however late the driver registers it: the least time of a failure
\* leaves room for an update.  Only a failure on the very second of an update
\* may come before that update, if the driver is quick (__rand_link_fail_time,
\* __UPDATE_INTERVAL_SEC, __calc_takahira).
FailsOnUpdate(w) == \E n \in 1..MaxUpdates : failAt[w] = n * UpdateInterval
FailuresAreForeseen ==
  \A e \in LinkPorts :
    LET w == {e[1], e[2]}
    IN  netUp /\ e \notin up => w \in foreseen \/ FailsOnUpdate(w)

\* What is sent to a switch gets there: the datapath found for a connected
\* switch is of this experiment's connection (init, __find_dp).
DatapathsAreFresh == \A s \in live : KnownDp(s) => IsOpen(FindDp(s))
=============================================================================
