-------------------------- MODULE Experiment_proof --------------------------
(***************************************************************************)
(* RestartsFromZero, ElapsedNotAhead and DatapathsAreFresh, for every      *)
(* network, list of links and pairs, and number of experiments, whole or   *)
(* interrupted.                                                            *)
(*                                                                         *)
(* What the driver still has to do is known by the place of the disaster   *)
(* in it: what it sleeps before, and that it initializes the controller    *)
(* after it.  So a timer that outlived PUT /init is gone by the disaster,  *)
(* and there is one chain of updates at a time.                            *)
(***************************************************************************)
EXTENDS Experiment, Controller_proof

\* In q the disaster is step k, with the time for the servers to start before
\* it; the controller is initialized after it.  The other sleep before it is
\* step j, if it is still to come.
Plan(q, j, k) ==
  /\ k \in DOMAIN q /\ q[k].do = "disaster"
  /\ \A i \in DOMAIN q : q[i].do = "disaster" => i = k
  /\ \E i \in DOMAIN q : i > k /\ q[i].do = "init"
  /\ k > 1 => q[k - 1].do = "sleep" /\ q[k - 1].arg = Prepare
  /\ \A i \in 1..(k - 2) : q[i].do = "sleep" => i = j
  /\ j <= 0 \/ (j \in 1..(k - 2) /\ q[j].do = "sleep" /\ q[j].arg = Boot)
NoDisaster(q) == \A i \in DOMAIN q : q[i].do # "disaster"
HasInit(q)    == \E i \in DOMAIN q : q[i].do = "init"

\* What a timer has left, once the driver sleeps.
TimersLeft(j, k) ==
  \A i \in DOMAIN timers :
    /\ j <= 0 /\ k > 1 => timers[i] + Boot <= UpdateInterval + sleep
    /\ k = 1 => timers[i] + Boot + Prepare <= UpdateInterval + sleep

DriverInv ==
  /\ IsSeq(todo)
  /\ \/ NoDisaster(todo) /\ (isUpdating => HasInit(todo))
     \/ /\ ~isUpdating /\ sleep \in Nat
        /\ \E j, k \in Int : Plan(todo, j, k) /\ TimersLeft(j, k)

IsTask(r) == DOMAIN r = {"kind", "nr", "todo"}
UpdateInv ==
  /\ IsTask(running)
  /\ running.kind = "update" => isUpdating /\ timers = <<>>
  /\ ~isUpdating => updateTimes = 0 /\ routePriority = InitialRoutePriority
  /\ timers \in Seq(0..UpdateInterval) /\ Len(timers) <= 1
  /\ age \in Nat /\ updateTimes \in 0..MaxUpdates
  /\ isUpdating =>
       /\ updateTimes * UpdateInterval <= age + UpdateInterval
       /\ running.kind = "update" => updateTimes * UpdateInterval <= age
       /\ \A i \in DOMAIN timers : updateTimes * UpdateInterval <= age + timers[i]

RunInv == DriverInv /\ UpdateInv
-----------------------------------------------------------------------------
(* The plan. *)

Program == Run \o Cleanup \o Do("sleep", CleanupTime)

LEMMA DoIs ==
  ASSUME NEW op, NEW arg
  PROVE  /\ IsSeq(Do(op, arg)) /\ Len(Do(op, arg)) = 1 /\ DOMAIN Do(op, arg) = {1}
         /\ Do(op, arg)[1].do = op /\ Do(op, arg)[1].arg = arg
<1>1. Do(op, arg) = <<[do |-> op, arg |-> arg]>>
  BY DEF Do
<1> DEFINE x == [do |-> op, arg |-> arg]
<1>2. x.do = op /\ x.arg = arg
  OBVIOUS
<1> HIDE DEF x
<1>3. Do(op, arg) = <<x>>
  BY <1>1 DEF x
<1>4. <<x>> \in Seq({x}) /\ ToSet(<<x>>) = {x} /\ Len(<<x>>) = 1 /\ DOMAIN <<x>> = {1} /\ <<x>>[1] = x
  BY DEF ToSet
<1> QED
  BY <1>2, <1>3, <1>4 DEF IsSeq

LEMMA AllIs ==
  ASSUME NEW op, NEW S, NEW s \in Seq(S)
  PROVE  IsSeq(All(op, s)) /\ \A i \in DOMAIN All(op, s) : All(op, s)[i].do = op
<1> DEFINE T == {[do |-> op, arg |-> x] : x \in S}
<1>1. All(op, s) = [i \in 1..Len(s) |-> [do |-> op, arg |-> s[i]]] /\ Len(s) \in Nat
  BY DEF All
<1>2. \A i \in 1..Len(s) : [do |-> op, arg |-> s[i]] \in T
  OBVIOUS
<1>3. All(op, s) \in Seq(T)
  BY <1>1, <1>2
<1>4. \A i \in DOMAIN All(op, s) : All(op, s)[i].do = op
  BY <1>1
<1> HIDE DEF T
<1> QED
  BY <1>3, <1>4, SeqIsSeq

LEMMA JoinIs ==
  ASSUME NEW q, NEW r, IsSeq(q), IsSeq(r)
  PROVE  /\ IsSeq(q \o r) /\ DOMAIN (q \o r) = 1..(Len(q) + Len(r)) /\ Len(q \o r) = Len(q) + Len(r)
         /\ Len(q) \in Nat /\ DOMAIN q = 1..Len(q) /\ Len(r) \in Nat /\ DOMAIN r = 1..Len(r)
         /\ \A i \in 1..Len(q) : (q \o r)[i] = q[i]
         /\ \A i \in 1..Len(r) : (q \o r)[Len(q) + i] = r[i]
         /\ \A i \in 1..(Len(q) + Len(r)) : i \in 1..Len(q) \/ i - Len(q) \in 1..Len(r)
<1> DEFINE S == ToSet(q) \union ToSet(r)
<1>1. q \in Seq(S) /\ r \in Seq(S)
  <2>1. ToSet(q) \subseteq S /\ ToSet(r) \subseteq S
    OBVIOUS
  <2> QED
    BY <2>1, SeqMonotonic DEF IsSeq
<1> HIDE DEF S
<1>2. q \o r \in Seq(S) /\ Len(q \o r) = Len(q) + Len(r)
  BY <1>1
<1>3. IsSeq(q \o r)
  BY <1>2, SeqIsSeq
<1> QED
  BY <1>1, <1>2, <1>3

\* A program up to the disaster, a program with it, and with PUT /init at last.
Ready1(q) ==
  /\ IsSeq(q) /\ 2 \in DOMAIN q /\ q[2].do = "sleep" /\ q[2].arg = Boot
  /\ \A i \in DOMAIN q : q[i].do = "sleep" => i = 2
  /\ NoDisaster(q)
Ready2(q, k) ==
  /\ IsSeq(q) /\ k \in DOMAIN q /\ k > 3 /\ q[k].do = "disaster"
  /\ \A i \in DOMAIN q : q[i].do = "disaster" => i = k
  /\ q[k - 1].do = "sleep" /\ q[k - 1].arg = Prepare
  /\ \A i \in 1..(k - 2) : q[i].do = "sleep" => i = 2
  /\ q[2].do = "sleep" /\ q[2].arg = Boot


LEMMA JoinHas ==
  ASSUME NEW q, NEW r, IsSeq(q), IsSeq(r)
  PROVE  /\ IsSeq(q \o r) /\ DOMAIN q = 1..Len(q) /\ Len(q) \in Nat
         /\ \A i \in DOMAIN q : i \in DOMAIN (q \o r) /\ (q \o r)[i] = q[i]
         /\ \A i \in DOMAIN r : Len(q) + i \in DOMAIN (q \o r) /\ (q \o r)[Len(q) + i] = r[i]
         /\ \A i \in DOMAIN (q \o r) :
              i \in DOMAIN q \/ \E j \in DOMAIN r : i = Len(q) + j /\ (q \o r)[i] = r[j]
<1> DEFINE p == q \o r
<1>1. /\ IsSeq(p) /\ DOMAIN p = 1..(Len(q) + Len(r))
      /\ Len(q) \in Nat /\ DOMAIN q = 1..Len(q) /\ Len(r) \in Nat /\ DOMAIN r = 1..Len(r)
      /\ \A i \in 1..Len(q) : p[i] = q[i]
      /\ \A i \in 1..Len(r) : p[Len(q) + i] = r[i]
  BY JoinIs
<1> HIDE DEF p
<1>2. \A i \in DOMAIN q : i \in DOMAIN p /\ p[i] = q[i]
  BY <1>1
<1>3. \A i \in DOMAIN r : Len(q) + i \in DOMAIN p /\ p[Len(q) + i] = r[i]
  BY <1>1
<1>4. ASSUME NEW i \in DOMAIN p, i \notin DOMAIN q
      PROVE  \E j \in DOMAIN r : i = Len(q) + j /\ p[i] = r[j]
  <2>1. i - Len(q) \in DOMAIN r /\ i = Len(q) + (i - Len(q))
    BY <1>1, <1>4
  <2> QED
    BY <2>1, <1>1
<1> QED
  BY <1>1, <1>2, <1>3, <1>4 DEF p

LEMMA MoreReady1 ==
  ASSUME NEW q, Ready1(q), NEW r, IsSeq(r), \A i \in DOMAIN r : r[i].do \in {"link", "pair"}
  PROVE  Ready1(q \o r)
<1> DEFINE p == q \o r
<1>1. /\ IsSeq(p) /\ \A i \in DOMAIN q : i \in DOMAIN p /\ p[i] = q[i]
      /\ \A i \in DOMAIN p : i \in DOMAIN q \/ \E j \in DOMAIN r : i = Len(q) + j /\ p[i] = r[j]
  <2>1. IsSeq(q)
    BY DEF Ready1
  <2> QED
    BY <2>1, JoinHas, Zenon
<1> HIDE DEF p
<1>2. \A i \in DOMAIN p : i \in DOMAIN q \/ p[i].do \in {"link", "pair"}
  BY <1>1
<1>3. Ready1(p)
  BY <1>1, <1>2 DEF Ready1, NoDisaster
<1> QED
  BY <1>3 DEF p

LEMMA MoreReady2 ==
  ASSUME NEW q, NEW k, Ready2(q, k), NEW r, IsSeq(r), NoDisaster(r)
  PROVE  Ready2(q \o r, k)
<1> DEFINE p == q \o r
<1>1. /\ IsSeq(p) /\ \A i \in DOMAIN q : i \in DOMAIN p /\ p[i] = q[i]
      /\ \A i \in DOMAIN p : i \in DOMAIN q \/ \E j \in DOMAIN r : i = Len(q) + j /\ p[i] = r[j]
      /\ DOMAIN q = 1..Len(q) /\ Len(q) \in Nat
  <2>1. IsSeq(q)
    BY DEF Ready2
  <2> QED
    BY <2>1, JoinHas, Zenon
<1> HIDE DEF p
<1>2. \A i \in DOMAIN p : i \in DOMAIN q \/ p[i].do # "disaster"
  BY <1>1 DEF NoDisaster
<1>3. k \in DOMAIN q /\ k > 3 /\ k - 1 \in DOMAIN q /\ 2 \in DOMAIN q
  BY <1>1 DEF Ready2
<1>4. \A i \in 1..(k - 2) : i \in DOMAIN q
  BY <1>1, <1>3
<1>5. \A i \in 1..(k - 2) : p[i].do = "sleep" => i = 2
  BY <1>1, <1>4 DEF Ready2
<1>6. p[k] = q[k] /\ p[k - 1] = q[k - 1] /\ p[2] = q[2] /\ k \in DOMAIN p
  BY <1>1, <1>3
<1>7. Ready2(p, k)
  BY <1>1, <1>2, <1>3, <1>5, <1>6 DEF Ready2
<1> QED
  BY <1>7 DEF p

\* The sleep before the disaster, and the disaster.
LEMMA ReadyForIt ==
  ASSUME NEW q, Ready1(q)
  PROVE  Len(q) \in Nat /\ Ready2(q \o Do("sleep", Prepare) \o Do("disaster", 0), Len(q) + 2)
<1> DEFINE a == Do("sleep", Prepare)
           b == Do("disaster", 0)
           n == Len(q)
<1>1. /\ IsSeq(a) /\ Len(a) = 1 /\ DOMAIN a = {1} /\ a[1].do = "sleep" /\ a[1].arg = Prepare
      /\ IsSeq(b) /\ Len(b) = 1 /\ DOMAIN b = {1} /\ b[1].do = "disaster"
  BY DoIs
<1>2. IsSeq(q) /\ n \in Nat /\ DOMAIN q = 1..n
  BY JoinIs, <1>1 DEF Ready1
<1> HIDE DEF a, b, n
<1> DEFINE p == q \o a
<1>3. /\ IsSeq(p) /\ Len(p) = n + 1 /\ DOMAIN p = 1..(n + 1)
      /\ \A i \in 1..n : p[i] = q[i]
      /\ p[n + 1] = a[1]
  <2>1. /\ IsSeq(p) /\ DOMAIN p = 1..(n + Len(a)) /\ Len(p) = n + Len(a)
        /\ \A i \in 1..n : p[i] = q[i]
        /\ \A i \in 1..Len(a) : p[n + i] = a[i]
    BY <1>1, <1>2, JoinIs, Zenon DEF n
  <2>2. 1 \in 1..Len(a) /\ n + Len(a) = n + 1
    BY <1>1, <1>2
  <2> QED
    BY <2>1, <2>2, <1>1
<1>4. p[n + 1] = a[1]
  BY <1>3
<1> HIDE DEF p
<1> DEFINE o == p \o b
<1>5. /\ IsSeq(o) /\ DOMAIN o = 1..(n + 1 + 1)
      /\ \A i \in 1..(n + 1) : o[i] = p[i]
      /\ o[n + 1 + 1] = b[1]
  <2>1. /\ IsSeq(o) /\ DOMAIN o = 1..(Len(p) + Len(b))
        /\ \A i \in 1..Len(p) : o[i] = p[i]
        /\ \A i \in 1..Len(b) : o[Len(p) + i] = b[i]
    BY <1>1, <1>3, JoinIs, Zenon
  <2> QED
    BY <2>1, <1>1, <1>3
<1>6. o[n + 1 + 1] = b[1]
  BY <1>5
<1> HIDE DEF o
<1>7. DOMAIN o = 1..(n + 2) /\ o[n + 2] = b[1] /\ o[n + 1] = a[1] /\ \A i \in 1..n : o[i] = q[i]
  <2>1. n + 1 + 1 = n + 2 /\ n + 1 \in 1..(n + 1) /\ \A i \in 1..n : i \in 1..(n + 1)
    BY <1>2
  <2> QED
    BY <2>1, <1>3, <1>4, <1>5, <1>6
<1>8. /\ n + 2 > 3 /\ n + 2 \in 1..(n + 2) /\ (n + 2) - 1 = n + 1 /\ (n + 2) - 2 = n
      /\ \A i \in 1..(n + 2) : i \in 1..n \/ i = n + 1 \/ i = n + 2
      /\ 2 \in 1..n
  BY <1>2 DEF Ready1
<1>9. /\ \A i \in 1..n : q[i].do # "disaster" /\ (q[i].do = "sleep" => i = 2)
      /\ q[2].do = "sleep" /\ q[2].arg = Boot
  BY <1>2 DEF Ready1, NoDisaster
<1>10. Ready2(o, n + 2)
  <2>1. \A i \in DOMAIN o : o[i].do = "disaster" => i = n + 2
    BY <1>1, <1>7, <1>8, <1>9
  <2>2. \A i \in 1..((n + 2) - 2) : o[i].do = "sleep" => i = 2
    BY <1>7, <1>8, <1>9
  <2>3. o[(n + 2) - 1].do = "sleep" /\ o[(n + 2) - 1].arg = Prepare /\ o[n + 2].do = "disaster"
    BY <1>1, <1>7, <1>8
  <2>4. o[2] = q[2]
    BY <1>7, <1>8
  <2> QED
    BY <1>5, <1>7, <1>8, <1>9, <2>1, <2>2, <2>3, <2>4 DEF Ready2
<1> QED
  BY <1>2, <1>10 DEF o, p, a, b, n

LEMMA CleanupIs ==
  /\ IsSeq(Cleanup) /\ NoDisaster(Cleanup) /\ HasInit(Cleanup) /\ Len(Cleanup) = 2
  /\ DOMAIN Cleanup = 1..2 /\ Cleanup[1].do = "stop" /\ Cleanup[2].do = "init"
<1> DEFINE a == Do("stop", 0)
           b == Do("init", 0)
<1>1. /\ IsSeq(a) /\ Len(a) = 1 /\ DOMAIN a = {1} /\ a[1].do = "stop"
      /\ IsSeq(b) /\ Len(b) = 1 /\ DOMAIN b = {1} /\ b[1].do = "init"
  BY DoIs
<1> HIDE DEF a, b
<1> DEFINE c == a \o b
<1>2. /\ IsSeq(c) /\ Len(c) = Len(a) + Len(b)
      /\ \A i \in DOMAIN a : i \in DOMAIN c /\ c[i] = a[i]
      /\ \A i \in DOMAIN b : Len(a) + i \in DOMAIN c /\ c[Len(a) + i] = b[i]
      /\ \A i \in DOMAIN c : i \in DOMAIN a \/ \E j \in DOMAIN b : i = Len(a) + j /\ c[i] = b[j]
  BY <1>1, JoinIs, JoinHas, Zenon
<1>3. c = Cleanup
  BY DEF a, b, Cleanup
<1> HIDE DEF c
<1>4. \A i \in DOMAIN c : c[i].do # "disaster"
  BY <1>1, <1>2
<1>5. DOMAIN c = 1..2 /\ c[1].do = "stop" /\ c[2].do = "init"
  BY <1>1, <1>2, IsSeqLen
<1> QED
  BY <1>1, <1>2, <1>3, <1>4, <1>5 DEF NoDisaster, HasInit

LEMMA InitAtLast ==
  ASSUME NEW f, IsSeq(f), NEW k, k \in DOMAIN f, NEW g, IsSeq(g), HasInit(g), NEW h, IsSeq(h)
  PROVE  \E i \in DOMAIN (f \o g \o h) : i > k /\ (f \o g \o h)[i].do = "init"
<1> DEFINE o == f \o g
           p == o \o h
<1>1. /\ IsSeq(o) /\ DOMAIN f = 1..Len(f) /\ Len(f) \in Nat
      /\ \A i \in DOMAIN g : Len(f) + i \in DOMAIN o /\ o[Len(f) + i] = g[i]
  <2>1. /\ IsSeq(f \o g) /\ DOMAIN f = 1..Len(f) /\ Len(f) \in Nat
        /\ \A i \in DOMAIN f : i \in DOMAIN (f \o g) /\ (f \o g)[i] = f[i]
        /\ \A i \in DOMAIN g : Len(f) + i \in DOMAIN (f \o g) /\ (f \o g)[Len(f) + i] = g[i]
        /\ \A i \in DOMAIN (f \o g) :
             i \in DOMAIN f \/ \E j \in DOMAIN g : i = Len(f) + j /\ (f \o g)[i] = g[j]
    BY JoinHas, Zenon
  <2> QED
    BY <2>1, Zenon
<1> HIDE DEF o
<1>2. \A i \in DOMAIN o : i \in DOMAIN p /\ p[i] = o[i]
  BY <1>1, JoinHas, Zenon
<1> HIDE DEF p
<1>3. PICK i \in DOMAIN g : g[i].do = "init"
  BY DEF HasInit
<1>4. i \in Nat /\ i > 0
  BY <1>3, JoinIs
<1>5. Len(f) + i \in DOMAIN p /\ p[Len(f) + i].do = "init"
  BY <1>1, <1>2, <1>3
<1>6. Len(f) + i > k
  BY <1>1, <1>4
<1> QED
  BY <1>5, <1>6 DEF p, o

\* Where the disaster is in the program of an experiment.
LEMMA ProgramIsAPlan == IsSeq(Program) /\ \E k \in Int : Plan(Program, 2, k)
<1> DEFINE q1 == Do("start", 0) \o Do("sleep", Boot)
           q2 == q1 \o All("link", Cables)
           q3 == q2 \o All("pair", Served)
           q4 == q3 \o Do("sleep", Prepare) \o Do("disaster", 0)
           q5 == q4 \o All("fail", Doomed)
           q6 == q5 \o All("client", Served)
           q7 == q6 \o Do("schedule", 0)
           q8 == q7 \o Do("sleep", RunTime)
           q9 == q8 \o Cleanup
           q10 == q9 \o Do("sleep", CleanupTime)
           k  == Len(q3) + 2
<1>1. Ready1(q1)
  <2> DEFINE a == Do("start", 0)
             b == Do("sleep", Boot)
             c == a \o b
  <2>1. /\ IsSeq(a) /\ Len(a) = 1 /\ DOMAIN a = {1} /\ a[1].do = "start"
        /\ IsSeq(b) /\ Len(b) = 1 /\ DOMAIN b = {1} /\ b[1].do = "sleep" /\ b[1].arg = Boot
    BY DoIs
  <2>2. c = q1
    OBVIOUS
  <2> HIDE DEF a, b, q1
  <2>3. /\ IsSeq(c)
        /\ \A i \in DOMAIN a : i \in DOMAIN c /\ c[i] = a[i]
        /\ \A i \in DOMAIN b : Len(a) + i \in DOMAIN c /\ c[Len(a) + i] = b[i]
        /\ \A i \in DOMAIN c : i \in DOMAIN a \/ \E j \in DOMAIN b : i = Len(a) + j /\ c[i] = b[j]
    BY <2>1, JoinHas, Zenon
  <2> HIDE DEF c
  <2>4. 2 \in DOMAIN c /\ c[2] = b[1]
    BY <2>1, <2>3
  <2>5. \A i \in DOMAIN c : i = 2 \/ c[i] = a[1]
    BY <2>1, <2>3
  <2>6. Ready1(c)
    BY <2>1, <2>3, <2>4, <2>5 DEF Ready1, NoDisaster
  <2> QED
    BY <2>2, <2>6
<1>2. Ready1(q2)
  <2>1. IsSeq(All("link", Cables)) /\ \A i \in DOMAIN All("link", Cables) : All("link", Cables)[i].do = "link"
    BY ScheduleAssumption, AllIs
  <2> HIDE DEF q1
  <2> QED
    BY <2>1, <1>1, MoreReady1
<1>3. Ready1(q3)
  <2>1. IsSeq(All("pair", Served)) /\ \A i \in DOMAIN All("pair", Served) : All("pair", Served)[i].do = "pair"
    BY ScheduleAssumption, AllIs
  <2> HIDE DEF q2
  <2> QED
    BY <2>1, <1>2, MoreReady1
<1>4. Ready2(q4, k) /\ k \in Nat
  <2> HIDE DEF q3
  <2> QED
    BY <1>3, ReadyForIt
<1>5. Ready2(q5, k)
  <2>1. IsSeq(All("fail", Doomed)) /\ NoDisaster(All("fail", Doomed))
    BY ScheduleAssumption, AllIs DEF NoDisaster
  <2> HIDE DEF q4, k
  <2> QED
    BY <2>1, <1>4, MoreReady2
<1>6. Ready2(q6, k)
  <2>1. IsSeq(All("client", Served)) /\ NoDisaster(All("client", Served))
    BY ScheduleAssumption, AllIs DEF NoDisaster
  <2> HIDE DEF q5, k
  <2> QED
    BY <2>1, <1>5, MoreReady2
<1>7. Ready2(q7, k)
  <2>1. IsSeq(Do("schedule", 0)) /\ NoDisaster(Do("schedule", 0))
    BY DoIs DEF NoDisaster
  <2> HIDE DEF q6, k
  <2> QED
    BY <2>1, <1>6, MoreReady2
<1>8. Ready2(q8, k)
  <2>1. IsSeq(Do("sleep", RunTime)) /\ NoDisaster(Do("sleep", RunTime))
    BY DoIs DEF NoDisaster
  <2> HIDE DEF q7, k
  <2> QED
    BY <2>1, <1>7, MoreReady2
<1>9. Ready2(q9, k)
  <2> HIDE DEF q8, k
  <2> QED
    BY CleanupIs, <1>8, MoreReady2
<1>10. Ready2(q10, k)
  <2>1. IsSeq(Do("sleep", CleanupTime)) /\ NoDisaster(Do("sleep", CleanupTime))
    BY DoIs DEF NoDisaster
  <2> HIDE DEF q9, k
  <2> QED
    BY <2>1, <1>9, MoreReady2
<1>11. \E i \in DOMAIN q10 : i > k /\ q10[i].do = "init"
  <2>1. IsSeq(q8) /\ k \in DOMAIN q8
    BY <1>8 DEF Ready2
  <2>2. IsSeq(Do("sleep", CleanupTime)) /\ IsSeq(Cleanup) /\ HasInit(Cleanup)
    BY CleanupIs, DoIs
  <2> HIDE DEF q8, k
  <2> QED
    BY <2>1, <2>2, <1>4, InitAtLast
<1>12. q10 = Program
  BY DEF Program, Run
<1> HIDE DEF q10, k
<1>13. Plan(q10, 2, k)
  BY <1>10, <1>11, <1>4 DEF Ready2, Plan
<1> QED
  BY <1>4, <1>10, <1>12, <1>13 DEF Ready2

\* One step done.
LEMMA PlanGoesOn ==
  ASSUME NEW q, IsSeq(q), q # <<>>, NEW j \in Int, NEW k \in Int, Plan(q, j, k)
  PROVE  /\ IsSeq(Tail(q))
         /\ k > 1 => Plan(Tail(q), j - 1, k - 1) /\ Head(q).do # "disaster"
         /\ k > 1 /\ Head(q).do = "sleep" => \/ j = 1 /\ Head(q).arg = Boot
                                             \/ k = 2 /\ Head(q).arg = Prepare
         /\ k = 2 => Head(q).do = "sleep" /\ Head(q).arg = Prepare
         /\ k > 1 /\ j = 1 => Head(q).do = "sleep"
         /\ k = 1 => NoDisaster(Tail(q)) /\ HasInit(Tail(q)) /\ Head(q).do = "disaster"
         /\ k >= 1
<1> DEFINE t == Tail(q)
           n == Len(q)
<1>1. /\ n \in Nat /\ n > 0 /\ DOMAIN q = 1..n /\ Head(q) = q[1]
      /\ IsSeq(t) /\ DOMAIN t = 1..(n - 1) /\ \A i \in 1..(n - 1) : t[i] = q[i + 1]
  <2>1. q \in Seq(ToSet(q))
    BY DEF IsSeq
  <2>2. t \in Seq(ToSet(q)) /\ Len(t) = n - 1 /\ Head(q) = q[1] /\ n \in Nat /\ n > 0
    BY <2>1
  <2>3. IsSeq(t)
    BY <2>2, SeqIsSeq
  <2>4. \A i \in 1..(n - 1) : t[i] = q[i + 1]
    BY <2>1
  <2> QED
    BY <2>1, <2>2, <2>3, <2>4
<1> HIDE DEF t, n
<1>2. k \in 1..n
  BY <1>1 DEF Plan
<1>3. CASE k > 1
  <2>1. \A i \in DOMAIN t : i + 1 \in DOMAIN q /\ t[i] = q[i + 1] /\ i \in Int
    BY <1>1
  <2>2. k - 1 \in DOMAIN t /\ (k - 1) + 1 = k /\ t[k - 1] = q[k]
    BY <1>1, <1>2, <1>3
  <2>3. \A i \in DOMAIN t : t[i].do = "disaster" => i = k - 1
    BY <2>1, <1>2 DEF Plan
  <2>4. \E i \in DOMAIN t : i > k - 1 /\ t[i].do = "init"
    <3>1. PICK i \in DOMAIN q : i > k /\ q[i].do = "init"
      BY DEF Plan
    <3>2. i - 1 \in DOMAIN t /\ (i - 1) + 1 = i /\ i - 1 > k - 1 /\ t[i - 1] = q[i]
      BY <3>1, <1>1, <1>2, <1>3
    <3> QED
      BY <3>1, <3>2
  <2>5. k - 1 > 1 => t[(k - 1) - 1] = q[k - 1]
    <3>1. ASSUME k - 1 > 1 PROVE (k - 1) - 1 \in 1..(n - 1) /\ ((k - 1) - 1) + 1 = k - 1
      BY <3>1, <1>1, <1>2
    <3> QED
      BY <3>1, <1>1
  <2>6. \A i \in 1..((k - 1) - 2) : t[i].do = "sleep" => i = j - 1
    <3>1. ASSUME NEW i \in 1..((k - 1) - 2), t[i].do = "sleep" PROVE i = j - 1
      <4>1. i + 1 \in 1..(k - 2) /\ i \in 1..(n - 1)
        BY <1>1, <1>2
      <4>2. i + 1 = j
        BY <4>1, <3>1, <1>1 DEF Plan
      <4> QED
        BY <4>2, <4>1
    <3> QED
      BY <3>1
  <2>7. \/ j - 1 <= 0
        \/ j - 1 \in 1..((k - 1) - 2) /\ t[j - 1].do = "sleep" /\ t[j - 1].arg = Boot
    <3>1. CASE j <= 1
      BY <3>1
    <3>2. CASE j > 1
      <4>1. j \in 1..(k - 2) /\ q[j].do = "sleep" /\ q[j].arg = Boot
        BY <3>2 DEF Plan
      <4>2. j - 1 \in 1..(n - 1) /\ (j - 1) + 1 = j /\ j - 1 \in 1..((k - 1) - 2)
        BY <4>1, <3>2, <1>1, <1>2
      <4> QED
        BY <4>1, <4>2, <1>1
    <3> QED
      BY <3>1, <3>2
  <2>8. Plan(t, j - 1, k - 1)
    <3>1. t[k - 1].do = "disaster" /\ (k > 1 => q[k - 1].do = "sleep" /\ q[k - 1].arg = Prepare)
      BY <2>2 DEF Plan
    <3> QED
      BY <3>1, <1>3, <2>2, <2>3, <2>4, <2>5, <2>6, <2>7 DEF Plan
  <2>9. Head(q).do # "disaster"
    BY <1>1, <1>3 DEF Plan
  <2>10. k = 2 => Head(q).do = "sleep" /\ Head(q).arg = Prepare
    BY <1>1, <1>3 DEF Plan
  <2>11. ASSUME Head(q).do = "sleep", k # 2
         PROVE  j = 1 /\ Head(q).arg = Boot
    <3>1. 1 \in 1..(k - 2)
      BY <1>3, <2>11
    <3>2. 1 = j
      BY <3>1, <2>11, <1>1 DEF Plan
    <3> QED
      BY <3>2, <1>1 DEF Plan
  <2>12. j = 1 => Head(q).do = "sleep"
    BY <1>1 DEF Plan
  <2> QED
    BY <1>1, <1>2, <1>3, <2>8, <2>9, <2>10, <2>11, <2>12 DEF t
<1>4. CASE k = 1
  <2>1. NoDisaster(t)
    <3>1. ASSUME NEW i \in DOMAIN t PROVE t[i].do # "disaster"
      <4>1. i + 1 \in 1..n /\ i + 1 # 1 /\ t[i] = q[i + 1]
        BY <1>1
      <4> QED
        BY <4>1, <1>4, <1>1 DEF Plan
    <3> QED
      BY <3>1 DEF NoDisaster
  <2>2. HasInit(t)
    <3>1. PICK i \in DOMAIN q : i > 1 /\ q[i].do = "init"
      BY <1>4 DEF Plan
    <3>2. i - 1 \in DOMAIN t /\ (i - 1) + 1 = i /\ t[i - 1] = q[i]
      BY <3>1, <1>1
    <3> QED
      BY <3>1, <3>2 DEF HasInit
  <2>3. Head(q).do = "disaster"
    BY <1>1, <1>4 DEF Plan
  <2> QED
    BY <1>1, <1>4, <2>1, <2>2, <2>3 DEF t
<1> QED
  BY <1>1, <1>2, <1>3, <1>4

LEMMA RestGoesOn ==
  ASSUME NEW q, IsSeq(q), q # <<>>
  PROVE  /\ IsSeq(Tail(q))
         /\ NoDisaster(q) => NoDisaster(Tail(q)) /\ Head(q).do # "disaster"
         /\ HasInit(q) /\ Head(q).do # "init" => HasInit(Tail(q))
<1> DEFINE t == Tail(q)
           n == Len(q)
<1>1. /\ n \in Nat /\ DOMAIN q = 1..n
  BY DEF IsSeq
<1>2. /\ IsSeq(t) /\ 1 \in DOMAIN q /\ Head(q) = q[1]
      /\ DOMAIN t = 1..(n - 1) /\ \A i \in DOMAIN t : i + 1 \in DOMAIN q /\ t[i] = q[i + 1]
  BY TailIsSeq
<1> HIDE DEF t, n
<1>3. ASSUME HasInit(q), q[1].do # "init" PROVE HasInit(t)
  <2>1. PICK i \in DOMAIN q : q[i].do = "init"
    BY <1>3 DEF HasInit
  <2>2. i - 1 \in DOMAIN t /\ (i - 1) + 1 = i
    BY <1>1, <1>2, <1>3, <2>1
  <2> QED
    BY <2>1, <2>2, <1>2 DEF HasInit
<1>4. NoDisaster(q) => NoDisaster(t) /\ q[1].do # "disaster"
  BY <1>2 DEF NoDisaster
<1> QED
  BY <1>2, <1>3, <1>4 DEF t

-----------------------------------------------------------------------------
(* The driver's place in it. *)

\* A step that is taken, neither disaster nor initialization, changes no timer.
LEMMA TakesKeepsPlace ==
  ASSUME DriverInv, NEW op, Takes(op), op # "disaster",
         isUpdating' = FALSE \/ (op # "init" /\ isUpdating' = isUpdating),
         timers' = timers, timers \in Seq(0..UpdateInterval),
         sleep' = IF op = "sleep" THEN Head(todo).arg ELSE sleep
  PROVE  DriverInv'
<1>1. IsSeq(todo) /\ todo # <<>> /\ Head(todo).do = op /\ todo' = Tail(todo) /\ sleep = 0
  BY DEF DriverInv, Takes
<1>2. /\ IsSeq(todo')
      /\ NoDisaster(todo) => NoDisaster(todo')
      /\ HasInit(todo) /\ op # "init" => HasInit(todo')
  BY <1>1, RestGoesOn
<1>3. CASE NoDisaster(todo) /\ (isUpdating => HasInit(todo))
  <2>1. IsSeq(todo)' /\ NoDisaster(todo)' /\ (isUpdating' => HasInit(todo)')
    BY <1>2, <1>3 DEF IsSeq, NoDisaster, HasInit
  <2> QED
    BY <2>1 DEF DriverInv
<1>4. CASE ~isUpdating /\ sleep \in Nat /\ \E j, k \in Int : Plan(todo, j, k) /\ TimersLeft(j, k)
  <2>1. PICK j \in Int, k \in Int : Plan(todo, j, k) /\ TimersLeft(j, k)
    BY <1>4
  <2>2. /\ k > 1 => Plan(todo', j - 1, k - 1)
        /\ k > 1 /\ op = "sleep" => \/ j = 1 /\ Head(todo).arg = Boot
                                    \/ k = 2 /\ Head(todo).arg = Prepare
        /\ k = 2 => op = "sleep" /\ Head(todo).arg = Prepare
        /\ k > 1 /\ j = 1 => op = "sleep"
        /\ k = 1 => op = "disaster"
        /\ k >= 1
    BY <1>1, <2>1, PlanGoesOn
  <2>3. k > 1 /\ Plan(todo', j - 1, k - 1)
    BY <2>2
  <2>4. /\ Boot \in Nat /\ Prepare \in Nat /\ UpdateInterval \in Nat
        /\ \A i \in DOMAIN timers : timers[i] \in 0..UpdateInterval
    BY ScheduleAssumption, TimeAssumption
  <2>5. sleep' \in Nat
    BY <1>1, <2>2, <2>3, <2>4
  <2>6. ASSUME NEW i \in DOMAIN timers, j - 1 <= 0, k - 1 > 1
        PROVE  timers[i] + Boot <= UpdateInterval + sleep'
    <3>1. CASE j = 1
      <4>1. sleep' = Boot
        BY <2>2, <2>3, <2>6, <3>1
      <4> QED
        BY <4>1, <2>4
    <3>2. CASE j <= 0
      <4>1. timers[i] + Boot <= UpdateInterval + sleep
        BY <2>1, <2>3, <3>2 DEF TimersLeft
      <4>2. sleep' = sleep
        BY <2>2, <2>6, <3>2
      <4> QED
        BY <4>1, <4>2
    <3> QED
      BY <2>6, <3>1, <3>2
  <2>7. ASSUME NEW i \in DOMAIN timers, k - 1 = 1
        PROVE  timers[i] + Boot + Prepare <= UpdateInterval + sleep'
    <3>1. k = 2 /\ j <= 0
      <4>1. k = 2
        BY <2>7
      <4> QED
        BY <4>1, <2>1 DEF Plan
    <3>2. timers[i] + Boot <= UpdateInterval + sleep
      BY <2>1, <3>1 DEF TimersLeft
    <3>3. sleep' = Prepare /\ sleep = 0
      BY <1>1, <2>2, <3>1
    <3> QED
      BY <3>2, <3>3, <2>4
  <2>8. TimersLeft(j - 1, k - 1)'
    BY <2>6, <2>7 DEF TimersLeft
  <2>9. Plan(todo, j - 1, k - 1)'
    BY <2>3 DEF Plan
  <2>10. \E l, m \in Int : (Plan(todo, l, m) /\ TimersLeft(l, m))'
    <3> DEFINE l == j - 1
               m == k - 1
    <3>1. l \in Int /\ m \in Int /\ Plan(todo, l, m)' /\ TimersLeft(l, m)'
      BY <2>8, <2>9
    <3> HIDE DEF l, m
    <3> QED
      BY <3>1
  <2>11. ~isUpdating'
    BY <1>4
  <2>12. IsSeq(todo)'
    BY <1>2 DEF IsSeq
  <2> QED
    BY <2>5, <2>10, <2>11, <2>12 DEF DriverInv
<1> QED
  BY <1>3, <1>4 DEF DriverInv

-----------------------------------------------------------------------------
(* The steps that have nothing to do with updates. *)

Quiet ==
  /\ UNCHANGED <<isUpdating, updateTimes, routePriority, timers, age>>
  /\ \/ running' = running \/ running' = Idle \/ running' = Rest
     \/ \E c, s : running' = HostsTask(c, s)

LEMMA TasksAre ==
  /\ IsTask(Idle) /\ Idle.kind = "idle"
  /\ \A c, s : IsTask(HostsTask(c, s)) /\ HostsTask(c, s).kind = "hosts"
  /\ \A r : IsTask(UpdateTask(r)) /\ UpdateTask(r).kind = "update"
  /\ IsTask(running) => IsTask(Rest) /\ Rest.kind = running.kind
<1>1. IsTask(Idle) /\ Idle.kind = "idle"
  BY DEF IsTask, Idle
<1>2. \A c, s : IsTask(HostsTask(c, s)) /\ HostsTask(c, s).kind = "hosts"
  BY DEF IsTask, HostsTask
<1>3. \A r : IsTask(UpdateTask(r)) /\ UpdateTask(r).kind = "update"
  BY DEF IsTask, UpdateTask
<1>4. ASSUME IsTask(running) PROVE IsTask(Rest) /\ Rest.kind = running.kind
  BY <1>4 DEF IsTask, Rest
<1> QED
  BY <1>1, <1>2, <1>3, <1>4

LEMMA TimerRange ==
  ASSUME UpdateInv
  PROVE  /\ timers \in Seq(0..UpdateInterval) /\ DOMAIN timers = 1..Len(timers)
         /\ Len(timers) \in 0..1
         /\ \A i \in DOMAIN timers : timers[i] \in 0..UpdateInterval /\ i = 1
<1> DEFINE S == 0..UpdateInterval
<1>1. timers \in Seq(S) /\ Len(timers) <= 1
  BY DEF UpdateInv
<1> HIDE DEF S
<1>2. DOMAIN timers = 1..Len(timers) /\ Len(timers) \in Nat
  BY <1>1, LenProperties
<1>3. \A i \in 1..Len(timers) : timers[i] \in S
  BY <1>1, ElementOfSeq
<1> QED
  BY <1>1, <1>2, <1>3 DEF S

LEMMA QuietKeepsUpdates == UpdateInv /\ Quiet => UpdateInv'
<1> SUFFICES ASSUME UpdateInv, Quiet PROVE UpdateInv'
  OBVIOUS
<1>1. IsTask(running') /\ (running'.kind = "update" => running.kind = "update")
  BY TasksAre DEF UpdateInv, Quiet, IsTask
<1> QED
  BY <1>1 DEF UpdateInv, Quiet, IsTask

LEMMA QuietSteps ==
  /\ \A w, bw : PostLink(w, bw) => Quiet
  /\ \A w, f : PutLink(w, f) => Quiet
  /\ \A c, s : PostHostPair(c, s) => Quiet
  /\ \A c, f, n : PutHostClient(c, f, n) => Quiet
  /\ (TakeStep \/ Wait \/ Raise \/ FinishHosts) => Quiet
  /\ \A s : (Apply(s) \/ PortStatus(s) \/ SwitchFeatures(s)) => Quiet
  /\ \A s, x : DeletePort(s, x) => Quiet
  /\ UNCHANGED vars => Quiet
BY DEF Quiet, PostLink, PutLink, PostHostPair, PutHostClient, TakeStep, Wait, Raise, FinishHosts,
       Apply, PortStatus, SwitchFeatures, DeletePort, vars, ctlVars, taskVars, netVars, calcVars

LEMMA SameDriver ==
  ASSUME DriverInv, UNCHANGED <<todo, sleep, isUpdating, timers>>
  PROVE  DriverInv'
<1>1. todo' = todo /\ sleep' = sleep /\ isUpdating' = isUpdating /\ timers' = timers
  OBVIOUS
<1>2. IsSeq(todo)'
  BY <1>1 DEF DriverInv, IsSeq
<1>3. CASE NoDisaster(todo) /\ (isUpdating => HasInit(todo))
  <2>1. NoDisaster(todo)' /\ (isUpdating' => HasInit(todo)')
    BY <1>1, <1>3 DEF NoDisaster, HasInit
  <2> QED
    BY <1>2, <2>1 DEF DriverInv
<1>4. CASE ~isUpdating /\ sleep \in Nat /\ \E j, k \in Int : Plan(todo, j, k) /\ TimersLeft(j, k)
  <2>1. PICK j \in Int, k \in Int : Plan(todo, j, k) /\ TimersLeft(j, k)
    BY <1>4
  <2>2. Plan(todo, j, k)' /\ TimersLeft(j, k)'
    BY <2>1, <1>1 DEF Plan, TimersLeft
  <2>3. sleep' \in Nat /\ ~isUpdating'
    BY <1>1, <1>4
  <2> QED
    BY <1>2, <2>2, <2>3 DEF DriverInv
<1> QED
  BY <1>3, <1>4 DEF DriverInv

-----------------------------------------------------------------------------
(* The others. *)

LEMMA BeginKeeps == ASSUME RunInv, Begin PROVE RunInv'
<1>1. todo = <<>> /\ sleep = 0 /\ todo' = Program /\ UNCHANGED <<vars, sleep>>
  BY DEF Begin, Program
<1>2. ~isUpdating
  <2>1. ~HasInit(todo) /\ DOMAIN todo = {}
    BY <1>1 DEF HasInit
  <2> QED
    BY <2>1 DEF RunInv, DriverInv
<1>3. isUpdating' = isUpdating /\ timers' = timers
  BY <1>1 DEF vars, ctlVars
<1>4. UpdateInv'
  BY <1>1, QuietSteps, QuietKeepsUpdates DEF RunInv
<1>5. PICK k \in Int : IsSeq(Program) /\ Plan(Program, 2, k)
  BY ProgramIsAPlan
<1>6. Plan(todo, 2, k)' /\ IsSeq(todo)'
  BY <1>1, <1>5 DEF Plan, IsSeq
<1>7. k # 1
  BY <1>5 DEF Plan
<1>8. TimersLeft(2, k)'
  BY <1>7 DEF TimersLeft
<1> QED
  BY <1>1, <1>2, <1>3, <1>4, <1>6, <1>8 DEF RunInv, DriverInv

LEMMA InterruptKeeps == ASSUME RunInv, Interrupt PROVE RunInv'
<1>1. todo' = (IF todo = <<>> THEN <<>> ELSE Cleanup) /\ UNCHANGED vars
  BY DEF Interrupt
<1>2. isUpdating' = isUpdating
  BY <1>1 DEF vars, ctlVars
<1>3. UpdateInv'
  BY <1>1, QuietSteps, QuietKeepsUpdates DEF RunInv
<1>4. IsSeq(todo)' /\ NoDisaster(todo)' /\ (isUpdating' => HasInit(todo)')
  <2>1. CASE todo = <<>>
    <3>1. ~HasInit(todo) /\ DOMAIN todo = {}
      BY <2>1 DEF HasInit
    <3>2. ~isUpdating
      BY <3>1 DEF RunInv, DriverInv
    <3>3. todo' = todo
      BY <1>1, <2>1
    <3> QED
      BY <3>1, <3>2, <3>3, <1>2 DEF RunInv, DriverInv, IsSeq, NoDisaster
  <2>2. CASE todo # <<>>
    <3>1. todo' = Cleanup
      BY <1>1, <2>2
    <3> QED
      BY <3>1, CleanupIs DEF IsSeq, NoDisaster, HasInit
  <2> QED
    BY <2>1, <2>2
<1> QED
  BY <1>3, <1>4 DEF RunInv, DriverInv

LEMMA PutInitKeeps ==
  ASSUME RunInv, Takes("init"), PutInit, UNCHANGED sleep
  PROVE  RunInv'
<1>1. /\ running = Idle /\ running' = Idle /\ isUpdating' = FALSE /\ timers' = timers
      /\ updateTimes' = 0 /\ routePriority' = InitialRoutePriority /\ age' = 0
  BY DEF PutInit, taskVars
<1>2. timers \in Seq(0..UpdateInterval)
  BY DEF RunInv, UpdateInv
<1>3. DriverInv'
  BY <1>1, <1>2, TakesKeepsPlace DEF RunInv
<1>4. UpdateInv'
  BY <1>1, TasksAre, TimeAssumption DEF RunInv, UpdateInv, IsTask
<1> QED
  BY <1>3, <1>4 DEF RunInv

\* No timer is left when the driver reports the disaster.
LEMMA DisasterKeeps == ASSUME RunInv, Disaster PROVE RunInv'
<1>1. /\ IsSeq(todo) /\ todo # <<>> /\ Head(todo).do = "disaster"
      /\ todo' = Tail(todo) /\ sleep = 0 /\ running = Idle
      /\ isUpdating' = TRUE /\ UpdatePath(TRUE)
      /\ UNCHANGED <<updateTimes, routePriority, timers, age, sleep>>
  BY DEF RunInv, DriverInv, Disaster, Takes, PostDisaster
<1>2. ~NoDisaster(todo)
  BY <1>1, RestGoesOn
<1>3. ~isUpdating
  BY <1>2 DEF RunInv, DriverInv
<1>4. PICK j \in Int, k \in Int : Plan(todo, j, k) /\ TimersLeft(j, k)
  BY <1>2 DEF RunInv, DriverInv
<1>5. k = 1 /\ IsSeq(Tail(todo)) /\ NoDisaster(Tail(todo)) /\ HasInit(Tail(todo))
  <2>1. /\ IsSeq(Tail(todo)) /\ (k > 1 => Head(todo).do # "disaster") /\ k >= 1
        /\ k = 1 => NoDisaster(Tail(todo)) /\ HasInit(Tail(todo))
    BY <1>1, <1>4, PlanGoesOn
  <2> QED
    BY <2>1, <1>1
<1>6. timers = <<>>
  <2>1. ASSUME NEW i \in DOMAIN timers PROVE FALSE
    <3>1. timers[i] \in 0..UpdateInterval
      BY TimerRange DEF RunInv
    <3>2. timers[i] + Boot + Prepare <= UpdateInterval + sleep
      BY <1>4, <1>5 DEF TimersLeft
    <3> QED
      BY <3>1, <3>2, <1>1, ScheduleAssumption, TimeAssumption
  <2>2. timers \in Seq(0..UpdateInterval) /\ DOMAIN timers = 1..Len(timers) /\ Len(timers) \in Nat
    BY TimerRange DEF RunInv
  <2>3. Len(timers) = 0
    <3>1. Len(timers) # 0 => 1 \in DOMAIN timers
      BY <2>2
    <3> QED
      BY <2>1, <3>1
  <2> QED
    BY <2>2, <2>3
<1>7. DriverInv'
  <2>1. IsSeq(todo)' /\ NoDisaster(todo)' /\ HasInit(todo)'
    BY <1>1, <1>5 DEF IsSeq, NoDisaster, HasInit
  <2> QED
    BY <2>1 DEF DriverInv
<1>8. IsTask(running')
  BY <1>1, TasksAre DEF UpdatePath
<1>9. updateTimes = 0 /\ age \in Nat /\ UpdateInterval \in Nat /\ updateTimes * UpdateInterval = 0
  BY <1>3, TimeAssumption DEF RunInv, UpdateInv
<1>10. UpdateInv'
  BY <1>1, <1>6, <1>8, <1>9 DEF RunInv, UpdateInv, IsTask
<1> QED
  BY <1>7, <1>10 DEF RunInv

LEMMA TimerFiresKeeps ==
  ASSUME RunInv, NEW i \in DOMAIN timers, TimerFires(i), UNCHANGED <<todo, sleep>>
  PROVE  RunInv'
<1>1. /\ running = Idle /\ timers[i] = 0 /\ timers' = RemoveAt(timers, i)
      /\ UpdatePath(isUpdating)
      /\ UNCHANGED <<isUpdating, updateTimes, routePriority, age>>
  BY DEF TimerFires
<1>2. timers' = <<>>
  <2>1. i = 1 /\ Len(timers) = 1 /\ i \in 1..Len(timers) /\ timers \in Seq(0..UpdateInterval)
    BY TimerRange DEF RunInv
  <2>2. timers' \in Seq(0..UpdateInterval)
    BY <1>1, <2>1, RemoveAtType
  <2>3. DOMAIN timers' = 1..(Len(timers) - 1)
    BY <1>1, <2>1, RemoveAtIsSeq, SeqIsSeq
  <2>4. Len(timers') = 0
    BY <2>1, <2>2, <2>3
  <2> QED
    BY <2>2, <2>4
<1>3. IsTask(running') /\ (running'.kind = "update" => isUpdating)
  BY <1>1, TasksAre DEF UpdatePath
<1>4. isUpdating => updateTimes * UpdateInterval <= age
  <2>1. ASSUME isUpdating PROVE updateTimes * UpdateInterval <= age + timers[i]
    BY <2>1 DEF RunInv, UpdateInv
  <2>2. PICK n \in Nat : n = updateTimes * UpdateInterval
    BY TimeAssumption DEF RunInv, UpdateInv
  <2>3. age \in Nat
    BY DEF RunInv, UpdateInv
  <2> QED
    BY <1>1, <2>1, <2>2, <2>3
<1>5. UpdateInv'
  <2>1. timers' \in Seq(0..UpdateInterval) /\ Len(timers') <= 1 /\ DOMAIN timers' = {}
    BY <1>2
  <2> QED
    BY <1>1, <1>2, <1>3, <1>4, <2>1 DEF RunInv, UpdateInv
<1>6. CASE NoDisaster(todo) /\ (isUpdating => HasInit(todo))
  <2>1. IsSeq(todo)' /\ NoDisaster(todo)' /\ (isUpdating' => HasInit(todo)')
    BY <1>1, <1>6 DEF RunInv, DriverInv, IsSeq, NoDisaster, HasInit
  <2> QED
    BY <2>1, <1>5 DEF RunInv, DriverInv
<1>7. CASE ~isUpdating /\ sleep \in Nat /\ \E j, k \in Int : Plan(todo, j, k) /\ TimersLeft(j, k)
  <2>1. PICK j \in Int, k \in Int : Plan(todo, j, k)
    BY <1>7
  <2>2. Plan(todo, j, k)' /\ IsSeq(todo)'
    BY <2>1 DEF Plan, RunInv, DriverInv, IsSeq
  <2>3. TimersLeft(j, k)'
    BY <1>2 DEF TimersLeft
  <2>4. ~isUpdating' /\ sleep' \in Nat
    BY <1>1, <1>7
  <2> QED
    BY <1>5, <2>2, <2>3, <2>4 DEF RunInv, DriverInv
<1> QED
  BY <1>6, <1>7 DEF RunInv, DriverInv

LEMMA FinishUpdateKeeps ==
  ASSUME RunInv, FinishUpdate, UNCHANGED <<todo, sleep>>
  PROVE  RunInv'
<1>1. /\ running.kind = "update" /\ running' = Idle /\ isUpdating' = isUpdating /\ age' = age
      /\ updateTimes' = CountUp(updateTimes, MaxUpdates)
      /\ timers' = Append(timers, UpdateInterval)
  BY DEF FinishUpdate
<1>2. isUpdating /\ timers = <<>> /\ updateTimes * UpdateInterval <= age
  BY <1>1 DEF RunInv, UpdateInv
<1>3. /\ timers' = <<UpdateInterval>> /\ UpdateInterval \in 0..UpdateInterval
      /\ timers' \in Seq(0..UpdateInterval) /\ Len(timers') = 1 /\ DOMAIN timers' = {1}
      /\ timers'[1] = UpdateInterval
  BY <1>1, <1>2, TimeAssumption
<1>4. /\ updateTimes' \in 0..MaxUpdates
      /\ updateTimes' * UpdateInterval <= age + UpdateInterval
  <2>1. updateTimes \in Nat /\ MaxUpdates \in Nat /\ UpdateInterval \in Nat /\ age \in Nat
        /\ updateTimes <= MaxUpdates
    BY TimeAssumption DEF RunInv, UpdateInv
  <2>2. updateTimes' = updateTimes \/ (updateTimes' = updateTimes + 1 /\ updateTimes < MaxUpdates)
    BY <1>1, <2>1 DEF CountUp
  <2>3. PICK n \in Nat : n = updateTimes * UpdateInterval
    BY <2>1
  <2>4. (updateTimes + 1) * UpdateInterval = n + UpdateInterval
    BY <2>1, <2>3
  <2>5. updateTimes' * UpdateInterval = n \/ updateTimes' * UpdateInterval = n + UpdateInterval
    BY <2>2, <2>3, <2>4
  <2>6. n <= age
    BY <1>2, <2>3
  <2>7. updateTimes' * UpdateInterval <= age + UpdateInterval
    <3>1. CASE updateTimes' * UpdateInterval = n
      BY <3>1, <2>1, <2>6
    <3>2. CASE updateTimes' * UpdateInterval = n + UpdateInterval
      BY <3>2, <2>1, <2>6
    <3> QED
      BY <2>5, <3>1, <3>2
  <2> QED
    BY <2>1, <2>2, <2>7
<1>5. UpdateInv'
  <2>1. IsTask(running)' /\ running'.kind # "update" /\ age' \in Nat /\ isUpdating'
    BY <1>1, <1>2, TasksAre DEF RunInv, UpdateInv, IsTask
  <2>2. updateTimes' * UpdateInterval <= age' + UpdateInterval
    BY <1>1, <1>4
  <2>3. \A i \in DOMAIN timers' : updateTimes' * UpdateInterval <= age' + timers'[i]
    BY <1>3, <2>2
  <2> QED
    BY <1>3, <1>4, <2>1, <2>2, <2>3 DEF UpdateInv
<1>6. IsSeq(todo)' /\ NoDisaster(todo)' /\ HasInit(todo)'
  BY <1>2 DEF RunInv, DriverInv, IsSeq, NoDisaster, HasInit
<1> QED
  BY <1>5, <1>6 DEF RunInv, DriverInv

LEMMA TimePassesKeeps == ASSUME RunInv, TimePasses PROVE RunInv'
<1>1. /\ running = Idle /\ running' = running /\ todo' = todo /\ sleep' = Down(sleep)
      /\ \A i \in DOMAIN timers : timers[i] > 0
      /\ timers' = [i \in DOMAIN timers |-> IF timers[i] = 0 THEN 0 ELSE timers[i] - 1]
      /\ age' = (IF isUpdating THEN CountUp(age, MaxAge) ELSE age)
      /\ UNCHANGED <<isUpdating, updateTimes, routePriority>>
  BY DEF TimePasses, Settled, Tick, taskVars
<1>2. /\ timers \in Seq(0..UpdateInterval) /\ DOMAIN timers = 1..Len(timers)
      /\ Len(timers) \in 0..1
      /\ \A i \in DOMAIN timers : timers[i] \in 0..UpdateInterval /\ i = 1
  BY TimerRange DEF RunInv
<1>3. /\ DOMAIN timers' = DOMAIN timers /\ UpdateInterval \in Nat
      /\ \A i \in DOMAIN timers : timers'[i] = timers[i] - 1 /\ timers'[i] \in 0..UpdateInterval
  BY <1>1, <1>2, TimeAssumption
<1>4. timers' \in Seq(0..UpdateInterval) /\ Len(timers') <= 1
  <2>1. timers' = [i \in 1..Len(timers) |-> timers'[i]]
    BY <1>1, <1>2
  <2>2. timers' \in Seq(0..UpdateInterval)
    BY <2>1, <1>2, <1>3
  <2> QED
    BY <2>2, <1>2, <1>3
<1>5. /\ age' \in Nat /\ age \in Nat
      /\ isUpdating => age' = age + 1 \/ (age' = age /\ MaxAge <= age)
  <2>1. MaxUpdates \in Nat /\ UpdateInterval \in Nat
    BY TimeAssumption
  <2>2. MaxAge \in Nat
    BY <2>1 DEF MaxAge
  <2> QED
    BY <2>2, <1>1 DEF RunInv, UpdateInv, CountUp
<1>6. ASSUME isUpdating
      PROVE  /\ updateTimes * UpdateInterval <= age' + UpdateInterval
             /\ \A i \in DOMAIN timers : updateTimes * UpdateInterval <= age' + timers'[i]
  <2>1. updateTimes \in Nat /\ MaxUpdates \in Nat /\ UpdateInterval \in Nat
        /\ updateTimes <= MaxUpdates
    BY TimeAssumption DEF RunInv, UpdateInv
  <2>2. PICK n \in Nat : n = updateTimes * UpdateInterval
    BY <2>1
  <2>3. n <= age + UpdateInterval /\ \A i \in DOMAIN timers : n <= age + timers[i]
    BY <1>6, <2>2 DEF RunInv, UpdateInv
  <2>4. CASE age' = age + 1
    <3>1. n <= age' + UpdateInterval
      BY <2>1, <2>3, <2>4, <1>5
    <3>2. \A i \in DOMAIN timers : n <= age' + timers'[i]
      BY <2>3, <2>4, <1>2, <1>3, <1>5
    <3> QED
      BY <2>2, <3>1, <3>2
  <2>5. CASE age' = age /\ MaxAge <= age
    <3>1. PICK m \in Nat : m = MaxUpdates * UpdateInterval
      BY <2>1
    <3>2. MaxAge = m + UpdateInterval
      BY <2>1, <3>1 DEF MaxAge
    <3>3. n <= m
      <4>1. PICK d \in Nat : MaxUpdates = updateTimes + d
        <5>1. MaxUpdates - updateTimes \in Nat /\ MaxUpdates = updateTimes + (MaxUpdates - updateTimes)
          BY <2>1
        <5> QED
          BY <5>1
      <4>2. (updateTimes + d) * UpdateInterval = n + d * UpdateInterval /\ d * UpdateInterval \in Nat
        BY <2>1, <2>2, <4>1
      <4> QED
        BY <2>2, <3>1, <4>1, <4>2
    <3>4. n <= age'
      BY <2>1, <2>5, <3>1, <3>2, <3>3, <1>5
    <3>5. n <= age' + UpdateInterval
      <4>1. n \in Nat /\ age' \in Nat /\ UpdateInterval \in Nat
        BY <2>1, <2>2, <1>5
      <4>2. \A a, b, c \in Nat : a <= b => a <= b + c
        OBVIOUS
      <4> QED
        BY <4>1, <4>2, <3>4
    <3>6. ASSUME NEW i \in DOMAIN timers PROVE n <= age' + timers'[i]
      <4>1. timers'[i] \in Nat
        BY <1>3, <2>1
      <4> QED
        BY <2>2, <4>1, <3>4, <1>5
    <3> QED
      BY <2>2, <3>5, <3>6
  <2> QED
    BY <1>5, <1>6, <2>4, <2>5
<1>7. UpdateInv'
  <2>1. IsTask(running)' /\ running'.kind # "update"
    BY <1>1, TasksAre DEF RunInv, UpdateInv, IsTask
  <2>2. isUpdating' => /\ updateTimes' * UpdateInterval <= age' + UpdateInterval
                       /\ \A i \in DOMAIN timers' : updateTimes' * UpdateInterval <= age' + timers'[i]
    BY <1>1, <1>3, <1>6
  <2>3. /\ ~isUpdating' => updateTimes' = 0 /\ routePriority' = InitialRoutePriority
        /\ updateTimes' \in 0..MaxUpdates
    BY <1>1 DEF RunInv, UpdateInv
  <2> QED
    BY <1>4, <1>5, <2>1, <2>2, <2>3 DEF UpdateInv
<1>8. CASE NoDisaster(todo) /\ (isUpdating => HasInit(todo))
  <2>1. IsSeq(todo)' /\ NoDisaster(todo)' /\ (isUpdating' => HasInit(todo)')
    BY <1>1, <1>8 DEF RunInv, DriverInv, IsSeq, NoDisaster, HasInit
  <2> QED
    BY <2>1, <1>7 DEF RunInv, DriverInv
<1>9. CASE ~isUpdating /\ sleep \in Nat /\ \E j, k \in Int : Plan(todo, j, k) /\ TimersLeft(j, k)
  <2>1. PICK j \in Int, k \in Int : Plan(todo, j, k) /\ TimersLeft(j, k)
    BY <1>9
  <2>2. Plan(todo, j, k)' /\ IsSeq(todo)'
    BY <2>1, <1>1 DEF Plan, RunInv, DriverInv, IsSeq
  <2>3. sleep' \in Nat /\ sleep' >= sleep - 1
    BY <1>1, <1>9 DEF Down
  <2>4. Boot \in Nat /\ Prepare \in Nat
    BY ScheduleAssumption
  <2>5. ASSUME NEW i \in DOMAIN timers, timers[i] + Boot <= UpdateInterval + sleep
        PROVE  timers'[i] + Boot <= UpdateInterval + sleep'
    BY <1>2, <1>3, <1>9, <2>3, <2>4, <2>5
  <2>6. ASSUME NEW i \in DOMAIN timers, timers[i] + Boot + Prepare <= UpdateInterval + sleep
        PROVE  timers'[i] + Boot + Prepare <= UpdateInterval + sleep'
    <3>1. timers[i] \in Nat /\ timers'[i] = timers[i] - 1 /\ UpdateInterval \in Nat
      BY <1>2, <1>3
    <3> QED
      BY <3>1, <1>9, <2>3, <2>4, <2>6
  <2>7. TimersLeft(j, k)'
    BY <2>1, <1>3, <2>5, <2>6 DEF TimersLeft
  <2>8. ~isUpdating'
    BY <1>1, <1>9
  <2> QED
    BY <1>7, <2>2, <2>3, <2>7, <2>8 DEF RunInv, DriverInv
<1> QED
  BY <1>8, <1>9 DEF RunInv, DriverInv

-----------------------------------------------------------------------------
(* RestartsFromZero and ElapsedNotAhead. *)

LEMMA QuietKeeps ==
  ASSUME RunInv, Quiet, UNCHANGED <<todo, sleep>>
  PROVE  RunInv'
BY SameDriver, QuietKeepsUpdates DEF RunInv, Quiet

LEMMA QuietTakesKeep ==
  ASSUME RunInv, Quiet, NEW op, op \notin {"disaster", "init"}, Takes(op),
         sleep' = IF op = "sleep" THEN Head(todo).arg ELSE sleep
  PROVE  RunInv'
<1>1. timers \in Seq(0..UpdateInterval) /\ timers' = timers /\ isUpdating' = isUpdating
  BY DEF RunInv, UpdateInv, Quiet
<1>2. DriverInv'
  BY <1>1, TakesKeepsPlace DEF RunInv
<1> QED
  BY <1>2, QuietKeepsUpdates DEF RunInv

LEMMA RequestKeeps == ASSUME RunInv, Request PROVE RunInv'
<1>1. sleep' = sleep
  BY DEF Request
<1>2. ASSUME Takes("link"), NEW bw, PostLink(Arg, bw) PROVE RunInv'
  BY <1>1, <1>2, QuietSteps, QuietTakesKeep
<1>3. ASSUME Takes("pair"), PostHostPair(Arg[1], Arg[2]) PROVE RunInv'
  BY <1>1, <1>3, QuietSteps, QuietTakesKeep
<1>4. ASSUME Takes("fail"), PutLink(Arg, failAt[Arg]) PROVE RunInv'
  BY <1>1, <1>4, QuietSteps, QuietTakesKeep
<1>5. ASSUME Takes("client"), NEW f, NEW n, PutHostClient(Arg[1], f, n) PROVE RunInv'
  BY <1>1, <1>5, QuietSteps, QuietTakesKeep
<1>6. ASSUME Takes("init"), PutInit PROVE RunInv'
  BY <1>1, <1>6, PutInitKeeps
<1> QED
  BY <1>2, <1>3, <1>4, <1>5, <1>6 DEF Request

LEMMA SystemStepKeeps == ASSUME RunInv, SystemStep PROVE RunInv'
<1>1. UNCHANGED <<todo, sleep>>
  BY DEF SystemStep, expVars, drvVars
<1>2. CASE FinishUpdate
  BY <1>1, <1>2, FinishUpdateKeeps
<1>3. CASE TakeStep \/ Wait \/ Raise \/ FinishHosts
  BY <1>1, <1>3, QuietSteps, QuietKeeps
<1>4. CASE Applying \/ Noticing \/ Connecting
  BY <1>1, <1>4, QuietSteps, QuietKeeps DEF Applying, Noticing, Connecting
<1> QED
  BY <1>2, <1>3, <1>4 DEF SystemStep, TaskStep

LEMMA RunInvStep == RunInv /\ [ExpNext]_allVars => RunInv'
<1> SUFFICES ASSUME RunInv, [ExpNext]_allVars PROVE RunInv'
  OBVIOUS
<1>1. CASE Sleep
  <2>1. UNCHANGED vars /\ Takes("sleep") /\ sleep' = Head(todo).arg
    BY <1>1 DEF Sleep, Arg
  <2> QED
    BY <2>1, QuietSteps, QuietTakesKeep
<1>2. CASE Start
  <2>1. Quiet /\ Takes("start") /\ sleep' = sleep
    BY <1>2 DEF Start, Quiet, ctlVars, taskVars
  <2> QED
    BY <2>1, QuietTakesKeep
<1>3. CASE Stop
  <2>1. Quiet /\ Takes("stop") /\ sleep' = sleep
    BY <1>3 DEF Stop, Quiet, ctlVars, taskVars
  <2> QED
    BY <2>1, QuietTakesKeep
<1>4. CASE Schedule
  <2>1. UNCHANGED vars /\ Takes("schedule") /\ sleep' = sleep
    BY <1>4 DEF Schedule
  <2> QED
    BY <2>1, QuietSteps, QuietTakesKeep
<1>5. CASE \E w \in DOMAIN fuse : LinkFails(w)
  <2>1. UNCHANGED <<todo, sleep>> /\ \E s, x : DeletePort(s, x)
    BY <1>5 DEF LinkFails, drvVars
  <2> QED
    BY <2>1, QuietSteps, QuietKeeps
<1>6. CASE TimersFire
  <2>1. UNCHANGED <<todo, sleep>> /\ \E i \in DOMAIN timers : TimerFires(i)
    BY <1>6 DEF TimersFire, Firing, drvVars
  <2> QED
    BY <2>1, TimerFiresKeeps
<1>7. CASE UNCHANGED allVars
  <2>1. UNCHANGED vars /\ UNCHANGED <<todo, sleep>>
    BY <1>7 DEF allVars, expVars, drvVars
  <2> QED
    BY <2>1, QuietSteps, QuietKeeps
<1> QED
  BY <1>1, <1>2, <1>3, <1>4, <1>5, <1>6, <1>7, BeginKeeps, InterruptKeeps, RequestKeeps,
     DisasterKeeps, SystemStepKeeps, TimePassesKeeps DEF ExpNext

LEMMA RunInvInit == ExpInit => RunInv
<1> SUFFICES ASSUME ExpInit PROVE RunInv
  OBVIOUS
<1>1. /\ todo = <<>> /\ sleep = 0 /\ ~isUpdating /\ running = Idle /\ timers = <<>>
      /\ updateTimes = 0 /\ routePriority = InitialRoutePriority /\ age = 0
  BY DEF ExpInit, Init
<1>2. IsSeq(todo) /\ DOMAIN todo = {}
  BY <1>1 DEF IsSeq
<1>3. DriverInv
  BY <1>1, <1>2 DEF DriverInv, NoDisaster
<1>4. timers \in Seq(0..UpdateInterval) /\ Len(timers) = 0
  BY <1>1
<1>5. UpdateInv
  BY <1>1, <1>4, TasksAre, TimeAssumption DEF UpdateInv
<1> QED
  BY <1>3, <1>5 DEF RunInv

\* While updates are off, the counters show nothing of an earlier experiment,
\* whichever timer outlived the PUT /init at its end: the driver sleeps long
\* enough before it reports the next disaster (init, run of main.py).
THEOREM ExperimentsRestartFromZero == ExpSpec => []RestartsFromZero
<1>1. RunInv => RestartsFromZero
  BY DEF RunInv, UpdateInv, RestartsFromZero
<1> QED
  BY <1>1, RunInvInit, RunInvStep, PTL DEF ExpSpec

\* In an experiment the prediction is never about an interval that has not
\* begun: one chain of updates at a time, its timer started with the count
\* (start_update_path, __update_path).
THEOREM ExperimentsNotAhead == ExpSpec => []ElapsedNotAhead
<1>1. RunInv => ElapsedNotAhead
  BY DEF RunInv, UpdateInv, ElapsedNotAhead
<1> QED
  BY <1>1, RunInvInit, RunInvStep, PTL DEF ExpSpec

-----------------------------------------------------------------------------
(* DatapathsAreFresh: datapaths of connections that are closed are there   *)
(* only from the end of the network to the PUT /init that comes next.      *)

\* The network is stopped last but for PUT /init, and maybe a pause.
StopsLast(q) ==
  \A i \in DOMAIN q :
    q[i].do = "stop" => i + 1 \in DOMAIN q /\ q[i + 1].do = "init" /\ Len(q) <= i + 2
AllOpen == \A i \in DOMAIN datapaths : datapaths[i].sw \in live /\ IsOpen(datapaths[i])
AboutToInit == ~netUp /\ live = {} /\ todo # <<>> /\ Head(todo).do = "init" /\ Len(todo) <= 2 /\ sleep = 0
OpenInv ==
  /\ IsSeq(todo) /\ StopsLast(todo)
  /\ live \subseteq Switches /\ DOMAIN conn = Switches /\ IsSeq(datapaths)
  /\ AllOpen \/ AboutToInit

LEMMA StopsLastGoesOn ==
  ASSUME NEW q, IsSeq(q), q # <<>>, StopsLast(q)
  PROVE  /\ IsSeq(Tail(q)) /\ StopsLast(Tail(q))
         /\ Head(q).do = "stop" => /\ Tail(q) # <<>> /\ Head(Tail(q)).do = "init"
                                   /\ Len(Tail(q)) <= 2
<1> DEFINE t == Tail(q)
           n == Len(q)
<1>1. n \in Nat /\ DOMAIN q = 1..n
  BY IsSeqLen
<1>2. /\ IsSeq(t) /\ 1 \in DOMAIN q /\ Head(q) = q[1]
      /\ DOMAIN t = 1..(n - 1) /\ \A i \in DOMAIN t : i + 1 \in DOMAIN q /\ t[i] = q[i + 1]
  BY TailIsSeq
<1>3. Len(t) \in Nat /\ DOMAIN t = 1..Len(t) /\ (t # <<>> => Head(t) = t[1])
  BY <1>2, IsSeqLen, TailIsSeq
<1> HIDE DEF t, n
<1>4. Len(t) = n - 1 /\ n > 0
  BY <1>1, <1>2, <1>3
<1>5. ASSUME NEW i \in DOMAIN t, t[i].do = "stop"
      PROVE  i + 1 \in DOMAIN t /\ t[i + 1].do = "init" /\ Len(t) <= i + 2
  <2>1. i + 1 \in DOMAIN q /\ q[i + 1].do = "stop"
    BY <1>2, <1>5
  <2>2. (i + 1) + 1 \in DOMAIN q /\ q[(i + 1) + 1].do = "init" /\ n <= (i + 1) + 2
    BY <2>1 DEF StopsLast, n
  <2>3. i + 1 \in DOMAIN t
    BY <1>1, <1>2, <2>1, <2>2
  <2>4. t[i + 1].do = "init"
    BY <1>2, <2>2, <2>3
  <2>5. Len(t) <= i + 2
    BY <1>1, <1>2, <1>4, <2>2
  <2> QED
    BY <2>3, <2>4, <2>5
<1>6. ASSUME q[1].do = "stop" PROVE t # <<>> /\ Head(t).do = "init" /\ Len(t) <= 2
  <2>1. 1 + 1 \in DOMAIN q /\ q[1 + 1].do = "init" /\ n <= 1 + 2
    BY <1>2, <1>6 DEF StopsLast, n
  <2>2. 1 \in DOMAIN t /\ Len(t) <= 2
    BY <1>1, <1>2, <1>4, <2>1
  <2>3. t # <<>>
    BY <2>2, <1>3
  <2> QED
    BY <2>1, <2>2, <2>3, <1>2, <1>3
<1> QED
  BY <1>2, <1>5, <1>6 DEF StopsLast, t

NeverStops(q) == IsSeq(q) /\ \A i \in DOMAIN q : q[i].do # "stop"

LEMMA NoneStops == ASSUME NEW q, NEW r, NeverStops(q), NeverStops(r) PROVE NeverStops(q \o r)
<1> DEFINE p == q \o r
<1>1. /\ IsSeq(p) /\ \A i \in DOMAIN q : i \in DOMAIN p /\ p[i] = q[i]
      /\ \A i \in DOMAIN p : i \in DOMAIN q \/ \E j \in DOMAIN r : i = Len(q) + j /\ p[i] = r[j]
  <2>1. IsSeq(q) /\ IsSeq(r)
    BY DEF NeverStops
  <2> QED
    BY <2>1, JoinHas, Zenon
<1> HIDE DEF p
<1>2. NeverStops(p)
  BY <1>1 DEF NeverStops
<1> QED
  BY <1>2 DEF p

LEMMA RunNeverStops == NeverStops(Run)
<1> DEFINE q1 == Do("start", 0) \o Do("sleep", Boot)
           q2 == q1 \o All("link", Cables)
           q3 == q2 \o All("pair", Served)
           q4 == q3 \o Do("sleep", Prepare)
           q5 == q4 \o Do("disaster", 0)
           q6 == q5 \o All("fail", Doomed)
           q7 == q6 \o All("client", Served)
           q8 == q7 \o Do("schedule", 0)
           q9 == q8 \o Do("sleep", RunTime)
<1>1. \A op, arg : op # "stop" => NeverStops(Do(op, arg))
  BY DoIs DEF NeverStops
<1>2. /\ NeverStops(All("link", Cables)) /\ NeverStops(All("pair", Served))
      /\ NeverStops(All("fail", Doomed)) /\ NeverStops(All("client", Served))
  BY AllIs, ScheduleAssumption DEF NeverStops
<1>3. NeverStops(q1)
  BY <1>1, NoneStops
<1> HIDE DEF q1
<1>4. NeverStops(q2)
  BY <1>2, <1>3, NoneStops
<1> HIDE DEF q2
<1>5. NeverStops(q3)
  BY <1>2, <1>4, NoneStops
<1> HIDE DEF q3
<1>6. NeverStops(q4)
  BY <1>1, <1>5, NoneStops
<1> HIDE DEF q4
<1>7. NeverStops(q5)
  BY <1>1, <1>6, NoneStops
<1> HIDE DEF q5
<1>8. NeverStops(q6)
  BY <1>2, <1>7, NoneStops
<1> HIDE DEF q6
<1>9. NeverStops(q7)
  BY <1>2, <1>8, NoneStops
<1> HIDE DEF q7
<1>10. NeverStops(q8)
  BY <1>1, <1>9, NoneStops
<1> HIDE DEF q8
<1>11. NeverStops(q9)
  BY <1>1, <1>10, NoneStops
<1> QED
  BY <1>11 DEF Run, q1, q2, q3, q4, q5, q6, q7, q8

LEMMA JoinAt ==
  ASSUME NEW q, NEW r, IsSeq(q), IsSeq(r)
  PROVE  \A i \in 1..(Len(q) + Len(r)) :
           (q \o r)[i] = IF i <= Len(q) THEN q[i] ELSE r[i - Len(q)]
<1> DEFINE S == ToSet(q) \union ToSet(r)
<1>1. ToSet(q) \subseteq S /\ ToSet(r) \subseteq S
  OBVIOUS
<1>2. q \in Seq(S) /\ r \in Seq(S)
  BY <1>1, SeqMonotonic DEF IsSeq
<1> HIDE DEF S
<1> QED
  BY <1>2, ConcatProperties

LEMMA JoinLeft ==
  ASSUME NEW q, NEW r, IsSeq(q), IsSeq(r)
  PROVE  \A i \in 1..Len(q) : (q \o r)[i] = q[i]
BY JoinIs, Zenon

LEMMA JoinLen ==
  ASSUME NEW q, NEW r, IsSeq(q), IsSeq(r)
  PROVE  IsSeq(q \o r) /\ Len(q \o r) = Len(q) + Len(r)
BY JoinIs, Zenon

LEMMA ThreeMore ==
  ASSUME NEW q, IsSeq(q), NEW s, IsSeq(s), Len(s) = 3
  PROVE  /\ IsSeq(q \o s) /\ DOMAIN (q \o s) = 1..(Len(q) + 3) /\ Len(q \o s) = Len(q) + 3
         /\ Len(q) \in Nat /\ DOMAIN q = 1..Len(q)
         /\ \A i \in 1..Len(q) : (q \o s)[i] = q[i]
         /\ (q \o s)[Len(q) + 1] = s[1]
         /\ (q \o s)[Len(q) + 2] = s[2]
         /\ (q \o s)[Len(q) + 3] = s[3]
<1> DEFINE p == q \o s
<1>1. \A i \in 1..(Len(q) + Len(s)) : p[i] = IF i <= Len(q) THEN q[i] ELSE s[i - Len(q)]
  BY JoinAt, Zenon
<1>2. \A i \in 1..Len(q) : p[i] = q[i]
  BY JoinLeft, Zenon
<1>3. IsSeq(p) /\ Len(p) = Len(q) + Len(s)
  BY JoinLen, Zenon
<1> HIDE DEF p
<1>4. Len(q) \in Nat /\ DOMAIN q = 1..Len(q) /\ DOMAIN p = 1..Len(p)
  BY <1>3, IsSeqLen
<1>5. p[Len(q) + 1] = s[1] /\ p[Len(q) + 2] = s[2] /\ p[Len(q) + 3] = s[3]
  <2> DEFINE n == Len(q)
  <2>1. \A i \in 1..3 : n + i \in 1..(n + Len(s)) /\ ~(n + i <= n) /\ (n + i) - n = i
    BY <1>4
  <2>2. \A i \in 1..3 : p[n + i] = s[i]
    BY <1>1, <2>1
  <2> QED
    BY <2>2
<1> QED
  BY <1>2, <1>3, <1>4, <1>5 DEF p

LastSteps(o) == o[1].do = "stop" /\ o[2].do = "init" /\ o[3].do = "sleep"

LEMMA EndsWithStop ==
  ASSUME NEW q, NeverStops(q), NEW o, IsSeq(o), Len(o) = 3, LastSteps(o)
  PROVE  IsSeq(q \o o) /\ StopsLast(q \o o)
<1> DEFINE p == q \o o
           n == Len(q)
<1>1. IsSeq(q) /\ \A i \in DOMAIN q : q[i].do # "stop"
  BY DEF NeverStops
<1>2. /\ IsSeq(p) /\ DOMAIN p = 1..(n + 3) /\ Len(p) = n + 3
      /\ n \in Nat /\ DOMAIN q = 1..n
      /\ \A i \in 1..n : p[i] = q[i]
      /\ p[n + 1] = o[1] /\ p[n + 2] = o[2] /\ p[n + 3] = o[3]
  <2>1. IsSeq(q)
    BY <1>1
  <2> QED
    BY <2>1, ThreeMore, Zenon
<1> HIDE DEF p, n
<1>3. p[n + 1].do = "stop" /\ p[n + 2].do = "init" /\ p[n + 3].do = "sleep"
  BY <1>2 DEF LastSteps
<1>4. StopsLast(p)
  <2> SUFFICES ASSUME NEW i \in DOMAIN p, p[i].do = "stop"
               PROVE  i + 1 \in DOMAIN p /\ p[i + 1].do = "init" /\ Len(p) <= i + 2
    BY DEF StopsLast
  <2>1. i \in 1..n \/ i = n + 1 \/ i = n + 2 \/ i = n + 3
    BY <1>2
  <2>2. i \notin 1..n
    BY <1>1, <1>2
  <2>3. i = n + 1
    BY <1>3, <2>1, <2>2
  <2>4. i + 1 = n + 2 /\ n + 2 \in 1..(n + 3) /\ n + 3 <= i + 2
    BY <2>3, <1>2
  <2> QED
    BY <2>4, <1>2, <1>3
<1> QED
  BY <1>2, <1>4 DEF p

LEMMA TwoAndOne ==
  ASSUME NEW q, IsSeq(q), Len(q) = 2, NEW s, IsSeq(s), Len(s) = 1
  PROVE  /\ IsSeq(q \o s) /\ Len(q \o s) = 3
         /\ (q \o s)[1] = q[1] /\ (q \o s)[2] = q[2] /\ (q \o s)[3] = s[1]
<1> DEFINE o == q \o s
<1>1. IsSeq(o) /\ Len(o) = Len(q) + Len(s) /\ \A i \in 1..Len(q) : o[i] = q[i]
  BY JoinLen, JoinLeft, Zenon
<1>2. \A i \in 1..(Len(q) + Len(s)) : o[i] = IF i <= Len(q) THEN q[i] ELSE s[i - Len(q)]
  BY JoinAt, Zenon
<1> HIDE DEF o
<1>3. IsSeq(o) /\ Len(o) = 3 /\ o[1] = q[1] /\ o[2] = q[2] /\ o[3] = s[1]
  BY <1>1, <1>2
<1> QED
  BY <1>3 DEF o

LEMMA ProgramStopsLast == IsSeq(Program) /\ StopsLast(Program) /\ StopsLast(Cleanup)
<1> DEFINE s == Do("sleep", CleanupTime)
           o == Cleanup \o s
<1>1. /\ IsSeq(Cleanup) /\ Len(Cleanup) = 2 /\ DOMAIN Cleanup = 1..2
      /\ Cleanup[1].do = "stop" /\ Cleanup[2].do = "init"
      /\ IsSeq(s) /\ Len(s) = 1 /\ s[1].do = "sleep"
  BY CleanupIs, DoIs
<1>2. NeverStops(Run)
  BY RunNeverStops
<1>3. Program = Run \o o
  <2> HIDE DEF s
  <2> DEFINE S == ToSet(Run) \union ToSet(Cleanup) \union ToSet(s)
  <2>1. Run \in Seq(S) /\ Cleanup \in Seq(S) /\ s \in Seq(S)
    <3>1. ToSet(Run) \subseteq S /\ ToSet(Cleanup) \subseteq S /\ ToSet(s) \subseteq S
      OBVIOUS
    <3> QED
      BY <3>1, <1>1, <1>2, SeqMonotonic DEF NeverStops, IsSeq
  <2> HIDE DEF S
  <2>2. (Run \o Cleanup) \o s = Run \o (Cleanup \o s)
    BY <2>1
  <2> QED
    BY <2>2 DEF Program, s
<1>4. StopsLast(Cleanup)
  BY <1>1 DEF StopsLast
<1> HIDE DEF s
<1>5. IsSeq(o) /\ Len(o) = 3 /\ LastSteps(o)
  BY <1>1, TwoAndOne DEF LastSteps
<1> HIDE DEF o
<1> QED
  BY <1>2, <1>3, <1>4, <1>5, EndsWithStop

\* The steps that leave connections and datapaths alone.
LEMMA OpenStays ==
  ASSUME OpenInv, UNCHANGED <<live, conn, datapaths>>, IsSeq(todo)',
         StopsLast(todo)', AllOpen \/ AboutToInit'
  PROVE  OpenInv'
BY DEF OpenInv, AllOpen, IsOpen, IsSeq

LEMMA SameOpen ==
  ASSUME OpenInv, UNCHANGED <<live, conn, datapaths, todo, netUp>>, sleep' = sleep \/ sleep' = Down(sleep)
  PROVE  OpenInv'
<1>1. IsSeq(todo)' /\ StopsLast(todo)'
  BY DEF OpenInv, IsSeq, StopsLast
<1>2. AllOpen \/ AboutToInit'
  BY DEF OpenInv, AboutToInit, Down
<1> QED
  BY <1>1, <1>2, OpenStays

LEMMA TakesKeepsOpen ==
  ASSUME OpenInv, NEW op, op # "init", Takes(op), UNCHANGED <<live, conn, datapaths>>
  PROVE  OpenInv'
<1>1. /\ IsSeq(todo) /\ todo # <<>> /\ StopsLast(todo) /\ todo' = Tail(todo) /\ Head(todo).do = op
  BY DEF OpenInv, Takes
<1>2. IsSeq(todo') /\ StopsLast(todo')
  BY <1>1, StopsLastGoesOn
<1>3. IsSeq(todo)' /\ StopsLast(todo)'
  BY <1>2 DEF IsSeq, StopsLast
<1>4. AllOpen
  BY <1>1 DEF OpenInv, AboutToInit
<1> QED
  BY <1>3, <1>4, OpenStays

LEMMA BeginKeepsOpen == ASSUME OpenInv, Begin PROVE OpenInv'
<1>1. todo = <<>> /\ todo' = Program /\ UNCHANGED <<live, conn, datapaths>>
  BY DEF Begin, Program, vars, netVars, ctlVars
<1>2. IsSeq(todo)' /\ StopsLast(todo)'
  BY <1>1, ProgramStopsLast DEF IsSeq, StopsLast
<1>3. AllOpen
  BY <1>1 DEF OpenInv, AboutToInit
<1> QED
  BY <1>1, <1>2, <1>3, OpenStays

\* The finally clause is not interrupted before it has stopped the network,
\* nor between this and PUT /init.
LEMMA InterruptKeepsOpen == ASSUME OpenInv, Interrupt PROVE OpenInv'
<1>1. /\ Len(todo) > Len(Cleanup) + 1 \/ sleep > 0
      /\ todo' = (IF todo = <<>> THEN <<>> ELSE Cleanup)
      /\ UNCHANGED <<live, conn, datapaths>>
  BY DEF Interrupt, vars, netVars, ctlVars
<1>2. AllOpen
  <2>1. Len(todo) \in Nat /\ Len(Cleanup) = 2
    BY IsSeqLen, CleanupIs DEF OpenInv
  <2>2. ~AboutToInit
    BY <1>1, <2>1 DEF AboutToInit
  <2> QED
    BY <2>2 DEF OpenInv
<1>3. IsSeq(todo)' /\ StopsLast(todo)'
  <2>1. CASE todo = <<>>
    BY <1>1, <2>1 DEF OpenInv, IsSeq, StopsLast
  <2>2. CASE todo # <<>>
    BY <1>1, <2>2, CleanupIs, ProgramStopsLast DEF IsSeq, StopsLast
  <2> QED
    BY <2>1, <2>2
<1> QED
  BY <1>1, <1>2, <1>3, OpenStays

LEMMA StopKeepsOpen == ASSUME OpenInv, Stop PROVE OpenInv'
<1>1. /\ IsSeq(todo) /\ todo # <<>> /\ StopsLast(todo) /\ todo' = Tail(todo)
      /\ Head(todo).do = "stop" /\ sleep = 0 /\ sleep' = sleep
      /\ netUp' = FALSE /\ live' = {} /\ UNCHANGED <<conn, datapaths>>
  BY DEF OpenInv, Takes, Stop, ctlVars
<1>2. /\ IsSeq(todo') /\ StopsLast(todo')
      /\ todo' # <<>> /\ Head(todo').do = "init" /\ Len(todo') <= 2
  BY <1>1, StopsLastGoesOn
<1>3. IsSeq(todo)' /\ StopsLast(todo)'
  BY <1>2 DEF IsSeq, StopsLast
<1>4. AboutToInit'
  BY <1>1, <1>2 DEF AboutToInit
<1>5. live' \subseteq Switches /\ DOMAIN conn' = Switches /\ IsSeq(datapaths)'
  BY <1>1 DEF OpenInv, IsSeq
<1> QED
  BY <1>3, <1>4, <1>5 DEF OpenInv

LEMMA PutInitKeepsOpen == ASSUME OpenInv, Takes("init"), PutInit PROVE OpenInv'
<1>1. /\ IsSeq(todo) /\ todo # <<>> /\ StopsLast(todo) /\ todo' = Tail(todo)
      /\ datapaths' = <<>> /\ UNCHANGED <<live, conn>>
  BY DEF OpenInv, Takes, PutInit, netVars
<1>2. IsSeq(todo') /\ StopsLast(todo')
  BY <1>1, StopsLastGoesOn
<1>3. IsSeq(todo)' /\ StopsLast(todo)'
  BY <1>2 DEF IsSeq, StopsLast
<1>4. IsSeq(datapaths)' /\ AllOpen'
  BY <1>1 DEF IsSeq, AllOpen
<1> QED
  BY <1>1, <1>3, <1>4 DEF OpenInv

LEMMA ConnectingKeepsOpen ==
  ASSUME OpenInv, netUp, NEW s \in Switches, SwitchFeatures(s), UNCHANGED todo
  PROVE  OpenInv'
<1> DEFINE d == [sw |-> s, conn |-> conn[s] + 1]
<1>1. /\ s \notin live /\ live' = live \union {s} /\ conn' = [conn EXCEPT ![s] = @ + 1]
      /\ datapaths' = Append(datapaths, d)
  BY DEF SwitchFeatures
<1>2. d.sw = s /\ d.conn = conn[s] + 1
  OBVIOUS
<1> HIDE DEF d
<1>3. /\ AllOpen /\ live \subseteq Switches /\ DOMAIN conn = Switches /\ IsSeq(datapaths)
  BY DEF OpenInv, AboutToInit
<1>4. conn'[s] = conn[s] + 1 /\ \A x \in live : conn'[x] = conn[x] /\ x \in live'
  BY <1>1, <1>3
<1>5. /\ IsSeq(datapaths') /\ Len(datapaths) \in Nat /\ DOMAIN datapaths = 1..Len(datapaths)
      /\ DOMAIN datapaths' = 1..(Len(datapaths) + 1)
      /\ datapaths'[Len(datapaths) + 1] = d
      /\ \A i \in DOMAIN datapaths : datapaths'[i] = datapaths[i]
  BY <1>1, <1>3, AppendIsSeq, IsSeqLen
<1>6. ASSUME NEW i \in DOMAIN datapaths'
      PROVE  datapaths'[i].sw \in live' /\ datapaths'[i].conn = conn'[datapaths'[i].sw]
  <2>1. CASE i = Len(datapaths) + 1
    BY <2>1, <1>1, <1>2, <1>4, <1>5
  <2>2. CASE i \in DOMAIN datapaths
    <3>1. datapaths[i].sw \in live /\ datapaths[i].conn = conn[datapaths[i].sw]
      BY <2>2, <1>3 DEF AllOpen, IsOpen
    <3> QED
      BY <3>1, <2>2, <1>4, <1>5
  <2> QED
    BY <2>1, <2>2, <1>5
<1>7. AllOpen'
  BY <1>6 DEF AllOpen, IsOpen
<1>8. IsSeq(todo)' /\ StopsLast(todo)' /\ IsSeq(datapaths)'
  BY <1>5 DEF OpenInv, IsSeq, StopsLast
<1>9. live' \subseteq Switches /\ DOMAIN conn' = Switches
  BY <1>1, <1>3
<1> QED
  BY <1>7, <1>8, <1>9 DEF OpenInv

LEMMA OpenInvStep == OpenInv /\ [ExpNext]_allVars => OpenInv'
<1> SUFFICES ASSUME OpenInv, [ExpNext]_allVars PROVE OpenInv'
  OBVIOUS
<1> USE DEF ctlVars, netVars
<1>1. CASE Sleep
  BY <1>1, TakesKeepsOpen DEF Sleep, vars
<1>2. CASE Request
  <2>1. CASE Takes("link") /\ \E bw \in Bandwidths : PostLink(Arg, bw)
    BY <2>1, TakesKeepsOpen DEF PostLink
  <2>2. CASE Takes("pair") /\ PostHostPair(Arg[1], Arg[2])
    BY <2>2, TakesKeepsOpen DEF PostHostPair
  <2>3. CASE Takes("fail") /\ PutLink(Arg, failAt[Arg])
    BY <2>3, TakesKeepsOpen DEF PutLink
  <2>4. CASE Takes("client") /\ \E f \in ClientFailTimes, n \in DataSizes : PutHostClient(Arg[1], f, n)
    BY <2>4, TakesKeepsOpen DEF PutHostClient
  <2>5. CASE Takes("init") /\ PutInit
    BY <2>5, PutInitKeepsOpen
  <2> QED
    BY <1>2, <2>1, <2>2, <2>3, <2>4, <2>5 DEF Request
<1>3. CASE Disaster
  BY <1>3, TakesKeepsOpen DEF Disaster, PostDisaster
<1>4. CASE Start
  BY <1>4, TakesKeepsOpen DEF Start
<1>5. CASE Schedule
  BY <1>5, TakesKeepsOpen DEF Schedule, vars
<1>6. CASE \E w \in DOMAIN fuse : LinkFails(w)
  <2>1. UNCHANGED <<live, conn, datapaths, todo, netUp, sleep>>
    BY <1>6 DEF LinkFails, DeletePort, drvVars
  <2> QED
    BY <2>1, SameOpen
<1>7. CASE TimersFire
  <2>1. UNCHANGED <<live, conn, datapaths, todo, netUp, sleep>>
    BY <1>7 DEF TimersFire, Firing, TimerFires, drvVars, envVars
  <2> QED
    BY <2>1, SameOpen
<1>8. CASE SystemStep
  <2>1. UNCHANGED <<todo, netUp, sleep>>
    BY <1>8 DEF SystemStep, expVars, drvVars, envVars
  <2>2. CASE TaskStep
    BY <2>1, <2>2, SameOpen DEF TaskStep, TakeStep, Wait, Raise, FinishUpdate, FinishHosts
  <2>3. CASE Applying \/ Noticing
    BY <2>1, <2>3, SameOpen DEF Applying, Apply, Noticing, PortStatus
  <2>4. CASE netUp /\ Connecting
    BY <2>1, <2>4, ConnectingKeepsOpen DEF Connecting
  <2> QED
    BY <1>8, <2>2, <2>3, <2>4 DEF SystemStep
<1>9. CASE TimePasses
  BY <1>9, SameOpen DEF TimePasses, Tick
<1>10. CASE UNCHANGED allVars
  BY <1>10, SameOpen DEF allVars, vars, expVars, drvVars, envVars
<1> QED
  BY <1>1, <1>2, <1>3, <1>4, <1>5, <1>6, <1>7, <1>8, <1>9, <1>10, BeginKeepsOpen,
     InterruptKeepsOpen, StopKeepsOpen DEF ExpNext

LEMMA OpenInvInit == ExpInit => OpenInv
<1> SUFFICES ASSUME ExpInit PROVE OpenInv
  OBVIOUS
<1>1. todo = <<>> /\ live = {} /\ conn = [s \in Switches |-> 0] /\ datapaths = <<>>
  BY DEF ExpInit, Init
<1>2. IsSeq(todo) /\ DOMAIN todo = {} /\ IsSeq(datapaths) /\ DOMAIN datapaths = {}
  BY <1>1 DEF IsSeq
<1> QED
  BY <1>1, <1>2 DEF OpenInv, StopsLast, AllOpen

LEMMA OpenIsFresh == OpenInv => DatapathsAreFresh
<1> SUFFICES ASSUME OpenInv, NEW s \in live, KnownDp(s) PROVE IsOpen(FindDp(s))
  BY DEF DatapathsAreFresh
<1> DEFINE T == {i \in 1..Len(datapaths) : datapaths[i].sw = s}
<1>1. DOMAIN datapaths = 1..Len(datapaths)
  BY IsSeqLen DEF OpenInv
<1>2. T \in SUBSET Nat /\ T # {}
  BY <1>1 DEF KnownDp
<1>3. Min(T) \in T
  BY <1>2, FirstIsIn
<1>4. FindDp(s) = datapaths[Min(T)]
  BY <1>2 DEF FindDp, SelectInSeq
<1>5. CASE AllOpen
  BY <1>1, <1>3, <1>4, <1>5 DEF AllOpen
<1>6. CASE AboutToInit
  BY <1>6 DEF AboutToInit
<1> QED
  BY <1>5, <1>6 DEF OpenInv

\* Whatever experiments are interrupted, and whenever, a flow sent to a switch
\* that is connected goes to its present connection: PUT /init has thrown away
\* the datapaths before switches connect again (init, __find_dp).
THEOREM FreshDatapaths == ExpSpec => []DatapathsAreFresh
BY OpenInvInit, OpenInvStep, OpenIsFresh, PTL DEF ExpSpec
=============================================================================
