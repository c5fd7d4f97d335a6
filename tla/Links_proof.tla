----------------------------- MODULE Links_proof -----------------------------
(***************************************************************************)
(* KnowsWhatWorks, KnowsNothingElse, DisasterStartsUpdates and             *)
(* FailuresAreForeseen, for every network, list of links and number of     *)
(* experiments, whole or interrupted.                                      *)
(*                                                                         *)
(* Each link is registered by a step of the driver, and these come after   *)
(* the pause in which all switches connect and everything that was still   *)
(* to be heard of an earlier network is heard.  From then on a notice is   *)
(* about a port that is gone, and no port goes without a notice.           *)
(*                                                                         *)
(* The order of the program says what has happened before the disaster and *)
(* before the failures are scheduled, as long as it has not been left.     *)
(***************************************************************************)
EXTENDS Experiment_proof

Has(q, op) == \E i \in DOMAIN q : q[i].do = op

\* The steps of the driver that have been taken, as long as it is in the try
\* clause.
Place == Len(Program) - Len(todo)

InOrder(w) == \A e \in LinkPorts : {e[1], e[2]} = w => e \in up

\* A notice is about a port that is gone.
NoticesTrue ==
  \A s \in Switches :
    /\ IsSeq(notices[s])
    /\ \A i \in DOMAIN notices[s] : \A t \in Switches :
         <<s, t>> \in LinkPorts /\ Port[<<s, t>>] = notices[s][i] => <<s, t>> \notin up
Steady == live = Switches /\ NoticesTrue
Bare   == links = {} /\ hostPairs = <<>> /\ DOMAIN fuse = {}

\* In the try clause what is left is what follows in the program: nothing is
\* registered before the pause, one link after the other after it, pairs then.
LeftAfter(q, n) ==
  /\ IsSeq(q) /\ n \in Nat /\ Len(q) = Len(Program) - n
  /\ \A i \in DOMAIN q : q[i] = Program[n + i]
OnPlan ==
  /\ LeftAfter(todo, Place)
  /\ failAt \in [ToSet(Doomed) -> FailTimes]
  /\ netUp <=> Place >= 1
  /\ Place <= 2 => Bare
  /\ Place \in 1..(2 + Len(Cables)) => up = LinkPorts /\ DOMAIN fuse = {}
  /\ Place > 2 \/ (Place = 2 /\ sleep = 0) => Steady
  /\ Place < 2 + Len(Cables) => hostPairs = <<>>
  /\ \A i \in 1..Len(Cables) : i + 2 <= Place /\ InOrder(Cables[i]) => Linked(Cables[i])

\* In the finally clause and after it.
Closes(q) ==
  \A i \in DOMAIN q :
    /\ q[i].do \in {"stop", "init", "sleep"}
    /\ q[i].do = "stop" => i = 1 /\ 2 \in DOMAIN q /\ q[2].do = "init"
    /\ q[i].do = "init" => i = 1 \/ (i = 2 /\ q[1].do = "stop")
Closing ==
  /\ Closes(todo)
  /\ ~Has(todo, "stop") => ~netUp
  /\ ~Has(todo, "init") => Bare

InPlace == /\ IsSeq(todo)
           /\ Len(todo) > 3 => OnPlan
           /\ Len(todo) <= 3 => Closing
NetInv ==
  /\ DOMAIN notices = Switches /\ up \subseteq LinkPorts /\ live \subseteq Switches
  /\ netUp => Steady \/ Bare
  /\ ~netUp => DOMAIN fuse = {} /\ (Bare \/ up = {})
KnowInv == PortInv /\ InPlace /\ NetInv /\ KnowsWhatWorks /\ KnowsNothingElse
-----------------------------------------------------------------------------
(* The program. *)

Later == {"pair", "sleep", "disaster", "fail", "client", "schedule"}
IsLater(x) == x.do \in Later /\ (x.do = "fail" => x.arg \in ToSet(Doomed))
LinksFirst(q) ==
  /\ IsSeq(q) /\ Len(q) >= 2 + Len(Cables)
  /\ q[1].do = "start" /\ q[2].do = "sleep" /\ q[2].arg = Boot
  /\ \A i \in 1..Len(Cables) : q[i + 2].do = "link" /\ q[i + 2].arg = Cables[i]
  /\ \A i \in DOMAIN q : i > 2 + Len(Cables) => IsLater(q[i])

LEMMA AllLinks ==
  /\ IsSeq(All("link", Cables)) /\ Len(All("link", Cables)) = Len(Cables)
  /\ \A i \in 1..Len(Cables) : /\ All("link", Cables)[i].do = "link"
                               /\ All("link", Cables)[i].arg = Cables[i]
<1> DEFINE a == All("link", Cables)
<1>1. Cables \in Seq(Wires) /\ Len(Cables) \in Nat /\ DOMAIN Cables = 1..Len(Cables)
  BY ScheduleAssumption
<1>2. a = [i \in 1..Len(Cables) |-> [do |-> "link", arg |-> Cables[i]]]
  BY <1>1 DEF All
<1>3. IsSeq(a)
  BY <1>1, AllIs
<1>4. DOMAIN a = 1..Len(a) /\ Len(a) \in Nat
  BY <1>3, IsSeqLen
<1>5. \A i \in 1..Len(Cables) : a[i].do = "link" /\ a[i].arg = Cables[i]
  BY <1>2
<1>6. DOMAIN a = 1..Len(Cables)
  BY <1>2
<1>7. Len(a) = Len(Cables)
  <2> HIDE DEF a
  <2>1. \A m, n \in Nat : 1..m = 1..n => m = n
    <3> SUFFICES ASSUME NEW m \in Nat, NEW n \in Nat, 1..m = 1..n PROVE m = n
      OBVIOUS
    <3>1. m > 0 => m \in 1..n
      OBVIOUS
    <3>2. n > 0 => n \in 1..m
      OBVIOUS
    <3> QED
      BY <3>1, <3>2
  <2> QED
    BY <1>1, <1>4, <1>6, <2>1
<1> QED
  BY <1>3, <1>5, <1>7

LEMMA LinksAreFirst ==
  ASSUME NEW q, IsSeq(q), Len(q) = 2, q[1].do = "start", q[2].do = "sleep", q[2].arg = Boot
  PROVE  LinksFirst(q \o All("link", Cables))
<1> DEFINE a == All("link", Cables)
           p == q \o a
           c == Len(Cables)
<1>1. IsSeq(a) /\ Len(a) = c /\ \A i \in 1..c : a[i].do = "link" /\ a[i].arg = Cables[i]
  BY AllLinks
<1>2. c \in Nat
  BY ScheduleAssumption
<1> HIDE DEF a, c
<1>0. IsSeq(a) /\ Len(a) = c
  BY <1>1
<1>3. IsSeq(p) /\ Len(p) = Len(q) + Len(a)
  BY <1>0, JoinLen, Zenon
<1>4. \A i \in 1..(Len(q) + Len(a)) : p[i] = IF i <= Len(q) THEN q[i] ELSE a[i - Len(q)]
  BY <1>0, JoinAt, Zenon
<1> HIDE DEF p
<1>5. p[1] = q[1] /\ p[2] = q[2]
  BY <1>1, <1>2, <1>4
<1>6. \A i \in 1..c : i + 2 \in 1..(2 + c) /\ ~(i + 2 <= 2) /\ (i + 2) - 2 = i
  BY <1>2
<1>7. \A i \in 1..c : p[i + 2] = a[i]
  BY <1>1, <1>4, <1>6
<1>8. \A i \in DOMAIN p : ~(i > 2 + c)
  BY <1>0, <1>2, <1>3, IsSeqLen
<1>9. \A i \in 1..c : p[i + 2].do = "link" /\ p[i + 2].arg = Cables[i]
  BY <1>1, <1>7
<1>10. LinksFirst(p)
  BY <1>0, <1>2, <1>3, <1>5, <1>8, <1>9 DEF LinksFirst, c
<1> QED
  BY <1>10 DEF p, a

LEMMA MoreAfterLinks ==
  ASSUME NEW q, LinksFirst(q), NEW r, IsSeq(r), \A i \in DOMAIN r : IsLater(r[i])
  PROVE  LinksFirst(q \o r)
<1> DEFINE p == q \o r
           c == Len(Cables)
<1>1. IsSeq(q) /\ Len(q) \in Nat /\ DOMAIN q = 1..Len(q)
  BY IsSeqLen DEF LinksFirst
<1>2. c \in Nat
  BY ScheduleAssumption
<1>3. /\ IsSeq(p) /\ \A i \in DOMAIN q : i \in DOMAIN p /\ p[i] = q[i]
      /\ \A i \in DOMAIN p : i \in DOMAIN q \/ \E j \in DOMAIN r : i = Len(q) + j /\ p[i] = r[j]
  BY <1>1, JoinHas, Zenon
<1>4. IsSeq(p) /\ Len(p) = Len(q) + Len(r) /\ Len(r) \in Nat
  BY <1>1, JoinLen, IsSeqLen
<1> HIDE DEF p
<1>5. Len(q) >= 2 + c /\ \A i \in DOMAIN q : i > 2 + c => IsLater(q[i])
  BY DEF LinksFirst, c
<1>6. \A i \in DOMAIN p : i > 2 + c => IsLater(p[i])
  BY <1>3, <1>5
<1>7. \A i \in 1..c : q[i + 2].do = "link" /\ q[i + 2].arg = Cables[i]
  BY DEF LinksFirst, c
<1> HIDE DEF c
<1>8. 1 \in DOMAIN q /\ 2 \in DOMAIN q /\ \A i \in 1..c : i + 2 \in DOMAIN q
  BY <1>1, <1>2, <1>5
<1>9. \A i \in 1..c : p[i + 2].do = "link" /\ p[i + 2].arg = Cables[i]
  BY <1>3, <1>7, <1>8
<1>10. p[1].do = "start" /\ p[2].do = "sleep" /\ p[2].arg = Boot
  BY <1>3, <1>8 DEF LinksFirst
<1>11. Len(p) >= 2 + c
  BY <1>1, <1>2, <1>4, <1>5
<1>12. LinksFirst(p)
  BY <1>4, <1>6, <1>9, <1>10, <1>11 DEF LinksFirst, c
<1> QED
  BY <1>12 DEF p

LEMMA RunLinksFirst == LinksFirst(Run)
<1> DEFINE q1 == Do("start", 0) \o Do("sleep", Boot)
           q2 == q1 \o All("link", Cables)
           q3 == q2 \o All("pair", Served)
           q4 == q3 \o Do("sleep", Prepare)
           q5 == q4 \o Do("disaster", 0)
           q6 == q5 \o All("fail", Doomed)
           q7 == q6 \o All("client", Served)
           q8 == q7 \o Do("schedule", 0)
           q9 == q8 \o Do("sleep", RunTime)
<1>1. \A op, arg : op \in Later \ {"fail"} =>
        IsSeq(Do(op, arg)) /\ \A i \in DOMAIN Do(op, arg) : IsLater(Do(op, arg)[i])
  BY DoIs DEF IsLater
<1>2. \A op : op \in Later \ {"fail"} =>
        /\ IsSeq(All(op, Served)) /\ \A i \in DOMAIN All(op, Served) : IsLater(All(op, Served)[i])
  BY AllIs, ScheduleAssumption DEF IsLater
<1>20. /\ IsSeq(All("fail", Doomed))
       /\ \A i \in DOMAIN All("fail", Doomed) : IsLater(All("fail", Doomed)[i])
  <2>1. Doomed \in Seq(Wires)
    BY ScheduleAssumption
  <2>2. /\ IsSeq(All("fail", Doomed))
        /\ \A i \in DOMAIN All("fail", Doomed) : All("fail", Doomed)[i].do = "fail"
    BY <2>1, AllIs
  <2>3. \A i \in DOMAIN All("fail", Doomed) :
          i \in DOMAIN Doomed /\ All("fail", Doomed)[i].arg = Doomed[i]
    BY DEF All
  <2> QED
    BY <2>2, <2>3 DEF IsLater, Later, ToSet
<1>3. /\ "pair" \in Later \ {"fail"} /\ "sleep" \in Later \ {"fail"}
      /\ "disaster" \in Later \ {"fail"}
      /\ "client" \in Later \ {"fail"} /\ "schedule" \in Later \ {"fail"}
  BY DEF Later
<1> HIDE DEF Later
<1>4. IsSeq(q1) /\ Len(q1) = 2 /\ q1[1].do = "start" /\ q1[2].do = "sleep" /\ q1[2].arg = Boot
  <2> DEFINE a == Do("start", 0)
             b == Do("sleep", Boot)
  <2>1. /\ IsSeq(a) /\ Len(a) = 1 /\ a[1].do = "start"
        /\ IsSeq(b) /\ Len(b) = 1 /\ b[1].do = "sleep" /\ b[1].arg = Boot
    BY DoIs
  <2>2. IsSeq(q1) /\ Len(q1) = Len(a) + Len(b)
    BY <2>1, JoinLen, Zenon
  <2>3. \A i \in 1..(Len(a) + Len(b)) : q1[i] = IF i <= Len(a) THEN a[i] ELSE b[i - Len(a)]
    BY <2>1, JoinAt, Zenon
  <2> HIDE DEF a, b, q1
  <2>4. q1[1] = a[1] /\ q1[2] = b[1] /\ Len(q1) = 2
    BY <2>1, <2>2, <2>3
  <2> QED
    BY <2>1, <2>2, <2>4
<1> HIDE DEF q1
<1>5. LinksFirst(q2)
  BY <1>4, LinksAreFirst
<1> HIDE DEF q2
<1>6. LinksFirst(q3)
  BY <1>2, <1>3, <1>5, MoreAfterLinks
<1> HIDE DEF q3
<1>7. LinksFirst(q4)
  BY <1>1, <1>3, <1>6, MoreAfterLinks
<1> HIDE DEF q4
<1>8. LinksFirst(q5)
  BY <1>1, <1>3, <1>7, MoreAfterLinks
<1> HIDE DEF q5
<1>9. LinksFirst(q6)
  BY <1>20, <1>8, MoreAfterLinks
<1> HIDE DEF q6
<1>10. LinksFirst(q7)
  BY <1>2, <1>3, <1>9, MoreAfterLinks
<1> HIDE DEF q7
<1>11. LinksFirst(q8)
  BY <1>1, <1>3, <1>10, MoreAfterLinks
<1> HIDE DEF q8
<1>12. LinksFirst(q9)
  BY <1>1, <1>3, <1>11, MoreAfterLinks
<1> QED
  BY <1>12 DEF Run, q1, q2, q3, q4, q5, q6, q7, q8

LEMMA ProgramIs ==
  /\ IsSeq(Run) /\ Len(Run) \in Nat /\ DOMAIN Run = 1..Len(Run)
  /\ IsSeq(Program) /\ Len(Program) = Len(Run) + 3 /\ DOMAIN Program = 1..(Len(Run) + 3)
  /\ \A i \in 1..Len(Run) : Program[i] = Run[i]
  /\ Program[Len(Run) + 1].do = "stop"
  /\ Program[Len(Run) + 2].do = "init"
  /\ Program[Len(Run) + 3].do = "sleep"
<1> DEFINE s == Do("sleep", CleanupTime)
           o == Cleanup \o s
<1>1. /\ IsSeq(Cleanup) /\ Len(Cleanup) = 2 /\ DOMAIN Cleanup = 1..2
      /\ Cleanup[1].do = "stop" /\ Cleanup[2].do = "init"
      /\ IsSeq(s) /\ Len(s) = 1 /\ s[1].do = "sleep"
  BY CleanupIs, DoIs
<1>2. IsSeq(Run) /\ Len(Run) \in Nat /\ DOMAIN Run = 1..Len(Run)
  BY RunLinksFirst, IsSeqLen DEF LinksFirst
<1>3. Program = Run \o o
  <2> HIDE DEF s
  <2> DEFINE S == ToSet(Run) \union ToSet(Cleanup) \union ToSet(s)
  <2>1. Run \in Seq(S) /\ Cleanup \in Seq(S) /\ s \in Seq(S)
    <3>1. ToSet(Run) \subseteq S /\ ToSet(Cleanup) \subseteq S /\ ToSet(s) \subseteq S
      OBVIOUS
    <3> QED
      BY <3>1, <1>1, <1>2, SeqMonotonic DEF IsSeq
  <2> HIDE DEF S
  <2>2. (Run \o Cleanup) \o s = Run \o (Cleanup \o s)
    BY <2>1
  <2> QED
    BY <2>2 DEF Program, s
<1> HIDE DEF s
<1>4. IsSeq(o) /\ Len(o) = 3 /\ o[1].do = "stop" /\ o[2].do = "init" /\ o[3].do = "sleep"
  BY <1>1, TwoAndOne
<1> HIDE DEF o
<1>5. /\ IsSeq(Program) /\ DOMAIN Program = 1..(Len(Run) + 3) /\ Len(Program) = Len(Run) + 3
      /\ \A i \in 1..Len(Run) : Program[i] = Run[i]
      /\ Program[Len(Run) + 1] = o[1]
      /\ Program[Len(Run) + 2] = o[2]
      /\ Program[Len(Run) + 3] = o[3]
  <2>1. IsSeq(o) /\ Len(o) = 3
    BY <1>4
  <2> QED
    BY <1>2, <1>3, <2>1, ThreeMore
<1> QED
  BY <1>2, <1>4, <1>5

\* What the next step is.
LEMMA NextOnPlan ==
  ASSUME NEW q, NEW n, LeftAfter(q, n), Len(q) > 3
  PROVE  /\ q # <<>> /\ n \in 0..(Len(Run) - 1) /\ Len(Tail(q)) = Len(q) - 1
         /\ LeftAfter(Tail(q), n + 1)
         /\ Head(q).do \in {"start", "link"} \/ IsLater(Head(q))
         /\ Head(q).do = "start" => n = 0
         /\ n = 0 => Head(q).do = "start"
         /\ n = 1 => Head(q).do = "sleep" /\ Head(q).arg = Boot
         /\ Head(q).do = "link" => /\ n >= 2 /\ n < 2 + Len(Cables)
                                   /\ Head(q).arg = Cables[n - 1]
         /\ n >= 2 /\ n < 2 + Len(Cables) => Head(q).do = "link"
<1> DEFINE R == Len(Run)
           c == Len(Cables)
<1>1. /\ R \in Nat /\ Len(Program) = R + 3 /\ DOMAIN Run = 1..R
      /\ \A i \in 1..R : Program[i] = Run[i]
  BY ProgramIs
<1>2. c \in Nat
  BY ScheduleAssumption
<1>3. /\ IsSeq(q) /\ n \in Nat /\ Len(q) = R + 3 - n /\ Len(q) \in Nat /\ DOMAIN q = 1..Len(q)
      /\ \A i \in DOMAIN q : q[i] = Program[n + i]
  BY <1>1, IsSeqLen DEF LeftAfter
<1>4. q # <<>>
  BY <1>3
<1>5. /\ IsSeq(Tail(q)) /\ Head(q) = q[1] /\ DOMAIN Tail(q) = 1..(Len(q) - 1)
      /\ \A i \in DOMAIN Tail(q) : i + 1 \in DOMAIN q /\ Tail(q)[i] = q[i + 1]
  BY <1>3, <1>4, TailIsSeq
<1>6. Len(Tail(q)) = Len(q) - 1
  BY <1>3, <1>4, LenProperties DEF IsSeq
<1>7. n \in 0..(R - 1) /\ n + 1 \in 1..R /\ 1 \in DOMAIN q
  BY <1>1, <1>3
<1>8. Head(q) = Run[n + 1]
  BY <1>1, <1>3, <1>5, <1>7
<1>9. /\ Run[1].do = "start" /\ Run[2].do = "sleep" /\ Run[2].arg = Boot
      /\ \A i \in 1..c : Run[i + 2].do = "link" /\ Run[i + 2].arg = Cables[i]
      /\ \A i \in DOMAIN Run : i > 2 + c => IsLater(Run[i])
  BY RunLinksFirst DEF LinksFirst
<1>10. LeftAfter(Tail(q), n + 1)
  <2>1. \A i \in DOMAIN Tail(q) : i \in Nat /\ n + (i + 1) = (n + 1) + i
    BY <1>3, <1>5
  <2>2. \A i \in DOMAIN Tail(q) : Tail(q)[i] = Program[(n + 1) + i]
    BY <1>3, <1>5, <2>1
  <2>3. Len(Tail(q)) = Len(Program) - (n + 1) /\ n + 1 \in Nat
    BY <1>1, <1>3, <1>6
  <2> QED
    BY <1>5, <2>2, <2>3 DEF LeftAfter
<1> HIDE DEF R, c
<1> DEFINE op  == Head(q).do
           arg == Head(q).arg
<1>11. n = 0 => op = "start"
  BY <1>8, <1>9
<1>12. n = 1 => op = "sleep" /\ arg = Boot
  BY <1>8, <1>9
<1>13. n >= 2 /\ n < 2 + c => op = "link" /\ arg = Cables[n - 1]
  <2> SUFFICES ASSUME n >= 2 /\ n < 2 + c PROVE op = "link" /\ arg = Cables[n - 1]
    OBVIOUS
  <2>1. n - 1 \in 1..c /\ (n - 1) + 2 = n + 1
    BY <1>2, <1>3
  <2> QED
    BY <1>8, <1>9, <2>1
<1>14. n >= 2 + c => IsLater(Head(q)) /\ op \in Later
  <2> SUFFICES ASSUME n >= 2 + c PROVE IsLater(Head(q)) /\ op \in Later
    OBVIOUS
  <2>1. n + 1 > 2 + c /\ n + 1 \in DOMAIN Run
    BY <1>1, <1>2, <1>3, <1>7
  <2> QED
    BY <1>8, <1>9, <2>1 DEF IsLater
<1>140. op = "sleep" => IsLater(Head(q))
  BY DEF IsLater, Later
<1> HIDE DEF op, arg
<1>15. /\ op = "start" => op # "link" /\ op \notin Later
       /\ op = "sleep" => op # "start" /\ op # "link" /\ op \in Later
       /\ op = "link" => op # "start" /\ op \notin Later
  BY DEF Later
<1>16. /\ n = 0 \/ n = 1 \/ (n >= 2 /\ n < 2 + c) \/ n >= 2 + c
       /\ n >= 2 => n # 0 /\ n # 1
       /\ n >= 2 + c => n >= 2
  BY <1>2, <1>3
<1>17. n = 1 => n # 0
  OBVIOUS
<1>18. /\ op \in {"start", "link"} \/ IsLater(Head(q))
       /\ op = "start" => n = 0
       /\ n = 0 => op = "start"
       /\ op = "link" => n >= 2 /\ n < 2 + c /\ arg = Cables[n - 1]
  <2>1. CASE n = 0
    BY <1>11, <1>15, <2>1
  <2>2. CASE n = 1
    BY <1>12, <1>140, <1>15, <1>17, <2>2
  <2>3. CASE n >= 2 /\ n < 2 + c
    BY <1>13, <1>15, <1>16, <2>3
  <2>4. CASE n >= 2 + c
    BY <1>14, <1>15, <1>16, <2>4
  <2> QED
    BY <1>16, <2>1, <2>2, <2>3, <2>4
<1> QED
  BY <1>4, <1>6, <1>7, <1>10, <1>12, <1>13, <1>18 DEF R, c, op, arg

LEMMA PlanEnds ==
  ASSUME NEW q, NEW n, LeftAfter(q, n), Len(q) <= 3, Len(q) >= 3
  PROVE  Closes(q) /\ Has(q, "stop") /\ Has(q, "init")
<1> DEFINE R == Len(Run)
<1>1. /\ R \in Nat /\ Len(Program) = R + 3
      /\ Program[R + 1].do = "stop" /\ Program[R + 2].do = "init" /\ Program[R + 3].do = "sleep"
  BY ProgramIs
<1>2. /\ n \in Nat /\ Len(q) = R + 3 - n /\ Len(q) \in Nat /\ DOMAIN q = 1..Len(q)
      /\ \A i \in DOMAIN q : q[i] = Program[n + i]
  BY <1>1, IsSeqLen DEF LeftAfter
<1> HIDE DEF R
<1>3. n = R /\ DOMAIN q = 1..3
  BY <1>1, <1>2
<1>4. q[1].do = "stop" /\ q[2].do = "init" /\ q[3].do = "sleep"
  BY <1>1, <1>2, <1>3
<1>5. \A i \in 1..3 : i = 1 \/ i = 2 \/ i = 3
  OBVIOUS
<1>6. Closes(q)
  BY <1>3, <1>4, <1>5 DEF Closes
<1> QED
  BY <1>3, <1>4, <1>6 DEF Has

LEMMA CleanupCloses == Closes(Cleanup) /\ Has(Cleanup, "stop") /\ Has(Cleanup, "init")
<1>1. DOMAIN Cleanup = 1..2 /\ Cleanup[1].do = "stop" /\ Cleanup[2].do = "init"
  BY CleanupIs
<1>2. \A i \in 1..2 : i = 1 \/ i = 2
  OBVIOUS
<1> QED
  BY <1>1, <1>2 DEF Closes, Has

LEMMA ClosesGoesOn ==
  ASSUME NEW q, IsSeq(q), q # <<>>, Closes(q)
  PROVE  /\ Closes(Tail(q)) /\ Head(q).do \in {"stop", "init", "sleep"}
         /\ Len(Tail(q)) = Len(q) - 1
         /\ Head(q).do = "stop" => Has(Tail(q), "init")
         /\ Head(q).do # "stop" => ~Has(q, "stop")
         /\ Head(q).do = "sleep" => ~Has(q, "init")
<1> DEFINE t == Tail(q)
<1>1. /\ 1 \in DOMAIN q /\ Head(q) = q[1] /\ DOMAIN t = 1..(Len(q) - 1)
      /\ \A i \in DOMAIN t : i + 1 \in DOMAIN q /\ t[i] = q[i + 1]
      /\ Len(q) \in Nat /\ DOMAIN q = 1..Len(q)
  BY TailIsSeq, IsSeqLen
<1>2. Len(t) = Len(q) - 1
  BY LenProperties DEF IsSeq
<1> HIDE DEF t
<1>3. \A i \in DOMAIN t : i \in Nat /\ i + 1 # 1 /\ (i + 1 = 2 => i = 1)
  BY <1>1
<1>4. \A i \in DOMAIN q : q[i].do = "stop" => i = 1 /\ 2 \in DOMAIN q /\ q[2].do = "init"
  BY DEF Closes
<1>5. \A i \in DOMAIN q : q[i].do = "init" => i = 1 \/ (i = 2 /\ q[1].do = "stop")
  BY DEF Closes
<1>6. Closes(t)
  <2> SUFFICES ASSUME NEW i \in DOMAIN t
               PROVE  /\ t[i].do \in {"stop", "init", "sleep"} /\ t[i].do # "stop"
                      /\ t[i].do = "init" => i = 1
    BY DEF Closes
  <2>1. i + 1 \in DOMAIN q /\ t[i] = q[i + 1] /\ i + 1 # 1 /\ (i + 1 = 2 => i = 1)
    BY <1>1, <1>3
  <2>2. q[i + 1].do \in {"stop", "init", "sleep"}
    BY <2>1 DEF Closes
  <2> QED
    BY <1>4, <1>5, <2>1, <2>2
<1>7. ASSUME q[1].do = "stop" PROVE Has(t, "init")
  <2>1. 2 \in DOMAIN q /\ q[2].do = "init"
    BY <1>1, <1>4, <1>7
  <2>2. 1 \in DOMAIN t /\ 1 + 1 = 2
    BY <1>1, <2>1
  <2> QED
    BY <1>1, <2>1, <2>2 DEF Has
<1>8. q[1].do # "stop" => ~Has(q, "stop")
  BY <1>4 DEF Has
<1>9. q[1].do = "sleep" => ~Has(q, "init")
  BY <1>5 DEF Has
<1>10. q[1].do \in {"stop", "init", "sleep"}
  BY <1>1 DEF Closes
<1> QED
  BY <1>1, <1>2, <1>6, <1>7, <1>8, <1>9, <1>10 DEF t
-----------------------------------------------------------------------------
(* The steps of the driver: where it is after one. *)

\* In the try clause.
LEMMA GoesOnPlan ==
  ASSUME InPlace, Len(todo) > 3, todo' = Tail(todo), netUp', failAt' = failAt,
         Place + 1 <= 2 => Bare',
         Place + 1 <= 2 + Len(Cables) => up' = LinkPorts /\ DOMAIN fuse' = {},
         Place + 1 > 2 \/ (Place + 1 = 2 /\ sleep' = 0) => Steady',
         Place + 1 < 2 + Len(Cables) => hostPairs' = <<>>,
         \A i \in 1..Len(Cables) :
           i + 2 <= Place + 1 /\ InOrder(Cables[i])' => Linked(Cables[i])'
  PROVE  InPlace'
<1> DEFINE n == Place
<1>1. LeftAfter(todo, n)
  BY DEF InPlace, OnPlan
<1>2. /\ n \in 0..(Len(Run) - 1) /\ Len(Tail(todo)) = Len(todo) - 1
      /\ LeftAfter(Tail(todo), n + 1)
  BY <1>1, NextOnPlan
<1>3. IsSeq(Tail(todo)) /\ IsSeq(todo')
  BY <1>2 DEF LeftAfter
<1>4. Len(Program) \in Nat /\ Len(todo) \in Nat /\ n = Len(Program) - Len(todo)
  BY <1>1, ProgramIs, IsSeqLen DEF LeftAfter, Place
<1>5. Place' = n + 1
  <2>1. Place' = Len(Program) - Len(todo')
    BY DEF Place
  <2>2. Len(todo') = Len(todo) - 1
    BY <1>2
  <2>3. \A a, b \in Nat : a - (b - 1) = (a - b) + 1
    OBVIOUS
  <2>4. Len(Program) - (Len(todo) - 1) = (Len(Program) - Len(todo)) + 1
    BY <1>4, <2>3
  <2>5. Place' = (Len(Program) - Len(todo)) + 1
    BY <2>1, <2>2, <2>4, Zenon
  <2> QED
    BY <1>4, <2>5, Zenon
<1>6. LeftAfter(todo', Place')
  BY <1>2, <1>5
<1>7. n \in Nat /\ Len(Cables) \in Nat
  BY <1>1, ScheduleAssumption DEF LeftAfter
<1>8. failAt' \in [ToSet(Doomed) -> FailTimes]
  BY DEF InPlace, OnPlan
<1> HIDE DEF n
<1>9. CASE Len(todo') > 3
  <2>1. OnPlan'
    BY <1>5, <1>6, <1>7, <1>8 DEF OnPlan, n, LeftAfter
  <2> QED
    BY <1>3, <1>4, <1>9, <2>1 DEF InPlace, IsSeq
<1>10. CASE Len(todo') <= 3
  <2>1. Len(todo') >= 3
    BY <1>2, <1>4
  <2>2. Closes(Tail(todo)) /\ Has(Tail(todo), "stop") /\ Has(Tail(todo), "init")
    BY <1>2, <1>10, <2>1, PlanEnds
  <2>3. Closing'
    BY <2>2 DEF Closing, Closes, Has
  <2> QED
    BY <1>3, <1>10, <2>3, <1>4 DEF InPlace, IsSeq
<1> QED
  BY <1>2, <1>4, <1>9, <1>10
\* In the finally clause and after it.
LEMMA GoesOnClosing ==
  ASSUME InPlace, Len(todo) <= 3, todo # <<>>, todo' = Tail(todo),
         Head(todo).do = "stop" => ~netUp', ~netUp => ~netUp',
         Head(todo).do = "init" => Bare', Head(todo).do = "sleep" /\ Bare => Bare'
  PROVE  InPlace'
<1>1. IsSeq(todo) /\ Closing /\ Len(todo) \in Nat
  BY IsSeqLen DEF InPlace
<1>2. /\ Closes(Tail(todo)) /\ Head(todo).do \in {"stop", "init", "sleep"}
      /\ Len(Tail(todo)) = Len(todo) - 1
      /\ Head(todo).do = "stop" => Has(Tail(todo), "init")
      /\ Head(todo).do # "stop" => ~Has(todo, "stop")
      /\ Head(todo).do = "sleep" => ~Has(todo, "init")
  BY <1>1, ClosesGoesOn DEF Closing
<1>3. Closes(todo') /\ (Head(todo).do = "stop" => Has(todo', "init"))
  BY <1>2
<1>4. Closes(todo)' /\ (Head(todo).do = "stop" => Has(todo, "init")')
  BY <1>3 DEF Closes, Has
<1>5. ~netUp' \/ Has(todo, "stop")'
  BY <1>1, <1>2 DEF Closing
<1>6. Bare' \/ Has(todo, "init")'
  BY <1>1, <1>2, <1>4 DEF Closing
<1>7. IsSeq(todo')
  BY <1>1, TailIsSeq
<1>8. Len(todo') = Len(todo) - 1
  BY <1>2
<1>9. ~(Len(todo') > 3) /\ Len(todo') <= 3
  <2>1. \A n \in Nat : n <= 3 => ~(n - 1 > 3) /\ n - 1 <= 3
    OBVIOUS
  <2> QED
    BY <1>1, <1>8, <2>1
<1>10. Closing'
  BY <1>4, <1>5, <1>6 DEF Closing
<1> QED
  BY <1>7, <1>9, <1>10 DEF InPlace, IsSeq

\* Steps that are not the driver's.
LEMMA StaysInPlace ==
  ASSUME InPlace, UNCHANGED <<todo, netUp, failAt, hostPairs>>,
         Bare => Bare', Place \in 1..(2 + Len(Cables)) => up' = up /\ DOMAIN fuse' = DOMAIN fuse,
         Len(todo) > 3 /\ (Place > 2 \/ (Place = 2 /\ sleep' = 0)) => Steady',
         \A w : InOrder(w)' => InOrder(w),
         Len(todo) > 3 =>
           \A i \in 1..Len(Cables) : i + 2 <= Place /\ InOrder(Cables[i])' /\ Linked(Cables[i])
                                       => Linked(Cables[i])'
  PROVE  InPlace'
<1>1. /\ todo' = todo /\ Place' = Place /\ (LeftAfter(todo, Place)' <=> LeftAfter(todo, Place))
      /\ (IsSeq(todo)' <=> IsSeq(todo))
  BY DEF Place, LeftAfter, IsSeq
<1>2. /\ (Closes(todo)' <=> Closes(todo)) /\ (Has(todo, "stop")' <=> Has(todo, "stop"))
      /\ (Has(todo, "init")' <=> Has(todo, "init"))
  BY DEF Closes, Has
<1>3. ASSUME Len(todo) > 3 PROVE OnPlan'
  <2>1. OnPlan
    BY <1>3 DEF InPlace
  <2>2. /\ LeftAfter(todo, Place)' /\ failAt' \in [ToSet(Doomed) -> FailTimes]
        /\ netUp' <=> Place >= 1
        /\ Place <= 2 => Bare'
        /\ Place \in 1..(2 + Len(Cables)) => up' = LinkPorts /\ DOMAIN fuse' = {}
        /\ Place < 2 + Len(Cables) => hostPairs' = <<>>
    BY <1>1, <2>1 DEF OnPlan
  <2>3. \A i \in 1..Len(Cables) : i + 2 <= Place /\ InOrder(Cables[i])' => Linked(Cables[i])'
    BY <1>3, <2>1 DEF OnPlan
  <2> QED
    BY <1>1, <1>3, <2>2, <2>3 DEF OnPlan
<1>4. ASSUME Len(todo) <= 3 PROVE Closing'
  BY <1>2, <1>4 DEF InPlace, Closing
<1> QED
  BY <1>1, <1>3, <1>4 DEF InPlace
-----------------------------------------------------------------------------
(* Links and the ports of the network. *)

LEMMA WirePorts ==
  ASSUME NEW w \in Wires, NEW x \in w, NEW y \in w, x # y
  PROVE  w = {x, y} /\ x \in Switches /\ y \in Switches /\ <<x, y>> \in LinkPorts
<1>1. PICK a, b \in Switches : a # b /\ w = {a, b}
  BY TopologyAssumption
<1>2. w = {x, y} /\ x \in Switches /\ y \in Switches
  BY <1>1
<1>3. <<x, y>> \in Switches \X Switches /\ <<x, y>>[1] = x /\ <<x, y>>[2] = y
  BY <1>2
<1> QED
  BY <1>2, <1>3 DEF LinkPorts

LEMMA WireHasPort == ASSUME NEW w \in Wires PROVE \E e \in LinkPorts : {e[1], e[2]} = w
<1>1. PICK a, b \in Switches : a # b /\ w = {a, b}
  BY TopologyAssumption
<1>2. <<a, b>> \in LinkPorts /\ <<a, b>>[1] = a /\ <<a, b>>[2] = b
  BY <1>1, WirePorts
<1> QED
  BY <1>1, <1>2

LEMMA CablesAreWires ==
  /\ \A i \in 1..Len(Cables) : Cables[i] \in Wires
  /\ \A w \in ToSet(Cables) : w \in Wires /\ \E i \in 1..Len(Cables) : w = Cables[i]
<1>1. Cables \in Seq(Wires) /\ DOMAIN Cables = 1..Len(Cables)
  BY ScheduleAssumption
<1>2. \A i \in 1..Len(Cables) : Cables[i] \in Wires
  BY <1>1, ElementOfSeq
<1> QED
  BY <1>1, <1>2 DEF ToSet

\* Nothing is known of an experiment without ports.
LEMMA NoPortsNoWork == ASSUME up = {} PROVE KnowsWhatWorks
<1> SUFFICES ASSUME NEW w \in ToSet(Cables) PROVE \E e \in LinkPorts : {e[1], e[2]} = w /\ e \notin up
  BY DEF KnowsWhatWorks
<1> QED
  BY CablesAreWires, WireHasPort

LEMMA BareKnows == Bare => KnowsWhatWorks /\ KnowsNothingElse
BY DEF Bare, KnowsWhatWorks, KnowsNothingElse, NoGhostLink

LEMMA SameNet ==
  ASSUME PortInv, NetInv, KnowsWhatWorks, KnowsNothingElse,
         UNCHANGED <<links, hostPairs, portTo, notices, up, live, netUp>>,
         DOMAIN fuse' = DOMAIN fuse
  PROVE  PortInv' /\ NetInv' /\ KnowsWhatWorks' /\ KnowsNothingElse'
         /\ (Bare => Bare') /\ (Steady => Steady') /\ \A w : /\ InOrder(w)' <=> InOrder(w)
                                                             /\ Linked(w)' <=> Linked(w)
<1>1. PortInv'
  BY DEF PortInv, PortsAreWired, LinkHasPorts, PortsTo
<1>2. (Bare <=> Bare') /\ (NoticesTrue <=> NoticesTrue')
  BY DEF Bare, NoticesTrue, IsSeq
<1>3. Steady <=> Steady'
  BY <1>2 DEF Steady
<1>4. NetInv'
  BY <1>2, <1>3 DEF NetInv
<1>5. \A w : (InOrder(w)' <=> InOrder(w)) /\ (Linked(w)' <=> Linked(w))
  BY DEF InOrder, Linked
<1>6. KnowsWhatWorks'
  BY DEF KnowsWhatWorks, Linked
<1>7. KnowsNothingElse'
  <2>1. (\A s : ToSet(notices[s])' = ToSet(notices[s])) /\ links' = links /\ up' = up
    BY DEF ToSet
  <2>2. NoGhostLink => NoGhostLink'
    BY <2>1 DEF NoGhostLink
  <2> QED
    BY <2>2 DEF KnowsNothingElse
<1> QED
  BY <1>1, <1>2, <1>3, <1>4, <1>5, <1>6, <1>7

\* Steps that have nothing to do with the links.
LEMMA SameKnows ==
  ASSUME KnowInv,
         UNCHANGED <<links, hostPairs, portTo, notices, up, live, netUp, todo, failAt>>,
         DOMAIN fuse' = DOMAIN fuse, sleep' = sleep \/ (netUp => Steady)
  PROVE  KnowInv'
<1>1. /\ PortInv' /\ NetInv' /\ KnowsWhatWorks' /\ KnowsNothingElse'
      /\ (Bare => Bare') /\ (Steady => Steady')
      /\ \A w : (InOrder(w)' <=> InOrder(w)) /\ (Linked(w)' <=> Linked(w))
  BY SameNet DEF KnowInv
<1>2. ASSUME Len(todo) > 3, Place > 2 \/ (Place = 2 /\ sleep' = 0) PROVE Steady'
  <2>1. OnPlan
    BY <1>2 DEF KnowInv, InPlace
  <2>2. CASE sleep' = sleep
    BY <1>1, <1>2, <2>1, <2>2 DEF OnPlan
  <2>3. CASE netUp => Steady
    <3>1. Place \in Int /\ Place >= 1
      BY <1>2, <2>1 DEF OnPlan, LeftAfter
    <3>2. netUp
      BY <2>1, <3>1 DEF OnPlan
    <3> QED
      BY <1>1, <2>3, <3>2
  <2> QED
    BY <2>2, <2>3
<1>3. InPlace'
  BY <1>1, <1>2, StaysInPlace DEF KnowInv
<1> QED
  BY <1>1, <1>3 DEF KnowInv

\* All that is still to be heard is heard before time passes.
LEMMA TimePassesKnows == ASSUME KnowInv, TimePasses PROVE KnowInv'
<1>1. UNCHANGED <<links, hostPairs, portTo, notices, up, live, netUp, todo, failAt>>
  BY DEF TimePasses, Tick, calcVars, netVars
<1>2. DOMAIN fuse' = DOMAIN fuse
  BY DEF TimePasses
<1>3. ASSUME netUp PROVE Steady
  <2>1. live = Switches /\ \A s \in Switches : notices[s] = <<>>
    BY <1>3 DEF TimePasses, Settled
  <2>2. IsSeq(<<>>) /\ DOMAIN <<>> = {}
    BY SeqIsSeq DEF IsSeq
  <2>3. NoticesTrue
    BY <2>1, <2>2 DEF NoticesTrue
  <2> QED
    BY <2>1, <2>3 DEF Steady
<1> QED
  BY <1>1, <1>2, <1>3, SameKnows

LEMMA ConnectingKnows ==
  ASSUME KnowInv, netUp, NEW s \in Switches, SwitchFeatures(s), UNCHANGED expVars
  PROVE  KnowInv'
<1>1. /\ s \notin live /\ live' = live \union {s}
      /\ UNCHANGED <<links, hostPairs, portTo, notices, up>>
      /\ UNCHANGED <<netUp, todo, failAt, fuse, sleep>>
  BY DEF SwitchFeatures, AddSwitch, expVars, drvVars, envVars
<1>2. ~Steady /\ Bare
  BY <1>1 DEF Steady, KnowInv, NetInv
<1>3. Bare' /\ (NoticesTrue' <=> NoticesTrue) /\ \A w : InOrder(w)' <=> InOrder(w)
  BY <1>1, <1>2 DEF Bare, NoticesTrue, InOrder, IsSeq
<1>4. KnowsWhatWorks' /\ KnowsNothingElse'
  BY <1>3 DEF Bare, KnowsWhatWorks, KnowsNothingElse, NoGhostLink
<1>5. NetInv'
  BY <1>1, <1>3 DEF KnowInv, NetInv, Bare
<1>6. PortInv'
  BY <1>1 DEF KnowInv, PortInv, PortsAreWired, LinkHasPorts, PortsTo
<1>7. ~(Len(todo) > 3 /\ (Place > 2 \/ (Place = 2 /\ sleep' = 0)))
  BY <1>1, <1>2 DEF KnowInv, InPlace, OnPlan
<1>8. \A w : Linked(w)' <=> Linked(w)
  BY <1>1 DEF Linked
<1>9. InPlace'
  BY <1>1, <1>3, <1>7, <1>8, StaysInPlace DEF KnowInv
<1> QED
  BY <1>4, <1>5, <1>6, <1>9 DEF KnowInv

\* A notice that is true takes away no link that is in order, and a known link
\* that it is about goes with it.
LEMMA NoticeTakesGhosts ==
  ASSUME PortInv, NEW s \in Switches, IsSeq(notices[s]), DOMAIN notices = Switches, PortStatus(s)
  PROVE  /\ NoticesTrue => NoticesTrue'
         /\ NoticesTrue => \A w \in Wires : InOrder(w) /\ Linked(w) => Linked(w)'
         /\ NoGhostLink => NoGhostLink'
<1> DEFINE p == Head(notices[s])
           gone == {e \in portTo : e.sw = s /\ e.port = p}
<1>1. /\ notices[s] # <<>> /\ notices' = [notices EXCEPT ![s] = Tail(@)]
      /\ links' = {l \in links : \A e \in gone : l.ends # {s, e.to}} /\ up' = up
  BY DEF PortStatus
<1>2. /\ notices'[s] = Tail(notices[s]) /\ \A t \in Switches : t # s => notices'[t] = notices[t]
  BY <1>1
<1>3. /\ IsSeq(Tail(notices[s])) /\ 1 \in DOMAIN notices[s] /\ p = notices[s][1]
      /\ DOMAIN Tail(notices[s]) = 1..(Len(notices[s]) - 1)
      /\ \A i \in DOMAIN Tail(notices[s]) : /\ i + 1 \in DOMAIN notices[s]
                                            /\ Tail(notices[s])[i] = notices[s][i + 1]
  BY <1>1, TailIsSeq
<1>4. /\ \A e \in portTo : <<e.sw, e.to>> \in DOMAIN Port /\ e.port = Port[<<e.sw, e.to>>]
      /\ \A l \in links : l.ends \in Wires
  BY DEF PortInv, PortsAreWired, Link
<1> HIDE DEF p
<1>5. ASSUME NoticesTrue PROVE NoticesTrue'
  <2> SUFFICES ASSUME NEW t \in Switches
               PROVE  /\ IsSeq(notices'[t])
                      /\ \A i \in DOMAIN notices'[t] : \A u \in Switches :
                           <<t, u>> \in LinkPorts /\ Port[<<t, u>>] = notices'[t][i] => <<t, u>> \notin up
    BY <1>1 DEF NoticesTrue, IsSeq
  <2>1. /\ IsSeq(notices[t])
        /\ \A i \in DOMAIN notices[t] : \A u \in Switches :
             <<t, u>> \in LinkPorts /\ Port[<<t, u>>] = notices[t][i] => <<t, u>> \notin up
    BY <1>5 DEF NoticesTrue
  <2>2. CASE t # s
    BY <1>2, <2>1, <2>2
  <2>3. CASE t = s
    <3>1. /\ notices'[t] = Tail(notices[t]) /\ IsSeq(Tail(notices[t]))
          /\ \A i \in DOMAIN Tail(notices[t]) : /\ i + 1 \in DOMAIN notices[t]
                                                /\ Tail(notices[t])[i] = notices[t][i + 1]
      BY <1>2, <1>3, <2>3
    <3> QED
      BY <2>1, <3>1
  <2> QED
    BY <2>2, <2>3
<1>6. ASSUME NoticesTrue, NEW w \in Wires, InOrder(w), Linked(w) PROVE Linked(w)'
  <2>1. PICK l \in links : l.ends = w
    BY <1>6 DEF Linked
  <2>2. ASSUME NEW e \in gone PROVE w # {s, e.to}
    <3> SUFFICES ASSUME w = {s, e.to} PROVE FALSE
      OBVIOUS
    <3>1. e \in portTo /\ e.sw = s /\ e.port = p
      OBVIOUS
    <3>2. s # e.to
      BY TopologyAssumption
    <3>3. e.to \in Switches /\ <<s, e.to>> \in LinkPorts
      BY <3>2, WirePorts
    <3>4. Port[<<s, e.to>>] = p
      BY <1>4, <3>1
    <3>5. <<s, e.to>> \notin up
      BY <1>3, <1>6, <3>3, <3>4 DEF NoticesTrue
    <3>6. <<s, e.to>>[1] = s /\ <<s, e.to>>[2] = e.to
      OBVIOUS
    <3> QED
      BY <1>6, <3>3, <3>5, <3>6 DEF InOrder
  <2>3. l \in links'
    BY <1>1, <2>1, <2>2
  <2> QED
    BY <2>1, <2>3 DEF Linked
<1>7. ASSUME NoGhostLink, NEW l \in links', NEW x \in l.ends, NEW y \in l.ends, x # y, <<x, y>> \notin up
      PROVE  Port[<<x, y>>] \in ToSet(notices'[x])
  <2>1. l \in links /\ l.ends = {x, y} /\ x \in Switches /\ y \in Switches
    BY <1>1, <1>4, <1>7, WirePorts
  <2>2. Port[<<x, y>>] \in ToSet(notices[x])
    BY <1>7, <2>1 DEF NoGhostLink
  <2>3. CASE x # s
    BY <1>2, <2>1, <2>2, <2>3
  <2>4. CASE x = s
    <3>1. PICK i \in DOMAIN notices[s] : Port[<<x, y>>] = notices[s][i]
      BY <2>2, <2>4 DEF ToSet
    <3>2. i # 1
      <4> SUFFICES ASSUME i = 1 PROVE FALSE
        OBVIOUS
      <4>1. Port[<<s, y>>] = p
        BY <1>3, <2>4, <3>1
      <4>2. PICK e \in portTo : e.sw = s /\ e.to = y
        BY <1>7, <2>1, <2>4 DEF PortInv, LinkHasPorts, PortsTo
      <4>3. e \in gone
        BY <1>4, <4>1, <4>2
      <4> QED
        BY <1>1, <2>1, <2>4, <4>2, <4>3
    <3>3. i - 1 \in DOMAIN Tail(notices[s]) /\ (i - 1) + 1 = i
      <4>1. Len(notices[s]) \in Nat /\ i \in 1..Len(notices[s])
        BY <3>1, IsSeqLen
      <4> QED
        BY <1>3, <3>2, <4>1
    <3>4. Tail(notices[s])[i - 1] = Port[<<x, y>>]
      BY <1>3, <3>1, <3>3
    <3> QED
      BY <1>2, <2>4, <3>3, <3>4 DEF ToSet
  <2> QED
    BY <2>3, <2>4
<1>8. NoGhostLink => NoGhostLink'
  BY <1>1, <1>7 DEF NoGhostLink
<1> QED
  BY <1>5, <1>6, <1>8

LEMMA PortStatusKnows ==
  ASSUME KnowInv, NEW s \in Switches, PortStatus(s), UNCHANGED expVars
  PROVE  KnowInv'
<1>1. /\ links' \subseteq links /\ UNCHANGED <<hostPairs, up, live>>
      /\ UNCHANGED <<netUp, todo, failAt, fuse, sleep>> /\ DOMAIN notices' = Switches
  BY DEF PortStatus, expVars, drvVars, envVars, KnowInv, NetInv
<1>2. PortInv'
  BY PortStatusKeepsPortInv DEF KnowInv
<1>3. (Bare => Bare') /\ \A w : InOrder(w)' <=> InOrder(w)
  BY <1>1 DEF Bare, InOrder
<1>4. CASE ~Steady
  <2>1. ASSUME Bare PROVE KnowsWhatWorks' /\ KnowsNothingElse' /\ NetInv'
    <3>1. KnowsWhatWorks' /\ KnowsNothingElse'
      BY <1>3, <2>1 DEF Bare, KnowsWhatWorks, KnowsNothingElse, NoGhostLink
    <3>2. NetInv'
      BY <1>1, <1>3, <2>1 DEF KnowInv, NetInv, Bare
    <3> QED
      BY <3>1, <3>2
  <2>2. ASSUME ~netUp, up = {} PROVE KnowsWhatWorks' /\ KnowsNothingElse' /\ NetInv'
    <3>1. KnowsWhatWorks'
      <4>1. \A w \in ToSet(Cables) : \E e \in LinkPorts : {e[1], e[2]} = w /\ e \notin up'
        BY <1>1, <2>2, CablesAreWires, WireHasPort
      <4> QED
        BY <4>1 DEF KnowsWhatWorks
    <3>2. NetInv' /\ KnowsNothingElse'
      BY <1>1, <1>3, <2>2 DEF KnowInv, NetInv, KnowsNothingElse
    <3> QED
      BY <3>1, <3>2
  <2>3. KnowsWhatWorks' /\ KnowsNothingElse' /\ NetInv'
    BY <1>4, <2>1, <2>2 DEF KnowInv, NetInv
  <2>4. Len(todo) > 3 => Place \in Int /\ ~(Place > 2) /\ ~(Place = 2 /\ sleep' = 0)
    BY <1>1, <1>4 DEF KnowInv, InPlace, OnPlan, LeftAfter
  <2>5. Len(todo) > 3 => \A i \in 1..Len(Cables) : ~(i + 2 <= Place)
    BY <2>4
  <2>6. InPlace'
    BY <1>1, <1>3, <2>4, <2>5, StaysInPlace DEF KnowInv
  <2> QED
    BY <1>2, <2>3, <2>6 DEF KnowInv
<1>5. CASE Steady
  <2>1. /\ NoticesTrue'
        /\ \A w \in Wires : InOrder(w) /\ Linked(w) => Linked(w)'
        /\ NoGhostLink => NoGhostLink'
    BY <1>5, NoticeTakesGhosts DEF Steady, NoticesTrue, KnowInv, NetInv
  <2>2. Steady'
    BY <1>1, <1>5, <2>1 DEF Steady
  <2>3. KnowsNothingElse'
    BY <1>1, <2>1 DEF KnowInv, KnowsNothingElse
  <2>4. KnowsWhatWorks'
    BY <1>1, <2>1, CablesAreWires DEF KnowInv, KnowsWhatWorks, InOrder
  <2>5. NetInv'
    BY <1>1, <1>3, <2>2 DEF KnowInv, NetInv
  <2>6. InPlace'
    BY <1>1, <1>3, <2>1, <2>2, CablesAreWires, StaysInPlace DEF KnowInv
  <2> QED
    BY <1>2, <2>3, <2>4, <2>5, <2>6 DEF KnowInv
<1> QED
  BY <1>4, <1>5

\* A port that is deleted leaves a notice of it, as all switches are connected.
LEMMA DeletePortTells ==
  ASSUME PortInv, DOMAIN notices = Switches, up \subseteq LinkPorts, Steady,
         NEW s, NEW t, DeletePort(s, t)
  PROVE  /\ DOMAIN notices' = Switches /\ up' \subseteq up /\ Steady' /\ (NoGhostLink => NoGhostLink')
         /\ UNCHANGED <<links, hostPairs, portTo, live>>
<1> DEFINE p == Port[<<s, t>>]
<1>1. /\ up' = up \ {<<s, t>>} /\ <<s, t>> \in LinkPorts
      /\ UNCHANGED <<links, hostPairs, portTo, live>>
  BY DEF DeletePort, calcVars, ctlVars
<1>2. /\ s \in Switches /\ t \in Switches /\ {s, t} \in Wires
  BY <1>1 DEF LinkPorts
<1>3. notices' = [notices EXCEPT ![s] = Append(@, p)]
  BY <1>2 DEF Steady, DeletePort
<1>4. IsSeq(notices[s])
  BY <1>2 DEF Steady, NoticesTrue
<1>5. /\ notices'[s] = Append(notices[s], p)
      /\ \A x \in Switches : x # s => notices'[x] = notices[x]
  BY <1>2, <1>3
<1> DEFINE n == Len(notices[s])
<1>6. /\ IsSeq(notices'[s]) /\ DOMAIN notices'[s] = 1..(n + 1) /\ n \in Nat
      /\ DOMAIN notices[s] = 1..n
      /\ notices'[s][n + 1] = p
      /\ \A i \in DOMAIN notices[s] : notices'[s][i] = notices[s][i]
  BY <1>4, <1>5, AppendIsSeq, IsSeqLen
<1>60. \A i \in DOMAIN notices[s] : i \in DOMAIN notices'[s]
  BY <1>6
<1> HIDE DEF n
<1>7. \A i \in DOMAIN notices'[s] : i \in DOMAIN notices[s] \/ i = n + 1
  BY <1>6
<1>8. ASSUME NEW x \in Switches, NEW u \in Switches, <<x, u>> \in LinkPorts,
             NEW i \in DOMAIN notices'[x], Port[<<x, u>>] = notices'[x][i]
      PROVE  <<x, u>> \notin up'
  <2>1. CASE i \in DOMAIN notices[x] /\ notices'[x][i] = notices[x][i]
    BY <1>1, <1>8, <2>1 DEF Steady, NoticesTrue
  <2>2. CASE x = s /\ i = n + 1
    <3>1. /\ <<s, t>> \in DOMAIN Port /\ <<x, u>> \in DOMAIN Port
          /\ <<x, u>>[1] = x /\ <<s, t>>[1] = s
      <4>1. s # t /\ {x, u} \in Wires /\ x # u
        BY <1>2, <1>8, WireEnds DEF LinkPorts
      <4> QED
        BY <1>2, <4>1, WiringAssumption
    <3>2. Port[<<x, u>>] = Port[<<s, t>>]
      BY <1>6, <1>8, <2>2
    <3>3. <<x, u>> = <<s, t>>
      BY <2>2, <3>1, <3>2, WiringAssumption
    <3> QED
      BY <1>1, <3>3
  <2> QED
    BY <1>5, <1>6, <1>7, <1>8, <2>1, <2>2
<1>9. NoticesTrue'
  <2>1. \A x \in Switches : IsSeq(notices'[x])
    BY <1>5, <1>6 DEF Steady, NoticesTrue
  <2> QED
    BY <1>8, <2>1 DEF NoticesTrue, IsSeq
<1>10. Steady'
  BY <1>1, <1>9 DEF Steady
<1>11. ASSUME NoGhostLink, NEW l \in links, NEW x \in l.ends, NEW y \in l.ends, x # y,
              <<x, y>> \notin up', x \in Switches
       PROVE  Port[<<x, y>>] \in ToSet(notices'[x])
  <2>1. CASE <<x, y>> = <<s, t>>
    <3>1. n + 1 \in DOMAIN notices'[s] /\ notices'[s][n + 1] = Port[<<x, y>>] /\ x = s
      BY <1>6, <2>1
    <3> QED
      BY <3>1 DEF ToSet
  <2>2. CASE <<x, y>> # <<s, t>>
    <3>1. Port[<<x, y>>] \in ToSet(notices[x])
      BY <1>1, <1>11, <2>2 DEF NoGhostLink
    <3>2. PICK i \in DOMAIN notices[x] : Port[<<x, y>>] = notices[x][i]
      BY <3>1 DEF ToSet
    <3>3. i \in DOMAIN notices'[x] /\ notices'[x][i] = notices[x][i]
      BY <1>5, <1>6, <1>60, <1>11, <3>2
    <3> QED
      BY <3>2, <3>3 DEF ToSet
  <2> QED
    BY <2>1, <2>2
<1>12. \A l \in links : \A x \in l.ends : x \in Switches
  BY TopologyAssumption DEF PortInv, Link
<1>13. NoGhostLink => NoGhostLink'
  BY <1>1, <1>11, <1>12 DEF NoGhostLink
<1> QED
  BY <1>1, <1>3, <1>10, <1>13

LEMMA LinkFailsKnows ==
  ASSUME KnowInv, NEW w \in DOMAIN fuse, LinkFails(w)
  PROVE  KnowInv'
<1>1. /\ UNCHANGED <<todo, sleep, failAt, netUp>> /\ DOMAIN fuse' \subseteq DOMAIN fuse
      /\ \E s, t : DeletePort(s, t)
  BY DEF LinkFails, drvVars, Restrict
<1>2. netUp /\ ~Bare /\ Steady
  BY DEF KnowInv, NetInv, Bare
<1>3. /\ DOMAIN notices' = Switches /\ up' \subseteq up /\ Steady' /\ (NoGhostLink => NoGhostLink')
      /\ UNCHANGED <<links, hostPairs, portTo, live>>
  BY <1>1, <1>2, DeletePortTells DEF KnowInv, NetInv
<1>4. \A v : (InOrder(v)' => InOrder(v)) /\ (Linked(v)' <=> Linked(v))
  BY <1>3 DEF InOrder, Linked
<1>5. PortInv'
  BY <1>3 DEF KnowInv, PortInv, PortsAreWired, LinkHasPorts, PortsTo
<1>6. NetInv'
  BY <1>1, <1>2, <1>3 DEF KnowInv, NetInv
<1>7. KnowsWhatWorks'
  BY <1>3, <1>4 DEF KnowInv, KnowsWhatWorks, InOrder
<1>8. KnowsNothingElse'
  BY <1>1, <1>3 DEF KnowInv, KnowsNothingElse
<1>9. Len(todo) > 3 => ~(Place \in 1..(2 + Len(Cables)))
  BY <1>2 DEF KnowInv, InPlace, OnPlan
<1>10. InPlace'
  <2>1. CASE Len(todo) > 3
    BY <1>1, <1>2, <1>3, <1>4, <1>9, <2>1, StaysInPlace DEF KnowInv
  <2>2. CASE ~(Len(todo) > 3)
    <3>1. Closing /\ IsSeq(todo)
      BY <2>2, IsSeqLen DEF KnowInv, InPlace
    <3>2. Closing' /\ IsSeq(todo)'
      BY <1>1, <1>2, <3>1 DEF Closing, Closes, Has, IsSeq
    <3> QED
      BY <1>1, <2>2, <3>2 DEF InPlace
  <2> QED
    BY <2>1, <2>2
<1> QED
  BY <1>5, <1>6, <1>7, <1>8, <1>10 DEF KnowInv
-----------------------------------------------------------------------------
(* The steps of the driver. *)

\* What is known when a step is to be taken.
LEMMA TakesIs ==
  ASSUME KnowInv, NEW op, Takes(op)
  PROVE  /\ todo # <<>> /\ todo' = Tail(todo) /\ sleep = 0 /\ failAt' = failAt
         /\ Head(todo).do = op
         /\ Len(todo) > 3 \/ Len(todo) <= 3
         /\ Len(todo) <= 3 => /\ op \in {"stop", "init", "sleep"}
                              /\ op # "stop" => ~netUp
                              /\ op = "sleep" => Bare
         /\ Len(todo) > 3 => /\ OnPlan /\ Place \in Nat
                             /\ op \in {"start", "link"} \/ IsLater(Head(todo))
                             /\ op = "start" <=> Place = 0
                             /\ Place = 1 => op = "sleep" /\ Arg = Boot
                             /\ op = "link" => /\ Place >= 2 /\ Place < 2 + Len(Cables)
                                               /\ Arg = Cables[Place - 1]
                             /\ Place >= 2 /\ Place < 2 + Len(Cables) => op = "link"
<1>1. /\ todo # <<>> /\ todo' = Tail(todo) /\ sleep = 0 /\ failAt' = failAt /\ Head(todo).do = op
  BY DEF Takes
<1>2. IsSeq(todo) /\ Len(todo) \in Nat
  BY IsSeqLen DEF KnowInv, InPlace
<1>3. Len(todo) > 3 \/ Len(todo) <= 3
  BY <1>2
<1>4. ASSUME Len(todo) <= 3
      PROVE  op \in {"stop", "init", "sleep"} /\ (op # "stop" => ~netUp) /\ (op = "sleep" => Bare)
  <2>1. Closing
    BY <1>4 DEF KnowInv, InPlace
  <2>2. /\ Head(todo).do \in {"stop", "init", "sleep"}
        /\ Head(todo).do # "stop" => ~Has(todo, "stop")
        /\ Head(todo).do = "sleep" => ~Has(todo, "init")
    BY <1>1, <1>2, <2>1, ClosesGoesOn DEF Closing
  <2> QED
    BY <1>1, <2>1, <2>2 DEF Closing
<1>5. ASSUME Len(todo) > 3
      PROVE  /\ OnPlan /\ Place \in Nat
             /\ op \in {"start", "link"} \/ IsLater(Head(todo))
             /\ op = "start" <=> Place = 0
             /\ Place = 1 => op = "sleep" /\ Arg = Boot
             /\ op = "link" => /\ Place >= 2 /\ Place < 2 + Len(Cables)
                               /\ Arg = Cables[Place - 1]
             /\ Place >= 2 /\ Place < 2 + Len(Cables) => op = "link"
  <2>1. OnPlan
    BY <1>5 DEF KnowInv, InPlace
  <2>2. LeftAfter(todo, Place) /\ Place \in Nat
    BY <2>1 DEF OnPlan, LeftAfter
  <2>3. /\ Head(todo).do \in {"start", "link"} \/ IsLater(Head(todo))
        /\ Head(todo).do = "start" => Place = 0
        /\ Place = 0 => Head(todo).do = "start"
        /\ Place = 1 => Head(todo).do = "sleep" /\ Head(todo).arg = Boot
        /\ Head(todo).do = "link" => /\ Place >= 2 /\ Place < 2 + Len(Cables)
                                     /\ Head(todo).arg = Cables[Place - 1]
        /\ Place >= 2 /\ Place < 2 + Len(Cables) => Head(todo).do = "link"
    BY <1>5, <2>2, NextOnPlan
  <2> QED
    BY <1>1, <2>1, <2>2, <2>3 DEF Arg
<1> QED
  BY <1>1, <1>3, <1>4, <1>5

\* After the links: nothing is registered or heard of that concerns them.
LEMMA LaterKnows ==
  ASSUME KnowInv, NEW op \in Later \ {"sleep"}, Takes(op), PortInv',
         UNCHANGED <<portTo, notices, up, live, netUp>>,
         \A w : Linked(w)' <=> Linked(w)
  PROVE  KnowInv'
<1>1. /\ todo # <<>> /\ todo' = Tail(todo) /\ sleep = 0 /\ failAt' = failAt /\ Len(todo) > 3
      /\ OnPlan /\ Place \in Nat /\ Place >= 2 + Len(Cables) /\ Len(Cables) \in Nat
  <2>1. op \notin {"stop", "init", "sleep", "start", "link"}
    BY DEF Later
  <2>2. Len(Cables) \in Nat
    BY ScheduleAssumption
  <2>3. Len(todo) > 3 /\ todo # <<>> /\ todo' = Tail(todo) /\ sleep = 0 /\ failAt' = failAt
    BY <2>1, TakesIs
  <2>4. /\ OnPlan /\ Place \in Nat /\ Place # 0 /\ Place # 1
        /\ ~(Place >= 2 /\ Place < 2 + Len(Cables))
    BY <2>1, <2>3, TakesIs
  <2> QED
    BY <2>2, <2>3, <2>4
<1>2. Steady /\ netUp
  BY <1>1 DEF OnPlan
<1>3. (\A w : InOrder(w)' <=> InOrder(w)) /\ Steady'
  BY <1>2 DEF InOrder, Steady, NoticesTrue, IsSeq
<1>4. \A i \in 1..Len(Cables) : InOrder(Cables[i]) => Linked(Cables[i])
  <2>1. \A i \in 1..Len(Cables) : i + 2 <= Place
    BY <1>1
  <2> QED
    BY <1>1, <2>1 DEF OnPlan
<1>5. InPlace'
  <2>1. ~(Place + 1 <= 2) /\ ~(Place + 1 <= 2 + Len(Cables)) /\ ~(Place + 1 < 2 + Len(Cables))
    BY <1>1
  <2>2. netUp'
    BY <1>2
  <2> QED
    BY <1>1, <1>3, <1>4, <2>1, <2>2, GoesOnPlan DEF KnowInv
<1>6. KnowsWhatWorks'
  BY <1>3, <1>4, CablesAreWires DEF KnowsWhatWorks, InOrder
<1>7. KnowsNothingElse'
  <2>1. \A l \in links' : \E m \in links : m.ends = l.ends
    BY DEF Linked
  <2>2. NoGhostLink
    BY <1>2 DEF KnowInv, KnowsNothingElse
  <2>3. \A s : ToSet(notices[s])' = ToSet(notices[s])
    BY DEF ToSet
  <2>4. NoGhostLink'
    BY <2>1, <2>2, <2>3 DEF NoGhostLink
  <2> QED
    BY <2>4 DEF KnowsNothingElse
<1>8. NetInv'
  BY <1>2, <1>3 DEF KnowInv, NetInv
<1> QED
  BY <1>5, <1>6, <1>7, <1>8 DEF KnowInv

LEMMA RequestsKnow ==
  ASSUME KnowInv, Request, ~Takes("link"), ~Takes("init")
  PROVE  KnowInv'
<1>1. UNCHANGED <<portTo, notices, up, live, netUp>>
  BY DEF Request, PostHostPair, PutLink, PutHostClient, ctlVars, netVars, envVars
<1>2. "pair" \in Later \ {"sleep"} /\ "fail" \in Later \ {"sleep"} /\ "client" \in Later \ {"sleep"}
  BY DEF Later
<1>3. ASSUME Takes("pair"), links' = links PROVE KnowInv'
  BY <1>1, <1>2, <1>3, LaterKnows DEF KnowInv, PortInv, PortsAreWired, LinkHasPorts, PortsTo, Linked
<1>4. ASSUME Takes("client"), links' = links PROVE KnowInv'
  BY <1>1, <1>2, <1>4, LaterKnows DEF KnowInv, PortInv, PortsAreWired, LinkHasPorts, PortsTo, Linked
<1>5. ASSUME Takes("fail"), PutLink(Arg, failAt[Arg]) PROVE KnowInv'
  <2>1. /\ links' = {IF l.ends = Arg THEN [l EXCEPT !.failAt = failAt[Arg]] ELSE l : l \in links}
    BY <1>5 DEF PutLink, RegisterLinkFailTime
  <2>2. Arg \in Wires /\ failAt[Arg] \in FailTimes
    <3>1. Len(todo) > 3
      BY <1>5, TakesIs
    <3>2. OnPlan /\ (Head(todo).do \in {"start", "link"} \/ IsLater(Head(todo))) /\ Head(todo).do = "fail"
      BY <1>5, <3>1, TakesIs
    <3>3. Arg \in ToSet(Doomed)
      BY <3>2 DEF IsLater, Arg
    <3>4. ToSet(Doomed) \subseteq Wires
      BY ScheduleAssumption DEF ToSet
    <3>5. failAt \in [ToSet(Doomed) -> FailTimes]
      BY <3>2 DEF OnPlan
    <3> QED
      BY <3>3, <3>4, <3>5
  <2>3. PortInv'
    <3>1. Registration
      BY <1>5, <2>2 DEF Registration
    <3> QED
      BY <3>1, PortInvStep DEF Next, RunNext, KnowInv
  <2>4. \A w : Linked(w)' <=> Linked(w)
    <3>1. \A l \in links : l \in Link
      BY DEF KnowInv, PortInv
    <3>2. \A l \in links : [l EXCEPT !.failAt = failAt[Arg]].ends = l.ends
      BY <3>1 DEF Link
    <3>3. \A m \in links' : \E l \in links : m.ends = l.ends
      BY <2>1, <3>2
    <3>4. \A l \in links : \E m \in links' : m.ends = l.ends
      BY <2>1, <3>2
    <3> QED
      BY <3>3, <3>4 DEF Linked
  <2> QED
    BY <1>1, <1>2, <1>5, <2>3, <2>4, LaterKnows
<1> QED
  BY <1>3, <1>4, <1>5 DEF Request, PostHostPair, AddHostPair, PutHostClient, UpdateHostClient

LEMMA PostLinkKnows ==
  ASSUME KnowInv, Takes("link"), NEW bw \in Bandwidths, PostLink(Arg, bw),
         UNCHANGED <<sleep, envVars>>
  PROVE  KnowInv'
<1> DEFINE c == Len(Cables)
           n == Place
<1>1. /\ Len(todo) > 3 /\ OnPlan /\ n \in Nat /\ n >= 2 /\ n < 2 + c /\ Arg = Cables[n - 1]
      /\ todo' = Tail(todo) /\ failAt' = failAt /\ sleep = 0 /\ c \in Nat
  BY TakesIs, ScheduleAssumption
<1>2. /\ links' = IF Linked(Arg) THEN links
                  ELSE links \union {[ends |-> Arg, bw |-> bw, failAt |-> Unknown]}
      /\ UNCHANGED <<hostPairs, notices, up, live, netUp, fuse>>
  BY DEF PostLink, AddLink, netVars, envVars
<1>3. netUp /\ Steady /\ up = LinkPorts /\ DOMAIN fuse = {} /\ hostPairs = <<>>
  BY <1>1 DEF OnPlan
<1>4. n - 1 \in 1..c /\ Arg \in Wires
  BY <1>1, CablesAreWires
<1>5. PortInv'
  BY <1>4, PostLinkKeepsPortInv DEF KnowInv
<1>6. (\A w : InOrder(w)' <=> InOrder(w)) /\ Steady'
  BY <1>2, <1>3 DEF InOrder, Steady, NoticesTrue, IsSeq
<1>7. \A w : w = Arg \/ Linked(w) => Linked(w)'
  <2> DEFINE l == [ends |-> Arg, bw |-> bw, failAt |-> Unknown]
  <2>1. l.ends = Arg
    OBVIOUS
  <2> HIDE DEF l
  <2>2. links' = IF Linked(Arg) THEN links ELSE links \union {l}
    BY <1>2 DEF l
  <2> QED
    BY <2>1, <2>2 DEF Linked
<1>8. InPlace'
  <2>1. \A i \in 1..c : i + 2 <= n + 1 => i + 2 <= n \/ i = n - 1
    BY <1>1
  <2>2. \A i \in 1..c : i + 2 <= n + 1 /\ InOrder(Cables[i])' => Linked(Cables[i])'
    BY <1>1, <1>6, <1>7, <2>1 DEF OnPlan
  <2>3. ~(n + 1 <= 2)
    BY <1>1
  <2> QED
    BY <1>1, <1>2, <1>3, <1>6, <2>2, <2>3, GoesOnPlan DEF KnowInv
<1>9. KnowsWhatWorks'
  BY <1>2, <1>3 DEF KnowsWhatWorks
<1>10. NetInv'
  BY <1>2, <1>3, <1>6 DEF KnowInv, NetInv
<1>11. KnowsNothingElse'
  <2>1. \A l \in links' : l.ends \in Wires
    BY <1>5 DEF PortInv, Link
  <2>2. \A l \in links' : \A x, y \in l.ends : x # y => <<x, y>> \in up'
    BY <1>2, <1>3, <2>1, WirePorts
  <2> QED
    BY <2>2 DEF KnowsNothingElse, NoGhostLink
<1> QED
  BY <1>5, <1>8, <1>9, <1>10, <1>11 DEF KnowInv

LEMMA SleepKnows == ASSUME KnowInv, Sleep PROVE KnowInv'
<1> DEFINE c == Len(Cables)
           n == Place
<1>1. /\ UNCHANGED <<links, hostPairs, portTo, notices, up, live, netUp, fuse>>
      /\ Takes("sleep") /\ sleep' = Arg /\ c \in Nat
  BY ScheduleAssumption DEF Sleep, vars, calcVars, ctlVars, netVars, envVars
<1>2. /\ PortInv' /\ NetInv' /\ KnowsWhatWorks' /\ KnowsNothingElse'
      /\ (Bare => Bare') /\ (Steady => Steady')
      /\ \A w : (InOrder(w)' <=> InOrder(w)) /\ (Linked(w)' <=> Linked(w))
  BY <1>1, SameNet DEF KnowInv
<1>3. /\ todo # <<>> /\ todo' = Tail(todo) /\ sleep = 0 /\ failAt' = failAt
      /\ Head(todo).do = "sleep" /\ (Len(todo) > 3 \/ Len(todo) <= 3)
  BY <1>1, TakesIs
<1>4. CASE Len(todo) > 3
  <2>1. /\ OnPlan /\ n \in Nat /\ n # 0 /\ ~(n >= 2 /\ n < 2 + c) /\ (n = 1 => Arg = Boot)
    BY <1>1, <1>4, TakesIs
  <2>2. netUp
    BY <2>1 DEF OnPlan
  <2>3. n + 1 <= 2 => Bare'
    BY <1>2, <2>1 DEF OnPlan
  <2>4. n + 1 <= 2 + c => up' = LinkPorts /\ DOMAIN fuse' = {}
    BY <1>1, <2>1 DEF OnPlan
  <2>5. n + 1 > 2 \/ (n + 1 = 2 /\ sleep' = 0) => Steady'
    <3>1. Boot # 0
      BY ScheduleAssumption
    <3>2. ~(n + 1 = 2 /\ sleep' = 0)
      BY <1>1, <2>1, <3>1
    <3>3. n + 1 > 2 => n > 2 \/ n = 2
      BY <2>1
    <3> QED
      BY <1>2, <1>3, <2>1, <3>2, <3>3 DEF OnPlan
  <2>6. n + 1 < 2 + c => hostPairs' = <<>>
    BY <1>1, <2>1 DEF OnPlan
  <2>7. \A i \in 1..c : i + 2 <= n + 1 => i + 2 <= n
    BY <1>1, <2>1
  <2>8. \A i \in 1..c : i + 2 <= n + 1 /\ InOrder(Cables[i])' => Linked(Cables[i])'
    BY <1>2, <2>1, <2>7 DEF OnPlan
  <2>9. InPlace'
    BY <1>1, <1>3, <1>4, <2>2, <2>3, <2>4, <2>5, <2>6, <2>8, GoesOnPlan DEF KnowInv
  <2> QED
    BY <1>2, <2>9 DEF KnowInv
<1>5. CASE Len(todo) <= 3
  <2>1. InPlace'
    BY <1>1, <1>2, <1>3, <1>5, GoesOnClosing DEF KnowInv
  <2> QED
    BY <1>2, <2>1 DEF KnowInv
<1> QED
  BY <1>3, <1>4, <1>5

LEMMA StartKnows == ASSUME KnowInv, Start PROVE KnowInv'
<1>1. /\ UNCHANGED <<links, hostPairs, portTo, notices, live, fuse, sleep>>
      /\ Takes("start") /\ netUp' = TRUE /\ up' = LinkPorts
  BY DEF Start, calcVars, ctlVars
<1>2. /\ Len(todo) > 3 /\ OnPlan /\ Place = 0 /\ todo' = Tail(todo) /\ failAt' = failAt
  <2>1. Len(todo) > 3
    BY <1>1, TakesIs
  <2> QED
    BY <1>1, <2>1, TakesIs
<1>3. Bare /\ Bare' /\ DOMAIN fuse' = {} /\ hostPairs' = <<>>
  BY <1>1, <1>2 DEF OnPlan, Bare
<1>4. KnowsWhatWorks' /\ KnowsNothingElse'
  BY <1>3 DEF Bare, KnowsWhatWorks, KnowsNothingElse, NoGhostLink
<1>5. PortInv'
  BY <1>1 DEF KnowInv, PortInv, PortsAreWired, LinkHasPorts, PortsTo
<1>6. NetInv'
  BY <1>1, <1>3 DEF KnowInv, NetInv
<1>7. InPlace'
  <2>1. ~(0 + 1 > 2 \/ (0 + 1 = 2 /\ sleep' = 0)) /\ \A i \in 1..Len(Cables) : ~(i + 2 <= 0 + 1)
    OBVIOUS
  <2> QED
    BY <1>1, <1>2, <1>3, <2>1, GoesOnPlan DEF KnowInv
<1> QED
  BY <1>4, <1>5, <1>6, <1>7 DEF KnowInv

LEMMA StopKnows == ASSUME KnowInv, Stop PROVE KnowInv'
<1>1. /\ UNCHANGED <<links, hostPairs, portTo>> /\ Takes("stop")
      /\ netUp' = FALSE /\ up' = {} /\ live' = {} /\ fuse' = <<>> /\ DOMAIN notices' = Switches
  BY DEF Stop, calcVars, ctlVars
<1>2. /\ Len(todo) <= 3 /\ todo # <<>> /\ todo' = Tail(todo) /\ Head(todo).do = "stop"
  <2>1. ~(Len(todo) > 3)
    BY <1>1, TakesIs DEF IsLater, Later
  <2> QED
    BY <1>1, <2>1, TakesIs
<1>3. DOMAIN fuse' = {}
  BY <1>1
<1>4. PortInv'
  BY <1>1 DEF KnowInv, PortInv, PortsAreWired, LinkHasPorts, PortsTo
<1>5. NetInv' /\ KnowsNothingElse'
  BY <1>1, <1>3 DEF NetInv, KnowsNothingElse
<1>6. KnowsWhatWorks'
  <2>1. \A w \in ToSet(Cables) : \E e \in LinkPorts : {e[1], e[2]} = w /\ e \notin up'
    BY <1>1, CablesAreWires, WireHasPort
  <2> QED
    BY <2>1 DEF KnowsWhatWorks
<1>7. InPlace'
  BY <1>1, <1>2, GoesOnClosing DEF KnowInv
<1> QED
  BY <1>4, <1>5, <1>6, <1>7 DEF KnowInv

LEMMA PutInitKnows ==
  ASSUME KnowInv, Takes("init"), PutInit, UNCHANGED <<sleep, envVars>>
  PROVE  KnowInv'
<1>1. /\ links' = {} /\ hostPairs' = <<>>
      /\ UNCHANGED <<up, live, notices, netUp, fuse>>
  BY DEF PutInit, CalcReset, netVars, envVars
<1>2. /\ Len(todo) <= 3 /\ todo # <<>> /\ todo' = Tail(todo) /\ Head(todo).do = "init" /\ ~netUp
  <2>1. ~(Len(todo) > 3)
    BY TakesIs DEF IsLater, Later
  <2> QED
    BY <2>1, TakesIs
<1>3. Bare'
  BY <1>1, <1>2 DEF Bare, KnowInv, NetInv
<1>4. KnowsWhatWorks' /\ KnowsNothingElse'
  BY <1>3 DEF Bare, KnowsWhatWorks, KnowsNothingElse, NoGhostLink
<1>5. PortInv'
  BY PortInvStep DEF Next, KnowInv
<1>6. NetInv'
  BY <1>1, <1>2, <1>3 DEF KnowInv, NetInv, Bare
<1>7. InPlace'
  BY <1>1, <1>2, <1>3, GoesOnClosing DEF KnowInv
<1> QED
  BY <1>4, <1>5, <1>6, <1>7 DEF KnowInv

LEMMA BeginKnows == ASSUME KnowInv, Begin PROVE KnowInv'
<1>1. /\ UNCHANGED <<links, hostPairs, portTo, notices, up, live, netUp, fuse, sleep>>
      /\ todo = <<>> /\ todo' = Program /\ failAt' \in [ToSet(Doomed) -> RandFailTimes]
  BY DEF Begin, Program, vars, calcVars, ctlVars, netVars, envVars
<1>2. ~netUp /\ Bare
  <2>1. Len(todo) <= 3 /\ ~Has(todo, "stop") /\ ~Has(todo, "init")
    BY <1>1 DEF Has
  <2> QED
    BY <2>1 DEF KnowInv, InPlace, Closing
<1>3. /\ PortInv' /\ NetInv' /\ KnowsWhatWorks' /\ KnowsNothingElse' /\ Bare'
  BY <1>1, <1>2, SameNet DEF KnowInv
<1>4. IsSeq(Program) /\ Len(Program) \in Nat /\ Len(Program) > 3
  <2>1. Len(Run) \in Nat /\ Len(Program) = Len(Run) + 3 /\ IsSeq(Program)
    BY ProgramIs
  <2>2. Len(Run) >= 2 + Len(Cables) /\ Len(Cables) \in Nat
    BY RunLinksFirst, ScheduleAssumption DEF LinksFirst
  <2> QED
    BY <2>1, <2>2
<1>5. IsSeq(todo)' /\ Len(todo)' > 3 /\ ~(Len(todo)' <= 3) /\ Place' = 0
  <2>1. Place' = Len(Program) - Len(todo')
    BY DEF Place
  <2> QED
    BY <1>1, <1>4, <2>1 DEF IsSeq
<1>6. LeftAfter(todo, Place)'
  <2>1. \A i \in DOMAIN Program : i \in Nat /\ 0 + i = i
    BY <1>4, IsSeqLen
  <2>2. LeftAfter(Program, 0)
    BY <1>4, <2>1 DEF LeftAfter
  <2>3. LeftAfter(todo', Place')
    BY <1>1, <1>5, <2>2
  <2> QED
    BY <2>3
<1>7. failAt' \in [ToSet(Doomed) -> FailTimes]
  BY <1>1 DEF RandFailTimes
<1>8. /\ ~(0 >= 1) /\ ~(0 \in 1..(2 + Len(Cables))) /\ ~(0 > 2 \/ (0 = 2 /\ sleep' = 0))
      /\ \A i \in 1..Len(Cables) : ~(i + 2 <= 0)
  OBVIOUS
<1>9. hostPairs' = <<>>
  BY <1>1, <1>2 DEF Bare
<1>10. OnPlan'
  BY <1>1, <1>2, <1>3, <1>5, <1>6, <1>7, <1>8, <1>9 DEF OnPlan
<1> QED
  BY <1>3, <1>5, <1>10 DEF KnowInv, InPlace

LEMMA InterruptKnows == ASSUME KnowInv, Interrupt PROVE KnowInv'
<1>1. /\ UNCHANGED <<links, hostPairs, portTo, notices, up, live, netUp, fuse>>
      /\ todo' = (IF todo = <<>> THEN <<>> ELSE Cleanup)
  BY DEF Interrupt, vars, calcVars, ctlVars, netVars, envVars
<1>2. /\ PortInv' /\ NetInv' /\ KnowsWhatWorks' /\ KnowsNothingElse' /\ (Bare => Bare')
  BY <1>1, SameNet DEF KnowInv
<1>3. CASE todo = <<>>
  <2>1. todo' = todo
    BY <1>1, <1>3
  <2>2. Len(todo) = 0 /\ ~(Len(todo) > 3) /\ Len(todo) <= 3
    BY <1>3
  <2>3. Closing /\ IsSeq(todo)
    BY <2>2 DEF KnowInv, InPlace
  <2>4. Closing' /\ IsSeq(todo)'
    BY <1>1, <1>2, <2>1, <2>3 DEF Closing, Closes, Has, IsSeq
  <2>5. InPlace'
    BY <2>1, <2>2, <2>4 DEF InPlace
  <2> QED
    BY <1>2, <2>5 DEF KnowInv
<1>4. CASE todo # <<>>
  <2>1. todo' = Cleanup /\ IsSeq(Cleanup) /\ Len(Cleanup) = 2
    BY <1>1, <1>4, CleanupIs
  <2>2. Closes(Cleanup) /\ Has(Cleanup, "stop") /\ Has(Cleanup, "init")
    BY CleanupCloses
  <2>3. Closing'
    BY <2>1, <2>2 DEF Closing, Closes, Has
  <2>4. InPlace'
    BY <2>1, <2>3 DEF InPlace, IsSeq
  <2> QED
    BY <1>2, <2>4 DEF KnowInv
<1> QED
  BY <1>3, <1>4

LEMMA KnowInvStep == KnowInv /\ [ExpNext]_allVars => KnowInv'
<1> SUFFICES ASSUME KnowInv, [ExpNext]_allVars PROVE KnowInv'
  OBVIOUS
<1> USE DEF calcVars, ctlVars, netVars, drvVars, envVars, expVars
<1>1. CASE Request
  <2>1. CASE Takes("link")
    <3>1. \E bw \in Bandwidths : PostLink(Arg, bw)
      <4>1. ~Takes("pair") /\ ~Takes("fail") /\ ~Takes("client") /\ ~Takes("init")
        BY <2>1 DEF Takes
      <4> QED
        BY <1>1, <4>1 DEF Request
    <3> QED
      BY <1>1, <2>1, <3>1, PostLinkKnows DEF Request
  <2>2. CASE Takes("init")
    <3>1. PutInit
      <4>1. ~Takes("pair") /\ ~Takes("fail") /\ ~Takes("client") /\ ~Takes("link")
        BY <2>2 DEF Takes
      <4> QED
        BY <1>1, <4>1 DEF Request
    <3> QED
      BY <1>1, <2>2, <3>1, PutInitKnows DEF Request
  <2> QED
    BY <1>1, <2>1, <2>2, RequestsKnow
<1>2. CASE Disaster
  <2>1. "disaster" \in Later \ {"sleep"}
    BY DEF Later
  <2>2. /\ Takes("disaster") /\ UNCHANGED <<links, portTo, notices, up, live, netUp>>
    BY <1>2 DEF Disaster, PostDisaster
  <2> QED
    BY <2>1, <2>2, LaterKnows DEF KnowInv, PortInv, PortsAreWired, LinkHasPorts, PortsTo, Linked
<1>3. CASE Schedule
  <2>1. "schedule" \in Later \ {"sleep"}
    BY DEF Later
  <2>2. /\ Takes("schedule") /\ UNCHANGED <<links, portTo, notices, up, live, netUp>>
    BY <1>3 DEF Schedule, vars
  <2> QED
    BY <2>1, <2>2, LaterKnows DEF KnowInv, PortInv, PortsAreWired, LinkHasPorts, PortsTo, Linked
<1>4. CASE TimersFire
  <2>1. /\ UNCHANGED <<links, hostPairs, portTo, notices, up, live, netUp, todo, failAt>>
        /\ UNCHANGED <<fuse, sleep>>
    BY <1>4 DEF TimersFire, Firing, TimerFires
  <2> QED
    BY <2>1, SameKnows
<1>5. CASE SystemStep
  <2>1. UNCHANGED expVars /\ UNCHANGED <<netUp, todo, failAt, fuse, sleep>>
    BY <1>5 DEF SystemStep
  <2>2. CASE TaskStep
    <3>1. UNCHANGED <<links, hostPairs, portTo, notices, up, live>>
      BY <2>2 DEF TaskStep, TakeStep, Wait, Raise, FinishUpdate, FinishHosts
    <3> QED
      BY <2>1, <3>1, SameKnows
  <2>3. CASE Applying
    <3>1. UNCHANGED <<links, hostPairs, portTo, notices, up, live>>
      BY <2>3 DEF Applying, Apply
    <3> QED
      BY <2>1, <3>1, SameKnows
  <2>4. CASE Noticing
    BY <2>1, <2>4, PortStatusKnows DEF Noticing
  <2>5. CASE netUp /\ Connecting
    BY <2>1, <2>5, ConnectingKnows DEF Connecting
  <2> QED
    BY <1>5, <2>2, <2>3, <2>4, <2>5 DEF SystemStep
<1>6. CASE UNCHANGED allVars
  <2>1. /\ UNCHANGED <<links, hostPairs, portTo, notices, up, live, netUp, todo, failAt>>
        /\ UNCHANGED <<fuse, sleep>>
    BY <1>6 DEF allVars, vars
  <2> QED
    BY <2>1, SameKnows
<1> QED
  BY <1>1, <1>2, <1>3, <1>4, <1>5, <1>6, BeginKnows, InterruptKnows, SleepKnows, StartKnows,
     StopKnows, LinkFailsKnows, TimePassesKnows DEF ExpNext

LEMMA KnowInvInit == ExpInit => KnowInv
<1> SUFFICES ASSUME ExpInit PROVE KnowInv
  OBVIOUS
<1>1. /\ todo = <<>> /\ ~netUp /\ fuse = <<>> /\ links = {} /\ hostPairs = <<>> /\ live = {}
      /\ up = LinkPorts /\ notices = [s \in Switches |-> <<>>]
  BY DEF ExpInit, Init, CalcInit
<1>2. IsSeq(todo) /\ DOMAIN todo = {} /\ Len(todo) = 0 /\ DOMAIN fuse = {}
  BY <1>1, SeqIsSeq DEF IsSeq
<1>3. Bare
  BY <1>1, <1>2 DEF Bare
<1>4. KnowsWhatWorks /\ KnowsNothingElse
  BY <1>3, BareKnows
<1>5. PortInv
  BY PortInvInit DEF ExpInit
<1>6. NetInv
  BY <1>1, <1>2, <1>3 DEF NetInv
<1>7. Closing
  BY <1>1, <1>2, <1>3 DEF Closing, Closes
<1>8. InPlace
  BY <1>2, <1>7 DEF InPlace
<1> QED
  BY <1>4, <1>5, <1>6, <1>8 DEF KnowInv

\* From the registration of the first pair of hosts until PUT /init the
\* controller knows every link that works: the driver registers the links after
\* the pause that lets the controller hear the end of an earlier network (run,
\* register_links, port_status_handler).
THEOREM WorkingLinksAreKnown == ExpSpec => []KnowsWhatWorks
<1>1. KnowInv => KnowsWhatWorks
  BY DEF KnowInv
<1> QED
  BY <1>1, KnowInvInit, KnowInvStep, PTL DEF ExpSpec

\* While a network is started, a known link has both its ports or a notice that
\* one is gone is on its way, however many networks there were before (run,
\* init, port_status_handler).
THEOREM KnownLinksAreThere == ExpSpec => []KnowsNothingElse
<1>1. KnowInv => KnowsNothingElse
  BY DEF KnowInv
<1> QED
  BY <1>1, KnowInvInit, KnowInvStep, PTL DEF ExpSpec
-----------------------------------------------------------------------------
(* The order of the steps of the program. *)

\* In q a step of A is taken before each that does x.
HasStep(q, A)     == \E i \in DOMAIN q : q[i] \in A
Precedes(q, A, x) == \A k \in DOMAIN q : q[k].do = x => \E i \in DOMAIN q : i < k /\ q[i] \in A
Never(q, x)       == \A i \in DOMAIN q : q[i].do # x

\* Two programs that never do x, one after the other.
LEMMA NeverJoin ==
  ASSUME NEW q, NEW r, NEW x, IsSeq(q), IsSeq(r), Never(q, x), Never(r, x)
  PROVE  IsSeq(q \o r) /\ Never(q \o r, x)
<1> DEFINE p == q \o r
<1>1. /\ IsSeq(p) /\ DOMAIN q = 1..Len(q) /\ Len(q) \in Nat
      /\ \A i \in DOMAIN q : i \in DOMAIN p /\ p[i] = q[i]
      /\ \A i \in DOMAIN r : Len(q) + i \in DOMAIN p /\ p[Len(q) + i] = r[i]
      /\ \A i \in DOMAIN p : i \in DOMAIN q \/ \E j \in DOMAIN r : i = Len(q) + j /\ p[i] = r[j]
  BY JoinHas, Zenon
<1> HIDE DEF p
<1>2. Never(p, x)
  BY <1>1 DEF Never
<1> QED
  BY <1>1, <1>2 DEF p

\* A program that has reached a step of A, and what comes behind it.
LEMMA PrecedesFirst ==
  ASSUME NEW q, NEW r, NEW A, NEW x, IsSeq(q), IsSeq(r), Never(q, x), Never(r, x), HasStep(r, A)
  PROVE  IsSeq(q \o r) /\ HasStep(q \o r, A) /\ Precedes(q \o r, A, x)
<1> DEFINE p == q \o r
<1>1. /\ IsSeq(p) /\ DOMAIN q = 1..Len(q) /\ Len(q) \in Nat
      /\ \A i \in DOMAIN q : i \in DOMAIN p /\ p[i] = q[i]
      /\ \A i \in DOMAIN r : Len(q) + i \in DOMAIN p /\ p[Len(q) + i] = r[i]
      /\ \A i \in DOMAIN p : i \in DOMAIN q \/ \E j \in DOMAIN r : i = Len(q) + j /\ p[i] = r[j]
  BY JoinHas, Zenon
<1>2. Never(p, x)
  BY NeverJoin
<1> HIDE DEF p
<1>3. PICK i \in DOMAIN r : r[i] \in A
  BY DEF HasStep
<1>4. HasStep(p, A)
  BY <1>1, <1>3 DEF HasStep
<1> QED
  BY <1>1, <1>2, <1>4 DEF p, Precedes, Never

LEMMA PrecedesMore ==
  ASSUME NEW q, NEW r, NEW A, NEW x, IsSeq(q), IsSeq(r), HasStep(q, A), Precedes(q, A, x)
  PROVE  IsSeq(q \o r) /\ HasStep(q \o r, A) /\ Precedes(q \o r, A, x)
<1> DEFINE p == q \o r
<1>1. /\ IsSeq(p) /\ Len(q) \in Nat /\ DOMAIN q = 1..Len(q)
      /\ \A i \in DOMAIN q : i \in DOMAIN p /\ p[i] = q[i]
      /\ \A i \in DOMAIN p : i \in DOMAIN q \/ \E j \in DOMAIN r : i = Len(q) + j /\ p[i] = r[j]
  BY JoinHas, Zenon
<1>2. DOMAIN r = 1..Len(r) /\ Len(r) \in Nat
  BY IsSeqLen
<1> HIDE DEF p
<1>3. PICK i \in DOMAIN q : q[i] \in A
  BY DEF HasStep
<1>4. HasStep(p, A)
  BY <1>1, <1>3 DEF HasStep
<1>5. ASSUME NEW k \in DOMAIN p, p[k].do = x PROVE \E j \in DOMAIN p : j < k /\ p[j] \in A
  <2>1. CASE k \in DOMAIN q
    <3>1. PICK j \in DOMAIN q : j < k /\ q[j] \in A
      BY <1>1, <1>5, <2>1 DEF Precedes
    <3> QED
      BY <1>1, <3>1
  <2>2. CASE k \notin DOMAIN q
    <3>1. PICK j \in DOMAIN r : k = Len(q) + j
      BY <1>1, <2>2
    <3>2. i < k
      BY <1>1, <1>2, <1>3, <3>1
    <3> QED
      BY <1>1, <1>3, <3>2
  <2> QED
    BY <2>1, <2>2
<1>6. Precedes(p, A, x)
  BY <1>5 DEF Precedes
<1> QED
  BY <1>1, <1>4, <1>6 DEF p

\* What is left of it after a step.
LEMMA PrecedesGoesOn ==
  ASSUME NEW q, NEW A, NEW x, IsSeq(q), q # <<>>, Precedes(q, A, x)
  PROVE  Head(q).do # x /\ (Head(q) \notin A => Precedes(Tail(q), A, x))
<1>1. /\ 1 \in DOMAIN q /\ Head(q) = q[1] /\ DOMAIN q = 1..Len(q) /\ Len(q) \in Nat
      /\ DOMAIN Tail(q) = 1..(Len(q) - 1)
      /\ \A i \in DOMAIN Tail(q) : i + 1 \in DOMAIN q /\ Tail(q)[i] = q[i + 1]
  BY TailIsSeq, IsSeqLen
<1>2. Head(q).do # x
  <2>1. ~\E i \in DOMAIN q : i < 1
    BY <1>1
  <2> QED
    BY <1>1, <2>1 DEF Precedes
<1>3. ASSUME Head(q) \notin A, NEW k \in DOMAIN Tail(q), Tail(q)[k].do = x
      PROVE  \E i \in DOMAIN Tail(q) : i < k /\ Tail(q)[i] \in A
  <2>1. q[k + 1].do = x /\ k + 1 \in DOMAIN q
    BY <1>1, <1>3
  <2>2. PICK i \in DOMAIN q : i < k + 1 /\ q[i] \in A
    BY <2>1 DEF Precedes
  <2>3. i # 1
    BY <1>1, <1>3, <2>2
  <2> DEFINE j == i - 1
  <2>4. j \in DOMAIN Tail(q) /\ j < k /\ j + 1 = i
    BY <1>1, <1>3, <2>2, <2>3
  <2> HIDE DEF j
  <2>5. Tail(q)[j] = q[i]
    BY <1>1, <2>4
  <2> QED
    BY <2>2, <2>4, <2>5
<1> QED
  BY <1>2, <1>3 DEF Precedes

LEMMA NeverPrecedes == ASSUME NEW q, NEW A, NEW x, Never(q, x) PROVE Precedes(q, A, x)
  BY DEF Never, Precedes

-----------------------------------------------------------------------------
\* The steps that have to come before others; the pairs a program names.
PairStep     == {[do |-> "pair", arg |-> p] : p \in Pairs}
DisasterStep == {[do |-> "disaster", arg |-> 0]}
FailStep(w)  == {[do |-> "fail", arg |-> w]}
PairsNamed(q) == \A i \in DOMAIN q : q[i].do = "pair" => q[i].arg \in Pairs

LEMMA DoNever ==
  ASSUME NEW op, NEW arg, NEW x
  PROVE  IsSeq(Do(op, arg)) /\ (op # x => Never(Do(op, arg), x)) /\ HasStep(Do(op, arg), {[do |-> op, arg |-> arg]})
<1>1. IsSeq(Do(op, arg)) /\ DOMAIN Do(op, arg) = {1} /\ Do(op, arg)[1].do = op
  BY DoIs
<1>2. Do(op, arg)[1] = [do |-> op, arg |-> arg]
  BY DEF Do
<1> DEFINE d == [do |-> op, arg |-> arg]
<1>3. Do(op, arg)[1] \in {d}
  BY <1>2
<1> HIDE DEF d
<1>4. HasStep(Do(op, arg), {d})
  BY <1>1, <1>3 DEF HasStep
<1> QED
  BY <1>1, <1>4 DEF Never, d

LEMMA AllNever ==
  ASSUME NEW op, NEW S, NEW s \in Seq(S), NEW x
  PROVE  IsSeq(All(op, s)) /\ (op # x => Never(All(op, s), x))
         /\ \A y \in ToSet(s) : HasStep(All(op, s), {[do |-> op, arg |-> y]})
<1>1. IsSeq(All(op, s)) /\ (op # x => Never(All(op, s), x))
  BY AllIs DEF Never
<1>2. ASSUME NEW y \in ToSet(s) PROVE HasStep(All(op, s), {[do |-> op, arg |-> y]})
  <2>1. PICK i \in DOMAIN s : s[i] = y
    BY DEF ToSet
  <2>2. i \in DOMAIN All(op, s) /\ All(op, s)[i] = [do |-> op, arg |-> y]
    BY <2>1 DEF All
  <2> QED
    BY <2>2 DEF HasStep
<1> QED
  BY <1>1, <1>2

\* The program in the order of its steps.
LEMMA ProgramInOrder ==
  /\ IsSeq(Program)
  /\ Precedes(Program, PairStep, "disaster")
  /\ Precedes(Program, DisasterStep, "schedule")
  /\ \A w \in ToSet(Doomed) : Precedes(Program, FailStep(w), "schedule")
<1> DEFINE q1 == Do("start", 0) \o Do("sleep", Boot)
           q2 == q1 \o All("link", Cables)
           q3 == q2 \o All("pair", Served)
           q4 == q3 \o Do("sleep", Prepare)
           q5 == q4 \o Do("disaster", 0)
           q6 == q5 \o All("fail", Doomed)
           q7 == q6 \o All("client", Served)
           q8 == q7 \o Do("schedule", 0)
           q9 == q8 \o Do("sleep", RunTime)
           q10 == q9 \o Cleanup
           q11 == q10 \o Do("sleep", CleanupTime)
<1>1. Program = q11
  BY DEF Program, Run
<1>2. Cables \in Seq(Wires) /\ Served \in Seq(Pairs) /\ Doomed \in Seq(Wires)
  BY ScheduleAssumption
<1>3. \A op, arg, x : IsSeq(Do(op, arg)) /\ (op # x => Never(Do(op, arg), x))
  BY DoNever
<1>4. \A op, x :
        /\ IsSeq(All(op, Cables)) /\ IsSeq(All(op, Served)) /\ IsSeq(All(op, Doomed))
        /\ op # x => Never(All(op, Cables), x) /\ Never(All(op, Served), x) /\ Never(All(op, Doomed), x)
  BY <1>2, AllNever
<1>5. IsSeq(Cleanup) /\ Never(Cleanup, "disaster") /\ Never(Cleanup, "schedule")
  <2>1. \A i \in DOMAIN Cleanup : i \in 1..2
    BY CleanupIs
  <2> QED
    BY <2>1, CleanupIs DEF Never
<1>6. HasStep(All("pair", Served), PairStep)
  <2>1. 1 \in DOMAIN Served
    <3>1. Len(Served) \in Nat /\ DOMAIN Served = 1..Len(Served) /\ Len(Served) # 0
      BY <1>2, LenProperties, EmptySeq, FailureAssumption
    <3> QED
      BY <3>1
  <2>2. Served[1] \in Pairs /\ Served[1] \in ToSet(Served)
    BY <1>2, <2>1 DEF ToSet
  <2>3. HasStep(All("pair", Served), {[do |-> "pair", arg |-> Served[1]]})
    BY <1>2, <2>2, AllNever
  <2>4. [do |-> "pair", arg |-> Served[1]] \in PairStep
    BY <2>2 DEF PairStep
  <2> QED
    BY <2>3, <2>4 DEF HasStep
<1>7. HasStep(Do("disaster", 0), DisasterStep)
  BY DoNever DEF DisasterStep
<1>8. \A w \in ToSet(Doomed) : HasStep(All("fail", Doomed), FailStep(w))
  BY <1>2, AllNever DEF FailStep
<1>9. \A x \in {"disaster", "schedule"} : IsSeq(q1) /\ Never(q1, x)
  <2> DEFINE a == Do("start", 0)
             b == Do("sleep", Boot)
  <2>1. IsSeq(a) /\ IsSeq(b) /\ \A x \in {"disaster", "schedule"} : Never(a, x) /\ Never(b, x)
    BY <1>3
  <2> HIDE DEF a, b
  <2>2. \A x \in {"disaster", "schedule"} : IsSeq(a \o b) /\ Never(a \o b, x)
    BY <2>1, NeverJoin
  <2> QED
    BY <2>2 DEF a, b
<1> HIDE DEF q1
<1>10. \A x \in {"disaster", "schedule"} : IsSeq(q2) /\ Never(q2, x)
  BY <1>4, <1>9, NeverJoin
<1> HIDE DEF q2
<1>11. /\ IsSeq(q3) /\ Never(q3, "schedule")
       /\ HasStep(q3, PairStep) /\ Precedes(q3, PairStep, "disaster")
  BY <1>4, <1>6, <1>10, NeverJoin, PrecedesFirst
<1> HIDE DEF q3
<1>12. /\ IsSeq(q4) /\ Never(q4, "schedule")
       /\ HasStep(q4, PairStep) /\ Precedes(q4, PairStep, "disaster")
  <2> DEFINE a == Do("sleep", Prepare)
  <2>1. IsSeq(a) /\ Never(a, "schedule")
    BY <1>3
  <2> HIDE DEF a, PairStep
  <2>2. IsSeq(q3 \o a) /\ Never(q3 \o a, "schedule")
    BY <1>11, <2>1, NeverJoin
  <2>3. HasStep(q3 \o a, PairStep) /\ Precedes(q3 \o a, PairStep, "disaster")
    BY <1>11, <2>1, PrecedesMore
  <2> QED
    BY <2>2, <2>3 DEF a
<1> HIDE DEF q4
<1>13. /\ IsSeq(q5) /\ Never(q5, "schedule")
       /\ HasStep(q5, PairStep) /\ Precedes(q5, PairStep, "disaster")
       /\ HasStep(q5, DisasterStep) /\ Precedes(q5, DisasterStep, "schedule")
  <2> DEFINE a == Do("disaster", 0)
  <2>1. IsSeq(a) /\ Never(a, "schedule") /\ HasStep(a, DisasterStep)
    BY <1>3, <1>7
  <2> HIDE DEF a, PairStep, DisasterStep
  <2>2. IsSeq(q4 \o a) /\ Never(q4 \o a, "schedule")
    BY <1>12, <2>1, NeverJoin
  <2>3. HasStep(q4 \o a, PairStep) /\ Precedes(q4 \o a, PairStep, "disaster")
    BY <1>12, <2>1, PrecedesMore
  <2>4. HasStep(q4 \o a, DisasterStep) /\ Precedes(q4 \o a, DisasterStep, "schedule")
    BY <1>12, <2>1, PrecedesFirst
  <2> QED
    BY <2>2, <2>3, <2>4 DEF a
<1> HIDE DEF q5
<1>14. /\ IsSeq(q6)
       /\ HasStep(q6, PairStep) /\ Precedes(q6, PairStep, "disaster")
       /\ HasStep(q6, DisasterStep) /\ Precedes(q6, DisasterStep, "schedule")
  BY <1>4, <1>13, PrecedesMore
<1>15. ASSUME NEW w \in ToSet(Doomed)
       PROVE  HasStep(q6, FailStep(w)) /\ Precedes(q6, FailStep(w), "schedule")
  BY <1>4, <1>8, <1>13, PrecedesFirst
<1> HIDE DEF q6
<1> DEFINE C == {PairStep, DisasterStep} \union {FailStep(w) : w \in ToSet(Doomed)}
           After(A) == IF A = PairStep THEN "disaster" ELSE "schedule"
           Good(q) == /\ IsSeq(q)
                      /\ HasStep(q, PairStep) /\ Precedes(q, PairStep, "disaster")
                      /\ HasStep(q, DisasterStep) /\ Precedes(q, DisasterStep, "schedule")
                      /\ \A w \in ToSet(Doomed) :
                           HasStep(q, FailStep(w)) /\ Precedes(q, FailStep(w), "schedule")
<1>16. Good(q6)
  BY <1>14, <1>15
<1>17. ASSUME NEW q, NEW r, Good(q), IsSeq(r) PROVE Good(q \o r)
  <2>1. \A A, x : HasStep(q, A) /\ Precedes(q, A, x) =>
          IsSeq(q \o r) /\ HasStep(q \o r, A) /\ Precedes(q \o r, A, x)
    BY <1>17, PrecedesMore
  <2> QED
    BY <1>17, <2>1
<1> HIDE DEF Good
<1>18. Good(q7) /\ Good(q8) /\ Good(q9)
  BY <1>3, <1>4, <1>16, <1>17
<1> HIDE DEF q9
<1>19. Good(q10) /\ Good(q11)
  BY <1>3, <1>5, <1>17, <1>18
<1> QED
  BY <1>1, <1>19 DEF Good

\* The program names pairs that there may be.
LEMMA NamedJoin ==
  ASSUME NEW q, NEW r, IsSeq(q), IsSeq(r), PairsNamed(q), PairsNamed(r)
  PROVE  IsSeq(q \o r) /\ PairsNamed(q \o r)
<1> DEFINE p == q \o r
<1>1. /\ IsSeq(p) /\ DOMAIN q = 1..Len(q) /\ Len(q) \in Nat
      /\ \A i \in DOMAIN q : i \in DOMAIN p /\ p[i] = q[i]
      /\ \A i \in DOMAIN r : Len(q) + i \in DOMAIN p /\ p[Len(q) + i] = r[i]
      /\ \A i \in DOMAIN p : i \in DOMAIN q \/ \E j \in DOMAIN r : i = Len(q) + j /\ p[i] = r[j]
  BY JoinHas, Zenon
<1> HIDE DEF p
<1>2. PairsNamed(p)
  BY <1>1 DEF PairsNamed
<1> QED
  BY <1>1, <1>2 DEF p

LEMMA NeverNamed == ASSUME NEW q, Never(q, "pair") PROVE PairsNamed(q)
  BY DEF Never, PairsNamed

LEMMA ProgramNamesPairs == PairsNamed(Program)
<1> DEFINE Good(q) == IsSeq(q) /\ PairsNamed(q)
           q1 == Do("start", 0) \o Do("sleep", Boot)
           q2 == q1 \o All("link", Cables)
           q3 == q2 \o All("pair", Served)
           q4 == q3 \o Do("sleep", Prepare)
           q5 == q4 \o Do("disaster", 0)
           q6 == q5 \o All("fail", Doomed)
           q7 == q6 \o All("client", Served)
           q8 == q7 \o Do("schedule", 0)
           q9 == q8 \o Do("sleep", RunTime)
           q10 == q9 \o Cleanup
           q11 == q10 \o Do("sleep", CleanupTime)
<1>1. Program = q11
  BY DEF Program, Run
<1>2. \A q, r : Good(q) /\ Good(r) => Good(q \o r)
  BY NamedJoin
<1>3. Cables \in Seq(Wires) /\ Served \in Seq(Pairs) /\ Doomed \in Seq(Wires)
  BY ScheduleAssumption
<1>4. \A op, arg : op # "pair" => Good(Do(op, arg))
  <2> TAKE op, arg
  <2>1. IsSeq(Do(op, arg)) /\ (op # "pair" => Never(Do(op, arg), "pair"))
    BY DoNever
  <2> QED
    BY <2>1, NeverNamed
<1>5. ASSUME NEW op, op # "pair", NEW S, NEW s \in Seq(S) PROVE Good(All(op, s))
  <2>1. IsSeq(All(op, s)) /\ Never(All(op, s), "pair")
    BY <1>5, AllNever
  <2> QED
    BY <2>1, NeverNamed
<1>6. Good(All("link", Cables)) /\ Good(All("fail", Doomed)) /\ Good(All("client", Served))
  BY <1>3, <1>5
<1>7. Good(All("pair", Served))
  <2>1. IsSeq(All("pair", Served))
    BY <1>3, AllIs
  <2>2. \A i \in DOMAIN Served : Served[i] \in Pairs
    BY <1>3, ElementOfSeq, LenProperties
  <2>3. PairsNamed(All("pair", Served))
    BY <2>2 DEF PairsNamed, All
  <2> QED
    BY <2>1, <2>3
<1>8. Good(Cleanup)
  <2>1. IsSeq(Cleanup) /\ \A i \in DOMAIN Cleanup : i \in 1..2
    BY CleanupIs
  <2>2. Never(Cleanup, "pair")
    BY <2>1, CleanupIs DEF Never
  <2> QED
    BY <2>1, <2>2, NeverNamed
<1> HIDE DEF Good
<1>9. Good(q1)
  BY <1>2, <1>4
<1> HIDE DEF q1
<1>10. Good(q3)
  BY <1>2, <1>6, <1>7, <1>9
<1> HIDE DEF q3
<1>11. Good(q6)
  BY <1>2, <1>4, <1>6, <1>10
<1> HIDE DEF q6
<1>12. Good(q9)
  BY <1>2, <1>4, <1>6, <1>11
<1> HIDE DEF q9
<1>13. Good(q11)
  BY <1>2, <1>4, <1>8, <1>12
<1> QED
  BY <1>1, <1>13 DEF Good

-----------------------------------------------------------------------------
(* The invariants of updates. *)

\* What the controller has registered: pairs with addresses, and the switches
\* that are connected.
Here(s)    == s \in ToSet(switches) /\ KnownDp(s)
ListsInv ==
  /\ IpInv /\ switches \in Seq(Switches)
  /\ \A s \in live : Here(s)
  /\ ~netUp => live = {}

\* Updates are on their way, and no step of one fails.
Going == running.kind = "update" \/ timers # <<>> \/ UpdateWaits
UpdatesInv ==
  /\ IsSeq(waiting)
  /\ hostPairs = <<>> => Precedes(todo, PairStep, "disaster")
  /\ isUpdating => hostPairs # <<>> /\ (\A s \in Switches : Here(s)) /\ Going
  /\ running.kind = "update" => Able(running.todo)

GoInv == RunInv /\ OpenInv /\ KnowInv /\ ListsInv /\ UpdatesInv

\* Steps on the way to a route of the moment do not fail.
LEMMA UpdateIsAble ==
  ASSUME KnowInv, ListsInv, UpdateInv, \A s \in Switches : Here(s)
  PROVE  /\ ~CalcRaises /\ UpdateTask(Routes(updateTimes)).kind = "update"
         /\ Able(UpdateTask(Routes(updateTimes)).todo)
<1>1. switches \in Seq(Switches) /\ hostPairs \in Seq(Addressed) /\ links \subseteq Link
  BY DEF ListsInv, IpInv, KnowInv, PortInv
<1>2. \A i \in DOMAIN hostPairs : hostPairs[i] \in Addressed
  BY <1>1, ElementOfSeq, LenProperties
<1>3. ~CalcRaises
  <2>1. \A l \in links : l.ends \subseteq ToSet(switches)
    <3>1. \A l \in links : l.ends \subseteq Switches
      BY <1>1, TopologyAssumption DEF Link
    <3> QED
      BY <3>1 DEF Here
  <2>2. ASSUME NEW i \in DOMAIN hostPairs
        PROVE  /\ hostPairs[i].failAt # 0
               /\ Neighbor[hostPairs[i].client] \in ToSet(switches)
               /\ Neighbor[hostPairs[i].server] \in ToSet(switches)
    <3>1. hostPairs[i].client \in Hosts /\ hostPairs[i].server \in Hosts
          /\ hostPairs[i].failAt \in ClientFailTimes \union {Unknown}
      BY <1>2 DEF Addressed, HostPair
    <3> QED
      BY <3>1, TopologyAssumption, FailureAssumption DEF Here, Unknown
  <2> QED
    BY <2>1, <2>2 DEF CalcRaises
<1>4. CalcTypeOK
  <2>1. Addressed \subseteq HostPair
    BY DEF Addressed
  <2> QED
    BY <1>1, <2>1, SeqMonotonic DEF CalcTypeOK
<1>5. \A s \in ToSet(switches) : KnownDp(s)
  BY <1>1, SeqFacts DEF Here, ToSet
<1> QED
  BY <1>1, <1>3, <1>4, <1>5, RoutesAreAble DEF ListsInv, KnowInv, UpdateInv

-----------------------------------------------------------------------------
(* What is registered. *)

\* Steps that register nothing and connect no switch.
LEMMA SameLists ==
  ASSUME ListsInv, UNCHANGED <<hostPairs, hostIp, switches, datapaths>>, live' \subseteq live,
         ~netUp' => live' = {}
  PROVE  ListsInv'
<1>1. Addressed' = Addressed
  BY DEF Addressed
<1>2. \A s : Here(s)' <=> Here(s)
  BY DEF Here, KnownDp, ToSet
<1> QED
  BY <1>1, <1>2 DEF ListsInv, IpInv

\* A step of the driver, of the kinds that only the try clause has.
LEMMA PairOfStep == ASSUME KnowInv, Takes("pair") PROVE Arg \in Pairs
<1>1. Len(todo) > 3 /\ OnPlan /\ Head(todo).do = "pair" /\ todo # <<>>
  <2>1. Len(todo) > 3
    BY TakesIs
  <2> QED
    BY <2>1, TakesIs
<1>2. LeftAfter(todo, Place) /\ IsSeq(todo)
  BY <1>1 DEF OnPlan, LeftAfter
<1>3. 1 \in DOMAIN todo /\ Head(todo) = todo[1]
  BY <1>1, <1>2, TailIsSeq
<1>4. Head(todo) = Program[Place + 1]
  BY <1>2, <1>3 DEF LeftAfter
<1>5. Place + 1 \in DOMAIN Program
  <2>1. Len(Run) \in Nat /\ Len(Program) = Len(Run) + 3 /\ IsSeq(Program)
    BY ProgramIs
  <2>2. Place \in 0..(Len(Run) - 1)
    BY <1>1, <1>2, NextOnPlan
  <2>3. DOMAIN Program = 1..Len(Program)
    BY <2>1, IsSeqLen
  <2> QED
    BY <2>1, <2>2, <2>3
<1> QED
  BY <1>1, <1>4, <1>5, ProgramNamesPairs DEF PairsNamed, Arg

\* A switch that connects is registered with its connection.
LEMMA ConnectingHere ==
  ASSUME ListsInv, IsSeq(datapaths), NEW s \in Switches, SwitchFeatures(s)
  PROVE  /\ switches' \in Seq(Switches) /\ IsSeq(datapaths)' /\ live' = live \union {s}
         /\ Here(s)' /\ \A x : Here(x) => Here(x)'
<1> DEFINE d == [sw |-> s, conn |-> conn[s] + 1]
<1>1. switches' = Append(switches, s) /\ datapaths' = Append(datapaths, d) /\ live' = live \union {s}
  BY DEF SwitchFeatures, AddSwitch
<1>2. d.sw = s
  OBVIOUS
<1> HIDE DEF d
<1>3. switches \in Seq(Switches) /\ IsSeq(switches)
  BY SeqIsSeq DEF ListsInv
<1>4. /\ Len(switches) \in Nat /\ DOMAIN switches = 1..Len(switches)
      /\ DOMAIN switches' = 1..(Len(switches) + 1) /\ switches'[Len(switches) + 1] = s
      /\ \A i \in DOMAIN switches : switches'[i] = switches[i]
  BY <1>1, <1>3, AppendIsSeq, IsSeqLen
<1>5. /\ Len(datapaths) \in Nat /\ DOMAIN datapaths = 1..Len(datapaths)
      /\ DOMAIN datapaths' = 1..(Len(datapaths) + 1) /\ datapaths'[Len(datapaths) + 1] = d
      /\ \A i \in DOMAIN datapaths : datapaths'[i] = datapaths[i]
      /\ IsSeq(datapaths')
  BY <1>1, AppendIsSeq, IsSeqLen
<1>6. Len(switches) + 1 \in DOMAIN switches' /\ \A i \in DOMAIN switches : i \in DOMAIN switches'
  BY <1>4
<1>7. Len(datapaths) + 1 \in DOMAIN datapaths' /\ \A i \in DOMAIN datapaths : i \in DOMAIN datapaths'
  BY <1>5
<1>8. s \in ToSet(switches') /\ ToSet(switches) \subseteq ToSet(switches')
  BY <1>4, <1>6 DEF ToSet
<1>9. KnownDp(s)' /\ \A x : KnownDp(x) => KnownDp(x)'
  BY <1>2, <1>5, <1>7 DEF KnownDp
<1>10. switches' \in Seq(Switches)
  BY <1>1, <1>3, AppendProperties
<1>11. Here(s)' /\ \A x : Here(x) => Here(x)'
  BY <1>8, <1>9 DEF Here, ToSet
<1> QED
  BY <1>1, <1>5, <1>10, <1>11 DEF IsSeq

LEMMA RequestLists == ASSUME KnowInv, ListsInv, Request PROVE ListsInv'
<1>1. /\ UNCHANGED <<live, netUp>>
  BY DEF Request, PostLink, PostHostPair, PutLink, PutHostClient, PutInit, netVars, envVars
<1>2. CASE Takes("link") /\ \E bw \in Bandwidths : PostLink(Arg, bw)
  BY <1>1, <1>2, SameLists DEF PostLink, AddLink, ListsInv
<1>3. CASE Takes("fail") /\ PutLink(Arg, failAt[Arg])
  BY <1>1, <1>3, SameLists DEF PutLink, RegisterLinkFailTime, ListsInv, ctlVars
<1>4. CASE Takes("pair") /\ PostHostPair(Arg[1], Arg[2])
  <2>1. Arg[1] \in Hosts /\ Arg[2] \in Hosts
    BY <1>4, PairOfStep, TopologyAssumption
  <2>2. IpInv'
    BY <1>4, <2>1, PostHostPairKeepsIpInv DEF ListsInv
  <2>3. UNCHANGED <<switches, datapaths>>
    BY <1>4 DEF PostHostPair, AddHostPair
  <2>4. \A s : Here(s)' <=> Here(s)
    BY <2>3 DEF Here, KnownDp, ToSet
  <2> QED
    BY <1>1, <2>2, <2>3, <2>4 DEF ListsInv
<1>5. CASE Takes("client") /\ \E t \in ClientFailTimes, n \in DataSizes : PutHostClient(Arg[1], t, n)
  <2>1. PICK t \in ClientFailTimes, n \in DataSizes : PutHostClient(Arg[1], t, n)
    BY <1>5
  <2>2. Arg[1] \in Hosts
    <3>1. PICK i \in DOMAIN hostPairs : hostPairs[i].client = Arg[1]
      BY <2>1 DEF PutHostClient, UpdateHostClient
    <3>2. hostPairs[i] \in Addressed
      BY ElementOfSeq, LenProperties DEF ListsInv, IpInv
    <3> QED
      BY <3>1, <3>2 DEF Addressed, HostPair
  <2>3. IpInv'
    BY <2>1, <2>2, PutHostClientKeepsIpInv DEF ListsInv
  <2>4. UNCHANGED <<switches, datapaths>>
    BY <2>1 DEF PutHostClient, UpdateHostClient, ctlVars
  <2>5. \A s : Here(s)' <=> Here(s)
    BY <2>4 DEF Here, KnownDp, ToSet
  <2> QED
    BY <1>1, <2>3, <2>4, <2>5 DEF ListsInv
<1>6. CASE Takes("init") /\ PutInit
  <2>1. ~netUp
    <3>1. ~(Len(todo) > 3)
      BY <1>6, TakesIs DEF IsLater, Later
    <3> QED
      BY <1>6, <3>1, TakesIs
  <2>2. live' = {}
    BY <1>1, <2>1 DEF ListsInv
  <2>3. IpInv' /\ switches' \in Seq(Switches)
    BY <1>6, EmptySeq DEF PutInit, CalcReset, IpInv
  <2> QED
    BY <2>2, <2>3 DEF ListsInv
<1> QED
  BY <1>2, <1>3, <1>4, <1>5, <1>6 DEF Request

LEMMA ListsInvStep == ASSUME OpenInv, KnowInv, ListsInv, [ExpNext]_allVars PROVE ListsInv'
<1> USE DEF calcVars, ctlVars, netVars, drvVars, envVars, expVars
<1>1. CASE Begin \/ Interrupt \/ Sleep \/ Schedule
  BY <1>1, SameLists DEF Begin, Interrupt, Sleep, Schedule, vars, ListsInv
<1>2. CASE Disaster
  BY <1>2, SameLists DEF Disaster, PostDisaster, ListsInv
<1>3. CASE Start
  BY <1>3, SameLists DEF Start, ListsInv
<1>4. CASE Stop
  BY <1>4, SameLists DEF Stop
<1>5. CASE \E w \in DOMAIN fuse : LinkFails(w)
  BY <1>5, SameLists DEF LinkFails, DeletePort, ListsInv
<1>6. CASE TimersFire
  BY <1>6, SameLists DEF TimersFire, Firing, TimerFires, ListsInv
<1>7. CASE TimePasses
  BY <1>7, SameLists DEF TimePasses, Tick, ListsInv
<1>8. CASE UNCHANGED allVars
  BY <1>8, SameLists DEF allVars, vars, ListsInv
<1>9. CASE SystemStep
  <2>1. UNCHANGED netUp
    BY <1>9 DEF SystemStep
  <2>2. CASE TaskStep
    BY <2>1, <2>2, SameLists DEF TaskStep, TakeStep, Wait, Raise, FinishUpdate, FinishHosts, ListsInv
  <2>3. CASE Applying
    BY <2>1, <2>3, SameLists DEF Applying, Apply, ListsInv
  <2>4. CASE Noticing
    BY <2>1, <2>4, SameLists DEF Noticing, PortStatus, ListsInv
  <2>5. CASE netUp /\ Connecting
    <3>1. PICK s \in Switches : SwitchFeatures(s)
      BY <2>5 DEF Connecting
    <3>2. /\ switches' \in Seq(Switches) /\ live' = live \union {s}
          /\ Here(s)' /\ \A x : Here(x) => Here(x)'
      BY <3>1, ConnectingHere DEF OpenInv
    <3>3. UNCHANGED <<hostPairs, hostIp>>
      BY <3>1 DEF SwitchFeatures, AddSwitch
    <3>4. IpInv'
      BY <3>3 DEF ListsInv, IpInv, Addressed
    <3> QED
      BY <2>1, <2>5, <3>2, <3>4 DEF ListsInv
  <2> QED
    BY <1>9, <2>2, <2>3, <2>4, <2>5 DEF SystemStep
<1> QED
  BY <1>1, <1>2, <1>3, <1>4, <1>5, <1>6, <1>7, <1>8, <1>9, RequestLists DEF ExpNext

-----------------------------------------------------------------------------
(* Updates go on. *)

LEMMA SameFails ==
  ASSUME UNCHANGED <<hostIp, portTo, datapaths>>
  PROVE  \A x : Fails(x)' <=> Fails(x)
BY DEF Fails, PortsTo, KnownDp

LEMMA UpdatesStay ==
  ASSUME UpdatesInv, IsSeq(waiting)', hostPairs' = <<>> => Precedes(todo, PairStep, "disaster")',
         isUpdating' => isUpdating /\ hostPairs' # <<>>,
         \A s : Here(s) => Here(s)', Going => Going',
         running'.kind = "update" => Able(running.todo)'
  PROVE  UpdatesInv'
BY DEF UpdatesInv

\* The step that is taken is not the disaster, as long as there is no pair.
LEMMA TakesPrecedes ==
  ASSUME KnowInv, UpdatesInv, NEW op, Takes(op), hostPairs = <<>>
  PROVE  op # "disaster" /\ (op # "pair" => Precedes(todo, PairStep, "disaster")')
<1>1. /\ IsSeq(todo) /\ todo # <<>> /\ todo' = Tail(todo) /\ Head(todo).do = op
      /\ Precedes(todo, PairStep, "disaster")
  BY DEF KnowInv, InPlace, Takes, UpdatesInv
<1>2. op # "pair" => Head(todo) \notin PairStep
  BY <1>1 DEF PairStep
<1>3. op # "disaster" /\ (op # "pair" => Precedes(todo', PairStep, "disaster"))
  BY <1>1, <1>2, PrecedesGoesOn
<1> QED
  BY <1>3 DEF Precedes, PairStep

\* Steps that leave what updates need as it is.
CalmVars == <<hostPairs, isUpdating, switches, datapaths, waiting, timers>>
LEMMA CalmUpdates ==
  ASSUME UpdatesInv, UNCHANGED CalmVars, hostPairs = <<>> => Precedes(todo, PairStep, "disaster")',
         \/ running = Idle /\ running'.kind # "update"
         \/ UNCHANGED <<running, hostIp, portTo>>
  PROVE  UpdatesInv'
<1> USE DEF CalmVars
<1>1. IsSeq(waiting)' /\ (UpdateWaits' <=> UpdateWaits)
  BY DEF UpdatesInv, IsSeq, UpdateWaits
<1>2. \A s : Here(s)' <=> Here(s)
  BY DEF Here, KnownDp, ToSet
<1>3. running = Idle => running.kind # "update"
  BY DEF Idle
<1>4. Going => Going'
  BY <1>1, <1>3 DEF Going
<1>5. running'.kind = "update" => Able(running.todo)'
  <2>1. CASE running'.kind # "update"
    BY <2>1
  <2>2. CASE UNCHANGED <<running, hostIp, portTo>>
    <3>1. \A x : Fails(x)' <=> Fails(x)
      BY <2>2, SameFails
    <3> QED
      BY <2>2, <3>1 DEF UpdatesInv, Able, IsSeq
  <2> QED
    BY <2>1, <2>2
<1> QED
  BY <1>1, <1>2, <1>4, <1>5, UpdatesStay DEF UpdatesInv

LEMMA TaskStepUpdates ==
  ASSUME UpdateInv, UpdatesInv, TaskStep, UNCHANGED todo
  PROVE  UpdatesInv'
<1>1. UNCHANGED <<hostPairs, isUpdating, switches, datapaths, hostIp, portTo>>
  BY DEF TaskStep, TakeStep, Wait, Raise, FinishUpdate, FinishHosts, calcVars, ctlVars
<1>2. (\A s : Here(s)' <=> Here(s)) /\ \A x : Fails(x)' <=> Fails(x)
  BY <1>1, SameFails DEF Here, KnownDp, ToSet
<1>3. Precedes(todo, PairStep, "disaster")' <=> Precedes(todo, PairStep, "disaster")
  BY DEF Precedes, PairStep
<1>4. Idle.kind # "update" /\ IsTask(running) /\ IsTask(Rest) /\ Rest.kind = running.kind
  BY TasksAre DEF UpdateInv
<1>5. Rest.todo = Tail(running.todo)
  BY <1>4 DEF IsTask, Rest
<1>6. CASE TakeStep
  <2>1. running' = Rest /\ running.todo # <<>> /\ UNCHANGED <<waiting, timers>>
    BY <1>6 DEF TakeStep, ctlVars
  <2>2. Going => Going'
    BY <1>4, <2>1 DEF Going, UpdateWaits
  <2>3. ASSUME running'.kind = "update" PROVE Able(running.todo)'
    <3>1. Able(running.todo)
      BY <1>4, <2>1, <2>3 DEF UpdatesInv
    <3>2. /\ IsSeq(Tail(running.todo))
          /\ \A i \in DOMAIN Tail(running.todo) :
               i + 1 \in DOMAIN running.todo /\ Tail(running.todo)[i] = running.todo[i + 1]
      BY <2>1, <3>1, TailIsSeq DEF Able
    <3>3. running'.todo = Tail(running.todo)
      BY <1>5, <2>1
    <3> QED
      BY <1>2, <3>1, <3>2, <3>3 DEF Able, IsSeq
  <2> QED
    BY <1>1, <1>2, <1>3, <2>1, <2>2, <2>3, UpdatesStay DEF UpdatesInv, IsSeq
<1>7. CASE Wait
  <2> DEFINE step == Head(running.todo)
             w == [task |-> Rest, dp |-> FindDp(step.at), flow |-> FlowOf(step)]
  <2>1. running' = Idle /\ waiting' = Append(waiting, w) /\ UNCHANGED timers
    BY <1>7 DEF Wait, ctlVars
  <2>2. w.task = Rest
    OBVIOUS
  <2> HIDE DEF w
  <2>3. /\ IsSeq(waiting') /\ DOMAIN waiting = 1..Len(waiting) /\ Len(waiting) \in Nat
        /\ DOMAIN waiting' = 1..(Len(waiting) + 1)
        /\ waiting'[Len(waiting) + 1] = w
        /\ \A i \in DOMAIN waiting : waiting'[i] = waiting[i]
    BY <2>1, AppendIsSeq, IsSeqLen DEF UpdatesInv
  <2>4. Len(waiting) + 1 \in DOMAIN waiting' /\ \A i \in DOMAIN waiting : i \in DOMAIN waiting'
    BY <2>3
  <2>5. Going => Going'
    BY <1>4, <2>1, <2>2, <2>3, <2>4 DEF Going, UpdateWaits
  <2> QED
    BY <1>1, <1>2, <1>3, <1>4, <2>1, <2>3, <2>5, UpdatesStay DEF UpdatesInv, IsSeq
<1>8. CASE Raise
  <2>1. running' = Idle /\ running.todo # <<>> /\ Fails(Head(running.todo)) /\ UNCHANGED <<waiting, timers>>
    BY <1>8 DEF Raise, ctlVars
  <2>2. running.kind # "update"
    <3>1. SUFFICES ASSUME Able(running.todo) PROVE FALSE
      BY DEF UpdatesInv
    <3>2. 1 \in DOMAIN running.todo /\ Head(running.todo) = running.todo[1]
      BY <2>1, <3>1, TailIsSeq DEF Able
    <3> QED
      BY <2>1, <3>1, <3>2 DEF Able
  <2>3. Going => Going'
    BY <2>1, <2>2 DEF Going, UpdateWaits
  <2> QED
    BY <1>1, <1>2, <1>3, <1>4, <2>1, <2>3, UpdatesStay DEF UpdatesInv, IsSeq
<1>9. CASE FinishUpdate
  <2>1. running' = Idle /\ timers' = Append(timers, UpdateInterval) /\ UNCHANGED waiting
    BY <1>9 DEF FinishUpdate
  <2>2. timers' # <<>>
    <3>1. IsSeq(timers)
      BY SeqIsSeq DEF UpdateInv
    <3>2. Len(timers) \in Nat /\ DOMAIN timers' = 1..(Len(timers) + 1)
      BY <2>1, <3>1, AppendIsSeq, IsSeqLen
    <3>3. 1 \in DOMAIN timers'
      BY <3>2
    <3> QED
      BY <3>3
  <2>3. Going'
    BY <2>2 DEF Going
  <2> QED
    BY <1>1, <1>2, <1>3, <1>4, <2>1, <2>3, UpdatesStay DEF UpdatesInv, IsSeq
<1>10. CASE FinishHosts
  <2>1. running' = Idle /\ running.kind # "update" /\ UNCHANGED <<waiting, timers>>
    BY <1>10 DEF FinishHosts, ctlVars
  <2>2. Going => Going'
    BY <2>1 DEF Going, UpdateWaits
  <2> QED
    BY <1>1, <1>2, <1>3, <1>4, <2>1, <2>2, UpdatesStay DEF UpdatesInv, IsSeq
<1> QED
  BY <1>6, <1>7, <1>8, <1>9, <1>10 DEF TaskStep

\* The disaster: the switches are connected and pairs registered.
LEMMA DisasterIsReady ==
  ASSUME KnowInv, ListsInv, UpdatesInv, Takes("disaster")
  PROVE  hostPairs # <<>> /\ \A s \in Switches : Here(s)
<1>1. hostPairs # <<>>
  BY TakesPrecedes
<1>2. Len(todo) > 3
  BY TakesIs
<1>3. OnPlan /\ Place \in Nat /\ sleep = 0 /\ Place # 0 /\ Place # 1
  BY <1>2, TakesIs DEF IsLater, Later
<1>4. Place > 2 \/ (Place = 2 /\ sleep = 0)
  BY <1>3
<1>5. live = Switches
  BY <1>3, <1>4 DEF OnPlan, Steady
<1> QED
  BY <1>1, <1>5 DEF ListsInv

\* What an update finds in its way.
LEMMA UpdateBegins ==
  ASSUME UpdateInv, KnowInv, ListsInv, hostPairs # <<>>, \A s \in Switches : Here(s), UpdatePath(TRUE),
         UNCHANGED <<hostIp, portTo, datapaths>>
  PROVE  running'.kind = "update" /\ Able(running.todo)'
<1>1. /\ ~CalcRaises /\ UpdateTask(Routes(updateTimes)).kind = "update"
      /\ Able(UpdateTask(Routes(updateTimes)).todo)
  BY UpdateIsAble
<1>2. running' = UpdateTask(Routes(updateTimes))
  BY <1>1 DEF UpdatePath
<1>3. \A x : Fails(x)' <=> Fails(x)
  BY SameFails
<1> DEFINE t == UpdateTask(Routes(updateTimes))
<1> HIDE DEF t
<1>4. running' = t /\ t.kind = "update" /\ Able(t.todo)
  BY <1>1, <1>2 DEF t
<1> QED
  BY <1>3, <1>4 DEF Able, IsSeq

LEMMA DisasterUpdates ==
  ASSUME UpdateInv, KnowInv, ListsInv, UpdatesInv, Disaster
  PROVE  UpdatesInv' /\ running'.kind = "update"
<1>1. /\ Takes("disaster") /\ UpdatePath(TRUE)
      /\ UNCHANGED <<hostPairs, hostIp, portTo, datapaths, switches, waiting>>
  BY DEF Disaster, PostDisaster, calcVars
<1>2. hostPairs # <<>> /\ \A s \in Switches : Here(s)
  BY <1>1, DisasterIsReady
<1>3. running'.kind = "update" /\ Able(running.todo)'
  BY <1>1, <1>2, UpdateBegins
<1>4. Going'
  BY <1>3 DEF Going
<1>5. \A s \in Switches : Here(s)'
  BY <1>1, <1>2 DEF Here, KnownDp, ToSet
<1> QED
  BY <1>1, <1>2, <1>3, <1>4, <1>5 DEF UpdatesInv, IsSeq

LEMMA TimerUpdates ==
  ASSUME UpdateInv, KnowInv, ListsInv, UpdatesInv, NEW i \in DOMAIN timers, TimerFires(i), UNCHANGED todo
  PROVE  UpdatesInv' /\ (isUpdating => running'.kind = "update")
<1>1. /\ UpdatePath(isUpdating)
      /\ UNCHANGED <<hostPairs, hostIp, portTo, datapaths, switches, waiting, isUpdating>>
  BY DEF TimerFires, calcVars
<1>2. Precedes(todo, PairStep, "disaster")' <=> Precedes(todo, PairStep, "disaster")
  BY DEF Precedes, PairStep
<1>3. CASE isUpdating
  <2>1. hostPairs # <<>> /\ \A s \in Switches : Here(s)
    BY <1>3 DEF UpdatesInv
  <2>2. UpdatePath(TRUE)
    BY <1>1, <1>3 DEF UpdatePath
  <2>3. running'.kind = "update" /\ Able(running.todo)'
    BY <1>1, <2>1, <2>2, UpdateBegins
  <2>4. Going'
    BY <2>3 DEF Going
  <2>5. \A s \in Switches : Here(s)'
    BY <1>1, <2>1 DEF Here, KnownDp, ToSet
  <2> QED
    BY <1>1, <1>2, <2>1, <2>3, <2>4, <2>5 DEF UpdatesInv, IsSeq
<1>4. CASE ~isUpdating
  <2>1. running' = Idle /\ Idle.kind # "update"
    BY <1>1, <1>4 DEF UpdatePath, Idle
  <2> QED
    BY <1>1, <1>2, <1>4, <2>1 DEF UpdatesInv, IsSeq
<1> QED
  BY <1>3, <1>4

LEMMA SameTodo ==
  ASSUME UpdatesInv, UNCHANGED <<todo, hostPairs>>
  PROVE  hostPairs' = <<>> => Precedes(todo, PairStep, "disaster")'
BY DEF UpdatesInv, Precedes, PairStep

\* After the try clause there is no disaster any more.
LEMMA ClosedPrecedes ==
  ASSUME KnowInv, Takes("init")
  PROVE  Precedes(todo, PairStep, "disaster")'
<1>1. /\ Len(todo) <= 3 /\ IsSeq(todo) /\ todo # <<>> /\ todo' = Tail(todo)
  <2>1. ~(Len(todo) > 3)
    BY TakesIs DEF IsLater, Later
  <2> QED
    BY <2>1, TakesIs DEF KnowInv, InPlace
<1>2. \A i \in DOMAIN todo : todo[i].do \in {"stop", "init", "sleep"}
  BY <1>1 DEF KnowInv, InPlace, Closing, Closes
<1>3. \A i \in DOMAIN todo' : i + 1 \in DOMAIN todo /\ todo'[i] = todo[i + 1]
  BY <1>1, TailIsSeq
<1>4. \A i \in DOMAIN todo' : todo'[i].do # "disaster"
  BY <1>2, <1>3
<1> QED
  BY <1>4 DEF Precedes, PairStep

LEMMA RequestUpdates ==
  ASSUME KnowInv, ListsInv, UpdatesInv, Request
  PROVE  UpdatesInv'
<1>1. Idle.kind # "update"
  BY DEF Idle
<1>2. \A op : Takes(op) /\ op # "pair" /\ hostPairs = <<>> => Precedes(todo, PairStep, "disaster")'
  BY TakesPrecedes
<1>3. CASE Takes("link") /\ \E bw \in Bandwidths : PostLink(Arg, bw)
  <2>1. UNCHANGED CalmVars /\ running = Idle /\ running' = Idle
    BY <1>3 DEF CalmVars, PostLink, AddLink, taskVars
  <2>2. hostPairs = <<>> => Precedes(todo, PairStep, "disaster")'
    BY <1>2, <1>3
  <2> QED
    BY <1>1, <2>1, <2>2, CalmUpdates
<1>4. CASE Takes("fail") /\ PutLink(Arg, failAt[Arg])
  <2>1. UNCHANGED CalmVars /\ running = Idle /\ running' = Idle
    BY <1>4 DEF CalmVars, PutLink, RegisterLinkFailTime, taskVars, ctlVars
  <2>2. hostPairs = <<>> => Precedes(todo, PairStep, "disaster")'
    BY <1>2, <1>4
  <2> QED
    BY <1>1, <2>1, <2>2, CalmUpdates
<1>5. CASE Takes("pair") /\ PostHostPair(Arg[1], Arg[2])
  <2>1. /\ UNCHANGED <<isUpdating, switches, datapaths, waiting, timers>>
        /\ running' = HostsTask(Arg[1], Arg[2]) /\ running = Idle
        /\ \E x : hostPairs' = Append(hostPairs, x)
    BY <1>5 DEF PostHostPair, AddHostPair
  <2>2. running'.kind # "update"
    BY <2>1, TasksAre
  <2>3. hostPairs' # <<>>
    BY <2>1, AppendMakesMore, SeqIsSeq DEF ListsInv, IpInv
  <2>4. (\A s : Here(s)' <=> Here(s)) /\ (Going => Going') /\ IsSeq(waiting)'
    BY <1>1, <2>1 DEF Here, KnownDp, ToSet, Going, UpdateWaits, UpdatesInv, IsSeq
  <2> QED
    BY <2>1, <2>2, <2>3, <2>4, UpdatesStay
<1>6. CASE Takes("client") /\ \E t \in ClientFailTimes, n \in DataSizes : PutHostClient(Arg[1], t, n)
  <2>1. /\ UNCHANGED <<isUpdating, switches, datapaths, waiting, timers, running>> /\ running = Idle
    BY <1>6 DEF PutHostClient, UpdateHostClient, ctlVars, taskVars
  <2>2. hostPairs # <<>> /\ hostPairs' # <<>>
    <3>1. PICK t \in ClientFailTimes, n \in DataSizes : PutHostClient(Arg[1], t, n)
      BY <1>6
    <3>2. PICK i \in DOMAIN hostPairs : hostPairs[i].client = Arg[1]
      BY <3>1 DEF PutHostClient, UpdateHostClient
    <3> DEFINE first == SelectInSeq(hostPairs, LAMBDA p : p.client = Arg[1])
               x == [hostPairs[first] EXCEPT !.failAt = t, !.size = n]
               r == RemoveAt(hostPairs, first)
    <3>3. hostPairs' = Append(r, x)
      BY <3>1 DEF PutHostClient, UpdateHostClient
    <3>4. IsSeq(r)
      <4>1. hostPairs \in Seq(Addressed) /\ IsSeq(hostPairs)
        BY SeqIsSeq DEF ListsInv, IpInv
      <4>2. DOMAIN hostPairs = 1..Len(hostPairs) /\ \E k \in 1..Len(hostPairs) : hostPairs[k].client = Arg[1]
        BY <3>2, <4>1, IsSeqLen
      <4>3. first = Min({k \in 1..Len(hostPairs) : hostPairs[k].client = Arg[1]})
        BY <4>2 DEF SelectInSeq
      <4>4. first \in DOMAIN hostPairs
        BY <4>1, <4>2, <4>3, FirstOfClient
      <4> HIDE DEF first
      <4> QED
        BY <4>1, <4>4, RemoveAtIsSeq
    <3> HIDE DEF first, r, x
    <3>5. hostPairs' # <<>>
      BY <3>3, <3>4, AppendMakesMore
    <3> QED
      BY <3>2, <3>5
  <2>3. (\A s : Here(s)' <=> Here(s)) /\ (Going => Going') /\ IsSeq(waiting)'
    BY <2>1 DEF Here, KnownDp, ToSet, Going, UpdateWaits, UpdatesInv, IsSeq
  <2> QED
    BY <1>1, <2>1, <2>2, <2>3, UpdatesStay
<1>7. CASE Takes("init") /\ PutInit
  <2>1. ~isUpdating' /\ running' = Idle /\ UNCHANGED waiting
    BY <1>7 DEF PutInit, taskVars
  <2> QED
    BY <1>1, <1>7, <2>1, ClosedPrecedes DEF UpdatesInv, IsSeq
<1> QED
  BY <1>3, <1>4, <1>5, <1>6, <1>7 DEF Request

LEMMA TakenUpdates ==
  ASSUME KnowInv, UpdatesInv, NEW op, op # "pair", Takes(op), UNCHANGED CalmVars, UNCHANGED running
  PROVE  UpdatesInv'
<1>1. hostPairs = <<>> => Precedes(todo, PairStep, "disaster")'
  BY TakesPrecedes
<1>2. running = Idle /\ running'.kind # "update"
  BY DEF Takes, Idle
<1> QED
  BY <1>1, <1>2, CalmUpdates

LEMMA TimePassesUpdates ==
  ASSUME UpdateInv, UpdatesInv, TimePasses
  PROVE  UpdatesInv'
<1>1. /\ UNCHANGED <<hostPairs, isUpdating, switches, datapaths, waiting, running, todo>> /\ running = Idle
      /\ timers' = [i \in DOMAIN timers |-> IF timers[i] = 0 THEN 0 ELSE timers[i] - 1]
  BY DEF TimePasses, Tick, calcVars, taskVars
<1>2. timers # <<>> => timers' # <<>>
  <2>1. IsSeq(timers)
    BY SeqIsSeq DEF UpdateInv
  <2>2. timers # <<>> => 1 \in DOMAIN timers
    BY <2>1, TailIsSeq
  <2> QED
    BY <1>1, <2>2
<1>3. (\A s : Here(s)' <=> Here(s)) /\ (Going => Going') /\ IsSeq(waiting)'
  BY <1>1, <1>2 DEF Here, KnownDp, ToSet, Going, UpdateWaits, UpdatesInv, IsSeq
<1>4. hostPairs' = <<>> => Precedes(todo, PairStep, "disaster")'
  BY <1>1, SameTodo
<1>5. running'.kind # "update"
  BY <1>1 DEF Idle
<1> QED
  BY <1>1, <1>3, <1>4, <1>5, UpdatesStay DEF UpdatesInv

LEMMA SystemStepUpdates ==
  ASSUME OpenInv, UpdateInv, ListsInv, UpdatesInv, SystemStep
  PROVE  UpdatesInv'
<1>1. UNCHANGED todo
  BY DEF SystemStep, expVars, drvVars
<1>2. CASE TaskStep
  BY <1>1, <1>2, TaskStepUpdates
<1>3. CASE Applying \/ Noticing
  <2>1. UNCHANGED CalmVars /\ running = Idle /\ running' = Idle
    BY <1>3 DEF CalmVars, Applying, Apply, Noticing, PortStatus, taskVars, ctlVars, calcVars
  <2>2. hostPairs = <<>> => Precedes(todo, PairStep, "disaster")'
    BY <1>1, <2>1, SameTodo DEF CalmVars
  <2>3. running'.kind # "update"
    BY <2>1 DEF Idle
  <2> QED
    BY <2>1, <2>2, <2>3, CalmUpdates
<1>4. CASE Connecting
  <2>1. PICK s \in Switches : SwitchFeatures(s)
    BY <1>4 DEF Connecting
  <2>2. UNCHANGED <<hostPairs, isUpdating, waiting, timers, running>> /\ running = Idle
    BY <2>1 DEF SwitchFeatures, AddSwitch, taskVars
  <2>3. \A x : Here(x) => Here(x)'
    BY <2>1, ConnectingHere DEF OpenInv
  <2>4. (Going => Going') /\ IsSeq(waiting)' /\ running'.kind # "update"
    BY <2>2 DEF Going, UpdateWaits, UpdatesInv, IsSeq, Idle
  <2>5. hostPairs' = <<>> => Precedes(todo, PairStep, "disaster")'
    BY <1>1, <2>2, SameTodo
  <2> QED
    BY <2>2, <2>3, <2>4, <2>5, UpdatesStay DEF UpdatesInv
<1> QED
  BY <1>2, <1>3, <1>4 DEF SystemStep

LEMMA UpdatesInvStep ==
  ASSUME RunInv, OpenInv, KnowInv, ListsInv, UpdatesInv, [ExpNext]_allVars
  PROVE  UpdatesInv'
<1>1. UpdateInv
  BY DEF RunInv
<1> USE DEF calcVars, ctlVars, taskVars, netVars, drvVars, envVars, expVars
<1>2. CASE Begin
  <2>1. UNCHANGED CalmVars /\ UNCHANGED <<running, hostIp, portTo>> /\ todo' = Program
    BY <1>2 DEF Begin, vars, CalmVars, Program
  <2>2. Precedes(todo, PairStep, "disaster")'
    BY <2>1, ProgramInOrder DEF Precedes, PairStep
  <2> QED
    BY <2>1, <2>2, CalmUpdates
<1>3. CASE Interrupt
  <2>1. UNCHANGED CalmVars /\ UNCHANGED <<running, hostIp, portTo>> /\ todo' \in {<<>>, Cleanup}
    BY <1>3 DEF Interrupt, vars, CalmVars
  <2>2. \A i \in DOMAIN todo' : todo'[i].do # "disaster"
    BY <2>1, CleanupIs DEF NoDisaster
  <2>3. Precedes(todo, PairStep, "disaster")'
    BY <2>2 DEF Precedes, PairStep
  <2> QED
    BY <2>1, <2>3, CalmUpdates
<1>4. CASE Sleep
  BY <1>4, TakenUpdates DEF Sleep, vars, CalmVars
<1>5. CASE Schedule
  BY <1>5, TakenUpdates DEF Schedule, vars, CalmVars
<1>6. CASE Start
  BY <1>6, TakenUpdates DEF Start, CalmVars
<1>7. CASE Stop
  BY <1>7, TakenUpdates DEF Stop, CalmVars
<1>8. CASE Disaster
  BY <1>1, <1>8, DisasterUpdates
<1>9. CASE \E w \in DOMAIN fuse : LinkFails(w)
  <2>1. UNCHANGED CalmVars /\ UNCHANGED <<running, hostIp, portTo, todo>>
    BY <1>9 DEF LinkFails, DeletePort, CalmVars
  <2>2. hostPairs = <<>> => Precedes(todo, PairStep, "disaster")'
    BY <2>1, SameTodo DEF CalmVars
  <2> QED
    BY <2>1, <2>2, CalmUpdates
<1>10. CASE TimersFire
  BY <1>1, <1>10, TimerUpdates DEF TimersFire, Firing
<1>11. CASE UNCHANGED allVars
  <2>1. UNCHANGED CalmVars /\ UNCHANGED <<running, hostIp, portTo, todo>>
    BY <1>11 DEF allVars, vars, CalmVars
  <2>2. hostPairs = <<>> => Precedes(todo, PairStep, "disaster")'
    BY <2>1, SameTodo DEF CalmVars
  <2> QED
    BY <2>1, <2>2, CalmUpdates
<1> QED
  BY <1>1, <1>2, <1>3, <1>4, <1>5, <1>6, <1>7, <1>8, <1>9, <1>10, <1>11, RequestUpdates,
     TimePassesUpdates, SystemStepUpdates DEF ExpNext

LEMMA GoInvInit == ExpInit => GoInv
<1> SUFFICES ASSUME ExpInit PROVE GoInv
  OBVIOUS
<1>1. /\ todo = <<>> /\ ~isUpdating /\ running = Idle /\ waiting = <<>> /\ live = {}
      /\ switches = <<>> /\ hostPairs = <<>> /\ hostIp = {}
  BY DEF ExpInit, Init, CalcInit
<1>2. ListsInv
  BY <1>1, EmptySeq DEF ListsInv, IpInv
<1>3. UpdatesInv
  BY <1>1 DEF UpdatesInv, IsSeq, Precedes, Idle
<1> QED
  BY <1>2, <1>3, RunInvInit, OpenInvInit, KnowInvInit DEF GoInv

LEMMA GoInvStep == GoInv /\ [ExpNext]_allVars => GoInv'
BY RunInvStep, OpenInvStep, KnowInvStep, ListsInvStep, UpdatesInvStep DEF GoInv

LEMMA GoingIsSeen == ASSUME UpdatesInv, UpdateInv PROVE DisasterStartsUpdates
<1> DEFINE S == {i \in DOMAIN waiting : waiting[i].task.kind = "update"}
<1>1. DOMAIN waiting = 1..Len(waiting) /\ Len(waiting) \in Nat
  BY IsSeqLen DEF UpdatesInv
<1>2. IsFiniteSet(S) /\ Cardinality(S) \in Nat
  <2>1. IsFiniteSet(1..Len(waiting))
    BY <1>1, FS_Interval
  <2>2. S \subseteq 1..Len(waiting)
    BY <1>1
  <2> HIDE DEF S
  <2> QED
    BY <2>1, <2>2, FS_Subset, FS_CardinalityType
<1>3. S # {} => Cardinality(S) > 0
  <2> HIDE DEF S
  <2> QED
    BY <1>2, FS_EmptySet
<1>4. Len(timers) \in Nat /\ (timers # <<>> => Len(timers) > 0)
  <2>1. IsSeq(timers) /\ Len(timers) \in Nat /\ DOMAIN timers = 1..Len(timers)
    BY SeqIsSeq, IsSeqLen DEF UpdateInv
  <2>2. timers # <<>> => 1 \in DOMAIN timers
    BY <2>1, TailIsSeq
  <2> QED
    BY <2>1, <2>2
<1>5. Chains = Len(timers) + Cardinality(S)
  BY DEF Chains
<1>6. UpdateWaits => S # {}
  BY DEF UpdateWaits
<1> HIDE DEF S
<1> QED
  BY <1>2, <1>3, <1>4, <1>5, <1>6 DEF DisasterStartsUpdates, UpdatesInv, Going

\* From the disaster to PUT /init updates never end, in whatever experiment: a
\* pair is registered and every switch has connected before, so neither the
\* calculation nor a step of an update raises (run, start_update_path).
THEOREM DisastersStartUpdates == ExpSpec => []DisasterStartsUpdates
<1>1. GoInv => DisasterStartsUpdates
  BY GoingIsSeen DEF GoInv, RunInv
<1> QED
  BY <1>1, GoInvInit, GoInvStep, PTL DEF ExpSpec

-----------------------------------------------------------------------------
(* Failures are foreseen. *)

\* The controller knows when w fails; or it does not have to, or will be told
\* before the failures are scheduled.
KnownToFail(w) == \E l \in links : l.ends = w /\ l.failAt = failAt[w]
Dealt(w) ==
  \/ netUp /\ w \in foreseen
  \/ FailsOnUpdate(w)
  \/ KnownToFail(w)
  \/ Precedes(todo, FailStep(w), "schedule")
\* The next update comes before w fails; and w is late, if anything, compared
\* with the intervals that the updates count.
InTime(w) ==
  \/ \E i \in DOMAIN timers :
       /\ timers[i] < fuse[w]
       /\ failAt[w] - updateTimes * UpdateInterval <= fuse[w] - timers[i]
  \/ /\ running.kind = "update"
     /\ (updateTimes + 1) * UpdateInterval <= failAt[w]
     /\ failAt[w] - updateTimes * UpdateInterval <= fuse[w]
\* A failure that is scheduled is foreseen, or an update comes first that is
\* about its interval or a later one, or else is followed by another in time.
FuseInv ==
  \A w \in DOMAIN fuse :
    /\ w \in Wires /\ w \in DOMAIN failAt /\ fuse[w] \in Nat
    /\ \/ w \in foreseen
       \/ FailsOnUpdate(w)
       \/ isUpdating /\ KnownToFail(w) /\ InTime(w)
DriverDeals ==  \* the disaster is reported before, too
  /\ \A w \in ToSet(Doomed) : Dealt(w)
  /\ isUpdating \/ Precedes(todo, DisasterStep, "schedule")
Counted == isUpdating /\ timers # <<>> => updateTimes > 0 \/ MaxUpdates = 0
FailInv ==
  /\ FailuresAreForeseen /\ FuseInv /\ DriverDeals /\ Counted
  /\ \A w \in DOMAIN failAt : failAt[w] \in RandFailTimes

LEMMA DealsOn ==
  ASSUME KnowInv, DriverDeals, NEW op, op # "fail", op # "disaster", Takes(op),
         netUp => netUp', foreseen \subseteq foreseen', isUpdating => isUpdating',
         \A w : KnownToFail(w) => KnownToFail(w)'
  PROVE  DriverDeals'
<1>1. IsSeq(todo) /\ todo # <<>> /\ todo' = Tail(todo) /\ Head(todo).do = op
  BY DEF KnowInv, InPlace, Takes
<1>2. Head(todo) \notin DisasterStep /\ \A w : Head(todo) \notin FailStep(w)
  BY <1>1 DEF DisasterStep, FailStep
<1>3. Precedes(todo, DisasterStep, "schedule") => Precedes(todo', DisasterStep, "schedule")
  BY <1>1, <1>2, PrecedesGoesOn
<1>4. \A w : Precedes(todo, FailStep(w), "schedule") => Precedes(todo', FailStep(w), "schedule")
  BY <1>1, <1>2, PrecedesGoesOn
<1>5. \A w \in ToSet(Doomed) : Dealt(w) => Dealt(w)'
  BY <1>4 DEF Dealt, Precedes, FailStep, FailsOnUpdate, Takes
<1>6. Precedes(todo, DisasterStep, "schedule") => Precedes(todo, DisasterStep, "schedule")'
  BY <1>3 DEF Precedes, DisasterStep
<1> QED
  BY <1>5, <1>6 DEF DriverDeals

LEMMA DealsSame ==
  ASSUME DriverDeals, UNCHANGED <<todo, failAt>>, netUp => netUp', foreseen \subseteq foreseen',
         isUpdating => isUpdating',
         \A w \in ToSet(Doomed) :
           KnownToFail(w) => KnownToFail(w)' \/ (netUp /\ w \in foreseen) \/ FailsOnUpdate(w)
  PROVE  DriverDeals'
<1>1. \A w \in ToSet(Doomed) : Dealt(w) => Dealt(w)'
  BY DEF Dealt, Precedes, FailStep, FailsOnUpdate
<1>2. Precedes(todo, DisasterStep, "schedule") => Precedes(todo, DisasterStep, "schedule")'
  BY DEF Precedes, DisasterStep
<1> QED
  BY <1>1, <1>2 DEF DriverDeals

\* Nothing is scheduled any more.
LEMMA DealsAtLast == ASSUME \A i \in DOMAIN todo' : todo'[i].do # "schedule" PROVE DriverDeals'
<1>1. \A w \in ToSet(Doomed) : Precedes(todo, FailStep(w), "schedule")'
  BY DEF Precedes, FailStep
<1>2. Precedes(todo, DisasterStep, "schedule")'
  BY DEF Precedes, DisasterStep
<1> QED
  BY <1>1, <1>2 DEF DriverDeals, Dealt

LEMMA ClosedDeals ==
  ASSUME KnowInv, NEW op \in {"stop", "init"}, Takes(op)
  PROVE  DriverDeals'
<1>1. /\ Len(todo) <= 3 /\ IsSeq(todo) /\ todo # <<>> /\ todo' = Tail(todo)
  <2>1. ~(Len(todo) > 3)
    BY TakesIs DEF IsLater, Later
  <2> QED
    BY <2>1, TakesIs DEF KnowInv, InPlace
<1>2. \A i \in DOMAIN todo : todo[i].do \in {"stop", "init", "sleep"}
  BY <1>1 DEF KnowInv, InPlace, Closing, Closes
<1>3. \A i \in DOMAIN todo' : i + 1 \in DOMAIN todo /\ todo'[i] = todo[i + 1]
  BY <1>1, TailIsSeq
<1>4. \A i \in DOMAIN todo' : todo'[i].do # "schedule"
  BY <1>2, <1>3
<1> QED
  BY <1>4, DealsAtLast

LEMMA FailTimesAreNat ==
  ASSUME FailInv, NEW w \in DOMAIN failAt
  PROVE  /\ failAt[w] \in Nat /\ failAt[w] > UpdateInterval
         /\ failAt[w] <= MaxUpdates * UpdateInterval
<1>1. failAt[w] \in FailTimes /\ failAt[w] >= EarliestFail
  BY DEF FailInv, RandFailTimes
<1>2. failAt[w] \in Nat /\ failAt[w] <= MaxUpdates * UpdateInterval
  BY <1>1, TimeAssumption, BoundAssumption
<1> QED
  BY <1>1, <1>2, TimeAssumption, FailureAssumption

\* Steps that have nothing to do with failures.
FailVars == <<up, netUp, fuse, foreseen, failAt, timers, isUpdating, updateTimes>>
LEMMA CalmFails ==
  ASSUME FailInv, UNCHANGED FailVars, running.kind = "update" => running'.kind = "update", DriverDeals', \A w : KnownToFail(w) => KnownToFail(w)'
  PROVE  FailInv'
<1> USE DEF FailVars
<1>1. FailuresAreForeseen'
  BY DEF FailInv, FailuresAreForeseen, FailsOnUpdate
<1>2. \A w : InTime(w) => InTime(w)'
  BY DEF InTime
<1>3. FuseInv'
  BY <1>2 DEF FailInv, FuseInv, FailsOnUpdate
<1>4. Counted'
  BY DEF FailInv, Counted
<1> QED
  BY <1>1, <1>3, <1>4 DEF FailInv

LEMMA SameFailures ==
  ASSUME FailInv, UNCHANGED FailVars, UNCHANGED <<todo, links>>,
         running.kind = "update" => running'.kind = "update"
  PROVE  FailInv'
<1>1. \A w : KnownToFail(w) => KnownToFail(w)'
  BY DEF KnownToFail, FailVars
<1>2. DriverDeals'
  BY <1>1, DealsSame DEF FailInv, FailVars
<1> QED
  BY <1>1, <1>2, CalmFails

LEMMA RequestFails == ASSUME KnowInv, FailInv, Request PROVE FailInv'
<1>1. /\ UNCHANGED <<up, netUp, fuse, foreseen, failAt, timers>>
      /\ running.kind = "update" => running'.kind = "update"
  <2>1. Idle.kind # "update"
    BY DEF Idle
  <2> QED
    BY <2>1 DEF Request, Takes, PostLink, PostHostPair, PutLink, PutHostClient, PutInit, ctlVars,
                netVars, envVars
<1>2. CASE Takes("link") /\ \E bw \in Bandwidths : PostLink(Arg, bw)
  <2>1. UNCHANGED <<isUpdating, updateTimes>> /\ links \subseteq links'
    BY <1>2 DEF PostLink, AddLink
  <2>2. \A w : KnownToFail(w) => KnownToFail(w)'
    BY <1>1, <2>1 DEF KnownToFail
  <2>3. DriverDeals'
    BY <1>1, <1>2, <2>1, <2>2, DealsOn DEF FailInv
  <2> QED
    BY <1>1, <2>1, <2>2, <2>3, CalmFails DEF FailVars
<1>3. CASE Takes("pair") /\ PostHostPair(Arg[1], Arg[2])
  <2>1. UNCHANGED <<isUpdating, updateTimes, links>>
    BY <1>3 DEF PostHostPair, AddHostPair
  <2>2. \A w : KnownToFail(w) => KnownToFail(w)'
    BY <1>1, <2>1 DEF KnownToFail
  <2>3. DriverDeals'
    BY <1>1, <1>3, <2>1, <2>2, DealsOn DEF FailInv
  <2> QED
    BY <1>1, <2>1, <2>2, <2>3, CalmFails DEF FailVars
<1>4. CASE Takes("client") /\ \E t \in ClientFailTimes, n \in DataSizes : PutHostClient(Arg[1], t, n)
  <2>1. UNCHANGED <<isUpdating, updateTimes, links>>
    BY <1>4 DEF PutHostClient, UpdateHostClient, ctlVars
  <2>2. \A w : KnownToFail(w) => KnownToFail(w)'
    BY <1>1, <2>1 DEF KnownToFail
  <2>3. DriverDeals'
    BY <1>1, <1>4, <2>1, <2>2, DealsOn DEF FailInv
  <2> QED
    BY <1>1, <2>1, <2>2, <2>3, CalmFails DEF FailVars
<1>5. CASE Takes("fail") /\ PutLink(Arg, failAt[Arg])
  <2>1. /\ UNCHANGED <<isUpdating, updateTimes>> /\ Linked(Arg) /\ links \subseteq Link
        /\ links' = {IF l.ends = Arg THEN [l EXCEPT !.failAt = failAt[Arg]] ELSE l : l \in links}
    BY <1>5 DEF PutLink, RegisterLinkFailTime, ctlVars, KnowInv, PortInv
  <2>2. \A l \in links : /\ [l EXCEPT !.failAt = failAt[Arg]].ends = l.ends
                         /\ [l EXCEPT !.failAt = failAt[Arg]].failAt = failAt[Arg]
    BY <2>1 DEF Link
  <2>3. \A l \in links : \E m \in links' :
          m.ends = l.ends /\ m.failAt = IF l.ends = Arg THEN failAt[Arg] ELSE l.failAt
    BY <2>1, <2>2
  <2>4. \A w : w = Arg \/ KnownToFail(w) => KnownToFail(w)'
    <3>1. ASSUME NEW l \in links, l.ends = Arg \/ l.failAt = failAt[l.ends]
          PROVE  \E m \in links' : m.ends = l.ends /\ m.failAt = failAt[l.ends]
      BY <2>3, <3>1
    <3>2. ASSUME NEW w, w = Arg \/ KnownToFail(w)
          PROVE  \E l \in links : l.ends = w /\ (l.ends = Arg \/ l.failAt = failAt[l.ends])
      BY <2>1, <3>2 DEF KnownToFail, Linked
    <3>3. ASSUME NEW w, w = Arg \/ KnownToFail(w)
          PROVE  \E m \in links' : m.ends = w /\ m.failAt = failAt[w]
      BY <3>1, <3>2, <3>3
    <3> QED
      BY <1>1, <3>3 DEF KnownToFail
  <2>5. /\ IsSeq(todo) /\ todo # <<>> /\ todo' = Tail(todo) /\ Head(todo).do = "fail"
    BY <1>5 DEF KnowInv, InPlace, Takes
  <2>6. Precedes(todo, DisasterStep, "schedule") => Precedes(todo, DisasterStep, "schedule")'
    <3>1. Head(todo) \notin DisasterStep
      BY <2>5 DEF DisasterStep
    <3>2. Precedes(todo, DisasterStep, "schedule") => Precedes(todo', DisasterStep, "schedule")
      BY <2>5, <3>1, PrecedesGoesOn
    <3> QED
      BY <3>2 DEF Precedes, DisasterStep
  <2>7. ASSUME NEW w \in ToSet(Doomed), w # Arg, Dealt(w) PROVE Dealt(w)'
    <3>1. Head(todo) \notin FailStep(w)
      BY <2>7 DEF FailStep, Arg
    <3>2. Precedes(todo, FailStep(w), "schedule") => Precedes(todo', FailStep(w), "schedule")
      BY <2>5, <3>1, PrecedesGoesOn
    <3> QED
      BY <1>1, <2>4, <2>7, <3>2 DEF Dealt, Precedes, FailStep, FailsOnUpdate
  <2>8. \A w \in ToSet(Doomed) : Dealt(w) => Dealt(w)'
    BY <2>4, <2>7 DEF Dealt
  <2>9. DriverDeals'
    BY <2>1, <2>6, <2>8 DEF FailInv, DriverDeals
  <2> QED
    BY <1>1, <2>1, <2>4, <2>9, CalmFails DEF FailVars
<1>6. CASE Takes("init") /\ PutInit
  <2>1. ~netUp /\ DOMAIN fuse = {}
    <3>1. ~(Len(todo) > 3)
      BY <1>6, TakesIs DEF IsLater, Later
    <3> QED
      BY <1>6, <3>1, TakesIs DEF KnowInv, NetInv
  <2>2. FailuresAreForeseen' /\ FuseInv' /\ Counted'
    BY <1>1, <1>6, <2>1 DEF FailuresAreForeseen, FuseInv, Counted, PutInit
  <2>3. DriverDeals'
    BY <1>6, ClosedDeals
  <2> QED
    BY <1>1, <2>2, <2>3 DEF FailInv
<1> QED
  BY <1>2, <1>3, <1>4, <1>5, <1>6 DEF Request

\* A link whose failure is known is forgotten when a port of it is gone, and
\* then the failure has been foreseen.
LEMMA PortStatusFails ==
  ASSUME KnowInv, FailInv, NEW s \in Switches, PortStatus(s), UNCHANGED expVars
  PROVE  FailInv'
<1>1. /\ UNCHANGED FailVars /\ UNCHANGED <<todo, running>>
      /\ \A l \in links, m \in links' : l.ends = m.ends => l \in links'
  <2>1. links' = {l \in links : \A e \in {f \in portTo : f.sw = s /\ f.port = Head(notices[s])} : l.ends # {s, e.to}}
    BY DEF PortStatus
  <2> QED
    BY <2>1 DEF PortStatus, FailVars, expVars, drvVars, envVars, taskVars
<1>2. ASSUME netUp, NEW w \in Wires, KnownToFail(w)
      PROVE  KnownToFail(w)' \/ w \in foreseen \/ FailsOnUpdate(w)
  <2>1. CASE Linked(w)'
    BY <1>1, <1>2, <2>1 DEF KnownToFail, Linked, FailVars
  <2>2. CASE ~Linked(w)'
    <3>1. Linked(w)
      BY <1>2 DEF KnownToFail, Linked
    <3>2. Steady
      BY <1>2 DEF KnowInv, NetInv, Bare, KnownToFail
    <3>3. ~InOrder(w)
      BY <2>2, <3>1, <3>2, NoticeTakesGhosts DEF Steady, NoticesTrue, KnowInv, NetInv
    <3>4. w \in foreseen \/ FailsOnUpdate(w)
      BY <1>2, <3>3 DEF InOrder, FailInv, FailuresAreForeseen
    <3> QED
      BY <3>4
  <2> QED
    BY <2>1, <2>2
<1>3. CASE netUp
  <2>1. \A w \in ToSet(Doomed) : w \in Wires
    BY ScheduleAssumption DEF ToSet
  <2>2. DriverDeals'
    BY <1>1, <1>2, <1>3, <2>1, DealsSame DEF FailInv, FailVars
  <2>3. \A w : InTime(w) => InTime(w)'
    BY <1>1 DEF InTime, FailVars
  <2>4. FuseInv'
    BY <1>1, <1>2, <1>3, <2>3 DEF FailInv, FailVars, FuseInv, FailsOnUpdate
  <2>5. FailuresAreForeseen' /\ Counted'
    BY <1>1 DEF FailInv, FailVars, FailuresAreForeseen, FailsOnUpdate, Counted
  <2> QED
    BY <1>1, <2>2, <2>4, <2>5 DEF FailInv, FailVars
<1>4. CASE ~netUp
  <2>1. DOMAIN fuse = {}
    BY <1>4 DEF KnowInv, NetInv
  <2>2. DriverDeals'
    <3>1. CASE Len(todo) <= 3
      <4>1. \A i \in DOMAIN todo : todo[i].do \in {"stop", "init", "sleep"}
        BY <3>1 DEF KnowInv, InPlace, Closing, Closes
      <4>2. \A i \in DOMAIN todo' : todo'[i].do # "schedule"
        BY <1>1, <4>1
      <4> QED
        BY <4>2, DealsAtLast
    <3>2. CASE Len(todo) > 3
      <4>1. OnPlan /\ Place \in Nat
        BY <3>2 DEF KnowInv, InPlace, OnPlan, LeftAfter
      <4>2. Bare
        BY <1>4, <4>1 DEF OnPlan
      <4>3. \A w : ~KnownToFail(w)
        BY <4>2 DEF Bare, KnownToFail
      <4> QED
        BY <1>1, <4>3, DealsSame DEF FailInv, FailVars
    <3>3. Len(todo) \in Nat
      BY IsSeqLen DEF KnowInv, InPlace
    <3> QED
      BY <3>1, <3>2, <3>3
  <2>3. FailuresAreForeseen' /\ FuseInv' /\ Counted'
    BY <1>1, <1>4, <2>1 DEF FailInv, FailuresAreForeseen, FuseInv, FailVars, Counted
  <2> QED
    BY <1>1, <2>2, <2>3 DEF FailInv, FailVars
<1> QED
  BY <1>3, <1>4

\* An update that begins weighs every link that fails before the next begins.
LEMMA UpdateForesees ==
  ASSUME Foresee, updateTimes \in Nat
  PROVE  /\ foreseen \subseteq foreseen'
         /\ running'.kind = "update" =>
              \A w : /\ KnownToFail(w) /\ failAt[w] \in Nat
                     /\ failAt[w] < (updateTimes + 1) * UpdateInterval
                     => w \in foreseen'
<1>1. foreseen \subseteq foreseen' /\ (running'.kind = "update" => Weighted \subseteq foreseen')
  BY DEF Foresee
<1>2. ASSUME NEW w, KnownToFail(w), failAt[w] \in Nat, failAt[w] < (updateTimes + 1) * UpdateInterval
      PROVE  w \in Weighted
  <2>1. PICK l \in links : l.ends = w /\ l.failAt = failAt[w]
    BY <1>2 DEF KnownToFail
  <2>2. PICK n \in Nat : n = updateTimes * UpdateInterval
    BY TimeAssumption
  <2>3. (updateTimes + 1) * UpdateInterval = n + UpdateInterval
    BY <2>2, TimeAssumption
  <2>4. l.failAt \in Nat /\ l.failAt < n + UpdateInterval /\ l.failAt # Unknown
    BY <1>2, <2>1, <2>3 DEF Unknown
  <2>5. OperatingSec(l.failAt, n, UpdateInterval) < UpdateInterval
    <3>1. CASE n <= l.failAt
      <4>1. OperatingSec(l.failAt, n, UpdateInterval) = l.failAt - n
        BY <2>4, <3>1, TimeAssumption DEF OperatingSec
      <4> QED
        BY <2>4, <4>1, TimeAssumption
    <3>2. CASE ~(n <= l.failAt)
      <4>1. OperatingSec(l.failAt, n, UpdateInterval) = 0
        BY <2>4, <3>2, TimeAssumption DEF OperatingSec
      <4> QED
        BY <4>1, TimeAssumption
    <3> QED
      BY <3>1, <3>2
  <2> QED
    BY <2>1, <2>2, <2>4, <2>5 DEF Weighted
<1> QED
  BY <1>1, <1>2

LEMMA DisasterFails ==
  ASSUME GoInv, GoInv', FailInv, Disaster PROVE FailInv'
<1>0. UpdateInv /\ UpdateInv' /\ KnowInv /\ ListsInv /\ UpdatesInv
  BY DEF GoInv, RunInv
<1>1. /\ UNCHANGED <<up, netUp, fuse, failAt, timers, links, updateTimes>> /\ running = Idle /\ isUpdating' /\ Foresee
      /\ IsSeq(todo) /\ todo # <<>> /\ todo' = Tail(todo) /\ Head(todo).do = "disaster"
  BY <1>0 DEF Disaster, PostDisaster, Takes, calcVars, netVars, envVars, KnowInv, InPlace
<1>2. foreseen \subseteq foreseen' /\ \A w : KnownToFail(w)' <=> KnownToFail(w)
  BY <1>0, <1>1, UpdateForesees DEF KnownToFail, UpdateInv
<1>3. \A w : Head(todo) \notin FailStep(w)
  BY <1>1 DEF FailStep
<1>4. \A w : Precedes(todo, FailStep(w), "schedule") => Precedes(todo', FailStep(w), "schedule")
  BY <1>1, <1>3, PrecedesGoesOn
<1>5. \A w \in ToSet(Doomed) : Dealt(w) => Dealt(w)'
  BY <1>1, <1>2, <1>4 DEF Dealt, Precedes, FailStep, FailsOnUpdate
<1>6. timers = <<>> /\ timers' = <<>>
  BY <1>0, <1>1, DisasterUpdates DEF UpdateInv
<1>7. \A w : ~InTime(w)
  <2>1. Idle.kind # "update" /\ DOMAIN timers = {}
    BY <1>6 DEF Idle
  <2> QED
    BY <1>1, <2>1 DEF InTime
<1>8. FailuresAreForeseen' /\ FuseInv' /\ Counted'
  BY <1>1, <1>2, <1>6, <1>7 DEF FailInv, FailuresAreForeseen, FuseInv, FailsOnUpdate, Counted
<1> QED
  BY <1>1, <1>5, <1>8 DEF FailInv, DriverDeals

LEMMA TimerFails ==
  ASSUME GoInv, GoInv', FailInv, TimersFire PROVE FailInv'
<1>0. UpdateInv /\ UpdateInv' /\ KnowInv /\ ListsInv /\ UpdatesInv /\ updateTimes \in Nat
  BY DEF GoInv, RunInv, UpdateInv
<1>1. PICK i \in DOMAIN timers : TimerFires(i)
  BY DEF TimersFire, Firing
<1>2. /\ UNCHANGED <<up, netUp, fuse, failAt, links, isUpdating, updateTimes, todo>> /\ Foresee
      /\ running = Idle /\ timers[i] = 0
  BY <1>1 DEF TimersFire, TimerFires, calcVars, netVars, drvVars, envVars
<1>3. isUpdating => running'.kind = "update"
  BY <1>0, <1>1, <1>2, TimerUpdates
<1>4. /\ foreseen \subseteq foreseen'
      /\ running'.kind = "update" =>
           \A w : KnownToFail(w) /\ failAt[w] \in Nat /\ failAt[w] < (updateTimes + 1) * UpdateInterval
                 => w \in foreseen'
  BY <1>0, <1>2, UpdateForesees
<1>5. \A w : KnownToFail(w)' <=> KnownToFail(w)
  BY <1>2 DEF KnownToFail
<1>6. DriverDeals'
  BY <1>2, <1>4, <1>5, DealsSame DEF FailInv
<1>7. Counted'
  BY <1>0, <1>2, <1>3 DEF Counted, UpdateInv
<1>8. ASSUME NEW w \in DOMAIN fuse, isUpdating, KnownToFail(w), InTime(w)
      PROVE  w \in foreseen' \/ InTime(w)'
  <2>1. failAt[w] \in Nat
    BY FailTimesAreNat DEF FailInv, FuseInv
  <2>2. PICK n \in Nat : n = updateTimes * UpdateInterval
    BY <1>0, TimeAssumption
  <2>3. (updateTimes + 1) * UpdateInterval \in Nat
    BY <1>0, TimeAssumption
  <2>4. failAt[w] - n <= fuse[w]
    <3>1. Idle.kind # "update" /\ \A k \in DOMAIN timers : k = i
      BY <1>0, TimerRange DEF Idle
    <3>2. failAt[w] - n <= fuse[w] - timers[i]
      BY <1>2, <1>8, <2>2, <3>1 DEF InTime
    <3>3. fuse[w] \in Nat
      BY DEF FailInv, FuseInv
    <3> QED
      BY <1>2, <2>1, <3>2, <3>3
  <2>5. CASE failAt[w] < (updateTimes + 1) * UpdateInterval
    BY <1>3, <1>4, <1>8, <2>1, <2>5
  <2>6. CASE ~(failAt[w] < (updateTimes + 1) * UpdateInterval)
    <3>1. (updateTimes + 1) * UpdateInterval <= failAt[w]
      BY <2>1, <2>3, <2>6
    <3> QED
      BY <1>2, <1>3, <1>8, <2>2, <2>4, <3>1 DEF InTime
  <2> QED
    BY <2>5, <2>6
<1>9. FailuresAreForeseen' /\ FuseInv'
  BY <1>2, <1>4, <1>5, <1>8 DEF FailInv, FailuresAreForeseen, FuseInv, FailsOnUpdate
<1> QED
  BY <1>2, <1>6, <1>7, <1>9 DEF FailInv

\* The failures are scheduled when the controller knows of them and updates are
\* on their way: the next one begins before the first link fails.
LEMMA ScheduleFails ==
  ASSUME UpdateInv, KnowInv, UpdatesInv, waiting = <<>>, FailInv, Schedule PROVE FailInv'
<1>1. /\ UNCHANGED <<up, netUp, foreseen, failAt, links, isUpdating, timers, updateTimes>> /\ fuse' = failAt
      /\ IsSeq(todo) /\ todo # <<>> /\ todo' = Tail(todo) /\ Head(todo).do = "schedule" /\ running = Idle
  BY DEF Schedule, Takes, vars, calcVars, ctlVars, netVars, KnowInv, InPlace
<1>2. \A w : KnownToFail(w)' <=> KnownToFail(w)
  BY <1>1 DEF KnownToFail
<1>3. DriverDeals'
  BY <1>1, <1>2, DealsOn DEF FailInv, Schedule
<1>4. isUpdating /\ \A w \in ToSet(Doomed) : w \in foreseen \/ FailsOnUpdate(w) \/ KnownToFail(w)
  BY <1>1, PrecedesGoesOn DEF FailInv, DriverDeals, Dealt
<1>5. failAt \in [ToSet(Doomed) -> FailTimes]
  <2>1. Len(todo) > 3
    BY TakesIs DEF Schedule
  <2> QED
    BY <2>1 DEF KnowInv, InPlace, OnPlan
<1>6. timers # <<>> /\ \E i \in DOMAIN timers : timers[i] \in 0..UpdateInterval
  <2>1. timers # <<>>
    <3>1. Going /\ Idle.kind # "update"
      BY <1>4 DEF UpdatesInv, Idle
    <3> QED
      BY <1>1, <3>1 DEF Going, UpdateWaits
  <2>2. IsSeq(timers)
    BY SeqIsSeq DEF UpdateInv
  <2>3. 1 \in DOMAIN timers
    BY <2>1, <2>2, TailIsSeq
  <2> QED
    BY <2>1, <2>3, TimerRange
<1> PICK i \in DOMAIN timers : timers[i] \in 0..UpdateInterval
  BY <1>6
<1>7. ASSUME NEW w \in DOMAIN failAt
      PROVE  /\ w \in Wires /\ w \in ToSet(Doomed) /\ failAt[w] \in Nat /\ timers[i] < failAt[w]
             /\ failAt[w] - updateTimes * UpdateInterval <= failAt[w] - timers[i]
  <2>1. w \in ToSet(Doomed) /\ w \in Wires
    BY <1>5, <1>7, ScheduleAssumption DEF ToSet
  <2>2. /\ failAt[w] \in Nat /\ failAt[w] > UpdateInterval
        /\ failAt[w] <= MaxUpdates * UpdateInterval
    BY <1>7, FailTimesAreNat
  <2>3. MaxUpdates # 0
    BY <2>2, TimeAssumption
  <2>4. updateTimes \in Nat /\ updateTimes > 0
    BY <1>4, <1>6, <2>3 DEF FailInv, Counted, UpdateInv
  <2>5. PICK n \in Nat : n = updateTimes * UpdateInterval /\ n >= UpdateInterval
    BY <2>4, TimeAssumption
  <2> QED
    BY <1>6, <2>1, <2>2, <2>5, TimeAssumption
<1>8. \A w \in DOMAIN failAt : InTime(w)'
  BY <1>1, <1>6, <1>7 DEF InTime
<1>9. FuseInv'
  BY <1>1, <1>2, <1>4, <1>7, <1>8 DEF FuseInv, FailsOnUpdate
<1>10. FailuresAreForeseen' /\ Counted'
  BY <1>1 DEF FailInv, FailuresAreForeseen, FailsOnUpdate, Counted
<1> QED
  BY <1>1, <1>3, <1>9, <1>10 DEF FailInv

LEMMA LinkFailsFails ==
  ASSUME UpdateInv, FailInv, NEW w \in DOMAIN fuse, LinkFails(w) PROVE FailInv'
<1>1. /\ UNCHANGED <<netUp, foreseen, failAt, links, isUpdating, timers, updateTimes, todo>>
      /\ UNCHANGED running /\ running = Idle
      /\ DOMAIN fuse' \subseteq DOMAIN fuse /\ \A v \in DOMAIN fuse' : fuse'[v] = fuse[v]
      /\ up' = up \ {<<OneEnd(w)[1], OneEnd(w)[2]>>} \/ up' = up \ {<<OneEnd(w)[2], OneEnd(w)[1]>>}
  BY DEF LinkFails, DeletePort, drvVars, calcVars, ctlVars, taskVars, Restrict
<1>2. {OneEnd(w)[1], OneEnd(w)[2]} = w
  <2>1. \E e \in LinkPorts : {e[1], e[2]} = w
    BY WireHasPort DEF FailInv, FuseInv
  <2> QED
    BY <2>1 DEF OneEnd
<1>3. w \in foreseen \/ FailsOnUpdate(w)
  <2>1. fuse[w] = 0 /\ running.kind # "update"
    BY <1>1 DEF LinkFails, Idle
  <2>2. \A i \in DOMAIN timers : ~(timers[i] < 0)
    BY TimerRange
  <2>3. ~InTime(w)
    BY <2>1, <2>2 DEF InTime
  <2> QED
    BY <2>3 DEF FailInv, FuseInv
<1>4. \A e \in LinkPorts : e \in up /\ e \notin up' => {e[1], e[2]} = w
  <2> DEFINE o == OneEnd(w)
  <2> HIDE DEF o
  <2>1. up' = up \ {<<o[1], o[2]>>} \/ up' = up \ {<<o[2], o[1]>>}
    BY <1>1 DEF o
  <2>2. {o[1], o[2]} = w
    BY <1>2 DEF o
  <2> QED
    BY <2>1, <2>2
<1>5. FailuresAreForeseen' /\ Counted'
  BY <1>1, <1>3, <1>4 DEF FailInv, FailuresAreForeseen, FailsOnUpdate, Counted
<1>6. \A v : KnownToFail(v)' <=> KnownToFail(v)
  BY <1>1 DEF KnownToFail
<1>7. FuseInv'
  <2>1. \A v \in DOMAIN fuse' : InTime(v) => InTime(v)'
    BY <1>1 DEF InTime
  <2> QED
    BY <1>1, <1>6, <2>1 DEF FailInv, FuseInv, FailsOnUpdate
<1>8. DriverDeals'
  BY <1>1, <1>6, DealsSame DEF FailInv
<1> QED
  BY <1>1, <1>5, <1>7, <1>8 DEF FailInv

LEMMA TimePassesFails ==
  ASSUME UpdateInv, FailInv, TimePasses PROVE FailInv'
<1>1. /\ UNCHANGED <<up, netUp, foreseen, failAt, links, isUpdating, updateTimes, todo>> /\ running = Idle
      /\ timers' = [i \in DOMAIN timers |-> IF timers[i] = 0 THEN 0 ELSE timers[i] - 1]
      /\ fuse' = [w \in DOMAIN fuse |-> Down(fuse[w])]
      /\ \A i \in DOMAIN timers : timers[i] > 0
  BY DEF TimePasses, Tick, Settled, calcVars, netVars
<1>2. \A v : KnownToFail(v)' <=> KnownToFail(v)
  BY <1>1 DEF KnownToFail
<1>3. DriverDeals'
  BY <1>1, <1>2, DealsSame DEF FailInv
<1>4. ASSUME NEW w \in DOMAIN fuse, InTime(w) PROVE InTime(w)'
  <2>1. Idle.kind # "update"
    BY DEF Idle
  <2>2. PICK n \in Nat : n = updateTimes * UpdateInterval
    BY TimeAssumption DEF UpdateInv
  <2>3. PICK i \in DOMAIN timers : timers[i] < fuse[w] /\ failAt[w] - n <= fuse[w] - timers[i]
    BY <1>1, <1>4, <2>1, <2>2 DEF InTime
  <2>4. timers[i] \in Nat /\ timers[i] > 0 /\ fuse[w] \in Nat /\ failAt[w] \in Nat
    BY <1>1, TimerRange, FailTimesAreNat DEF FailInv, FuseInv
  <2>5. timers'[i] = timers[i] - 1 /\ fuse'[w] = fuse[w] - 1
    BY <1>1, <2>3, <2>4 DEF Down
  <2>6. timers'[i] < fuse'[w] /\ failAt[w] - n <= fuse'[w] - timers'[i]
    BY <2>3, <2>4, <2>5
  <2>7. i \in DOMAIN timers' /\ n = (updateTimes * UpdateInterval)' /\ failAt' = failAt
    BY <1>1, <2>2
  <2> QED
    BY <2>6, <2>7 DEF InTime
<1>5. \A w \in DOMAIN fuse : fuse'[w] \in Nat
  BY <1>1 DEF FailInv, FuseInv, Down
<1>6. DOMAIN fuse' = DOMAIN fuse
  BY <1>1
<1>7. FuseInv'
  BY <1>1, <1>2, <1>4, <1>5, <1>6 DEF FailInv, FuseInv, FailsOnUpdate
<1>8. timers' # <<>> => timers # <<>>
  <2>1. DOMAIN timers = {} => DOMAIN timers' = {}
    BY <1>1
  <2>2. timers = <<>> => timers' = <<>>
    <3>1. ASSUME timers = <<>> PROVE timers' = <<>>
      <4>1. DOMAIN timers = {} /\ \A f : f = [i \in {} |-> IF timers[i] = 0 THEN 0 ELSE timers[i] - 1] => f = <<>>
        BY <3>1
      <4> QED
        BY <1>1, <4>1
    <3> QED
      BY <3>1
  <2> QED
    BY <2>2
<1>9. FailuresAreForeseen' /\ Counted'
  BY <1>1, <1>8 DEF FailInv, FailuresAreForeseen, FailsOnUpdate, Counted
<1> QED
  BY <1>1, <1>3, <1>7, <1>9 DEF FailInv

LEMMA StartFails == ASSUME KnowInv, FailInv, Start PROVE FailInv'
<1>1. /\ netUp' /\ up' = LinkPorts /\ UNCHANGED <<fuse, failAt, links, isUpdating, timers, updateTimes>>
      /\ Takes("start") /\ IsSeq(todo) /\ todo # <<>> /\ todo' = Tail(todo) /\ Head(todo).do = "start"
  BY DEF Start, Takes, calcVars, ctlVars, KnowInv, InPlace
<1>2. ~netUp /\ Bare
  <2>1. Len(todo) > 3
    BY <1>1, TakesIs
  <2>2. OnPlan /\ Place = 0
    BY <1>1, <2>1, TakesIs
  <2> QED
    BY <2>2 DEF OnPlan
<1>3. \A w \in ToSet(Doomed) : FailsOnUpdate(w) \/ Precedes(todo, FailStep(w), "schedule")
  BY <1>2 DEF FailInv, DriverDeals, Dealt, KnownToFail, Bare
<1>4. Head(todo) \notin DisasterStep /\ \A w : Head(todo) \notin FailStep(w)
  BY <1>1 DEF DisasterStep, FailStep
<1>5. \A w \in ToSet(Doomed) : FailsOnUpdate(w) \/ Precedes(todo', FailStep(w), "schedule")
  BY <1>1, <1>3, <1>4, PrecedesGoesOn
<1>6. Precedes(todo, DisasterStep, "schedule") => Precedes(todo', DisasterStep, "schedule")
  BY <1>1, <1>4, PrecedesGoesOn
<1>7. DriverDeals'
  BY <1>1, <1>5, <1>6 DEF FailInv, DriverDeals, Dealt, Precedes, DisasterStep, FailStep,
                              FailsOnUpdate
<1>8. FailuresAreForeseen' /\ FuseInv' /\ Counted'
  BY <1>1, <1>2 DEF FailInv, FailuresAreForeseen, FuseInv, Bare, Counted
<1> QED
  BY <1>1, <1>7, <1>8 DEF FailInv

LEMMA StopFails == ASSUME KnowInv, FailInv, Stop PROVE FailInv'
<1>1. /\ ~netUp' /\ fuse' = <<>> /\ Takes("stop")
      /\ UNCHANGED <<failAt, isUpdating, timers, updateTimes>>
  BY DEF Stop, Takes, ctlVars
<1>2. FailuresAreForeseen' /\ FuseInv' /\ Counted'
  BY <1>1 DEF FailInv, FailuresAreForeseen, FuseInv, Counted
<1>3. DriverDeals'
  BY <1>1, ClosedDeals
<1> QED
  BY <1>1, <1>2, <1>3 DEF FailInv

LEMMA BeginFails == ASSUME KnowInv, FailInv, Begin PROVE FailInv'
<1>1. /\ UNCHANGED <<up, netUp, fuse, foreseen, links, isUpdating, timers, updateTimes>>
      /\ todo' = Program /\ failAt' \in [ToSet(Doomed) -> RandFailTimes] /\ todo = <<>>
  BY DEF Begin, Program, vars, calcVars, ctlVars, netVars, envVars
<1>2. DriverDeals'
  BY <1>1, ProgramInOrder DEF DriverDeals, Dealt, Precedes, DisasterStep, FailStep
<1>3. ~netUp /\ DOMAIN fuse = {}
  <2>1. Len(todo) <= 3 /\ ~Has(todo, "stop")
    BY <1>1 DEF Has
  <2> QED
    BY <2>1 DEF KnowInv, InPlace, Closing, NetInv
<1>4. FailuresAreForeseen' /\ FuseInv' /\ Counted'
  BY <1>1, <1>3 DEF FailInv, FailuresAreForeseen, FuseInv, Counted
<1> QED
  BY <1>1, <1>2, <1>4 DEF FailInv

\* The update that ends did not weigh the links that fail after the interval
\* it was about; the next one comes before they fail.
LEMMA FinishUpdateFails ==
  ASSUME UpdateInv, FailInv, FinishUpdate, UNCHANGED expVars
  PROVE  FailInv'
<1>1. /\ UNCHANGED <<up, netUp, fuse, foreseen, failAt, isUpdating, links, todo>>
      /\ timers = <<>> /\ timers' = Append(timers, UpdateInterval) /\ updateTimes \in Nat
      /\ updateTimes' = CountUp(updateTimes, MaxUpdates)
  BY DEF FinishUpdate, UpdateInv, calcVars, ctlVars, netVars, expVars, drvVars, envVars
<1>2. \A w : KnownToFail(w)' <=> KnownToFail(w)
  BY <1>1 DEF KnownToFail
<1>3. DriverDeals'
  BY <1>1, <1>2, DealsSame DEF FailInv
<1>4. Counted'
  <2>1. CountUp(updateTimes, MaxUpdates) > 0 \/ MaxUpdates = 0
    BY <1>1, TimeAssumption DEF CountUp
  <2> QED
    BY <1>1, <2>1 DEF Counted
<1>5. ASSUME NEW w \in DOMAIN fuse, ~FailsOnUpdate(w), InTime(w) PROVE InTime(w)'
  <2>1. /\ failAt[w] \in Nat /\ failAt[w] <= MaxUpdates * UpdateInterval /\ fuse[w] \in Nat
        /\ UpdateInterval \in Nat \ {0} /\ MaxUpdates \in Nat
    BY FailTimesAreNat, TimeAssumption DEF FailInv, FuseInv
  <2>2. /\ (updateTimes + 1) * UpdateInterval <= failAt[w]
        /\ failAt[w] - updateTimes * UpdateInterval <= fuse[w]
    BY <1>1, <1>5 DEF InTime
  <2>3. updateTimes < MaxUpdates
    <3>1. SUFFICES ASSUME MaxUpdates <= updateTimes PROVE FALSE
      BY <1>1, <2>1
    <3>2. PICK d \in Nat : updateTimes = MaxUpdates + d
      <4>1. updateTimes - MaxUpdates \in Nat /\ updateTimes = MaxUpdates + (updateTimes - MaxUpdates)
        BY <1>1, <2>1, <3>1
      <4> QED
        BY <4>1
    <3>3. PICK x \in Nat, y \in Nat : x = MaxUpdates * UpdateInterval /\ y = d * UpdateInterval
      BY <2>1
    <3>4. (updateTimes + 1) * UpdateInterval = x + y + UpdateInterval
      BY <2>1, <3>2, <3>3
    <3> QED
      BY <2>1, <2>2, <3>3, <3>4
  <2>4. updateTimes' = updateTimes + 1 /\ updateTimes + 1 \in 1..MaxUpdates
    BY <1>1, <2>1, <2>3 DEF CountUp
  <2>5. failAt[w] # (updateTimes + 1) * UpdateInterval
    BY <1>5, <2>4 DEF FailsOnUpdate
  <2>6. PICK n \in Nat : n = updateTimes * UpdateInterval
    BY <1>1, <2>1
  <2>7. (updateTimes + 1) * UpdateInterval = n + UpdateInterval
    BY <1>1, <2>1, <2>6
  <2>8. /\ UpdateInterval < fuse[w]
        /\ failAt[w] - (updateTimes + 1) * UpdateInterval <= fuse[w] - UpdateInterval
    BY <2>1, <2>2, <2>5, <2>6, <2>7
  <2>9. 1 \in DOMAIN timers' /\ timers'[1] = UpdateInterval
    BY <1>1, <2>1
  <2>10. (updateTimes * UpdateInterval)' = (updateTimes + 1) * UpdateInterval
    BY <2>4
  <2> QED
    BY <1>1, <2>8, <2>9, <2>10 DEF InTime
<1>6. FailuresAreForeseen' /\ FuseInv'
  BY <1>1, <1>2, <1>5 DEF FailInv, FailuresAreForeseen, FuseInv, FailsOnUpdate
<1> QED
  BY <1>1, <1>3, <1>4, <1>6 DEF FailInv

LEMMA TaskStepFails ==
  ASSUME UpdateInv, UpdatesInv, FailInv, TaskStep, UNCHANGED expVars, waiting' = <<>>
  PROVE  FailInv'
<1>1. CASE ~FinishUpdate
  <2>1. UNCHANGED FailVars /\ UNCHANGED <<links, todo>>
    BY <1>1 DEF TaskStep, TakeStep, Wait, Raise, FinishHosts, calcVars, ctlVars, netVars,
                expVars, drvVars, envVars, FailVars
  <2>2. running.kind = "update" => running'.kind = "update"
    <3>1. CASE TakeStep
      BY <3>1, TasksAre DEF TakeStep, UpdateInv
    <3>2. CASE Wait
      <4>1. \E x : waiting' = Append(waiting, x)
        BY <3>2 DEF Wait
      <4> QED
        BY <4>1, AppendMakesMore DEF UpdatesInv
    <3>3. CASE Raise
      <4>1. ASSUME running.kind = "update" PROVE FALSE
        <5>1. Able(running.todo) /\ running.todo # <<>> /\ Fails(Head(running.todo))
          BY <3>3, <4>1 DEF Raise, UpdatesInv
        <5>2. IsSeq(running.todo) /\ 1 \in DOMAIN running.todo /\ Head(running.todo) = running.todo[1]
          BY <5>1, TailIsSeq DEF Able
        <5> QED
          BY <5>1, <5>2 DEF Able
      <4> QED
        BY <4>1
    <3>4. CASE FinishHosts
      BY <3>4 DEF FinishHosts
    <3> QED
      BY <1>1, <3>1, <3>2, <3>3, <3>4 DEF TaskStep
  <2> QED
    BY <2>1, <2>2, SameFailures
<1> QED
  BY <1>1, FinishUpdateFails

LEMMA FailInvStep ==
  ASSUME GoInv, GoInv', waiting = <<>>, waiting' = <<>>, FailInv, [ExpNext]_allVars
  PROVE  FailInv'
<1>1. UpdateInv /\ KnowInv /\ ListsInv /\ UpdatesInv
  BY DEF GoInv, RunInv
<1> USE DEF calcVars, ctlVars, taskVars, netVars, drvVars, envVars, expVars
<1>2. CASE Interrupt
  <2>1. UNCHANGED FailVars /\ UNCHANGED <<links, running>> /\ todo' \in {<<>>, Cleanup}
    BY <1>2 DEF Interrupt, vars, FailVars
  <2>2. \A i \in DOMAIN todo' : todo'[i].do # "schedule"
    <3>1. \A i \in DOMAIN Cleanup : i = 1 \/ i = 2
      BY CleanupIs
    <3> QED
      BY <2>1, <3>1, CleanupIs
  <2>3. DriverDeals' /\ \A w : KnownToFail(w) => KnownToFail(w)'
    BY <2>1, <2>2, DealsAtLast DEF KnownToFail, FailVars
  <2> QED
    BY <2>1, <2>3, CalmFails
<1>3. CASE Sleep
  <2>1. UNCHANGED FailVars /\ UNCHANGED <<links, running>> /\ Takes("sleep")
    BY <1>3 DEF Sleep, Takes, vars, FailVars
  <2>2. \A w : KnownToFail(w) => KnownToFail(w)'
    BY <2>1 DEF KnownToFail, FailVars
  <2>3. DriverDeals'
    BY <1>1, <2>1, <2>2, DealsOn DEF FailInv, FailVars
  <2> QED
    BY <2>1, <2>2, <2>3, CalmFails
<1>4. CASE SystemStep
  <2>1. CASE TaskStep
    BY <1>1, <1>4, <2>1, TaskStepFails DEF SystemStep
  <2>2. CASE Applying \/ Connecting
    <3>1. UNCHANGED FailVars /\ UNCHANGED <<todo, links, running>>
      BY <1>4, <2>2 DEF SystemStep, Applying, Apply, Connecting, SwitchFeatures, AddSwitch, FailVars
    <3> QED
      BY <3>1, SameFailures
  <2>3. CASE Noticing
    BY <1>1, <1>4, <2>3, PortStatusFails DEF SystemStep, Noticing
  <2> QED
    BY <1>4, <2>1, <2>2, <2>3 DEF SystemStep
<1>5. CASE UNCHANGED allVars
  <2>1. UNCHANGED FailVars /\ UNCHANGED <<todo, links, running>>
    BY <1>5 DEF allVars, vars, FailVars
  <2> QED
    BY <2>1, SameFailures
<1>6. CASE \E w \in DOMAIN fuse : LinkFails(w)
  BY <1>1, <1>6, LinkFailsFails
<1> QED
  BY <1>1, <1>2, <1>3, <1>4, <1>5, <1>6, BeginFails, RequestFails, DisasterFails, StartFails, StopFails,
     ScheduleFails, TimerFails, TimePassesFails DEF ExpNext

\* A flow that waits for a queue waits for good, in an experiment.
LEMMA WaitingStays == ASSUME UpdatesInv, waiting # <<>>, [ExpNext]_allVars PROVE waiting' # <<>>
<1> USE DEF calcVars, ctlVars, taskVars, netVars, drvVars, envVars, expVars
<1>1. CASE Begin \/ Interrupt \/ Sleep \/ Start \/ Stop \/ Schedule
  BY <1>1 DEF Begin, Interrupt, Sleep, Start, Stop, Schedule, vars
<1>2. CASE Request
  BY <1>2 DEF Request, PostLink, PostHostPair, PutLink, PutHostClient, PutInit
<1>3. CASE Disaster \/ TimersFire
  BY <1>3 DEF Disaster, PostDisaster, TimersFire, Firing, TimerFires
<1>4. CASE TimePasses \/ \E w \in DOMAIN fuse : LinkFails(w)
  BY <1>4 DEF TimePasses, Tick, LinkFails, DeletePort
<1>5. CASE Wait
  <2>1. \E x : waiting' = Append(waiting, x)
    BY <1>5 DEF Wait
  <2> QED
    BY <2>1, AppendMakesMore DEF UpdatesInv
<1>6. CASE SystemStep /\ ~Wait
  BY <1>6 DEF SystemStep, TaskStep, TakeStep, Raise, FinishUpdate, FinishHosts, Applying, Apply,
              Noticing, PortStatus, Connecting, SwitchFeatures
<1>7. CASE UNCHANGED allVars
  BY <1>7 DEF allVars, vars
<1> QED
  BY <1>1, <1>2, <1>3, <1>4, <1>5, <1>6, <1>7 DEF ExpNext

LEMMA FailInvInit == ExpInit => FailInv
<1> SUFFICES ASSUME ExpInit PROVE FailInv
  OBVIOUS
<1>1. todo = <<>> /\ ~netUp /\ fuse = <<>> /\ failAt = <<>>
  BY DEF ExpInit
<1>2. DOMAIN fuse = {} /\ DOMAIN failAt = {} /\ DOMAIN todo = {}
  BY <1>1
<1>3. DriverDeals
  BY <1>2 DEF DriverDeals, Dealt, Precedes
<1>4. ~isUpdating
  BY DEF ExpInit, Init
<1> QED
  BY <1>1, <1>2, <1>3, <1>4 DEF FailInv, FailuresAreForeseen, FuseInv, Counted

\* When a port is gone in an experiment an update has been computed that
\* expected less of the link for its failure, unless a flow has had to wait for a
\* queue, or the link fails on the second of an update: the first failure leaves
\* time for the update after the failures were registered, and the update whose
\* interval the failure is in begins before it (__rand_link_fail_time,
\* __UPDATE_INTERVAL_SEC, __calc_takahira).
THEOREM FailuresForeseen == ExpSpec => [](waiting = <<>> => FailuresAreForeseen)
<1> DEFINE Inv == GoInv /\ (waiting = <<>> => FailInv)
<1>1. ExpInit => Inv
  BY GoInvInit, FailInvInit
<1>2. Inv /\ [ExpNext]_allVars => Inv'
  <2> SUFFICES ASSUME Inv, [ExpNext]_allVars PROVE Inv'
    OBVIOUS
  <2>1. GoInv'
    BY GoInvStep
  <2>2. CASE waiting = <<>> /\ waiting' = <<>>
    BY <2>1, <2>2, FailInvStep
  <2>3. CASE waiting # <<>>
    BY <2>1, <2>3, WaitingStays DEF GoInv
  <2> QED
    BY <2>1, <2>2, <2>3
<1>3. Inv => (waiting = <<>> => FailuresAreForeseen)
  BY DEF FailInv
<1> QED
  BY <1>1, <1>2, <1>3, PTL DEF ExpSpec
=============================================================================
