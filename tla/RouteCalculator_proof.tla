----------------------- MODULE RouteCalculator_proof -----------------------
(***************************************************************************)
(* Proofs about RouteCalculator, for every network and every length of the *)
(* update interval: types, that predictions of consecutive intervals fit   *)
(* together, that no registration is lost, in which order the pairs are    *)
(* served, and what of their routes holds on every graph: that they keep   *)
(* to the part of the network they start in, take no link twice, and what  *)
(* they take of a link.                                                    *)
(*                                                                         *)
(* The calculation consists of folds over sequences.  What a fold computes *)
(* is proved by going from the first position to the last (UpTo): there    *)
(* is no position that is the first one to fail.                           *)
(***************************************************************************)
EXTENDS RouteCalculator, SequenceTheorems, FiniteSetTheorems, WellFoundedInduction, TLAPS

-----------------------------------------------------------------------------
(* Sequences. *)

\* A nonempty set of positions has a first one.
LEMMA FirstIsIn ==
  ASSUME NEW T \in SUBSET Nat, T # {}
  PROVE  Min(T) \in T /\ \A n \in T : Min(T) <= n
<1> DEFINE less == {e \in Nat \X Nat : e[1] < e[2]}
<1>1. IsWellFoundedOn(less, Nat)
  <2>1. less = OpToRel(<, Nat)
    BY DEF OpToRel
  <2> QED
    BY <2>1, NatLessThanWellFounded
<1>2. PICK x \in T : \A y \in T : ~ (<<y, x>> \in less)
  BY <1>1, WFMin
<1>3. ASSUME NEW y \in T PROVE x <= y
  <2>1. <<y, x>> \in Nat \X Nat /\ <<y, x>> \notin less
    BY <1>2
  <2>2. ~(y < x)
    BY <2>1
  <2> QED
    BY <2>2
<1> QED
  BY <1>3 DEF Min

\* Removing a position leaves a sequence of the same elements.
LEMMA RemoveAtType ==
  ASSUME NEW S, NEW s \in Seq(S), NEW i \in 1..Len(s)
  PROVE  RemoveAt(s, i) \in Seq(S)
<1>1. \A k \in 1..Len(s) : s[k] \in S
  BY ElementOfSeq
<1>2. SubSeq(s, 1, i - 1) \in Seq(S)
  BY <1>1, SubSeqProperties
<1>3. SubSeq(s, i + 1, Len(s)) \in Seq(S)
  BY <1>1, SubSeqProperties
<1> QED
  BY <1>2, <1>3, ConcatProperties DEF RemoveAt

\* The first pair of a client is one of the list.
LEMMA FirstOfClient ==
  ASSUME NEW S, NEW s \in Seq(S), NEW h, \E k \in 1..Len(s) : s[k].client = h
  PROVE  Min({k \in 1..Len(s) : s[k].client = h}) \in 1..Len(s)
<1> DEFINE T == {k \in 1..Len(s) : s[k].client = h}
<1>1. T \in SUBSET Nat /\ T # {}
  OBVIOUS
<1> QED
  BY <1>1, FirstIsIn

LEMMA RemoveFirstType ==
  ASSUME NEW S, NEW s \in Seq(S), NEW e
  PROVE  RemoveFirst(s, e) \in Seq(S)
<1> DEFINE T == {k \in 1..Len(s) : s[k] = e}
<1>1. CASE T # {}
  <2>1. T \in SUBSET Nat
    OBVIOUS
  <2>2. Min(T) \in T
    BY <1>1, <2>1, FirstIsIn
  <2>3. RemoveFirst(s, e) = RemoveAt(s, Min(T))
    BY <1>1 DEF RemoveFirst, SelectInSeq
  <2> QED
    BY <2>2, <2>3, RemoveAtType
<1>2. CASE T = {}
  BY <1>2 DEF RemoveFirst
<1> QED
  BY <1>1, <1>2

\* What is known of a sequence whose type is.
LEMMA SeqFacts ==
  ASSUME NEW S, NEW s \in Seq(S)
  PROVE  /\ Len(s) \in Nat /\ DOMAIN s = 1..Len(s)
         /\ \A i \in 1..Len(s) : s[i] \in S /\ s[i] \in ToSet(s)
<1>1. Len(s) \in Nat /\ DOMAIN s = 1..Len(s)
  BY LenProperties
<1>2. \A i \in 1..Len(s) : s[i] \in S
  BY ElementOfSeq
<1> QED
  BY <1>1, <1>2 DEF ToSet

\* A sequence of whatever is one of its own elements.
IsSeq(q) == q \in Seq(ToSet(q))

LEMMA SeqIsSeq == ASSUME NEW S, NEW q \in Seq(S) PROVE IsSeq(q)
<1>1. /\ Len(q) \in Nat /\ q \in [1..Len(q) -> S] /\ DOMAIN q = 1..Len(q)
  BY LenProperties
<1>2. q \in [1..Len(q) -> ToSet(q)]
  BY <1>1 DEF ToSet
<1> QED
  BY <1>1, <1>2, SeqDef DEF IsSeq

LEMMA IsSeqLen ==
  ASSUME NEW q, IsSeq(q)
  PROVE  Len(q) \in Nat /\ DOMAIN q = 1..Len(q)
BY LenProperties DEF IsSeq

LEMMA AppendIsSeq ==
  ASSUME NEW q, IsSeq(q), NEW x
  PROVE  /\ IsSeq(Append(q, x)) /\ Len(Append(q, x)) = Len(q) + 1
         /\ DOMAIN Append(q, x) = 1..(Len(q) + 1)
         /\ Append(q, x)[Len(q) + 1] = x
         /\ \A i \in DOMAIN q : i < Len(q) + 1 /\ Append(q, x)[i] = q[i]
<1> DEFINE S == ToSet(q) \union {x}
<1>1. q \in Seq(S) /\ x \in S /\ Len(q) \in Nat /\ DOMAIN q = 1..Len(q)
  BY SeqMonotonic, IsSeqLen DEF IsSeq
<1>2. /\ Append(q, x) \in Seq(S) /\ Len(Append(q, x)) = Len(q) + 1
      /\ \A i \in 1..Len(q) : Append(q, x)[i] = q[i]
      /\ Append(q, x)[Len(q) + 1] = x
  BY <1>1, AppendProperties
<1>3. IsSeq(Append(q, x))
  BY <1>2, SeqIsSeq
<1>4. DOMAIN Append(q, x) = 1..(Len(q) + 1)
  BY <1>2, <1>3, IsSeqLen
<1> QED
  BY <1>1, <1>2, <1>3, <1>4

LEMMA TailIsSeq ==
  ASSUME NEW q, IsSeq(q), q # <<>>
  PROVE  /\ IsSeq(Tail(q)) /\ 1 \in DOMAIN q /\ Head(q) = q[1]
         /\ DOMAIN Tail(q) = 1..(Len(q) - 1)
         /\ \A i \in DOMAIN Tail(q) : i + 1 \in DOMAIN q /\ Tail(q)[i] = q[i + 1]
<1>1. q \in Seq(ToSet(q)) /\ Len(q) \in Nat /\ DOMAIN q = 1..Len(q)
  BY IsSeqLen DEF IsSeq
<1>2. Len(q) # 0
  BY <1>1, EmptySeq
<1>3. /\ Tail(q) \in Seq(ToSet(q)) /\ Len(Tail(q)) = Len(q) - 1
      /\ \A i \in 1..Len(Tail(q)) : Tail(q)[i] = q[i + 1]
  BY <1>1, HeadTailProperties
<1>4. IsSeq(Tail(q)) /\ DOMAIN Tail(q) = 1..(Len(q) - 1)
  BY <1>3, SeqIsSeq, IsSeqLen
<1> QED
  BY <1>1, <1>2, <1>3, <1>4

\* What comes after the removed place moves up by one; the order stays.
Shift(i, k) == IF k < i THEN k ELSE k + 1
LEMMA RemoveAtIsSeq ==
  ASSUME NEW q, IsSeq(q), NEW i \in DOMAIN q
  PROVE  /\ IsSeq(RemoveAt(q, i))
         /\ DOMAIN RemoveAt(q, i) = 1..(Len(q) - 1)
         /\ \A k \in DOMAIN RemoveAt(q, i) : /\ Shift(i, k) \in DOMAIN q \ {i}
                                            /\ RemoveAt(q, i)[k] = q[Shift(i, k)]
<1> DEFINE S == ToSet(q)
           front == SubSeq(q, 1, i - 1)
           back == SubSeq(q, i + 1, Len(q))
<1>1. q \in Seq(S) /\ Len(q) \in Nat /\ DOMAIN q = 1..Len(q)
  BY IsSeqLen DEF IsSeq
<1>2. \A k \in 1..Len(q) : q[k] \in S
  BY <1>1, ElementOfSeq
<1>3. front \in Seq(S) /\ Len(front) = i - 1 /\ \A k \in 1..(i - 1) : front[k] = q[k]
  BY <1>1, <1>2, SubSeqProperties
<1>4. /\ back \in Seq(S) /\ Len(back) = Len(q) - i
      /\ \A k \in 1..(Len(q) - i) : back[k] = q[i + k]
  BY <1>1, <1>2, SubSeqProperties
<1> DEFINE r == front \o back
<1>5. i \in 1..Len(q) /\ i - 1 + (Len(q) - i) = Len(q) - 1
  BY <1>1
<1> HIDE DEF front, back, S
<1>6. /\ r \in Seq(S) /\ Len(r) = Len(front) + Len(back)
      /\ \A k \in 1..(Len(front) + Len(back)) :
           r[k] = IF k <= Len(front) THEN front[k] ELSE back[k - Len(front)]
  BY <1>3, <1>4, ConcatProperties
<1> HIDE DEF r
<1>7. /\ r \in Seq(S) /\ Len(r) = Len(q) - 1
      /\ \A k \in 1..(Len(q) - 1) : r[k] = IF k <= i - 1 THEN front[k] ELSE back[k - (i - 1)]
  BY <1>5, <1>6, <1>3, <1>4
<1>8. IsSeq(r) /\ DOMAIN r = 1..(Len(q) - 1)
  BY <1>7, SeqIsSeq, IsSeqLen
<1>9. \A k \in 1..(Len(q) - 1) : r[k] = q[Shift(i, k)] /\ Shift(i, k) \in DOMAIN q \ {i}
  <2> SUFFICES ASSUME NEW k \in 1..(Len(q) - 1)
               PROVE  r[k] = q[Shift(i, k)] /\ Shift(i, k) \in DOMAIN q \ {i}
    OBVIOUS
  <2>1. CASE k < i
    <3>1. k \in 1..(i - 1) /\ k \in 1..Len(q)
      BY <1>1, <2>1
    <3> QED
      BY <1>1, <1>3, <1>7, <2>1, <3>1 DEF Shift
  <2>2. CASE ~(k < i)
    <3>1. k - (i - 1) \in 1..(Len(q) - i) /\ i + (k - (i - 1)) = k + 1 /\ k + 1 \in 1..Len(q)
      BY <1>1, <2>2
    <3>2. ~(k <= i - 1) /\ k + 1 # i
      BY <1>1, <2>2
    <3>3. r[k] = back[k - (i - 1)]
      BY <1>7, <3>2
    <3> QED
      BY <1>1, <1>4, <2>2, <3>1, <3>2, <3>3 DEF Shift
  <2> QED
    BY <2>1, <2>2
<1> QED
  BY <1>8, <1>9 DEF RemoveAt, front, back, r
-----------------------------------------------------------------------------
(* Types. *)

LEMMA LinksType ==
  ASSUME CalcTypeOK, [CalcNext]_calcVars
  PROVE  links' \in SUBSET Link
<1> USE DEF CalcTypeOK, Link, calcVars
<1>1. ASSUME NEW w \in Wires, NEW bw \in Bandwidths, AddLink(w, bw) PROVE links' \in SUBSET Link
  BY <1>1 DEF AddLink
<1>2. ASSUME NEW w \in Wires, NEW t \in FailTimes, RegisterLinkFailTime(w, t)
      PROVE  links' \in SUBSET Link
  BY <1>2 DEF RegisterLinkFailTime
<1>3. ASSUME NEW w \in Wires, RmLink(w) PROVE links' \in SUBSET Link
  BY <1>3 DEF RmLink
<1>4. ASSUME NEW s \in Switches, RmSwitch(s) PROVE links' \in SUBSET Link
  BY <1>4 DEF RmSwitch
<1>5. CASE CalcReset
  BY <1>5 DEF CalcReset
<1>6. CASE UNCHANGED links
  BY <1>6
<1> QED
  BY <1>1, <1>2, <1>3, <1>4, <1>5, <1>6 DEF CalcNext, AddSwitch, AddHostPair, UpdateHostClient

LEMMA SwitchesType ==
  ASSUME CalcTypeOK, [CalcNext]_calcVars
  PROVE  switches' \in Seq(Switches)
<1> USE DEF CalcTypeOK
<1>1. ASSUME NEW s \in Switches, AddSwitch(s) PROVE switches' \in Seq(Switches)
  BY <1>1, AppendProperties DEF AddSwitch
<1>2. ASSUME NEW s \in Switches, RmSwitch(s) PROVE switches' \in Seq(Switches)
  BY <1>2, RemoveFirstType DEF RmSwitch
<1>3. CASE CalcReset
  BY <1>3, EmptySeq DEF CalcReset
<1>4. CASE UNCHANGED switches
  BY <1>4
<1> QED
  BY <1>1, <1>2, <1>3, <1>4
     DEF CalcNext, calcVars, AddLink, RegisterLinkFailTime, RmLink, AddHostPair, UpdateHostClient

LEMMA AddHostPairType ==
  ASSUME NEW c \in Hosts, NEW v \in Hosts, CalcTypeOK, AddHostPair(c, v)
  PROVE  hostPairs' \in Seq(HostPair)
<1>1. [client |-> c, server |-> v, failAt |-> Unknown, size |-> Unknown] \in HostPair
  BY DEF HostPair
<1> QED
  BY <1>1, AppendProperties DEF AddHostPair, CalcTypeOK

\* update_host_client moves a pair and sets its data; what does not depend on
\* these is true of all pairs before and after.
LEMMA UpdateHostClientKeeps ==
  ASSUME NEW h \in Hosts, NEW t \in ClientFailTimes, NEW size \in DataSizes,
         UpdateHostClient(h, t, size), NEW S, hostPairs \in Seq(S),
         \A p \in S : [p EXCEPT !.failAt = t, !.size = size] \in S
  PROVE  hostPairs' \in Seq(S)
<1> DEFINE first == SelectInSeq(hostPairs, LAMBDA p : p.client = h)
           moved == [hostPairs[first] EXCEPT !.failAt = t, !.size = size]
<1>1. DOMAIN hostPairs = 1..Len(hostPairs) /\ Len(hostPairs) \in Nat
  BY LenProperties
<1>2. first \in 1..Len(hostPairs)
  <2>1. \E k \in 1..Len(hostPairs) : hostPairs[k].client = h
    BY <1>1 DEF UpdateHostClient
  <2>2. first = Min({k \in 1..Len(hostPairs) : hostPairs[k].client = h})
    BY <2>1 DEF SelectInSeq
  <2> QED
    BY <2>1, <2>2, FirstOfClient
<1>3. moved \in S
  BY <1>2, ElementOfSeq
<1>4. RemoveAt(hostPairs, first) \in Seq(S)
  BY <1>2, RemoveAtType
<1>5. hostPairs' = Append(RemoveAt(hostPairs, first), moved)
  BY DEF UpdateHostClient
<1> QED
  BY <1>3, <1>4, <1>5, AppendProperties

LEMMA UpdateHostClientType ==
  ASSUME NEW h \in Hosts, NEW t \in ClientFailTimes, NEW size \in DataSizes,
         CalcTypeOK, UpdateHostClient(h, t, size)
  PROVE  hostPairs' \in Seq(HostPair)
<1>1. \A p \in HostPair : [p EXCEPT !.failAt = t, !.size = size] \in HostPair
  BY DEF HostPair
<1> QED
  BY <1>1, UpdateHostClientKeeps DEF CalcTypeOK

LEMMA HostPairsType ==
  ASSUME CalcTypeOK, [CalcNext]_calcVars
  PROVE  hostPairs' \in Seq(HostPair)
<1>1. ASSUME NEW p \in Pairs, AddHostPair(p[1], p[2]) PROVE hostPairs' \in Seq(HostPair)
  <2>1. p[1] \in Hosts /\ p[2] \in Hosts
    BY TopologyAssumption
  <2> QED
    BY <1>1, <2>1, AddHostPairType
<1>2. ASSUME NEW h \in Hosts, NEW t \in ClientFailTimes, NEW size \in DataSizes,
             UpdateHostClient(h, t, size)
      PROVE  hostPairs' \in Seq(HostPair)
  BY <1>2, UpdateHostClientType
<1>3. CASE CalcReset
  BY <1>3, EmptySeq DEF CalcReset
<1>4. CASE UNCHANGED hostPairs
  BY <1>4 DEF CalcTypeOK
<1> QED
  BY <1>1, <1>2, <1>3, <1>4
     DEF CalcNext, calcVars, AddSwitch, AddLink, RegisterLinkFailTime, RmLink, RmSwitch

\* The lists of the calculator hold what their classes say, whatever is added,
\* updated or removed, and in whatever order (route_calculator.py).
THEOREM CalcTypes == CalcSpec => []CalcTypeOK
<1>1. CalcInit => CalcTypeOK
  BY EmptySeq DEF CalcInit, CalcTypeOK
<1>2. CalcTypeOK /\ [CalcNext]_calcVars => CalcTypeOK'
  BY LinksType, SwitchesType, HostPairsType DEF CalcTypeOK
<1> QED
  BY <1>1, <1>2, PTL DEF CalcSpec
-----------------------------------------------------------------------------
(* The prediction. *)

\* What a link still works in an interval is what of the interval comes before
\* the failure: the three cases of __calc_takahira cover every failure time,
\* and they meet at their boundaries.
LEMMA OperatingSecIsExact ==
  ASSUME NEW failAt \in Nat, NEW elapsed \in Nat, NEW interval \in Nat
  PROVE  OperatingSec(failAt, elapsed, interval)
           = Earlier(failAt, elapsed + interval) - Earlier(failAt, elapsed)
<1>1. CASE elapsed + interval <= failAt
  BY <1>1 DEF OperatingSec, Earlier, Unknown
<1>2. CASE elapsed <= failAt /\ failAt < elapsed + interval
  BY <1>2 DEF OperatingSec, Earlier, Unknown
<1>3. CASE failAt < elapsed
  BY <1>3 DEF OperatingSec, Earlier, Unknown
<1> QED
  BY <1>1, <1>2, <1>3

\* Predictions of consecutive intervals neither overlap nor leave a gap, for
\* every update interval and every failure time that was registered.
THEOREM PredictionIsExactTheorem == CalcSpec => []PredictionIsExact
<1>1. CalcTypeOK => PredictionIsExact
  <2> SUFFICES ASSUME CalcTypeOK, NEW l \in links, NEW nth \in 0..MaxUpdates,
                      l.failAt # Unknown
               PROVE  OperatingSec(l.failAt, nth * UpdateInterval, UpdateInterval)
                        = Earlier(l.failAt, (nth + 1) * UpdateInterval)
                            - Earlier(l.failAt, nth * UpdateInterval)
    BY DEF PredictionIsExact
  <2>1. l.failAt \in Nat
    BY TimeAssumption DEF CalcTypeOK, Link
  <2>2. UpdateInterval \in Nat /\ nth \in Nat
    BY TimeAssumption
  <2>3. nth * UpdateInterval \in Nat
    BY <2>2
  <2>4. (nth + 1) * UpdateInterval = nth * UpdateInterval + UpdateInterval
    BY <2>2
  <2>5. OperatingSec(l.failAt, nth * UpdateInterval, UpdateInterval)
          = Earlier(l.failAt, nth * UpdateInterval + UpdateInterval)
              - Earlier(l.failAt, nth * UpdateInterval)
    BY <2>1, <2>2, <2>3, OperatingSecIsExact
  <2> QED
    BY <2>4, <2>5
<1> QED
  BY <1>1, CalcTypes, PTL
-----------------------------------------------------------------------------
(* What is known of a link is not forgotten. *)

\* No two links have the same ends.
Distinct == \A l, m \in links : l.ends = m.ends => l = m

\* What the property says of a step.
Remembers ==
  \A l \in links, m \in links' :
    l.ends = m.ends => m.bw = l.bw /\ (l.failAt # Unknown => m.failAt # Unknown)

\* A link is added where there is none, and changed by its failure time only;
\* a time that is registered is never Unknown.
LEMMA StepRemembers ==
  ASSUME CalcTypeOK, Distinct, [CalcNext]_calcVars
  PROVE  Distinct' /\ Remembers
<1> USE DEF Distinct, Remembers
<1>1. ASSUME NEW w \in Wires, NEW bw \in Bandwidths, AddLink(w, bw)
      PROVE  Distinct' /\ Remembers
  BY <1>1 DEF AddLink, Linked
<1>2. ASSUME NEW w \in Wires, NEW t \in FailTimes, RegisterLinkFailTime(w, t)
      PROVE  Distinct' /\ Remembers
  <2>1. \A l \in links : l \in Link
    BY DEF CalcTypeOK
  <2>2. t # Unknown
    BY TimeAssumption DEF Unknown
  <2>3. \A m \in links' : \E l \in links :
          /\ m.ends = l.ends /\ m.bw = l.bw
          /\ m = IF l.ends = w THEN [l EXCEPT !.failAt = t] ELSE l
          /\ l.failAt # Unknown => m.failAt # Unknown
    BY <1>2, <2>1, <2>2 DEF RegisterLinkFailTime, Link
  <2> QED
    BY <2>3
<1>3. ASSUME NEW w \in Wires, RmLink(w) PROVE Distinct' /\ Remembers
  BY <1>3 DEF RmLink
<1>4. ASSUME NEW s \in Switches, RmSwitch(s) PROVE Distinct' /\ Remembers
  BY <1>4 DEF RmSwitch
<1>5. CASE CalcReset
  BY <1>5 DEF CalcReset
<1>6. CASE UNCHANGED links
  BY <1>6
<1> QED
  BY <1>1, <1>2, <1>3, <1>4, <1>5, <1>6
     DEF CalcNext, AddSwitch, AddHostPair, UpdateHostClient, calcVars

\* A link keeps its bandwidth for as long as it is registered, and a failure
\* time once known is not forgotten, for every sequence of requests.
THEOREM LinksKeepWhatIsKnownTheorem == CalcSpec => LinksKeepWhatIsKnown
<1>1. CalcInit => Distinct
  BY DEF CalcInit, Distinct
<1>2. CalcTypeOK /\ Distinct /\ [CalcNext]_calcVars => Distinct' /\ [Remembers]_calcVars
  BY StepRemembers
<1>3. LinksKeepWhatIsKnown <=> [][Remembers]_calcVars
  BY DEF LinksKeepWhatIsKnown, Remembers
<1> QED
  BY <1>1, <1>2, <1>3, CalcTypes, PTL DEF CalcSpec
-----------------------------------------------------------------------------
(* No registration of a pair is lost. *)

\* Where the pair p is registered.
At(pairs, p) == {i \in DOMAIN pairs : <<pairs[i].client, pairs[i].server>> = p}

\* If every place of a list has one of its own in another list, with the same
\* pair, that list has no registration less.
LEMMA NothingLost ==
  ASSUME NEW s, NEW t, IsSeq(s), IsSeq(t), NEW f \in Injection(DOMAIN s, DOMAIN t),
         \A i \in DOMAIN s : <<t[f[i]].client, t[f[i]].server>> = <<s[i].client, s[i].server>>,
         NEW p
  PROVE  Registrations(t, p) >= Registrations(s, p)
<1> DEFINE g == [i \in At(s, p) |-> f[i]]
<1>1. f \in [DOMAIN s -> DOMAIN t] /\ \A i, j \in DOMAIN s : f[i] = f[j] => i = j
  BY DEF Injection, IsInjective
<1>2. \A i \in At(s, p) : i \in DOMAIN s /\ f[i] \in At(t, p)
  BY <1>1 DEF At
<1>3. g \in Injection(At(s, p), At(t, p))
  <2>1. g \in [At(s, p) -> At(t, p)]
    BY <1>2
  <2>2. \A i, j \in At(s, p) : g[i] = g[j] => i = j
    BY <1>1, <1>2
  <2> HIDE DEF g
  <2> QED
    BY <2>1, <2>2 DEF Injection, IsInjective
<1> HIDE DEF g
<1>4. IsFiniteSet(At(t, p)) /\ At(t, p) \in SUBSET (1..Len(t))
  <2>1. Len(t) \in Nat /\ DOMAIN t = 1..Len(t)
    BY IsSeqLen
  <2>2. IsFiniteSet(1..Len(t))
    BY <2>1, FS_Interval
  <2>3. At(t, p) \in SUBSET (1..Len(t))
    BY <2>1 DEF At
  <2> QED
    BY <2>2, <2>3, FS_Subset
<1>5. /\ IsFiniteSet(At(s, p)) /\ Cardinality(At(s, p)) <= Cardinality(At(t, p))
  BY <1>3, <1>4, FS_Injection
<1>6. Cardinality(At(s, p)) \in Nat /\ Cardinality(At(t, p)) \in Nat
  BY <1>4, <1>5, FS_CardinalityType
<1> QED
  BY <1>5, <1>6 DEF Registrations, At

\* add_host_pair keeps all places.
LEMMA AddKeepsPairs ==
  ASSUME NEW s, IsSeq(s), NEW x, NEW p
  PROVE  Registrations(Append(s, x), p) >= Registrations(s, p)
<1> DEFINE f == [i \in DOMAIN s |-> i]
           t == Append(s, x)
<1>1. /\ Len(s) \in Nat /\ DOMAIN s = 1..Len(s) /\ IsSeq(t)
      /\ DOMAIN t = 1..(Len(s) + 1) /\ \A i \in DOMAIN s : t[i] = s[i]
  BY IsSeqLen, AppendIsSeq
<1> HIDE DEF t
<1>2. f \in Injection(DOMAIN s, DOMAIN t)
  BY <1>1 DEF Injection, IsInjective
<1>3. \A i \in DOMAIN s : <<t[f[i]].client, t[f[i]].server>> = <<s[i].client, s[i].server>>
  BY <1>1
<1> HIDE DEF f
<1>4. Registrations(t, p) >= Registrations(s, p)
  BY <1>1, <1>2, <1>3, NothingLost
<1> QED
  BY <1>4 DEF t

\* update_host_client moves one pair to the end, and all behind it up by one.
LEMMA MoveKeepsPairs ==
  ASSUME NEW s, IsSeq(s), NEW i \in DOMAIN s, NEW x,
         x.client = s[i].client, x.server = s[i].server, NEW p
  PROVE  Registrations(Append(RemoveAt(s, i), x), p) >= Registrations(s, p)
<1> DEFINE r == RemoveAt(s, i)
           t == Append(r, x)
           f == [j \in DOMAIN s |-> IF j < i THEN j ELSE IF j = i THEN Len(s) ELSE j - 1]
<1>1. Len(s) \in Nat /\ DOMAIN s = 1..Len(s) /\ i \in 1..Len(s)
  BY IsSeqLen
<1>2. /\ IsSeq(r) /\ DOMAIN r = 1..(Len(s) - 1)
      /\ \A k \in DOMAIN r : r[k] = s[Shift(i, k)]
  BY RemoveAtIsSeq
<1>3. Len(r) = Len(s) - 1
  <2>1. Len(r) \in Nat /\ 1..Len(r) = 1..(Len(s) - 1)
    BY <1>2, IsSeqLen
  <2>2. Len(s) - 1 \in Nat
    BY <1>1
  <2>3. \A m \in Nat : Cardinality(1..m) = m
    BY FS_Interval
  <2> QED
    BY <2>1, <2>2, <2>3
<1> HIDE DEF r
<1>4. /\ IsSeq(t) /\ DOMAIN t = 1..Len(s) /\ t[Len(s)] = x
      /\ \A k \in 1..(Len(s) - 1) : t[k] = s[Shift(i, k)]
  <2>1. Len(s) - 1 + 1 = Len(s)
    BY <1>1
  <2> QED
    BY <1>2, <1>3, <2>1, AppendIsSeq
<1> HIDE DEF t
<1>5. f \in Injection(DOMAIN s, DOMAIN t)
  <2>1. \A j \in 1..Len(s) : f[j] \in 1..Len(s)
    BY <1>1
  <2>2. \A j, k \in 1..Len(s) : f[j] = f[k] => j = k
    BY <1>1
  <2>3. f \in [1..Len(s) -> 1..Len(s)]
    BY <1>1, <2>1
  <2> HIDE DEF f
  <2> QED
    BY <1>1, <1>4, <2>2, <2>3 DEF Injection, IsInjective
<1>6. ASSUME NEW j \in DOMAIN s
      PROVE  <<t[f[j]].client, t[f[j]].server>> = <<s[j].client, s[j].server>>
  <2>1. CASE j = i
    BY <1>4, <2>1
  <2>2. CASE j # i
    <3>1. f[j] \in 1..(Len(s) - 1) /\ Shift(i, f[j]) = j
      BY <1>1, <2>2 DEF Shift
    <3> QED
      BY <1>4, <3>1
  <2> QED
    BY <2>1, <2>2
<1> HIDE DEF f
<1>7. Registrations(t, p) >= Registrations(s, p)
  BY <1>4, <1>5, <1>6, NothingLost
<1> QED
  BY <1>7 DEF t, r

\* What the property says of a step.
Survive == CalcReset \/ \A p \in Pairs : Registrations(hostPairs', p) >= Registrations(hostPairs, p)

LEMMA StepsSurvive == CalcTypeOK /\ [CalcNext]_calcVars => [Survive]_calcVars
<1> SUFFICES ASSUME CalcTypeOK, CalcNext PROVE Survive
  OBVIOUS
<1>1. hostPairs \in Seq(HostPair) /\ IsSeq(hostPairs)
  BY SeqIsSeq DEF CalcTypeOK
<1>2. ASSUME NEW c \in Hosts, NEW v \in Hosts, AddHostPair(c, v) PROVE Survive
  <2>1. PICK x : hostPairs' = Append(hostPairs, x)
    BY <1>2 DEF AddHostPair
  <2> QED
    BY <1>1, <2>1, AddKeepsPairs DEF Survive
<1>3. ASSUME NEW h \in Hosts, NEW t \in ClientFailTimes, NEW size \in DataSizes,
             UpdateHostClient(h, t, size)
      PROVE  Survive
  <2> DEFINE first == SelectInSeq(hostPairs, LAMBDA q : q.client = h)
             moved == [hostPairs[first] EXCEPT !.failAt = t, !.size = size]
  <2>1. DOMAIN hostPairs = 1..Len(hostPairs) /\ Len(hostPairs) \in Nat
    BY <1>1, IsSeqLen
  <2>2. first \in 1..Len(hostPairs)
    <3>1. \E k \in 1..Len(hostPairs) : hostPairs[k].client = h
      BY <1>3, <2>1 DEF UpdateHostClient
    <3>2. first = Min({k \in 1..Len(hostPairs) : hostPairs[k].client = h})
      BY <3>1 DEF SelectInSeq
    <3> QED
      BY <1>1, <3>1, <3>2, FirstOfClient
  <2>3. hostPairs' = Append(RemoveAt(hostPairs, first), moved)
    BY <1>3 DEF UpdateHostClient
  <2> HIDE DEF first
  <2>4. moved.client = hostPairs[first].client /\ moved.server = hostPairs[first].server
    <3>1. hostPairs[first] \in HostPair
      BY <1>1, <2>2, ElementOfSeq
    <3> QED
      BY <3>1 DEF HostPair
  <2> HIDE DEF moved
  <2>5. \A p : Registrations(Append(RemoveAt(hostPairs, first), moved), p)
                 >= Registrations(hostPairs, p)
    BY <1>1, <2>1, <2>2, <2>4, MoveKeepsPairs
  <2> QED
    BY <2>3, <2>5 DEF Survive
<1>4. CASE CalcReset
  BY <1>4 DEF Survive
<1>5. CASE UNCHANGED hostPairs
  <2>1. \A p : Registrations(hostPairs, p) \in Int
    <3>1. DOMAIN hostPairs = 1..Len(hostPairs) /\ Len(hostPairs) \in Nat
      BY <1>1, IsSeqLen
    <3>2. IsFiniteSet(1..Len(hostPairs))
      BY <3>1, FS_Interval
    <3>3. \A p : At(hostPairs, p) \in SUBSET (1..Len(hostPairs))
      BY <3>1 DEF At
    <3>4. \A p : Cardinality(At(hostPairs, p)) \in Nat
      BY <3>2, <3>3, FS_Subset, FS_CardinalityType
    <3> QED
      BY <3>4 DEF Registrations, At
  <2> QED
    BY <1>5, <2>1 DEF Survive
<1>6. \A p \in Pairs : p[1] \in Hosts /\ p[2] \in Hosts
  BY TopologyAssumption
<1> QED
  BY <1>2, <1>3, <1>4, <1>5, <1>6
     DEF CalcNext, AddSwitch, AddLink, RegisterLinkFailTime, RmLink, RmSwitch

\* A registered pair is lost by a reset only, whatever is registered about its
\* client and however often it was registered (update_host_client,
\* route_calculator.py).
THEOREM PairsSurviveTheorem == CalcSpec => PairsSurvive
<1>1. PairsSurvive <=> [][Survive]_calcVars
  BY DEF PairsSurvive, Survive
<1> QED
  BY <1>1, StepsSurvive, CalcTypes, PTL DEF CalcSpec
-----------------------------------------------------------------------------
(* Folds. *)

\* What is true at 0, and at each position if it was at the one before, is true
\* up to the end.
LEMMA UpTo ==
  ASSUME NEW n \in Nat, NEW P, 0 \in P, \A k \in 1..n : k - 1 \in P => k \in P
  PROVE  \A k \in 0..n : k \in P
<1> DEFINE T == {k \in 0..n : k \notin P}
<1> SUFFICES ASSUME T # {} PROVE FALSE
  OBVIOUS
<1>1. T \in SUBSET Nat
  OBVIOUS
<1>2. Min(T) \in T /\ \A m \in T : Min(T) <= m
  BY <1>1, FirstIsIn
<1>3. Min(T) # 0
  BY <1>2
<1>4. Min(T) \in 1..n /\ Min(T) - 1 \in 0..n /\ ~(Min(T) <= Min(T) - 1)
  BY <1>2, <1>3
<1>5. Min(T) - 1 \in P
  BY <1>2, <1>4
<1> QED
  BY <1>2, <1>4, <1>5

\* What is not the last of the positions is one of the others.
LEMMA Below ==
  ASSUME NEW k \in Nat, NEW s \in SUBSET (1..k), k \notin s
  PROVE  s \in SUBSET (1..(k - 1))
<1>1. ASSUME NEW i \in s PROVE i \in 1..(k - 1)
  <2>1. i \in 1..k /\ i # k
    OBVIOUS
  <2> QED
    BY <2>1
<1> QED
  BY <1>1

\* A nonempty set of positions has a last one.
LEMMA LastIsIn ==
  ASSUME NEW n \in Nat, NEW s \in SUBSET (1..n), s # {}
  PROVE  Max(s) \in s /\ \A i \in s : i <= Max(s)
<1> DEFINE P == {k \in 0..n : \A r \in SUBSET (1..k) :
                   r # {} => \E i \in r : \A j \in r : i >= j}
<1>1. 0 \in P
  <2>1. \A r \in SUBSET (1..0) : r = {}
    OBVIOUS
  <2>2. 0 \in 0..n
    OBVIOUS
  <2> QED
    BY <2>1, <2>2, Zenon
<1>2. ASSUME NEW k \in 1..n, k - 1 \in P PROVE k \in P
  <2> SUFFICES ASSUME NEW r \in SUBSET (1..k), r # {}
               PROVE  \E i \in r : \A j \in r : i >= j
    OBVIOUS
  <2>1. CASE k \in r
    BY <2>1
  <2>2. CASE k \notin r
    <3>1. r \in SUBSET (1..(k - 1))
      BY <2>2, Below
    <3> QED
      BY <3>1, <1>2
  <2> QED
    BY <2>1, <2>2
<1> HIDE DEF P
<1>3. \A k \in 0..n : k \in P
  BY <1>1, <1>2, UpTo
<1>4. n \in P
  BY <1>3
<1>5. \E i \in s : \A j \in s : i >= j
  BY <1>4 DEF P
<1>6. Max(s) \in s /\ \A j \in s : Max(s) >= j
  BY <1>5 DEF Max
<1> QED
  BY <1>6

\* What a fold over the positions 1..n computes exists.
IsFold(g, n, base, F) ==
  \A s \in SUBSET (1..n) :
    g[s] = IF s = {} THEN base ELSE F[g[s \ {Max(s)}]][Max(s)]

LEMMA FoldExists ==
  ASSUME NEW V, NEW base \in V, NEW n \in Nat, NEW F \in [V -> [1..n -> V]]
  PROVE  \E g \in [SUBSET (1..n) -> V] : IsFold(g, n, base, F)
<1> DEFINE P == {k \in 0..n : \E g \in [SUBSET (1..k) -> V] : IsFold(g, k, base, F)}
<1>1. 0 \in P
  <2> DEFINE g == [s \in SUBSET (1..0) |-> base]
  <2>1. g \in [SUBSET (1..0) -> V] /\ \A s \in SUBSET (1..0) : s = {}
    OBVIOUS
  <2>2. IsFold(g, 0, base, F)
    BY <2>1 DEF IsFold
  <2> HIDE DEF g
  <2>3. \E f \in [SUBSET (1..0) -> V] : IsFold(f, 0, base, F)
    BY <2>1, <2>2
  <2>4. 0 \in 0..n
    OBVIOUS
  <2> QED
    BY <2>3, <2>4, Zenon
<1>2. ASSUME NEW k \in 1..n, k - 1 \in P PROVE k \in P
  <2>1. PICK g \in [SUBSET (1..(k - 1)) -> V] : IsFold(g, k - 1, base, F)
    BY <1>2
  <2> DEFINE f == [s \in SUBSET (1..k) |-> IF k \in s THEN F[g[s \ {k}]][k] ELSE g[s]]
  <2>2. \A s \in SUBSET (1..k) : s \ {k} \in SUBSET (1..(k - 1))
    BY Below
  <2>3. \A s \in SUBSET (1..k) : k \notin s => s = s \ {k}
    OBVIOUS
  <2>4. f \in [SUBSET (1..k) -> V]
    BY <2>2, <2>3
  <2>5. ASSUME NEW s \in SUBSET (1..k), s # {}
        PROVE  f[s] = F[f[s \ {Max(s)}]][Max(s)]
    <3> k \in Nat
      OBVIOUS
    <3>1. Max(s) \in s /\ \A i \in s : i <= Max(s)
      BY <2>5, LastIsIn
    <3>2. CASE k \in s
      <4>1. Max(s) = k
        <5>1. Max(s) \in 1..k /\ k <= Max(s)
          BY <3>1, <3>2
        <5> QED
          BY <5>1
      <4>2. s \ {k} \in SUBSET (1..k) /\ k \notin s \ {k}
        OBVIOUS
      <4>3. f[s \ {k}] = g[s \ {k}]
        BY <4>2
      <4>4. f[s] = F[g[s \ {k}]][k]
        BY <3>2
      <4> QED
        BY <4>1, <4>3, <4>4
    <3>3. CASE k \notin s
      <4>1. s \in SUBSET (1..(k - 1))
        BY <3>3, Below
      <4>2. s \ {Max(s)} \in SUBSET (1..k) /\ k \notin s \ {Max(s)}
        BY <3>3
      <4>3. f[s] = g[s] /\ f[s \ {Max(s)}] = g[s \ {Max(s)}]
        BY <3>3, <4>2
      <4> QED
        BY <2>1, <2>5, <4>1, <4>3 DEF IsFold
    <3> QED
      BY <3>2, <3>3
  <2>6. f[{}] = base
    <3>1. f[{}] = g[{}]
      OBVIOUS
    <3>2. g[{}] = base
      BY <2>1 DEF IsFold
    <3> QED
      BY <3>1, <3>2
  <2> HIDE DEF f
  <2>7. IsFold(f, k, base, F)
    BY <2>5, <2>6 DEF IsFold
  <2>8. \E h \in [SUBSET (1..k) -> V] : IsFold(h, k, base, F)
    BY <2>4, <2>7
  <2> QED
    BY <2>8
<1> HIDE DEF P
<1>3. \A k \in 0..n : k \in P
  BY <1>1, <1>2, UpTo
<1>4. n \in P
  BY <1>3
<1> QED
  BY <1>4 DEF P

\* The positions up to k without the last one.
LEMMA LastUpTo ==
  ASSUME NEW n \in Nat, NEW k \in 1..n
  PROVE  /\ 1..k \in SUBSET (1..n) /\ 1..k # {} /\ Max(1..k) = k
         /\ (1..k) \ {Max(1..k)} = 1..(k - 1)
<1>1. 1..k \in SUBSET (1..n) /\ 1..k # {} /\ k \in 1..k
  OBVIOUS
<1>2. Max(1..k) \in 1..k /\ k <= Max(1..k)
  BY <1>1, LastIsIn
<1>3. Max(1..k) = k
  BY <1>2
<1>4. (1..k) \ {k} = 1..(k - 1)
  OBVIOUS
<1> QED
  BY <1>1, <1>3, <1>4

\* h does what a fold does, as far as it stays in V; and what it computes is
\* reached in steps.
Follows(h, n, V, base, F) ==
  /\ h[{}] = base
  /\ \A s \in SUBSET (1..n) :
       s # {} /\ h[s \ {Max(s)}] \in V => h[s] = F[h[s \ {Max(s)}]][Max(s)]
IsRun(tr, n, V, base, F) ==
  tr \in [0..n -> V] /\ tr[0] = base /\ \A k \in 1..n : tr[k] = F[tr[k - 1]][k]
RunsTo(v, n, V, base, F) == \E tr : IsRun(tr, n, V, base, F) /\ tr[n] = v

\* What a fold over the positions computes is reached in n steps that stay in V.
LEMMA RunOfFold ==
  ASSUME NEW V, NEW base \in V, NEW n \in Nat, NEW F \in [V -> [1..n -> V]],
         NEW h, Follows(h, n, V, base, F)
  PROVE  RunsTo(h[1..n], n, V, base, F)
<1> DEFINE P == {k \in 0..n : h[1..k] \in V}
<1>1. h[1..0] = base
  <2>1. 1..0 = {}
    OBVIOUS
  <2> QED
    BY <2>1 DEF Follows
<1>2. 0 \in P
  BY <1>1
<1>3. ASSUME NEW k \in 1..n, h[1..(k - 1)] \in V
      PROVE  h[1..k] = F[h[1..(k - 1)]][k]
  <2>1. /\ 1..k \in SUBSET (1..n) /\ 1..k # {} /\ Max(1..k) = k
        /\ (1..k) \ {Max(1..k)} = 1..(k - 1)
    BY LastUpTo
  <2> QED
    BY <1>3, <2>1 DEF Follows
<1>4. ASSUME NEW k \in 1..n, k - 1 \in P PROVE k \in P
  <2>1. h[1..(k - 1)] \in V
    BY <1>4
  <2>2. h[1..k] = F[h[1..(k - 1)]][k]
    BY <1>3, <2>1
  <2>3. h[1..k] \in V
    BY <2>1, <2>2
  <2> QED
    BY <2>3
<1>5. \A k \in 0..n : h[1..k] \in V
  <2> HIDE DEF P
  <2>1. \A k \in 0..n : k \in P
    BY <1>2, <1>4, UpTo
  <2> QED
    BY <2>1 DEF P
<1> DEFINE tr == [k \in 0..n |-> h[1..k]]
<1>6. \A k \in 1..n : k - 1 \in 0..n
  OBVIOUS
<1>7. tr \in [0..n -> V] /\ tr[0] = base /\ tr[n] = h[1..n]
  BY <1>1, <1>5
<1>8. \A k \in 1..n : tr[k] = F[tr[k - 1]][k]
  BY <1>3, <1>5, <1>6
<1> HIDE DEF tr
<1> QED
  BY <1>7, <1>8 DEF IsRun, RunsTo

\* The fold of FoldExists, in the form that is needed.
Folds(g, n, V, base, F) ==
  /\ g \in [SUBSET (1..n) -> V] /\ g[{}] = base
  /\ \A s \in SUBSET (1..n) : s # {} =>
       /\ Max(s) \in 1..n /\ g[s \ {Max(s)}] \in V
       /\ g[s] = F[g[s \ {Max(s)}]][Max(s)]
LEMMA FoldValues ==
  ASSUME NEW V, NEW base \in V, NEW n \in Nat, NEW F \in [V -> [1..n -> V]]
  PROVE  \E g : Folds(g, n, V, base, F)
<1>1. PICK g \in [SUBSET (1..n) -> V] : IsFold(g, n, base, F)
  BY FoldExists
<1>2. ASSUME NEW s \in SUBSET (1..n), s # {}
      PROVE  /\ Max(s) \in 1..n /\ g[s \ {Max(s)}] \in V
             /\ g[s] = F[g[s \ {Max(s)}]][Max(s)]
  <2>1. Max(s) \in 1..n
    BY <1>2, LastIsIn
  <2>2. s \ {Max(s)} \in SUBSET (1..n)
    OBVIOUS
  <2> QED
    BY <1>1, <1>2, <2>1, <2>2 DEF IsFold
<1>3. g[{}] = base
  BY <1>1 DEF IsFold
<1> QED
  BY <1>2, <1>3 DEF Folds
-----------------------------------------------------------------------------
(* Path.merge and the widest paths. *)

\* Without, written as the fold it is.
TakesOut(h, path, taken) ==
  h = [s \in SUBSET DOMAIN path |->
         IF s = {} THEN <<>>
         ELSE IF path[Max(s)] \in taken THEN h[s \ {Max(s)}]
              ELSE Append(h[s \ {Max(s)}], path[Max(s)])]
LEMMA WithoutIsFold ==
  ASSUME NEW path, NEW taken, \E h : TakesOut(h, path, taken)
  PROVE  \E h : TakesOut(h, path, taken) /\ Without(path, taken) = h[DOMAIN path]
  BY Zenon DEF TakesOut, Without, FoldLeft, MapThenFoldSet

\* The links of a path, one after the other: those not taken out are kept.
KeepsLinks(tr, n, path, taken, V) ==
  /\ tr \in [0..n -> V] /\ tr[0] = <<>>
  /\ \A k \in 1..n : tr[k] = IF path[k] \in taken THEN tr[k - 1] ELSE Append(tr[k - 1], path[k])
LEMMA WithoutRuns ==
  ASSUME NEW S, NEW path \in Seq(S), NEW taken
  PROVE  \E tr : KeepsLinks(tr, Len(path), path, taken, Seq(S)) /\ Without(path, taken) = tr[Len(path)]
<1> DEFINE n == Len(path)
           V == Seq(S)
           F == [p \in V |-> [i \in 1..n |-> IF path[i] \in taken THEN p ELSE Append(p, path[i])]]
<1>1. n \in Nat /\ DOMAIN path = 1..n /\ \A i \in 1..n : path[i] \in S
  BY LenProperties, ElementOfSeq
<1>2. <<>> \in V
  BY EmptySeq
<1>3. \A p \in V, i \in 1..n : (IF path[i] \in taken THEN p ELSE Append(p, path[i])) \in V
  BY <1>1, AppendProperties
<1> HIDE DEF n, V
<1>4. F \in [V -> [1..n -> V]]
  BY <1>3
<1>5. \A p \in V, i \in 1..n :
        F[p][i] = IF path[i] \in taken THEN p ELSE Append(p, path[i])
  OBVIOUS
<1> HIDE DEF F
<1>6. PICK g : Folds(g, n, V, <<>>, F)
  BY <1>1, <1>2, <1>4, FoldValues
<1>7. TakesOut(g, path, taken)
  BY <1>1, <1>5, <1>6 DEF TakesOut, Folds
<1>8. PICK h : TakesOut(h, path, taken) /\ Without(path, taken) = h[DOMAIN path]
  BY <1>7, WithoutIsFold
<1>9. Follows(h, n, V, <<>>, F)
  <2>1. \A s \in SUBSET (1..n) : s # {} => Max(s) \in 1..n
    BY <1>6 DEF Folds
  <2> QED
    BY <1>1, <1>5, <1>8, <2>1 DEF TakesOut, Follows
<1>10. PICK tr : IsRun(tr, n, V, <<>>, F) /\ tr[n] = h[1..n]
  BY <1>1, <1>2, <1>4, <1>9, RunOfFold DEF RunsTo
<1>11. \A k \in 1..n : k - 1 \in 0..n
  BY <1>1
<1>12. KeepsLinks(tr, n, path, taken, V)
  BY <1>5, <1>10, <1>11 DEF IsRun, KeepsLinks
<1> QED
  BY <1>1, <1>8, <1>10, <1>12 DEF V, n

\* A path takes no link twice, and not back either.
Once(path) ==
  \A i, j \in DOMAIN path : {path[i][1], path[i][2]} = {path[j][1], path[j][2]} => i = j

\* What is kept is of the path, not taken out, and takes links once if the
\* path does.
LEMMA WithoutIsPart ==
  ASSUME NEW S, NEW path \in Seq(S), NEW taken
  PROVE  /\ Without(path, taken) \in Seq(ToSet(path) \ taken)
         /\ Once(path) => Once(Without(path, taken))
<1> DEFINE n == Len(path)
           Of(k) == {path[i] : i \in 1..k} \ taken
<1>1. PICK tr : KeepsLinks(tr, n, path, taken, Seq(S)) /\ Without(path, taken) = tr[n]
  BY WithoutRuns
<1>2. n \in Nat /\ DOMAIN path = 1..n
  BY LenProperties
<1> DEFINE P == {k \in 0..n : tr[k] \in Seq(Of(k)) /\ (Once(path) => Once(tr[k]))}
<1>3. 0 \in P
  <2>1. tr[0] = <<>> /\ 0 \in 0..n
    BY <1>1, <1>2 DEF KeepsLinks
  <2>2. <<>> \in Seq(Of(0)) /\ Once(<<>>)
    BY EmptySeq DEF Once
  <2> QED
    BY <2>1, <2>2
<1>4. ASSUME NEW k \in 1..n, k - 1 \in P PROVE k \in P
  <2> DEFINE old == tr[k - 1]
  <2>1. /\ old \in Seq(Of(k - 1)) /\ (Once(path) => Once(old))
        /\ k \in 0..n /\ k \in 1..k /\ \A i \in 1..(k - 1) : i \in 1..k /\ i # k /\ i \in 1..n
    BY <1>2, <1>4
  <2>2. Of(k - 1) \subseteq Of(k)
    BY <2>1
  <2>3. tr[k] = IF path[k] \in taken THEN old ELSE Append(old, path[k])
    BY <1>1 DEF KeepsLinks
  <2> HIDE DEF old
  <2>4. CASE path[k] \in taken
    <3>1. old \in Seq(Of(k))
      BY <2>1, <2>2, SeqMonotonic
    <3> QED
      BY <2>1, <2>3, <2>4, <3>1
  <2>5. CASE path[k] \notin taken
    <3>1. tr[k] = Append(old, path[k])
      BY <2>3, <2>5
    <3>2. old \in Seq(Of(k)) /\ path[k] \in Of(k)
      BY <2>1, <2>2, <2>5, SeqMonotonic
    <3>3. tr[k] \in Seq(Of(k))
      BY <3>1, <3>2, AppendProperties
    <3>4. ASSUME Once(path) PROVE Once(tr[k])
      <4>1. IsSeq(old) /\ Len(old) \in Nat /\ DOMAIN old = 1..Len(old)
        BY <2>1, SeqIsSeq, IsSeqLen
      <4>2. /\ DOMAIN tr[k] = 1..(Len(old) + 1) /\ tr[k][Len(old) + 1] = path[k]
            /\ \A i \in 1..Len(old) : tr[k][i] = old[i]
        BY <3>1, <4>1, AppendIsSeq
      <4>3. ASSUME NEW i \in 1..Len(old) PROVE {old[i][1], old[i][2]} # {path[k][1], path[k][2]}
        <5>1. old[i] \in Of(k - 1)
          BY <2>1, ElementOfSeq
        <5>2. PICK m \in 1..(k - 1) : old[i] = path[m]
          BY <5>1
        <5> QED
          BY <1>2, <2>1, <3>4, <5>2 DEF Once
      <4>4. Once(old)
        BY <2>1, <3>4
      <4>5. ASSUME NEW i \in 1..(Len(old) + 1), NEW j \in 1..(Len(old) + 1),
                   {tr[k][i][1], tr[k][i][2]} = {tr[k][j][1], tr[k][j][2]}
            PROVE  i = j
        <5>1. /\ i = Len(old) + 1 \/ i \in 1..Len(old)
              /\ j = Len(old) + 1 \/ j \in 1..Len(old)
          BY <4>1
        <5>2. CASE i \in 1..Len(old) /\ j \in 1..Len(old)
          BY <4>1, <4>2, <4>4, <4>5, <5>2 DEF Once
        <5>3. CASE i = Len(old) + 1 /\ j \in 1..Len(old)
          BY <4>2, <4>3, <4>5, <5>3
        <5>4. CASE i \in 1..Len(old) /\ j = Len(old) + 1
          BY <4>2, <4>3, <4>5, <5>4
        <5> QED
          BY <5>1, <5>2, <5>3, <5>4
      <4> QED
        BY <4>2, <4>5 DEF Once
    <3> QED
      BY <2>1, <3>3, <3>4
  <2> QED
    BY <2>4, <2>5
<1> HIDE DEF P
<1>5. n \in P
  <2>1. \A k \in 0..n : k \in P
    BY <1>2, <1>3, <1>4, UpTo
  <2> QED
    BY <1>2, <2>1
<1>6. Of(n) = ToSet(path) \ taken
  BY <1>2 DEF ToSet
<1> QED
  BY <1>1, <1>5, <1>6 DEF P

\* Without keeps links of the path only.
LEMMA WithoutType ==
  ASSUME NEW S, NEW path \in Seq(S), NEW taken
  PROVE  Without(path, taken) \in Seq(S)
<1>1. ToSet(path) \ taken \subseteq S
  BY SeqFacts DEF ToSet
<1> QED
  BY <1>1, WithoutIsPart, SeqMonotonic

LEMMA MergeType ==
  ASSUME NEW S, NEW p \in Seq(S), NEW q \in Seq(S)
  PROVE  Merge(p, q) \in Seq(S)
<1>1. \A r \in Seq(S) : \A taken : Without(r, taken) \in Seq(S)
  BY WithoutType
<1>2. \A r, u \in Seq(S) : r \o u \in Seq(S)
  BY ConcatProperties
<1> QED
  BY <1>1, <1>2 DEF Merge

LEMMA MinOfTwo ==
  ASSUME NEW a \in Int, NEW b \in Int
  PROVE  Min({a, b}) \in Int /\ Min({a, b}) <= a /\ Min({a, b}) <= b
<1>1. \E x \in {a, b} : \A y \in {a, b} : x <= y
  OBVIOUS
<1>2. Min({a, b}) \in {a, b} /\ \A y \in {a, b} : Min({a, b}) <= y
  BY <1>1 DEF Min
<1> QED
  BY <1>2

\* The links that a path may have, as they are passed; and the tables of the
\* algorithm over the switches sw, with paths in W.
Ways(sw, known) == {e \in sw \X sw : {e[1], e[2]} \in known}
Tables(sw, W) == [bw : [sw -> [sw -> Int]], path : [sw -> [sw -> W]]]

\* What each loop of the algorithm does to the tables keeps them tables.
LEMMA RelaxViaType ==
  ASSUME NEW sw, NEW S, NEW t \in Tables(sw, Seq(S)), NEW s1 \in sw, NEW s2 \in sw
  PROVE  RelaxVia(t, s1, s2) \in Tables(sw, Seq(S))
<1> DEFINE wider         == Wider(t, s1, s2)
           Written(a, b) == (a = s1 /\ b \in wider) \/ (b = s1 /\ a \in wider)
           bw   == [a \in sw |-> [b \in sw |->
                      IF Written(a, b) THEN Via(t, s1, s2, IF a = s1 THEN b ELSE a)
                      ELSE t.bw[a][b]]]
           path == [a \in sw |-> [b \in sw |->
                      IF Written(a, b) THEN Merge(t.path[a][s2], t.path[s2][b])
                      ELSE t.path[a][b]]]
           W == Seq(S)
<1>1. /\ t.bw \in [sw -> [sw -> Int]] /\ t.path \in [sw -> [sw -> W]]
      /\ DOMAIN t.bw = sw
  BY DEF Tables
<1>2. ASSUME NEW x \in sw, NEW y \in sw PROVE t.bw[x][y] \in Int /\ t.path[x][y] \in W
  BY <1>1, <1>2
<1> HIDE DEF W
<1>3. ASSUME NEW x \in sw PROVE Via(t, s1, s2, x) \in Int
  BY <1>2, MinOfTwo DEF Via
<1>4. ASSUME NEW a \in sw, NEW b \in sw PROVE Merge(t.path[a][s2], t.path[s2][b]) \in W
  BY <1>2, MergeType DEF W
<1>5. bw \in [sw -> [sw -> Int]]
  BY <1>2, <1>3
<1>6. path \in [sw -> [sw -> W]]
  BY <1>2, <1>4
<1>7. CASE wider # {}
  <2>1. RelaxVia(t, s1, s2) = [bw |-> bw, path |-> path]
    BY <1>1, <1>7, Zenon DEF RelaxVia
  <2> HIDE DEF bw, path
  <2> QED
    BY <1>5, <1>6, <2>1 DEF Tables, W
<1>8. CASE wider = {}
  <2>1. RelaxVia(t, s1, s2) = t
    BY <1>8 DEF RelaxVia
  <2> QED
    BY <2>1
<1> QED
  BY <1>7, <1>8

\* The inner loop, over all switches in between, as the fold it is.
RelaxesAll(h, t, s1, order) ==
  h = [s \in SUBSET DOMAIN order |->
         IF s = {} THEN t ELSE RelaxVia(h[s \ {Max(s)}], s1, order[Max(s)])]
LEMMA ByAllIsFold ==
  ASSUME NEW t, NEW s1, NEW order, \E h : RelaxesAll(h, t, s1, order)
  PROVE  \E h : /\ RelaxesAll(h, t, s1, order)
                /\ ByAll(t, s1, order) = t \/ ByAll(t, s1, order) = h[DOMAIN order]
  BY Zenon DEF RelaxesAll, ByAll, FoldLeft, MapThenFoldSet

\* What every step of the algorithm keeps, its loops keep.
LEMMA ByAllKeeps ==
  ASSUME NEW V, NEW N, NEW order \in Seq(N), NEW s1, NEW t \in V,
         \A u \in V, s2 \in ToSet(order) : RelaxVia(u, s1, s2) \in V
  PROVE  ByAll(t, s1, order) \in V
<1> DEFINE n == Len(order)
           F == [u \in V |-> [i \in 1..n |-> RelaxVia(u, s1, order[i])]]
<1>1. n \in Nat /\ DOMAIN order = 1..n /\ \A i \in 1..n : order[i] \in ToSet(order)
  BY SeqFacts
<1>2. \A u \in V, i \in 1..n : RelaxVia(u, s1, order[i]) \in V
  BY <1>1
<1> HIDE DEF n
<1>3. F \in [V -> [1..n -> V]]
  BY <1>2
<1>4. \A u \in V, i \in 1..n : F[u][i] = RelaxVia(u, s1, order[i])
  OBVIOUS
<1> HIDE DEF F
<1>5. PICK g : Folds(g, n, V, t, F)
  BY <1>1, <1>3, FoldValues
<1>6. RelaxesAll(g, t, s1, order)
  BY <1>1, <1>4, <1>5 DEF RelaxesAll, Folds
<1>7. PICK h : /\ RelaxesAll(h, t, s1, order)
               /\ ByAll(t, s1, order) = t \/ ByAll(t, s1, order) = h[DOMAIN order]
  BY <1>6, ByAllIsFold
<1>8. Follows(h, n, V, t, F)
  <2>1. \A s \in SUBSET (1..n) : s # {} => Max(s) \in 1..n
    BY <1>5 DEF Folds
  <2> QED
    BY <1>1, <1>4, <1>7, <2>1 DEF RelaxesAll, Follows
<1>9. RunsTo(h[1..n], n, V, t, F)
  BY <1>1, <1>3, <1>8, RunOfFold
<1>10. h[1..n] \in V
  BY <1>1, <1>9 DEF IsRun, RunsTo
<1> QED
  BY <1>1, <1>7, <1>10

\* The tables at the beginning.
LEMMA DirectPathsType ==
  ASSUME NEW N, NEW order \in Seq(N), NEW known, NEW left \in [known -> Int]
  PROVE  DirectPaths(order, left) \in Tables(ToSet(order), Seq(Ways(ToSet(order), known)))
<1> DEFINE sw == ToSet(order)
           W  == Ways(sw, known)
           bw == [a \in sw |-> [b \in sw |->
                   CASE a = b -> BandwidthInf
                     [] a # b /\ {a, b} \in DOMAIN left -> left[{a, b}]
                     [] OTHER -> -BandwidthInf]]
           path == [a \in sw |-> [b \in sw |->
                     IF {a, b} \in DOMAIN left THEN << <<a, b>> >> ELSE <<>>]]
<1>1. DirectPaths(order, left) = [bw |-> bw, path |-> path]
  BY DEF DirectPaths
<1> HIDE DEF sw
<1>2. bw \in [sw -> [sw -> Int]]
  <2>1. BandwidthInf \in Int /\ -BandwidthInf \in Int
    BY InfAssumption
  <2> QED
    BY <2>1
<1>3. ASSUME NEW a \in sw, NEW b \in sw
      PROVE  (IF {a, b} \in DOMAIN left THEN << <<a, b>> >> ELSE <<>>) \in Seq(W)
  <2>1. <<>> \in Seq(W)
    BY EmptySeq
  <2>2. CASE {a, b} \in known
    <3>1. <<a, b>> \in W
      BY <2>2 DEF Ways
    <3> HIDE DEF W
    <3>2. << <<a, b>> >> \in Seq(W)
      BY <3>1
    <3> QED
      BY <2>1, <3>2
  <2>3. CASE {a, b} \notin known
    BY <2>1, <2>3
  <2> QED
    BY <2>2, <2>3
<1> HIDE DEF W
<1>4. path \in [sw -> [sw -> Seq(W)]]
  BY <1>3
<1> HIDE DEF bw, path
<1> QED
  BY <1>1, <1>2, <1>4 DEF Tables, sw, W

\* The outer loop, as the fold it is.
WidensAll(h, t, order) ==
  h = [s \in SUBSET DOMAIN order |->
         IF s = {} THEN t ELSE ByAll(h[s \ {Max(s)}], order[Max(s)], order)]
LEMMA WidestPathsIsFold ==
  ASSUME NEW order, NEW left, \E h : WidensAll(h, DirectPaths(order, left), order)
  PROVE  \E h : /\ WidensAll(h, DirectPaths(order, left), order)
                /\ WidestPaths(order, left) = h[DOMAIN order]
  BY Zenon DEF WidensAll, WidestPaths, FoldLeft, MapThenFoldSet

LEMMA WidestPathsKeep ==
  ASSUME NEW V, NEW N, NEW order \in Seq(N), NEW left, DirectPaths(order, left) \in V,
         \A u \in V, s1, s2 \in ToSet(order) : RelaxVia(u, s1, s2) \in V
  PROVE  WidestPaths(order, left) \in V
<1> DEFINE n == Len(order)
           t == DirectPaths(order, left)
           F == [u \in V |-> [i \in 1..n |-> ByAll(u, order[i], order)]]
<1>1. n \in Nat /\ DOMAIN order = 1..n /\ \A i \in 1..n : order[i] \in ToSet(order)
  BY SeqFacts
<1>2. \A u \in V, i \in 1..n : ByAll(u, order[i], order) \in V
  BY <1>1, ByAllKeeps
<1>3. t \in V
  OBVIOUS
<1> HIDE DEF n, t
<1>4. F \in [V -> [1..n -> V]]
  BY <1>2
<1>5. \A u \in V, i \in 1..n : F[u][i] = ByAll(u, order[i], order)
  OBVIOUS
<1> HIDE DEF F
<1>6. PICK g : Folds(g, n, V, t, F)
  BY <1>1, <1>3, <1>4, FoldValues
<1>7. WidensAll(g, t, order)
  BY <1>1, <1>5, <1>6 DEF WidensAll, Folds
<1>8. PICK h : WidensAll(h, t, order) /\ WidestPaths(order, left) = h[DOMAIN order]
  BY <1>7, WidestPathsIsFold DEF t
<1>9. Follows(h, n, V, t, F)
  <2>1. \A s \in SUBSET (1..n) : s # {} => Max(s) \in 1..n
    BY <1>6 DEF Folds
  <2> QED
    BY <1>1, <1>5, <1>8, <2>1 DEF WidensAll, Follows
<1>10. RunsTo(h[1..n], n, V, t, F)
  BY <1>1, <1>3, <1>4, <1>9, RunOfFold
<1>11. h[1..n] \in V
  BY <1>1, <1>10 DEF IsRun, RunsTo
<1> QED
  BY <1>1, <1>8, <1>11

LEMMA WidestPathsType ==
  ASSUME NEW N, NEW order \in Seq(N), NEW known, NEW left \in [known -> Int]
  PROVE  WidestPaths(order, left) \in Tables(ToSet(order), Seq(Ways(ToSet(order), known)))
<1> DEFINE V == Tables(ToSet(order), Seq(Ways(ToSet(order), known)))
<1>1. DirectPaths(order, left) \in V
  BY DirectPathsType
<1>2. \A u \in V, s1, s2 \in ToSet(order) : RelaxVia(u, s1, s2) \in V
  BY RelaxViaType
<1> HIDE DEF V
<1>3. WidestPaths(order, left) \in V
  BY <1>1, <1>2, WidestPathsKeep
<1> QED
  BY <1>3 DEF V

-----------------------------------------------------------------------------
(* What holds of the routes on every graph and for every bandwidths.       *)

\* An entry stays as it is, or s1 is at one of its ends and reaches the other
\* end wider by way of s2.
LEMMA RelaxViaEntry ==
  ASSUME NEW sw, NEW S, NEW t \in Tables(sw, Seq(S)), NEW s1 \in sw, NEW s2 \in sw,
         NEW a \in sw, NEW b \in sw
  PROVE  \/ /\ RelaxVia(t, s1, s2).bw[a][b] = t.bw[a][b]
            /\ RelaxVia(t, s1, s2).path[a][b] = t.path[a][b]
         \/ /\ \/ a = s1 /\ t.bw[s1][b] < Via(t, s1, s2, b)
               \/ b = s1 /\ t.bw[s1][a] < Via(t, s1, s2, a)
            /\ RelaxVia(t, s1, s2).path[a][b] = Merge(t.path[a][s2], t.path[s2][b])
<1> DEFINE wider         == Wider(t, s1, s2)
           Written(x, y) == (x = s1 /\ y \in wider) \/ (y = s1 /\ x \in wider)
           bw   == [x \in sw |-> [y \in sw |->
                      IF Written(x, y) THEN Via(t, s1, s2, IF x = s1 THEN y ELSE x)
                      ELSE t.bw[x][y]]]
           path == [x \in sw |-> [y \in sw |->
                      IF Written(x, y) THEN Merge(t.path[x][s2], t.path[s2][y])
                      ELSE t.path[x][y]]]
<1>1. DOMAIN t.bw = sw
  BY DEF Tables
<1>2. CASE wider # {}
  <2>1. RelaxVia(t, s1, s2) = [bw |-> bw, path |-> path]
    BY <1>1, <1>2, Zenon DEF RelaxVia
  <2>2. \A x \in wider : t.bw[s1][x] < Via(t, s1, s2, x)
    BY DEF Wider
  <2>3. /\ bw[a][b] = IF Written(a, b) THEN Via(t, s1, s2, IF a = s1 THEN b ELSE a) ELSE t.bw[a][b]
        /\ path[a][b] = IF Written(a, b) THEN Merge(t.path[a][s2], t.path[s2][b]) ELSE t.path[a][b]
    OBVIOUS
  <2> HIDE DEF bw, path, wider
  <2> QED
    BY <2>1, <2>2, <2>3
<1>3. CASE wider = {}
  <2>1. RelaxVia(t, s1, s2) = t
    BY <1>3 DEF RelaxVia
  <2> QED
    BY <2>1
<1> QED
  BY <1>2, <1>3

\* Merged paths take a link once: what the shorter one adds is in the longer
\* one in neither direction.
LEMMA MergeOnce ==
  ASSUME NEW sw, NEW known, NEW p \in Seq(Ways(sw, known)), NEW q \in Seq(Ways(sw, known)),
         Once(p), Once(q)
  PROVE  Once(Merge(p, q))
<1> DEFINE W == Ways(sw, known)
           longer  == IF Len(p) >= Len(q) THEN p ELSE q
           shorter == IF Len(p) >= Len(q) THEN q ELSE p
           front == Without(longer, Backward(shorter))
           back  == Without(shorter, ToSet(longer) \union Backward(longer))
<1>1. longer \in Seq(W) /\ shorter \in Seq(W) /\ Once(longer) /\ Once(shorter)
  OBVIOUS
<1>2. \A e \in W : e = <<e[1], e[2]>>
  BY DEF Ways
<1>3. Merge(p, q) = front \o back
  BY DEF Merge
<1> HIDE DEF longer, shorter, W
<1>4. /\ front \in Seq(W) /\ front \in Seq(ToSet(longer)) /\ Once(front)
      /\ back \in Seq(W) /\ back \in Seq(ToSet(shorter) \ (ToSet(longer) \union Backward(longer))) /\ Once(back)
  <2>1. front \in Seq(ToSet(longer) \ Backward(shorter)) /\ Once(front) /\ front \in Seq(W)
    BY <1>1, WithoutIsPart, WithoutType
  <2>2. front \in Seq(ToSet(longer))
    BY <2>1, SeqMonotonic
  <2> QED
    BY <1>1, <2>1, <2>2, WithoutIsPart, WithoutType
<1> HIDE DEF front, back
<1>5. ToSet(longer) \subseteq W /\ ToSet(shorter) \subseteq W
  BY <1>1, SeqFacts DEF ToSet
<1>6. ASSUME NEW i \in 1..Len(front), NEW j \in 1..Len(back)
      PROVE  {front[i][1], front[i][2]} # {back[j][1], back[j][2]}
  <2> DEFINE x == front[i]
             y == back[j]
  <2>1. x \in ToSet(longer) /\ y \in ToSet(shorter) /\ y \notin ToSet(longer) /\ y \notin Backward(longer)
    BY <1>4, ElementOfSeq
  <2>2. x = <<x[1], x[2]>> /\ y = <<y[1], y[2]>>
    BY <1>2, <1>5, <2>1
  <2> HIDE DEF x, y
  <2>3. y # <<x[1], x[2]>> /\ y # <<x[2], x[1]>>
    BY <2>1, <2>2 DEF Backward, Reversed
  <2>4. {x[1], x[2]} # {y[1], y[2]}
    BY <2>2, <2>3
  <2> QED
    BY <2>4 DEF x, y
<1>7. /\ Len(front) \in Nat /\ DOMAIN front = 1..Len(front)
      /\ Len(back) \in Nat /\ DOMAIN back = 1..Len(back)
  BY <1>4, LenProperties
<1> DEFINE r == front \o back
<1>8. /\ DOMAIN r = 1..(Len(front) + Len(back))
      /\ \A i \in 1..(Len(front) + Len(back)) :
           r[i] = IF i <= Len(front) THEN front[i] ELSE back[i - Len(front)]
  <2>1. r \in Seq(W) /\ Len(r) = Len(front) + Len(back)
    BY <1>4, ConcatProperties
  <2> QED
    BY <1>4, <2>1, ConcatProperties, LenProperties
<1> HIDE DEF r
<1>9. ASSUME NEW i \in DOMAIN r, NEW j \in DOMAIN r, {r[i][1], r[i][2]} = {r[j][1], r[j][2]}
      PROVE  i = j
  <2> DEFINE m == Len(front)
  <2>1. /\ i \in Nat /\ j \in Nat
        /\ i <= m => i \in 1..m /\ r[i] = front[i]
        /\ j <= m => j \in 1..m /\ r[j] = front[j]
        /\ i > m => i - m \in 1..Len(back) /\ r[i] = back[i - m]
        /\ j > m => j - m \in 1..Len(back) /\ r[j] = back[j - m]
    BY <1>7, <1>8
  <2>2. CASE i <= m /\ j <= m
    BY <1>4, <1>7, <1>9, <2>1, <2>2 DEF Once
  <2>3. CASE i > m /\ j > m
    <3>1. i - m = j - m
      BY <1>4, <1>7, <1>9, <2>1, <2>3 DEF Once
    <3> QED
      BY <1>7, <2>1, <3>1
  <2>4. CASE i <= m /\ j > m
    BY <1>6, <1>9, <2>1, <2>4
  <2>5. CASE i > m /\ j <= m
    BY <1>6, <1>9, <2>1, <2>5
  <2> QED
    BY <1>7, <2>1, <2>2, <2>3, <2>4, <2>5
<1> QED
  BY <1>3, <1>9 DEF Once, r

\* So all paths do.
LEMMA WidestPathsOnce ==
  ASSUME NEW N, NEW order \in Seq(N), NEW known, NEW left \in [known -> Int],
         NEW a \in ToSet(order), NEW b \in ToSet(order)
  PROVE  Once(WidestPaths(order, left).path[a][b])
<1> DEFINE sw == ToSet(order)
           W  == Ways(sw, known)
           V  == {t \in Tables(sw, Seq(W)) : \A x, y \in sw : Once(t.path[x][y])}
<1>1. DirectPaths(order, left) \in V
  <2>1. DirectPaths(order, left) \in Tables(sw, Seq(W))
    BY DirectPathsType
  <2>2. ASSUME NEW x \in sw, NEW y \in sw PROVE Once(DirectPaths(order, left).path[x][y])
    <3>1. DirectPaths(order, left).path[x][y] = IF {x, y} \in DOMAIN left THEN << <<x, y>> >> ELSE <<>>
      BY DEF DirectPaths
    <3>2. Once(<<>>) /\ Once(<< <<x, y>> >>)
      BY DEF Once
    <3> QED
      BY <3>1, <3>2
  <2> QED
    BY <2>1, <2>2
<1>2. ASSUME NEW t \in V, NEW s1 \in sw, NEW s2 \in sw PROVE RelaxVia(t, s1, s2) \in V
  <2>1. RelaxVia(t, s1, s2) \in Tables(sw, Seq(W))
    BY RelaxViaType
  <2>2. ASSUME NEW x \in sw, NEW y \in sw PROVE Once(RelaxVia(t, s1, s2).path[x][y])
    <3>1. \/ RelaxVia(t, s1, s2).path[x][y] = t.path[x][y]
          \/ RelaxVia(t, s1, s2).path[x][y] = Merge(t.path[x][s2], t.path[s2][y])
      BY RelaxViaEntry
    <3>2. /\ t.path[x][s2] \in Seq(W) /\ t.path[s2][y] \in Seq(W)
          /\ Once(t.path[x][s2]) /\ Once(t.path[s2][y]) /\ Once(t.path[x][y])
      <4> HIDE DEF W, sw
      <4>1. t.path \in [sw -> [sw -> Seq(W)]]
        BY DEF Tables
      <4> QED
        BY <4>1
    <3>3. Once(Merge(t.path[x][s2], t.path[s2][y]))
      BY <3>2, MergeOnce
    <3> QED
      BY <3>1, <3>2, <3>3
  <2> QED
    BY <2>1, <2>2
<1> HIDE DEF V
<1>3. WidestPaths(order, left) \in V
  BY <1>1, <1>2, WidestPathsKeep
<1> QED
  BY <1>3 DEF V

\* A part of the switches that no link leaves; the links on the side of a.
Apart(part, known) == \A e \in known : e \subseteq part \/ e \cap part = {}
Beside(W, part, a) == {e \in W : \A i \in {1, 2} : e[i] \in part <=> a \in part}
KeepSides(sw, W, part) ==
  {t \in Tables(sw, Seq(W)) :
     \A a, b \in sw : IF a \in part <=> b \in part THEN t.path[a][b] \in Seq(Beside(W, part, a))
                      ELSE t.bw[a][b] = -BandwidthInf /\ t.path[a][b] = <<>>}

\* From one side to the other there is no way: one of the two that are put
\* together is none.  By way of the other side nothing is put together.
LEMMA RelaxViaKeepsSides ==
  ASSUME NEW sw, NEW W, NEW part, NEW t \in KeepSides(sw, W, part), NEW s1 \in sw, NEW s2 \in sw
  PROVE  RelaxVia(t, s1, s2) \in KeepSides(sw, W, part)
<1> DEFINE u == RelaxVia(t, s1, s2)
           Same(a, b) == a \in part <=> b \in part
<1>1. /\ t \in Tables(sw, Seq(W))
      /\ t.bw \in [sw -> [sw -> Int]]
      /\ \A a, b \in sw : IF Same(a, b) THEN t.path[a][b] \in Seq(Beside(W, part, a))
                          ELSE t.bw[a][b] = -BandwidthInf /\ t.path[a][b] = <<>>
  BY DEF KeepSides, Tables
<1>2. u \in Tables(sw, Seq(W))
  BY <1>1, RelaxViaType
<1>3. ASSUME NEW x \in sw, ~Same(s1, x) PROVE ~(t.bw[s1][x] < Via(t, s1, s2, x))
  <2>1. t.bw[s1][s2] \in Int /\ t.bw[s2][x] \in Int /\ t.bw[s1][x] = -BandwidthInf
    BY <1>1, <1>3
  <2>2. Via(t, s1, s2, x) \in Int /\ Via(t, s1, s2, x) <= t.bw[s1][s2] /\ Via(t, s1, s2, x) <= t.bw[s2][x]
    BY <2>1, MinOfTwo DEF Via
  <2>3. t.bw[s1][s2] = -BandwidthInf \/ t.bw[s2][x] = -BandwidthInf
    BY <1>1, <1>3
  <2> QED
    BY <2>1, <2>2, <2>3, InfAssumption
<1>4. ASSUME NEW a \in sw, NEW b \in sw
      PROVE  IF Same(a, b) THEN u.path[a][b] \in Seq(Beside(W, part, a))
             ELSE u.bw[a][b] = -BandwidthInf /\ u.path[a][b] = <<>>
  <2>1. \/ u.bw[a][b] = t.bw[a][b] /\ u.path[a][b] = t.path[a][b]
        \/ /\ \/ a = s1 /\ t.bw[s1][b] < Via(t, s1, s2, b)
              \/ b = s1 /\ t.bw[s1][a] < Via(t, s1, s2, a)
           /\ u.path[a][b] = Merge(t.path[a][s2], t.path[s2][b])
    BY <1>1, RelaxViaEntry
  <2>2. CASE u.bw[a][b] = t.bw[a][b] /\ u.path[a][b] = t.path[a][b]
    BY <1>1, <2>2
  <2>3. CASE /\ \/ a = s1 /\ t.bw[s1][b] < Via(t, s1, s2, b)
                \/ b = s1 /\ t.bw[s1][a] < Via(t, s1, s2, a)
             /\ u.path[a][b] = Merge(t.path[a][s2], t.path[s2][b])
    <3>1. Same(a, b)
      BY <1>3, <2>3
    <3>2. t.path[a][s2] \in Seq(Beside(W, part, a)) /\ t.path[s2][b] \in Seq(Beside(W, part, a))
      <4>1. CASE Same(a, s2)
        <5>1. Beside(W, part, s2) = Beside(W, part, a)
          BY <4>1 DEF Beside
        <5> QED
          BY <1>1, <3>1, <4>1, <5>1
      <4>2. CASE ~Same(a, s2)
        <5>1. t.path[a][s2] = <<>> /\ t.path[s2][b] = <<>>
          BY <1>1, <3>1, <4>2
        <5> QED
          BY <5>1, EmptySeq
      <4> QED
        BY <4>1, <4>2
    <3>3. u.path[a][b] \in Seq(Beside(W, part, a))
      BY <2>3, <3>2, MergeType
    <3> QED
      BY <3>1, <3>3
  <2> QED
    BY <2>1, <2>2, <2>3
<1> HIDE DEF u
<1>5. u \in KeepSides(sw, W, part)
  BY <1>2, <1>4 DEF KeepSides
<1> QED
  BY <1>5 DEF u

LEMMA WidestPathsKeepSides ==
  ASSUME NEW N, NEW order \in Seq(N), NEW known, NEW left \in [known -> Int], NEW part, Apart(part, known)
  PROVE  WidestPaths(order, left) \in KeepSides(ToSet(order), Ways(ToSet(order), known), part)
<1> DEFINE sw == ToSet(order)
           W  == Ways(sw, known)
           V  == KeepSides(sw, W, part)
           t  == DirectPaths(order, left)
<1>1. t \in V
  <2>1. t \in Tables(sw, Seq(W))
    BY DirectPathsType
  <2>2. ASSUME NEW a \in sw, NEW b \in sw
        PROVE  IF a \in part <=> b \in part THEN t.path[a][b] \in Seq(Beside(W, part, a))
               ELSE t.bw[a][b] = -BandwidthInf /\ t.path[a][b] = <<>>
    <3>1. /\ t.path[a][b] = IF {a, b} \in known THEN << <<a, b>> >> ELSE <<>>
          /\ a # b /\ {a, b} \notin known => t.bw[a][b] = -BandwidthInf
      BY DEF DirectPaths
    <3>2. CASE {a, b} \in known
      <4>1. (a \in part <=> b \in part) /\ <<a, b>> \in W
        BY <3>2 DEF Apart, Ways
      <4>2. <<a, b>> \in Beside(W, part, a)
        BY <4>1 DEF Beside
      <4> HIDE DEF W
      <4>3. << <<a, b>> >> \in Seq(Beside(W, part, a))
        BY <4>2
      <4> QED
        BY <3>1, <3>2, <4>1, <4>3
    <3>3. CASE {a, b} \notin known
      <4>1. t.path[a][b] = <<>> /\ (a # b => t.bw[a][b] = -BandwidthInf)
        BY <3>1, <3>3
      <4> QED
        BY <4>1, EmptySeq
    <3> QED
      BY <3>2, <3>3
  <2> HIDE DEF t, W
  <2> QED
    BY <2>1, <2>2 DEF KeepSides
<1>2. \A u \in V, s1, s2 \in sw : RelaxVia(u, s1, s2) \in V
  BY RelaxViaKeepsSides
<1> HIDE DEF V
<1>3. WidestPaths(order, left) \in V
  BY <1>1, <1>2, WidestPathsKeep
<1> QED
  BY <1>3 DEF V
-----------------------------------------------------------------------------
(* Bandwidths. *)

\* The ends of the links that are known.
Known(ls) == {l.ends : l \in ls}

LEMMA OperatingSecType ==
  ASSUME NEW failAt \in Int, NEW elapsed \in Int, NEW interval \in Int
  PROVE  OperatingSec(failAt, elapsed, interval) \in Int
  BY DEF OperatingSec

LEMMA LinkBetweenType ==
  ASSUME NEW ls, NEW e \in Known(ls)
  PROVE  LinkBetween(ls, e) \in ls
  BY DEF Known, LinkBetween

LEMMA LinkData ==
  ASSUME NEW l \in Link
  PROVE  l.bw \in Nat /\ l.failAt \in Int
<1>1. l.bw \in Bandwidths /\ l.failAt \in FailTimes \union {Unknown}
  BY DEF Link
<1>2. Unknown \in Int
  BY DEF Unknown
<1>3. \A b \in Bandwidths : b \in Nat
  BY TimeAssumption
<1>4. \A f \in FailTimes : f \in Int
  BY TimeAssumption
<1> QED
  BY <1>1, <1>2, <1>3, <1>4, Zenon

LEMMA ExpectedBwType ==
  ASSUME NEW ls \in SUBSET Link, NEW nth \in Nat, NEW interval \in Nat
  PROVE  ExpectedBw(ls, nth, interval) \in [Known(ls) -> Int]
<1> DEFINE elapsed == nth * interval
           Bw(e) == LinkBetween(ls, e).bw * OperatingSec(LinkBetween(ls, e).failAt, elapsed, interval)
<1>1. elapsed \in Int
  OBVIOUS
<1> HIDE DEF elapsed
<1>2. ASSUME NEW e \in Known(ls) PROVE Bw(e) \in Int
  <2>1. LinkBetween(ls, e).bw \in Nat /\ LinkBetween(ls, e).failAt \in Int
    BY LinkBetweenType, LinkData
  <2>2. \A f \in Int : OperatingSec(f, elapsed, interval) \in Int
    BY <1>1, OperatingSecType
  <2>3. \A a \in Nat, b \in Int : a * b \in Int
    OBVIOUS
  <2>4. OperatingSec(LinkBetween(ls, e).failAt, elapsed, interval) \in Int
    BY <2>1, <2>2
  <2> QED
    BY <2>1, <2>3, <2>4
<1>3. ExpectedBw(ls, nth, interval) = [e \in Known(ls) |-> Bw(e)]
  BY DEF ExpectedBw, Known, elapsed
<1> HIDE DEF Bw
<1> QED
  BY <1>2, <1>3

\* A path of known links has known ends.
LEMMA EndsOfKnown ==
  ASSUME NEW sw, NEW known, NEW path \in Seq(Ways(sw, known))
  PROVE  EndsOf(path) \in SUBSET known
<1> DEFINE W == Ways(sw, known)
<1>1. \A l \in W : {l[1], l[2]} \in known
  BY DEF Ways
<1> HIDE DEF W
<1>2. ToSet(path) \in SUBSET W
  BY SeqFacts DEF ToSet, W
<1> QED
  BY <1>1, <1>2 DEF EndsOf

LEMMA BottleneckType ==
  ASSUME NEW ls \in SUBSET Link, NEW sw, NEW path \in Seq(Ways(sw, Known(ls)))
  PROVE  /\ Bottleneck(path, ls) \in Nat
         /\ \A e \in EndsOf(path) : Bottleneck(path, ls) <= LinkBetween(ls, e).bw
<1> DEFINE T == {LinkBetween(ls, e).bw : e \in EndsOf(path)} \union {BandwidthInf}
<1>1. EndsOf(path) \in SUBSET Known(ls)
  BY EndsOfKnown
<1>2. \A e \in EndsOf(path) : LinkBetween(ls, e).bw \in Nat
  BY <1>1, LinkBetweenType, LinkData
<1>3. T \in SUBSET Nat /\ T # {}
  BY <1>2, InfAssumption
<1>4. Min(T) \in T /\ \A x \in T : Min(T) <= x
  BY <1>3, FirstIsIn
<1> QED
  BY <1>3, <1>4 DEF Bottleneck

-----------------------------------------------------------------------------
(* The order in which pairs are served. *)

LEMMA TimesKeeps ==
  ASSUME NEW x \in Int, NEW y \in Int, NEW z \in Int, z > 0
  PROVE  /\ x >= y => x * z >= y * z
         /\ x < y => x * z < y * z
<1>1. \A d \in Int : d >= 0 => d * z >= 0
  OBVIOUS
<1>2. \A d \in Int : d > 0 => d * z > 0
  OBVIOUS
<1>3. (x - y) * z = x * z - y * z /\ (y - x) * z = y * z - x * z
  OBVIOUS
<1>4. x * z \in Int /\ y * z \in Int /\ x - y \in Int /\ y - x \in Int
  OBVIOUS
<1>5. x >= y => x * z >= y * z
  <2>1. x >= y => (x - y) * z >= 0
    BY <1>1, <1>4
  <2> QED
    BY <2>1, <1>3, <1>4
<1>6. x < y => x * z < y * z
  <2>1. x < y => (y - x) * z > 0
    BY <1>2, <1>4
  <2> QED
    BY <2>1, <1>3, <1>4
<1> QED
  BY <1>5, <1>6

\* a/b >= c/d >= e/f, for positive denominators.
LEMMA FractionsOrdered ==
  ASSUME NEW a \in Int, NEW b \in Int, NEW c \in Int, NEW d \in Int, NEW e \in Int, NEW f \in Int,
         b > 0, d > 0, f > 0, a * d >= c * b, c * f >= e * d
  PROVE  a * f >= e * b
<1> DEFINE ad == a * d
           cb == c * b
           cf == c * f
           ed == e * d
           af == a * f
           eb == e * b
<1>1. /\ ad \in Int /\ cb \in Int /\ cf \in Int /\ ed \in Int /\ af \in Int /\ eb \in Int
      /\ ad >= cb /\ cf >= ed
  OBVIOUS
<1>2. ad * f = af * d /\ cb * f = cf * b /\ ed * b = eb * d
  OBVIOUS
<1> HIDE DEF ad, cb, cf, ed, af, eb
<1>3. ad * f >= cb * f /\ cf * b >= ed * b
  BY <1>1, TimesKeeps
<1>4. af * d >= eb * d
  <2>1. ad * f \in Int /\ cb * f \in Int /\ ed * b \in Int
    BY <1>1
  <2> QED
    BY <1>2, <1>3, <2>1
<1>5. ~(af < eb)
  <2>1. af < eb => af * d < eb * d
    BY <1>1, TimesKeeps
  <2>2. af * d \in Int /\ eb * d \in Int
    BY <1>1
  <2> QED
    BY <1>4, <2>1, <2>2
<1>6. af >= eb
  BY <1>1, <1>5
<1> QED
  BY <1>6 DEF af, eb

\* Pairs whose rates can be compared.
Rated(p) == p.size \in Int /\ p.failAt \in Int /\ p.failAt # 0

\* MoreUrgent compares two fractions with positive denominators, whatever the
\* signs of the failure times: both sides are multiplied by their squares.
LEMMA UrgencyIsFraction ==
  ASSUME NEW p, NEW q, Rated(p), Rated(q)
  PROVE  /\ MoreUrgent(p, q) <=> (p.size * p.failAt) * (q.failAt * q.failAt)
                                  > (q.size * q.failAt) * (p.failAt * p.failAt)
         /\ p.size * p.failAt \in Int /\ p.failAt * p.failAt \in Int
         /\ p.failAt * p.failAt > 0
<1> DEFINE a == p.size
           b == p.failAt
           c == q.size
           d == q.failAt
<1>1. a \in Int /\ b \in Int /\ c \in Int /\ d \in Int /\ b # 0
  BY DEF Rated
<1>2. MoreUrgent(p, q) <=> (a * d - c * b) * (b * d) > 0
  BY DEF MoreUrgent
<1> HIDE DEF a, b, c, d
<1>3. (a * d - c * b) * (b * d) = (a * b) * (d * d) - (c * d) * (b * b)
  BY <1>1
<1>4. (a * b) * (d * d) \in Int /\ (c * d) * (b * b) \in Int
  BY <1>1
<1>5. a * b \in Int /\ b * b \in Int /\ b * b > 0
  BY <1>1
<1>6. \A x, y \in Int : x - y > 0 <=> x > y
  OBVIOUS
<1>7. MoreUrgent(p, q) <=> (a * b) * (d * d) > (c * d) * (b * b)
  BY <1>2, <1>3, <1>4, <1>6
<1> QED
  BY <1>5, <1>7 DEF a, b, c, d

\* So it is an order, and pairs of the same rate are the same to it.
LEMMA UrgencyIsOrder ==
  ASSUME NEW p, NEW q, NEW r, Rated(p), Rated(q), Rated(r)
  PROVE  /\ ~(MoreUrgent(p, q) /\ MoreUrgent(q, p))
         /\ ~MoreUrgent(q, p) /\ ~MoreUrgent(r, q) => ~MoreUrgent(r, p)
<1> DEFINE N(x) == x.size * x.failAt
           D(x) == x.failAt * x.failAt
<1>1. \A x \in {p, q, r} : N(x) \in Int /\ D(x) \in Int /\ D(x) > 0
  BY UrgencyIsFraction
<1>2. \A x, y \in {p, q, r} : MoreUrgent(x, y) <=> N(x) * D(y) > N(y) * D(x)
  BY UrgencyIsFraction
<1> HIDE DEF N, D
<1>3. \A x, y \in {p, q, r} : N(x) * D(y) \in Int
  BY <1>1
<1>4. \A x, y \in {p, q, r} : ~MoreUrgent(x, y) <=> N(y) * D(x) >= N(x) * D(y)
  BY <1>2, <1>3
<1>5. ~(MoreUrgent(p, q) /\ MoreUrgent(q, p))
  <2>1. \A x, y \in Int : ~(x > y /\ y > x)
    OBVIOUS
  <2> QED
    BY <1>2, <1>3, <2>1
<1>6. ASSUME ~MoreUrgent(q, p), ~MoreUrgent(r, q) PROVE ~MoreUrgent(r, p)
  <2>1. N(p) * D(q) >= N(q) * D(p) /\ N(q) * D(r) >= N(r) * D(q)
    BY <1>4, <1>6
  <2>2. N(p) * D(r) >= N(r) * D(p)
    BY <1>1, <2>1, FractionsOrdered
  <2> QED
    BY <1>4, <2>2
<1> QED
  BY <1>5, <1>6

\* The i-th pair is served before the j-th; RankOf is the place of the j-th.
ComesBefore(pairs, i, j) == \/ MoreUrgent(pairs[i], pairs[j])
                            \/ ~MoreUrgent(pairs[j], pairs[i]) /\ i < j
Ahead(pairs, j) == {i \in DOMAIN pairs : ComesBefore(pairs, i, j)}
RankOf(pairs, j) == Cardinality(Ahead(pairs, j)) + 1

RatedSeq(pairs) ==
  /\ Len(pairs) \in Nat /\ DOMAIN pairs = 1..Len(pairs)
  /\ \A i \in 1..Len(pairs) : Rated(pairs[i])

LEMMA BeforeIsOrder ==
  ASSUME NEW pairs, RatedSeq(pairs),
         NEW i \in 1..Len(pairs), NEW j \in 1..Len(pairs), NEW k \in 1..Len(pairs)
  PROVE  /\ ~(ComesBefore(pairs, i, j) /\ ComesBefore(pairs, j, i))
         /\ i # j => ComesBefore(pairs, i, j) \/ ComesBefore(pairs, j, i)
         /\ ComesBefore(pairs, i, j) /\ ComesBefore(pairs, j, k) => ComesBefore(pairs, i, k)
<1> DEFINE MU(x, y) == MoreUrgent(pairs[x], pairs[y])
<1>1. \A x, y, z \in {i, j, k} :
        ~(MU(x, y) /\ MU(y, x)) /\ (~MU(y, x) /\ ~MU(z, y) => ~MU(z, x))
  BY UrgencyIsOrder DEF RatedSeq
<1>2. \A x, y \in {i, j, k} : ComesBefore(pairs, x, y) <=> MU(x, y) \/ (~MU(y, x) /\ x < y)
  BY DEF ComesBefore
<1> HIDE DEF MU
<1>3. i \in Int /\ j \in Int /\ k \in Int
  BY DEF RatedSeq
<1>4. ~(ComesBefore(pairs, i, j) /\ ComesBefore(pairs, j, i))
  BY <1>1, <1>2, <1>3
<1>5. i # j => ComesBefore(pairs, i, j) \/ ComesBefore(pairs, j, i)
  BY <1>1, <1>2, <1>3
<1>6. ASSUME ComesBefore(pairs, i, j), ComesBefore(pairs, j, k) PROVE ComesBefore(pairs, i, k)
  <2>1. ~MU(j, i) /\ ~MU(k, j)
    BY <1>1, <1>2, <1>6
  <2>2. ~MU(k, i)
    BY <1>1, <2>1
  <2>3. CASE MU(i, k)
    BY <1>2, <2>3
  <2>4. CASE ~MU(i, k)
    <3>1. ~MU(j, k) /\ ~MU(i, j)
      BY <1>1, <2>1, <2>4
    <3>2. i < j /\ j < k
      BY <1>2, <1>6, <3>1
    <3> QED
      BY <1>2, <1>3, <2>2, <3>2
  <2> QED
    BY <2>3, <2>4
<1> QED
  BY <1>4, <1>5, <1>6

\* Places are numbered from 1, and who is served before has the smaller one.
LEMMA RankGrows ==
  ASSUME NEW pairs, RatedSeq(pairs), NEW i \in 1..Len(pairs), NEW j \in 1..Len(pairs)
  PROVE  /\ RankOf(pairs, j) \in 1..Len(pairs)
         /\ ComesBefore(pairs, i, j) => RankOf(pairs, i) < RankOf(pairs, j)
<1> DEFINE n == Len(pairs)
<1>1. n \in Nat /\ DOMAIN pairs = 1..n
  BY DEF RatedSeq
<1>2. IsFiniteSet(1..n) /\ Cardinality(1..n) = n
  <2>1. IsFiniteSet(1..n) /\ Cardinality(1..n) = IF 1 > n THEN 0 ELSE n - 1 + 1
    BY <1>1, FS_Interval
  <2> QED
    BY <1>1, <2>1
<1>3. ASSUME NEW x \in 1..n
      PROVE  /\ IsFiniteSet(Ahead(pairs, x)) /\ Cardinality(Ahead(pairs, x)) \in Nat
             /\ Ahead(pairs, x) \in SUBSET (1..n) /\ x \notin Ahead(pairs, x)
  <2>1. Ahead(pairs, x) \in SUBSET (1..n)
    BY <1>1 DEF Ahead
  <2>2. x \notin Ahead(pairs, x)
    BY BeforeIsOrder DEF Ahead
  <2> QED
    BY <1>2, <2>1, <2>2, FS_Subset, FS_CardinalityType
<1>4. RankOf(pairs, j) \in 1..n
  <2> DEFINE A == Ahead(pairs, j) \union {j}
  <2>1. A \in SUBSET (1..n) /\ Cardinality(A) = Cardinality(Ahead(pairs, j)) + 1
    BY <1>3, FS_AddElement
  <2>2. Cardinality(A) <= n
    BY <1>2, <2>1, FS_Subset
  <2> QED
    BY <1>1, <1>3, <2>1, <2>2 DEF RankOf
<1>5. ASSUME ComesBefore(pairs, i, j) PROVE RankOf(pairs, i) < RankOf(pairs, j)
  <2> DEFINE A == Ahead(pairs, i) \union {i}
  <2>1. Cardinality(A) = Cardinality(Ahead(pairs, i)) + 1
    BY <1>3, FS_AddElement
  <2>2. A \in SUBSET Ahead(pairs, j)
    BY <1>1, <1>5, BeforeIsOrder DEF Ahead
  <2>3. Cardinality(A) <= Cardinality(Ahead(pairs, j))
    BY <1>3, <2>2, FS_Subset
  <2> QED
    BY <1>3, <2>1, <2>3 DEF RankOf
<1> QED
  BY <1>4, <1>5

\* The sort is a permutation, and what comes first in it comes before.
Sorts(at, pairs) ==
  /\ at \in Bijection(1..Len(pairs), 1..Len(pairs))
  /\ ByUrgency(pairs) = [k \in 1..Len(pairs) |-> pairs[at[k]]]
  /\ \A k, l \in 1..Len(pairs) : k < l => ComesBefore(pairs, at[k], at[l])

\* As no two have the same place and there are as many places as pairs, each
\* place is taken.
LEMMA ByUrgencySorts ==
  ASSUME NEW pairs, RatedSeq(pairs)
  PROVE  \E at : Sorts(at, pairs)
<1> DEFINE n == Len(pairs)
           rank == [j \in 1..n |-> RankOf(pairs, j)]
           at   == [k \in 1..n |-> CHOOSE j \in 1..n : RankOf(pairs, j) = k]
<1>1. n \in Nat /\ DOMAIN pairs = 1..n
  BY DEF RatedSeq
<1>2. IsFiniteSet(1..n)
  BY <1>1, FS_Interval
<1>3. \A i, j \in 1..n : /\ RankOf(pairs, j) \in 1..n
                         /\ ComesBefore(pairs, i, j) => RankOf(pairs, i) < RankOf(pairs, j)
                         /\ i # j => ComesBefore(pairs, i, j) \/ ComesBefore(pairs, j, i)
  BY RankGrows, BeforeIsOrder
<1>4. \A i, j \in 1..n : RankOf(pairs, i) = RankOf(pairs, j) => i = j
  BY <1>1, <1>3
<1>5. rank \in Surjection(1..n, 1..n)
  <2>1. rank \in [1..n -> 1..n]
    BY <1>3
  <2>2. rank \in Injection(1..n, 1..n)
    BY <1>4, <2>1 DEF Injection, IsInjective
  <2> QED
    BY <1>2, <2>2, FS_Injection
<1>6. ASSUME NEW k \in 1..n PROVE at[k] \in 1..n /\ RankOf(pairs, at[k]) = k
  <2>1. \E j \in 1..n : RankOf(pairs, j) = k
    BY <1>5 DEF Surjection
  <2> QED
    BY <2>1
<1>7. ByUrgency(pairs) = [k \in 1..n |-> pairs[at[k]]]
  <2>1. ByUrgency(pairs) = [k \in DOMAIN pairs |->
                              pairs[CHOOSE j \in DOMAIN pairs : RankOf(pairs, j) = k]]
    BY DEF ByUrgency, RankOf, Ahead, ComesBefore
  <2> QED
    BY <1>1, <2>1
<1> HIDE DEF at
<1>8. at \in [1..n -> 1..n]
  BY <1>6 DEF at
<1>9. at \in Bijection(1..n, 1..n)
  <2>1. \A j \in 1..n : at[RankOf(pairs, j)] = j
    BY <1>3, <1>4, <1>6
  <2>2. at \in Injection(1..n, 1..n)
    BY <1>6, <1>8 DEF Injection, IsInjective
  <2>3. at \in Surjection(1..n, 1..n)
    BY <1>3, <1>8, <2>1 DEF Surjection
  <2> QED
    BY <2>2, <2>3 DEF Bijection
<1>10. ASSUME NEW k \in 1..n, NEW l \in 1..n, k < l PROVE ComesBefore(pairs, at[k], at[l])
  <2>1. at[k] # at[l]
    BY <1>1, <1>6, <1>10
  <2>2. ~ComesBefore(pairs, at[l], at[k])
    <3>1. ~(l < k)
      BY <1>1, <1>10
    <3> QED
      BY <1>3, <1>6, <3>1
  <2> QED
    BY <1>3, <1>6, <2>1, <2>2
<1> QED
  BY <1>7, <1>9, <1>10 DEF Sorts
-----------------------------------------------------------------------------
(* The greedy loop. *)

\* What has been served of the pairs P, over links that are known: each by a
\* path the algorithm finds when something is left of the links.
RoutesOf(P, W) == [pair : P, path : Seq(W)]
RouteBy(r, order, left) ==
  r.path = WidestPaths(order, left).path[Neighbor[r.pair.client]][Neighbor[r.pair.server]]
Found(P, order, known) ==
  {r \in RoutesOf(P, Ways(ToSet(order), known)) : \E left \in [known -> Int] : RouteBy(r, order, left)}
Assigned(P, order, known) == [left : [known -> Int], routes : Seq(Found(P, order, known))]

\* b is a after p was served by path.
TakesFrom(b, a, path, ls, interval) ==
  b.left = [e \in DOMAIN a.left |-> IF e \in EndsOf(path)
                                    THEN a.left[e] - Bottleneck(path, ls) * interval ELSE a.left[e]]
ServesNext(b, a, p, order, ls, interval, V) ==
  /\ b \in V
  /\ \E path \in Seq(Ways(ToSet(order), Known(ls))) :
       b.routes = Append(a.routes, [pair |-> p, path |-> path]) /\ TakesFrom(b, a, path, ls, interval)
\* Serving a pair adds its route and keeps the others.
LEMMA AssignType ==
  ASSUME NEW N, NEW order \in Seq(N), NEW ls \in SUBSET Link, NEW interval \in Nat,
         NEW P, NEW p \in P, NEW a \in Assigned(P, order, Known(ls)),
         Neighbor[p.client] \in ToSet(order), Neighbor[p.server] \in ToSet(order)
  PROVE  ServesNext(Assign(a, p, order, ls, interval), a, p, order, ls, interval,
                    Assigned(P, order, Known(ls)))
<1> DEFINE sw    == ToSet(order)
           known == Known(ls)
           W     == Ways(sw, known)
           path  == WidestPaths(order, a.left).path[Neighbor[p.client]][Neighbor[p.server]]
           took  == Bottleneck(path, ls) * interval
           left  == [e \in DOMAIN a.left |-> IF e \in EndsOf(path) THEN a.left[e] - took
                                             ELSE a.left[e]]
           route == [pair |-> p, path |-> path]
           routes == Append(a.routes, route)
           b == Assign(a, p, order, ls, interval)
<1>1. a.left \in [known -> Int] /\ a.routes \in Seq(Found(P, order, known))
  BY DEF Assigned
<1>2. WidestPaths(order, a.left) \in Tables(sw, Seq(W))
  BY <1>1, WidestPathsType
<1>3. path \in Seq(W)
  <2> HIDE DEF W, sw
  <2>1. Neighbor[p.client] \in sw /\ Neighbor[p.server] \in sw
    BY DEF sw
  <2> QED
    BY <1>2, <2>1 DEF Tables
<1>4. RouteBy(route, order, a.left)
  BY DEF RouteBy
<1>5. b = [left |-> left, routes |-> routes]
  BY DEF Assign
<1> HIDE DEF path, b
<1>6. took \in Int
  <2>1. Bottleneck(path, ls) \in Nat
    BY <1>3, BottleneckType
  <2> QED
    BY <2>1
<1>7. route \in Found(P, order, known)
  <2>1. route \in RoutesOf(P, W)
    BY <1>3 DEF RoutesOf
  <2> QED
    BY <1>1, <1>4, <2>1 DEF Found
<1>8. b.left = left /\ b.routes = routes /\ b \in [left : {left}, routes : {routes}]
  BY <1>5
<1>9. \E way \in Seq(W) : /\ b.routes = Append(a.routes, [pair |-> p, path |-> way])
                          /\ TakesFrom(b, a, way, ls, interval)
  BY <1>3, <1>8 DEF TakesFrom
<1> HIDE DEF took, sw, known, route, W
<1>10. left \in [known -> Int] /\ routes \in Seq(Found(P, order, known))
  BY <1>1, <1>6, <1>7, AppendProperties
<1> HIDE DEF left, routes
<1>11. b \in Assigned(P, order, known)
  BY <1>8, <1>10 DEF Assigned
<1> QED
  BY <1>9, <1>11 DEF ServesNext, known, b, sw, W

\* The greedy loop, as the fold it is.
AssignsAll(h, order, ls, served, t, interval) ==
  h = [s \in SUBSET DOMAIN served |->
         IF s = {} THEN t
         ELSE Assign(h[s \ {Max(s)}], served[Max(s)], order, ls, interval)]
LEMMA CalcIsFold ==
  ASSUME NEW order, NEW ls, NEW pairs, NEW nth, NEW interval,
         \E h : AssignsAll(h, order, ls, ByUrgency(pairs),
                           [left |-> ExpectedBw(ls, nth, interval), routes |-> <<>>], interval)
  PROVE  \E h : /\ AssignsAll(h, order, ls, ByUrgency(pairs),
                              [left |-> ExpectedBw(ls, nth, interval), routes |-> <<>>], interval)
                /\ CalcTakahira(order, ls, pairs, nth, interval) = h[DOMAIN ByUrgency(pairs)]
  BY Zenon DEF AssignsAll, CalcTakahira, FoldLeft, MapThenFoldSet

\* The loop in steps: tr[k] is what has been served after k of them.
Serves(tr, served, order, ls, nth, interval) ==
  LET V == Assigned(ToSet(served), order, Known(ls))
      n == Len(served)
  IN  /\ tr \in [0..n -> V] /\ tr[0].left = ExpectedBw(ls, nth, interval) /\ tr[0].routes = <<>>
      /\ \A k \in 1..n : ServesNext(tr[k], tr[k - 1], served[k], order, ls, interval, V)
LEMMA CalcInSteps ==
  ASSUME NEW N, NEW order \in Seq(N), NEW ls \in SUBSET Link,
         NEW nth \in Nat, NEW interval \in Nat,
         NEW pairs, NEW Q, ByUrgency(pairs) \in Seq(Q),
         \A p \in ToSet(ByUrgency(pairs)) :
           Neighbor[p.client] \in ToSet(order) /\ Neighbor[p.server] \in ToSet(order)
  PROVE  \E tr : /\ Serves(tr, ByUrgency(pairs), order, ls, nth, interval)
                 /\ CalcTakahira(order, ls, pairs, nth, interval) = tr[Len(ByUrgency(pairs))]
<1> DEFINE served == ByUrgency(pairs)
           n  == Len(served)
           P  == ToSet(served)
           V  == Assigned(P, order, Known(ls))
           t  == [left |-> ExpectedBw(ls, nth, interval), routes |-> <<>>]
           F  == [a \in V |-> [i \in 1..n |-> Assign(a, served[i], order, ls, interval)]]
<1>1. n \in Nat /\ DOMAIN served = 1..n /\ \A i \in 1..n : served[i] \in P
  BY SeqFacts
<1>2. ASSUME NEW a \in V, NEW i \in 1..n
      PROVE  ServesNext(Assign(a, served[i], order, ls, interval), a, served[i], order, ls, interval, V)
  <2> DEFINE p == served[i]
  <2>1. p \in P /\ Neighbor[p.client] \in ToSet(order) /\ Neighbor[p.server] \in ToSet(order)
    BY <1>1
  <2> HIDE DEF p, P
  <2>2. ServesNext(Assign(a, p, order, ls, interval), a, p, order, ls, interval, V)
    BY <2>1, AssignType
  <2> QED
    BY <2>2 DEF p
<1>3. t \in V
  BY ExpectedBwType, EmptySeq DEF Assigned
<1>4. t.left = ExpectedBw(ls, nth, interval) /\ t.routes = <<>>
  OBVIOUS
<1> HIDE DEF n, V, t, served
<1>5. \A a \in V, i \in 1..n : Assign(a, served[i], order, ls, interval) \in V
  BY <1>2 DEF ServesNext
<1>6. F \in [V -> [1..n -> V]]
  BY <1>5
<1>7. \A a \in V, i \in 1..n : F[a][i] = Assign(a, served[i], order, ls, interval)
  OBVIOUS
<1> HIDE DEF F
<1>8. PICK g : Folds(g, n, V, t, F)
  BY <1>1, <1>3, <1>6, FoldValues
<1>9. AssignsAll(g, order, ls, served, t, interval)
  BY <1>1, <1>7, <1>8 DEF AssignsAll, Folds
<1>10. PICK h : /\ AssignsAll(h, order, ls, served, t, interval)
                /\ CalcTakahira(order, ls, pairs, nth, interval) = h[DOMAIN served]
  BY <1>9, CalcIsFold DEF t, served
<1>11. Follows(h, n, V, t, F)
  <2>1. \A s \in SUBSET (1..n) : s # {} => Max(s) \in 1..n
    BY <1>8 DEF Folds
  <2> QED
    BY <1>1, <1>7, <1>10, <2>1 DEF AssignsAll, Follows
<1>12. PICK tr : IsRun(tr, n, V, t, F) /\ tr[n] = h[1..n]
  <2>1. RunsTo(h[1..n], n, V, t, F)
    BY <1>1, <1>3, <1>6, <1>11, RunOfFold
  <2> QED
    BY <2>1 DEF RunsTo
<1>13. ASSUME NEW k \in 1..n
       PROVE  ServesNext(tr[k], tr[k - 1], served[k], order, ls, interval, V)
  <2>1. k - 1 \in 0..n
    BY <1>1
  <2>2. tr[k - 1] \in V /\ tr[k] = Assign(tr[k - 1], served[k], order, ls, interval)
    BY <1>7, <1>12, <2>1 DEF IsRun
  <2> QED
    BY <1>2, <2>2
<1>14. Serves(tr, served, order, ls, nth, interval)
  BY <1>4, <1>12, <1>13 DEF IsRun, Serves, V, n
<1>15. CalcTakahira(order, ls, pairs, nth, interval) = tr[n]
  BY <1>1, <1>10, <1>12
<1> QED
  BY <1>14, <1>15 DEF served, n

\* After k steps of the loop there are k routes, those of the first k pairs,
\* and a step leaves those of the earlier ones as they are.
LEMMA ServesSoFar ==
  ASSUME NEW tr, NEW served, NEW order, NEW ls, NEW nth, NEW interval,
         Serves(tr, served, order, ls, nth, interval), Len(served) \in Nat
  PROVE  /\ \A k \in 0..Len(served) :
              /\ tr[k] \in Assigned(ToSet(served), order, Known(ls))
              /\ Len(tr[k].routes) = k /\ DOMAIN tr[k].routes = 1..k
              /\ \A i \in 1..k : tr[k].routes[i].pair = served[i]
         /\ \A k \in 1..Len(served) : \E path \in Seq(Ways(ToSet(order), Known(ls))) :
              /\ tr[k].routes[k].path = path /\ TakesFrom(tr[k], tr[k - 1], path, ls, interval)
              /\ \A i \in 1..(k - 1) : tr[k].routes[i] = tr[k - 1].routes[i]
<1> DEFINE n == Len(served)
           R == Found(ToSet(served), order, Known(ls))
           V == Assigned(ToSet(served), order, Known(ls))
           OfK(k) == /\ Len(tr[k].routes) = k
                     /\ \A i \in 1..k : tr[k].routes[i].pair = served[i]
           K == {k \in 0..n : OfK(k)}
<1>1. /\ \A k \in 0..n : tr[k] \in V
      /\ tr[0].routes = <<>>
      /\ \A k \in 1..n : ServesNext(tr[k], tr[k - 1], served[k], order, ls, interval, V)
  BY DEF Serves
<1>2. \A k \in 0..n : tr[k].routes \in Seq(R)
  BY <1>1 DEF Assigned
<1> HIDE DEF R, V
<1>3. ASSUME NEW k \in 1..n, Len(tr[k - 1].routes) = k - 1
      PROVE  \E path \in Seq(Ways(ToSet(order), Known(ls))) :
               /\ Len(tr[k].routes) = k
               /\ tr[k].routes[k] = [pair |-> served[k], path |-> path]
               /\ \A i \in 1..(k - 1) : tr[k].routes[i] = tr[k - 1].routes[i]
               /\ TakesFrom(tr[k], tr[k - 1], path, ls, interval)
  <2>1. PICK path \in Seq(Ways(ToSet(order), Known(ls))) :
               /\ tr[k].routes = Append(tr[k - 1].routes, [pair |-> served[k], path |-> path])
               /\ TakesFrom(tr[k], tr[k - 1], path, ls, interval)
    BY <1>1 DEF ServesNext
  <2> DEFINE old == tr[k - 1].routes
             new == [pair |-> served[k], path |-> path]
  <2>2. IsSeq(old) /\ Len(old) = k - 1 /\ DOMAIN old = 1..(k - 1)
    <3>1. k - 1 \in 0..n
      OBVIOUS
    <3> QED
      BY <1>2, <1>3, <3>1, SeqIsSeq, IsSeqLen
  <2>3. tr[k].routes = Append(old, new)
    BY <2>1
  <2> HIDE DEF old, new
  <2>4. /\ Len(Append(old, new)) = k /\ Append(old, new)[k] = new
        /\ \A i \in 1..(k - 1) : Append(old, new)[i] = old[i]
    <3>1. Len(old) + 1 = k
      BY <2>2
    <3> QED
      BY <2>2, <3>1, AppendIsSeq
  <2> QED
    BY <2>1, <2>3, <2>4 DEF old, new
<1>4. 0 \in K
  BY <1>1
<1>5. ASSUME NEW k \in 1..n, k - 1 \in K PROVE k \in K
  <2>1. OfK(k - 1) /\ k \in 0..n
    BY <1>5
  <2>2. PICK path : /\ Len(tr[k].routes) = k
                    /\ tr[k].routes[k] = [pair |-> served[k], path |-> path]
                    /\ \A i \in 1..(k - 1) : tr[k].routes[i] = tr[k - 1].routes[i]
    BY <1>3, <2>1
  <2>3. ASSUME NEW i \in 1..k PROVE tr[k].routes[i].pair = served[i]
    <3>1. CASE i = k
      BY <2>2, <3>1
    <3>2. CASE i # k
      <4>1. i \in 1..(k - 1)
        BY <3>2
      <4>2. tr[k].routes[i] = tr[k - 1].routes[i] /\ tr[k - 1].routes[i].pair = served[i]
        BY <2>1, <2>2, <4>1
      <4> QED
        BY <4>2
    <3> QED
      BY <3>1, <3>2
  <2> QED
    BY <2>1, <2>2, <2>3
<1> HIDE DEF K
<1>6. \A k \in 0..n : k \in K
  BY <1>4, <1>5, UpTo
<1>7. \A k \in 0..n : OfK(k) /\ DOMAIN tr[k].routes = 1..k
  <2>1. \A k \in 0..n : OfK(k)
    BY <1>6 DEF K
  <2> QED
    BY <1>2, <2>1, LenProperties
<1>8. ASSUME NEW k \in 1..n
      PROVE  \E path \in Seq(Ways(ToSet(order), Known(ls))) :
               /\ tr[k].routes[k].path = path /\ TakesFrom(tr[k], tr[k - 1], path, ls, interval)
               /\ \A i \in 1..(k - 1) : tr[k].routes[i] = tr[k - 1].routes[i]
  <2>1. k - 1 \in 0..n
    OBVIOUS
  <2>2. Len(tr[k - 1].routes) = k - 1
    BY <1>7, <2>1
  <2>3. PICK path \in Seq(Ways(ToSet(order), Known(ls))) :
               /\ tr[k].routes[k] = [pair |-> served[k], path |-> path]
               /\ \A i \in 1..(k - 1) : tr[k].routes[i] = tr[k - 1].routes[i]
               /\ TakesFrom(tr[k], tr[k - 1], path, ls, interval)
    BY <1>3, <2>2
  <2>4. tr[k].routes[k].path = path
    BY <2>3
  <2> QED
    BY <2>3, <2>4
<1> QED
  BY <1>1, <1>7, <1>8 DEF V

\* The pairs of served, in that order, each with a path over known links.
ServesAll(routes, served, W) ==
  /\ routes \in Seq(RoutesOf(ToSet(served), W))
  /\ Len(routes) = Len(served)
  /\ \A k \in 1..Len(served) : routes[k].pair = served[k]

LEMMA CalcServesAll ==
  ASSUME NEW N, NEW order \in Seq(N), NEW ls \in SUBSET Link,
         NEW nth \in Nat, NEW interval \in Nat,
         NEW pairs, NEW Q, ByUrgency(pairs) \in Seq(Q),
         \A p \in ToSet(ByUrgency(pairs)) :
           Neighbor[p.client] \in ToSet(order) /\ Neighbor[p.server] \in ToSet(order)
  PROVE  /\ ServesAll(CalcTakahira(order, ls, pairs, nth, interval).routes,
                      ByUrgency(pairs), Ways(ToSet(order), Known(ls)))
         /\ CalcTakahira(order, ls, pairs, nth, interval).routes
              \in Seq(Found(ToSet(ByUrgency(pairs)), order, Known(ls)))
<1> DEFINE served == ByUrgency(pairs)
           n == Len(served)
           R == RoutesOf(ToSet(served), Ways(ToSet(order), Known(ls)))
           f == Found(ToSet(served), order, Known(ls))
<1>1. PICK tr : /\ Serves(tr, served, order, ls, nth, interval)
                /\ CalcTakahira(order, ls, pairs, nth, interval) = tr[n]
  BY CalcInSteps
<1>2. n \in Nat
  BY LenProperties
<1> HIDE DEF served, n
<1>3. /\ tr[n] \in Assigned(ToSet(served), order, Known(ls))
      /\ Len(tr[n].routes) = n /\ \A i \in 1..n : tr[n].routes[i].pair = served[i]
  BY <1>1, <1>2, ServesSoFar DEF n
<1>4. tr[n].routes \in Seq(f)
  BY <1>3 DEF Assigned
<1>5. f \subseteq R
  BY DEF Found
<1> HIDE DEF f, R
<1>6. tr[n].routes \in Seq(R)
  BY <1>4, <1>5, SeqMonotonic
<1> QED
  BY <1>1, <1>3, <1>4, <1>6 DEF ServesAll, R, f, n, served

LEMMA NeedsLessIsUrgency ==
  ASSUME NEW p, NEW q, Rated(p), Rated(q)
  PROVE  NeedsLess(p, q) <=> MoreUrgent(q, p)
<1> DEFINE x == q.size * p.failAt
           y == p.size * q.failAt
           c == q.failAt * p.failAt
<1>1. x \in Int /\ y \in Int /\ c \in Int /\ c # 0
  <2>1. \A a, b \in Int : a * b \in Int /\ (a # 0 /\ b # 0 => a * b # 0)
    OBVIOUS
  <2> QED
    BY <2>1 DEF Rated
<1>2. p.failAt * q.failAt = c
  BY DEF Rated
<1>3. MoreUrgent(q, p) <=> (x - y) * c > 0
  BY DEF MoreUrgent
<1>4. NeedsLess(p, q) <=> IF c > 0 THEN y < x ELSE y > x
  BY <1>2 DEF NeedsLess
<1> HIDE DEF x, y, c
<1>5. \A d \in Int : d * c > 0 <=> IF c > 0 THEN d > 0 ELSE d < 0
  BY <1>1
<1>6. x - y \in Int
  BY <1>1
<1>7. (x - y) * c > 0 <=> IF c > 0 THEN x - y > 0 ELSE x - y < 0
  BY <1>5, <1>6
<1> QED
  BY <1>1, <1>3, <1>4, <1>7

\* When the calculation does not raise, the routes are those of the pairs in
\* the order of their urgency.
LEMMA RoutesAreServed ==
  ASSUME CalcTypeOK, ~CalcRaises, NEW nth \in Nat
  PROVE  /\ RatedSeq(hostPairs)
         /\ ByUrgency(hostPairs) \in Seq(HostPair)
         /\ ServesAll(Routes(nth), ByUrgency(hostPairs), Ways(ToSet(switches), Known(links)))
         /\ Routes(nth) \in Seq(Found(ToSet(ByUrgency(hostPairs)), switches, Known(links)))
         /\ \A p \in ToSet(ByUrgency(hostPairs)) :
              Neighbor[p.client] \in ToSet(switches) /\ Neighbor[p.server] \in ToSet(switches)
<1> DEFINE n == Len(hostPairs)
<1>1. n \in Nat /\ DOMAIN hostPairs = 1..n /\ \A i \in 1..n : hostPairs[i] \in HostPair
  BY SeqFacts DEF CalcTypeOK
<1>2. \A p \in HostPair : p.size \in Int /\ p.failAt \in Int
  <2>1. \A f \in ClientFailTimes \union DataSizes \union {Unknown} : f \in Int
    BY TimeAssumption DEF Unknown
  <2> QED
    BY <2>1 DEF HostPair
<1>3. \A i \in 1..n : /\ hostPairs[i].failAt # 0
                      /\ Neighbor[hostPairs[i].client] \in ToSet(switches)
                      /\ Neighbor[hostPairs[i].server] \in ToSet(switches)
  BY <1>1 DEF CalcRaises
<1>4. RatedSeq(hostPairs)
  BY <1>1, <1>2, <1>3 DEF RatedSeq, Rated
<1>5. PICK at : Sorts(at, hostPairs)
  BY <1>4, ByUrgencySorts
<1>6. \A k \in 1..n : at[k] \in 1..n
  BY <1>5 DEF Sorts, Bijection, Injection
<1>7. ByUrgency(hostPairs) = [k \in 1..n |-> hostPairs[at[k]]]
  BY <1>5 DEF Sorts
<1>8. ByUrgency(hostPairs) \in Seq(HostPair)
  <2>1. \A k \in 1..n : hostPairs[at[k]] \in HostPair
    BY <1>1, <1>6
  <2> QED
    BY <1>1, <1>7, <2>1
<1>9. \A p \in ToSet(ByUrgency(hostPairs)) :
        Neighbor[p.client] \in ToSet(switches) /\ Neighbor[p.server] \in ToSet(switches)
  BY <1>3, <1>6, <1>7 DEF ToSet
<1>10. switches \in Seq(Switches) /\ links \in SUBSET Link /\ UpdateInterval \in Nat
  BY TimeAssumption DEF CalcTypeOK
<1> QED
  BY <1>4, <1>8, <1>9, <1>10, CalcServesAll DEF Routes, Calc

\* Whatever was registered, pairs are served in the order of the rate they
\* need, each once, and equal ones in the order of the list.
THEOREM MostUrgentFirstTheorem == CalcSpec => []MostUrgentFirst
<1>1. CalcTypeOK => MostUrgentFirst
  <2> SUFFICES ASSUME CalcTypeOK, ~CalcRaises, NEW nth \in 0..MaxUpdates
               PROVE  \E at \in Bijection(DOMAIN Routes(nth), DOMAIN hostPairs) :
                        ServedInOrder(Routes(nth), at)
    BY DEF MostUrgentFirst
  <2> DEFINE n == Len(hostPairs)
             served == ByUrgency(hostPairs)
             routes == Routes(nth)
  <2>1. /\ RatedSeq(hostPairs)
        /\ ServesAll(routes, served, Ways(ToSet(switches), Known(links)))
    BY RoutesAreServed
  <2>2. PICK at : Sorts(at, hostPairs)
    BY <2>1, ByUrgencySorts
  <2>3. /\ at \in Bijection(1..n, 1..n) /\ served = [k \in 1..n |-> hostPairs[at[k]]]
        /\ \A k, l \in 1..n : k < l => ComesBefore(hostPairs, at[k], at[l])
    BY <2>2 DEF Sorts
  <2>4. n \in Nat /\ DOMAIN hostPairs = 1..n /\ \A i \in 1..n : Rated(hostPairs[i])
    BY <2>1 DEF RatedSeq
  <2>5. \A k \in 1..n : at[k] \in 1..n
    BY <2>3 DEF Bijection, Injection
  <2> HIDE DEF served, routes
  <2>6. Len(served) = n
    BY <2>3, <2>4
  <2>7. DOMAIN routes = 1..n
    BY <2>1, <2>6, LenProperties DEF ServesAll
  <2>8. \A k \in 1..n : routes[k].pair = hostPairs[at[k]]
    BY <2>1, <2>3, <2>6 DEF ServesAll
  <2>9. ASSUME NEW i \in 1..n, NEW j \in 1..n, i < j
        PROVE  /\ ~NeedsLess(routes[i].pair, routes[j].pair)
               /\ ~NeedsLess(routes[j].pair, routes[i].pair) => at[i] < at[j]
    <3> DEFINE p == routes[i].pair
               q == routes[j].pair
    <3>1. p = hostPairs[at[i]] /\ q = hostPairs[at[j]] /\ Rated(p) /\ Rated(q)
      BY <2>4, <2>5, <2>8
    <3> HIDE DEF p, q
    <3>2. MoreUrgent(p, q) \/ (~MoreUrgent(q, p) /\ at[i] < at[j])
      BY <2>3, <2>9, <3>1 DEF ComesBefore
    <3>3. ~(MoreUrgent(p, q) /\ MoreUrgent(q, p))
      BY <3>1, UrgencyIsOrder
    <3>4. /\ NeedsLess(p, q) <=> MoreUrgent(q, p)
          /\ NeedsLess(q, p) <=> MoreUrgent(p, q)
      BY <3>1, NeedsLessIsUrgency
    <3>5. ~NeedsLess(p, q) /\ (~NeedsLess(q, p) => at[i] < at[j])
      BY <3>2, <3>3, <3>4
    <3> QED
      BY <3>5 DEF p, q
  <2>10. ServedInOrder(routes, at)
    BY <2>7, <2>8, <2>9 DEF ServedInOrder
  <2> QED
    BY <2>3, <2>4, <2>7, <2>10 DEF routes
<1> QED
  BY <1>1, CalcTypes, PTL
-----------------------------------------------------------------------------
(* What the routes are on every network. *)

\* Whatever is left of the links, the path found for a pair keeps to the part
\* it starts in.
LEMMA FoundKeepsToItsPart ==
  ASSUME CalcTypeOK, NEW part, NoLinkLeaves(part),
         NEW P, NEW r \in Found(P, switches, Known(links)),
         Neighbor[r.pair.client] \in ToSet(switches), Neighbor[r.pair.server] \in ToSet(switches)
  PROVE  KeepsTo(part, r)
<1> DEFINE sw == ToSet(switches)
           W  == Ways(sw, Known(links))
           a  == Neighbor[r.pair.client]
           b  == Neighbor[r.pair.server]
<1>1. PICK left \in [Known(links) -> Int] : RouteBy(r, switches, left)
  BY DEF Found
<1>2. Apart(part, Known(links))
  BY DEF NoLinkLeaves, Apart, Known
<1>3. switches \in Seq(Switches)
  BY DEF CalcTypeOK
<1>4. WidestPaths(switches, left) \in KeepSides(sw, W, part)
  BY <1>1, <1>2, <1>3, WidestPathsKeepSides
<1>5. r.path = WidestPaths(switches, left).path[a][b]
  BY <1>1 DEF RouteBy
<1> HIDE DEF W
<1>6. IF a \in part <=> b \in part THEN r.path \in Seq(Beside(W, part, a)) ELSE r.path = <<>>
  BY <1>4, <1>5 DEF KeepSides
<1>7. ASSUME a \in part, b \in part, NEW e \in Crossed(r.path) PROVE e \subseteq part
  <2> DEFINE S == Beside(W, part, a)
  <2>1. r.path \in Seq(S)
    BY <1>6, <1>7
  <2>2. PICK d \in ToSet(r.path) : e = {d[1], d[2]}
    BY <1>7 DEF Crossed
  <2> HIDE DEF S
  <2>3. d \in S
    BY <2>1, <2>2, SeqFacts DEF ToSet
  <2> QED
    BY <1>7, <2>2, <2>3 DEF S, Beside
<1> QED
  BY <1>6, <1>7 DEF KeepsTo

\* On every network and for every order in which the pairs are served, a route
\* takes links of the part it starts in only, and is none if it would have to
\* leave it.
THEOREM RoutesKeepToTheirPartTheorem == CalcSpec => []RoutesKeepToTheirPart
<1>1. CalcTypeOK => RoutesKeepToTheirPart
  <2> SUFFICES ASSUME CalcTypeOK, ~CalcRaises, NEW nth \in 0..MaxUpdates,
                      NEW part \in SUBSET Switches, NoLinkLeaves(part),
                      NEW r \in ToSet(Routes(nth))
               PROVE  KeepsTo(part, r)
    BY DEF RoutesKeepToTheirPart
  <2> DEFINE P == ToSet(ByUrgency(hostPairs))
             f == Found(P, switches, Known(links))
  <2>1. nth \in Nat
    BY TimeAssumption
  <2>2. /\ Routes(nth) \in Seq(f)
        /\ \A p \in P : Neighbor[p.client] \in ToSet(switches) /\ Neighbor[p.server] \in ToSet(switches)
    BY <2>1, RoutesAreServed
  <2> HIDE DEF f
  <2>3. r \in f
    BY <2>2, SeqFacts DEF ToSet
  <2>4. r.pair \in P
    BY <2>3 DEF f, Found, RoutesOf
  <2> HIDE DEF P
  <2> QED
    BY <2>2, <2>3, <2>4, FoundKeepsToItsPart DEF f
<1> QED
  BY <1>1, CalcTypes, PTL

\* On every network, no route takes a link twice.
THEOREM LinksTakenOnceTheorem == CalcSpec => []LinksTakenOnce
<1>1. CalcTypeOK => LinksTakenOnce
  <2> SUFFICES ASSUME CalcTypeOK, ~CalcRaises, NEW nth \in 0..MaxUpdates, NEW r \in ToSet(Routes(nth))
               PROVE  Once(r.path)
    BY DEF LinksTakenOnce, Once
  <2> DEFINE P == ToSet(ByUrgency(hostPairs))
             f == Found(P, switches, Known(links))
  <2>1. nth \in Nat
    BY TimeAssumption
  <2>2. /\ Routes(nth) \in Seq(f)
        /\ \A p \in P : Neighbor[p.client] \in ToSet(switches) /\ Neighbor[p.server] \in ToSet(switches)
    BY <2>1, RoutesAreServed
  <2> HIDE DEF f
  <2>3. r \in f
    BY <2>2, SeqFacts DEF ToSet
  <2>4. r.pair \in P /\ \E left \in [Known(links) -> Int] : RouteBy(r, switches, left)
    BY <2>3 DEF f, Found, RoutesOf
  <2>5. switches \in Seq(Switches)
    BY DEF CalcTypeOK
  <2> QED
    BY <2>2, <2>4, <2>5, WidestPathsOnce DEF RouteBy
<1> QED
  BY <1>1, CalcTypes, PTL

\* What k routes over a link of bandwidth bw may have taken of it.
LEMMA OneMoreTakes ==
  ASSUME NEW c \in Nat, NEW bw \in Nat, NEW least \in Nat, least <= bw,
         NEW interval \in Nat, interval > 0
  PROVE  /\ least * interval \in Nat /\ c * bw * interval \in Nat
         /\ c * bw * interval + least * interval <= (c + 1) * bw * interval
<1>1. (c + 1) * bw * interval = c * bw * interval + bw * interval
  BY Z3
<1>2. least * interval <= bw * interval
  BY TimesKeeps
<1>3. least * interval \in Nat /\ bw * interval \in Nat /\ c * bw * interval \in Nat
  <2>1. \A x, y \in Nat : x * y \in Nat
    OBVIOUS
  <2> QED
    BY <2>1
<1> QED
  BY <1>1, <1>2, <1>3

\* No more is missing of a link than its bandwidth for each of the n routes
\* that cross it.
Accounted(a, n, e, ls, nth, interval) ==
  LET over == {i \in 1..n : e \in Crossed(a.routes[i].path)}
      new  == ExpectedBw(ls, nth, interval)[e]
  IN  /\ a.left[e] <= new
      /\ new - a.left[e] <= Cardinality(over) * LinkBetween(ls, e).bw * interval

\* So it is after every step of the loop.
LEMMA LeftSoFar ==
  ASSUME NEW order, NEW ls \in SUBSET Link, NEW nth \in Nat, NEW interval \in Nat, interval > 0,
         NEW served, Len(served) \in Nat, NEW tr, Serves(tr, served, order, ls, nth, interval),
         NEW e \in Known(ls)
  PROVE  \A k \in 0..Len(served) : Accounted(tr[k], k, e, ls, nth, interval)
<1> DEFINE n  == Len(served)
           bw == LinkBetween(ls, e).bw
           new == ExpectedBw(ls, nth, interval)[e]
           Over(k)  == {i \in 1..k : e \in Crossed(tr[k].routes[i].path)}
           OfK(k)   == /\ tr[k].left[e] <= new
                       /\ new - tr[k].left[e] <= Cardinality(Over(k)) * bw * interval
           K == {k \in 0..n : OfK(k)}
<1>1. bw \in Nat
  BY LinkBetweenType, LinkData
<1>2. new \in Int
  BY ExpectedBwType
<1>3. \A k \in 0..n : tr[k].left \in [Known(ls) -> Int] /\ tr[k].left[e] \in Int
  BY ServesSoFar DEF Assigned
<1> HIDE DEF bw, new
<1>4. \A k \in 0..n : IsFiniteSet(Over(k)) /\ Cardinality(Over(k)) \in Nat
  <2> SUFFICES ASSUME NEW k \in 0..n PROVE IsFiniteSet(Over(k)) /\ Cardinality(Over(k)) \in Nat
    OBVIOUS
  <2>1. IsFiniteSet(1..k) /\ Over(k) \in SUBSET (1..k)
    BY FS_Interval
  <2> QED
    BY <2>1, FS_Subset, FS_CardinalityType
<1>5. 0 \in K
  <2>1. tr[0].left[e] = new
    BY DEF Serves, new
  <2>2. Cardinality(Over(0)) = 0
    <3>1. Over(0) = {}
      OBVIOUS
    <3> QED
      BY <3>1, FS_EmptySet
  <2>3. OfK(0)
    BY <1>1, <1>2, <2>1, <2>2
  <2> QED
    BY <2>3
<1>6. ASSUME NEW k \in 1..n, k - 1 \in K PROVE k \in K
  <2>1. k \in 0..n /\ k - 1 \in 0..n /\ OfK(k - 1)
    BY <1>6
  <2>2. PICK path \in Seq(Ways(ToSet(order), Known(ls))) :
          /\ tr[k].routes[k].path = path /\ TakesFrom(tr[k], tr[k - 1], path, ls, interval)
          /\ \A i \in 1..(k - 1) : tr[k].routes[i] = tr[k - 1].routes[i]
    BY ServesSoFar
  <2>3. Crossed(path) = EndsOf(path)
    BY DEF Crossed, EndsOf
  <2>4. tr[k].left[e] = IF e \in EndsOf(path) THEN tr[k - 1].left[e] - Bottleneck(path, ls) * interval
                        ELSE tr[k - 1].left[e]
    BY <1>3, <2>1, <2>2 DEF TakesFrom
  <2>5. Over(k) = IF e \in EndsOf(path) THEN Over(k - 1) \union {k} ELSE Over(k - 1)
    <3>1. \A i \in 1..k : i = k \/ i \in 1..(k - 1)
      OBVIOUS
    <3>2. \A i \in 1..(k - 1) : i \in 1..k /\ i # k /\ tr[k].routes[i] = tr[k - 1].routes[i]
      BY <2>2
    <3>3. k \in 1..k /\ (e \in Crossed(tr[k].routes[k].path) <=> e \in EndsOf(path))
      BY <2>2, <2>3
    <3> QED
      BY <3>1, <3>2, <3>3
  <2>6. k \notin Over(k - 1)
    OBVIOUS
  <2> HIDE DEF Over
  <2>7. CASE e \notin EndsOf(path)
    BY <2>1, <2>4, <2>5, <2>7
  <2>8. CASE e \in EndsOf(path)
    <3> DEFINE c    == Cardinality(Over(k - 1))
               took == Bottleneck(path, ls) * interval
               had  == c * bw * interval
               has  == Cardinality(Over(k)) * bw * interval
    <3>1. c \in Nat /\ Cardinality(Over(k)) = c + 1
      BY <1>4, <2>1, <2>5, <2>6, <2>8, FS_AddElement
    <3>2. Bottleneck(path, ls) \in Nat /\ Bottleneck(path, ls) <= bw
      BY <2>8, BottleneckType DEF bw
    <3>3. took \in Nat /\ had \in Nat /\ had + took <= has /\ has \in Nat
      <4> HIDE DEF c
      <4>1. took \in Nat /\ had \in Nat /\ had + took <= (c + 1) * bw * interval
        BY <1>1, <3>1, <3>2, OneMoreTakes
      <4>2. (c + 1) * bw * interval \in Nat
        BY <1>1, <3>1
      <4> QED
        BY <3>1, <4>1, <4>2
    <3>4. tr[k].left[e] = tr[k - 1].left[e] - took
      BY <2>4, <2>8
    <3>5. tr[k - 1].left[e] <= new /\ new - tr[k - 1].left[e] <= had
      BY <2>1
    <3> HIDE DEF took, had, has
    <3>6. tr[k].left[e] <= new /\ new - tr[k].left[e] <= has
      <4>1. \A x, y \in Int : x = y - took /\ y <= new /\ new - y <= had => x <= new /\ new - x <= has
        BY <1>2, <3>3
      <4>2. tr[k].left[e] \in Int /\ tr[k - 1].left[e] \in Int
        BY <1>3, <2>1
      <4> QED
        BY <3>4, <3>5, <4>1, <4>2
    <3> QED
      BY <2>1, <3>6 DEF has
  <2> QED
    BY <2>7, <2>8
<1> HIDE DEF K
<1>7. \A k \in 0..n : k \in K
  BY <1>5, <1>6, UpTo
<1> QED
  BY <1>7 DEF K, bw, new, Accounted

\* On every network and whatever is predicted of its links, a link is
\* overbooked by the routes that cross it only, and by no more than its
\* bandwidth for each.
THEOREM LeftIsAccountedTheorem == CalcSpec => []LeftIsAccounted
<1>1. CalcTypeOK /\ Distinct => LeftIsAccounted
  <2> SUFFICES ASSUME CalcTypeOK, Distinct, ~CalcRaises, NEW nth \in 0..MaxUpdates, NEW l \in links
               PROVE  LET done == Calc(nth, hostPairs)
                          new  == ExpectedBw(links, nth, UpdateInterval)
                          over == {k \in DOMAIN done.routes : l.ends \in Crossed(done.routes[k].path)}
                      IN  /\ done.left[l.ends] <= new[l.ends]
                          /\ new[l.ends] - done.left[l.ends]
                               <= Cardinality(over) * l.bw * UpdateInterval
    BY DEF LeftIsAccounted
  <2> DEFINE served == ByUrgency(hostPairs)
             n == Len(served)
  <2>1. /\ nth \in Nat /\ UpdateInterval \in Nat /\ UpdateInterval > 0
        /\ switches \in Seq(Switches) /\ links \in SUBSET Link
    BY TimeAssumption DEF CalcTypeOK
  <2>2. /\ served \in Seq(HostPair)
        /\ \A p \in ToSet(served) :
             Neighbor[p.client] \in ToSet(switches) /\ Neighbor[p.server] \in ToSet(switches)
    BY <2>1, RoutesAreServed
  <2>3. PICK tr : /\ Serves(tr, served, switches, links, nth, UpdateInterval)
                  /\ CalcTakahira(switches, links, hostPairs, nth, UpdateInterval) = tr[n]
    BY <2>1, <2>2, CalcInSteps
  <2>4. n \in Nat /\ n \in 0..n
    BY <2>2, LenProperties
  <2>5. Calc(nth, hostPairs) = tr[n]
    BY <2>3 DEF Calc
  <2> HIDE DEF served, n
  <2>6. DOMAIN tr[n].routes = 1..n
    BY <2>3, <2>4, ServesSoFar DEF n
  <2>7. l.ends \in Known(links) /\ LinkBetween(links, l.ends) = l
    <3>1. l.ends \in Known(links)
      BY DEF Known
    <3>2. LinkBetween(links, l.ends) \in links /\ LinkBetween(links, l.ends).ends = l.ends
      BY DEF LinkBetween
    <3> QED
      BY <3>1, <3>2 DEF Distinct
  <2>8. Accounted(tr[n], n, l.ends, links, nth, UpdateInterval)
    BY <2>1, <2>3, <2>4, <2>7, LeftSoFar DEF n
  <2> QED
    BY <2>5, <2>6, <2>7, <2>8 DEF Accounted
<1>2. CalcInit => Distinct
  BY DEF CalcInit, Distinct
<1>3. CalcTypeOK /\ Distinct /\ [CalcNext]_calcVars => Distinct'
  BY StepRemembers
<1> QED
  BY <1>1, <1>2, <1>3, CalcTypes, PTL DEF CalcSpec
=============================================================================
