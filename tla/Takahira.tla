------------------------------ MODULE Takahira ------------------------------
(***************************************************************************)
(* The routing algorithm the controller runs (RoutingAlgorithm.TAKAHIRA):  *)
(* RouteCalculator.__calc_takahira and Path.merge.  It predicts what each  *)
(* link carries in the next update interval, orders the host pairs by the  *)
(* rate their backup needs and gives each pair in turn a widest path of    *)
(* what is left.                                                           *)
(*                                                                         *)
(* Data.  A link is [ends |-> {a, b}, bw, failAt], a directed link is the  *)
(* tuple <<from, to>>, a path is a sequence of directed links.  The code   *)
(* multiplies a bandwidth by a ratio of the interval; here bandwidths are  *)
(* multiplied by the interval instead, so that all of them are integers.   *)
(*                                                                         *)
(* An operator named Slip... is no part of the model: it is the definition *)
(* after it with a mistake, which a property of the module has to notice.  *)
(***************************************************************************)
EXTENDS Integers, SequencesExt

CONSTANTS
  BandwidthInf,  \* stands for 10 ** 10: more than any link offers
  Neighbor       \* Neighbor[h] is the switch that host h is wired to

ASSUME InfAssumption == BandwidthInf \in Nat

Unknown == -1    \* fail_at_sec and datasize_gb until they are registered

-----------------------------------------------------------------------------
(* The prediction for the interval that starts at elapsed. *)

\* Slip: an interval in which the link fails counts as a whole.
SlipOperatingSec(failAt, elapsed, interval) ==
  IF failAt = Unknown \/ elapsed <= failAt THEN interval ELSE 0

\* The seconds of the interval during which the link still works:
\* ope_ratio * update_interval_sec.
OperatingSec(failAt, elapsed, interval) ==
  CASE failAt = Unknown \/ elapsed + interval <= failAt -> interval
    [] failAt # Unknown /\ elapsed <= failAt /\ failAt < elapsed + interval
         -> failAt - elapsed
    [] OTHER -> 0

LinkBetween(links, ends) == CHOOSE l \in links : l.ends = ends

\* expected_bw_gbps, before any pair has been served.
ExpectedBw(links, nth, interval) ==
  [e \in {l.ends : l \in links} |->
     LET l == LinkBetween(links, e)
     IN  l.bw * OperatingSec(l.failAt, nth * interval, interval)]

-----------------------------------------------------------------------------
(* The order in which host pairs are served. *)

\* datasize_gb / fail_at_sec of p is greater than that of q (neither
\* fail_at_sec is zero: the division raises).
MoreUrgent(p, q) ==
  (p.size * q.failAt - q.size * p.failAt) * (p.failAt * q.failAt) > 0

\* Slip: without reverse=True.
SlipByUrgency(pairs) ==
  LET Before(i, j) == \/ MoreUrgent(pairs[j], pairs[i])
                      \/ ~MoreUrgent(pairs[i], pairs[j]) /\ i < j
      Rank(j) == Cardinality({i \in DOMAIN pairs : Before(i, j)}) + 1
  IN  [k \in DOMAIN pairs |-> pairs[CHOOSE j \in DOMAIN pairs : Rank(j) = k]]

\* requested_bandwidths.sort(reverse=True): descending and stable.
ByUrgency(pairs) ==
  LET Before(i, j) == \/ MoreUrgent(pairs[i], pairs[j])
                      \/ ~MoreUrgent(pairs[j], pairs[i]) /\ i < j
      Rank(j) == Cardinality({i \in DOMAIN pairs : Before(i, j)}) + 1
  IN  [k \in DOMAIN pairs |-> pairs[CHOOSE j \in DOMAIN pairs : Rank(j) = k]]

-----------------------------------------------------------------------------
(* Widest paths. *)

Reversed(link) == <<link[2], link[1]>>
Backward(path) == {Reversed(l) : l \in ToSet(path)}
EndsOf(path)   == {{l[1], l[2]} : l \in ToSet(path)}

\* What rm leaves of a path once all of some links are taken out.
Without(path, taken) ==
  FoldLeft(LAMBDA p, l : IF l \in taken THEN p ELSE Append(p, l), <<>>, path)

\* Slip: links walked forth and back are kept.
SlipMerge(path1, path2) ==
  LET longer  == IF Len(path1) >= Len(path2) THEN path1 ELSE path2
      shorter == IF Len(path1) >= Len(path2) THEN path2 ELSE path1
  IN  longer \o Without(shorter, ToSet(longer))

\* Path.merge: the longer path keeps its place in front; a link in both is
\* kept once, a link one walks forth and the other back is dropped from both.
Merge(path1, path2) ==
  LET longer  == IF Len(path1) >= Len(path2) THEN path1 ELSE path2
      shorter == IF Len(path1) >= Len(path2) THEN path2 ELSE path1
  IN  Without(longer, Backward(shorter))
        \o Without(shorter, ToSet(longer) \union Backward(longer))

\* bandwidths and paths before the loops: one link, or nothing.
DirectPaths(switches, left) ==
  LET S == ToSet(switches)
  IN  [bw   |-> [a \in S |-> [b \in S |->
                   CASE a = b -> BandwidthInf
                     [] a # b /\ {a, b} \in DOMAIN left -> left[{a, b}]
                     [] OTHER -> -BandwidthInf]],
       path |-> [a \in S |-> [b \in S |->
                   IF {a, b} \in DOMAIN left THEN << <<a, b>> >> ELSE <<>>]]]

\* Slip: the wider part decides.
SlipVia(t, s1, s2, s3) == Max({t.bw[s1][s2], t.bw[s2][s3]})

\* The switches that s1 reaches wider by way of s2 than it did.
Via(t, s1, s2, s3) == Min({t.bw[s1][s2], t.bw[s2][s3]})
Wider(t, s1, s2) == {s3 \in DOMAIN t.bw : t.bw[s1][s3] < Via(t, s1, s2, s3)}

\* The loop over s3.  An iteration writes s1-s3 and s3-s1 only, and only if s3
\* is neither s1 nor s2; it reads s1-s2, s2-s3 and s1-s3.  So no iteration sees
\* what another one writes.
RelaxVia(t, s1, s2) ==
  LET wider         == Wider(t, s1, s2)
      Written(a, b) == (a = s1 /\ b \in wider) \/ (b = s1 /\ a \in wider)
      S             == DOMAIN t.bw
  IN  IF wider = {} THEN t
      ELSE [bw   |-> [a \in S |-> [b \in S |->
                        IF Written(a, b) THEN Via(t, s1, s2, IF a = s1 THEN b ELSE a)
                        ELSE t.bw[a][b]]],
            path |-> [a \in S |-> [b \in S |->
                        IF Written(a, b) THEN Merge(t.path[a][s2], t.path[s2][b])
                        ELSE t.path[a][b]]]]

\* The loop over s2 (a switch that reaches none wider, whichever way, is
\* skipped), and the loop over s1.
ByAll(t, s1, switches) ==
  IF \A s2 \in ToSet(switches) : Wider(t, s1, s2) = {} THEN t
  ELSE FoldLeft(LAMBDA u, s2 : RelaxVia(u, s1, s2), t, switches)
WidestPaths(switches, left) ==
  FoldLeft(LAMBDA t, s1 : ByAll(t, s1, switches), DirectPaths(switches, left), switches)

-----------------------------------------------------------------------------
(* The greedy assignment. *)

\* Slip: the greatest bandwidth on the path.
SlipBottleneck(path, links) ==
  IF path = <<>> THEN BandwidthInf ELSE Max({LinkBetween(links, e).bw : e \in EndsOf(path)})

\* Path.bottleneck_bw_gbps: the least nominal bandwidth on the path.
Bottleneck(path, links) ==
  Min({LinkBetween(links, e).bw : e \in EndsOf(path)} \union {BandwidthInf})

\* Serve pair p: record its widest path, take the bottleneck off its links.
Assign(a, p, switches, links, interval) ==
  LET path == WidestPaths(switches, a.left).path[Neighbor[p.client]][Neighbor[p.server]]
      took == Bottleneck(path, links) * interval
  IN  [left   |-> [e \in DOMAIN a.left |-> IF e \in EndsOf(path) THEN a.left[e] - took
                                         ELSE a.left[e]],
       routes |-> Append(a.routes, [pair |-> p, path |-> path])]

\* __calc_takahira: the routes in the order they were assigned, and what is
\* left of every link once they are.
CalcTakahira(switches, links, pairs, nth, interval) ==
  FoldLeft(LAMBDA a, p : Assign(a, p, switches, links, interval),
           [left |-> ExpectedBw(links, nth, interval), routes |-> <<>>],
           ByUrgency(pairs))
=============================================================================
