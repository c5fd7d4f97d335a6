------------------------- MODULE MCRouteCalculator -------------------------
(***************************************************************************)
(* RouteCalculator on small networks.                                      *)
(***************************************************************************)
EXTENDS RouteCalculator

\* Every pair of different switches may be linked.
AllWires == {w \in SUBSET Switches : Cardinality(w) = 2}

\* Three switches; the host pairs use different ones, and share a server.
ThreeNeighbor == [h \in {"c1", "c2", "v"} |->
                    CASE h = "c1" -> "s1" [] h = "c2" -> "s2" [] h = "v" -> "s3"]
ThreePairs == {<<"c1", "v">>, <<"c2", "v">>}

\* Four switches.
FourNeighbor == [h \in {"c1", "c2", "v"} |->
                   CASE h = "c1" -> "s1" [] h = "c2" -> "s3" [] h = "v" -> "s2"]

-----------------------------------------------------------------------------
(* Quality of the routes: the switches connect in any order, the pairs are *)
(* registered with data that make c2 the more urgent one, then links come. *)

RegisteredPairs ==
  <<[client |-> "c1", server |-> "v", failAt |-> 2, size |-> 1],
    [client |-> "c2", server |-> "v", failAt |-> 2, size |-> 3]>>

QualityInit ==
  /\ switches \in {s \in [1..Cardinality(Switches) -> Switches] : IsInjective(s)}
  /\ links = {}
  /\ hostPairs = RegisteredPairs
QualityNext == \E w \in Wires, bw \in Bandwidths : ~Linked(w) /\ AddLink(w, bw)
QualitySpec == QualityInit /\ [][QualityNext]_calcVars
=============================================================================
