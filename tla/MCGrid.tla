------------------------------- MODULE MCGrid -------------------------------
(***************************************************************************)
(* RouteCalculator on the topology of the experiments in its default size  *)
(* (disaster_resistant_network_topo.py):                                   *)
(*                                                                         *)
(*     h3s --- s1 --- s2 --- s3 --- h1c                                    *)
(*              |     |      |                                             *)
(*     h1s --- s4 --- s5 --- s6 --- h2c                                    *)
(*              |     |      |                                             *)
(*     h2s --- s7 --- s8 --- s9 --- h3c                                    *)
(*                                                                         *)
(* The switches have connected, all links (of the same bandwidth) and one  *)
(* host pair, the second, are registered; then links fail.                 *)
(***************************************************************************)
EXTENDS RouteCalculator

Sw == <<"s1", "s2", "s3", "s4", "s5", "s6", "s7", "s8", "s9">>
GridSwitches == ToSet(Sw)
GridWires == {{Sw[i], Sw[j]} : <<i, j>> \in
                {<<i, j>> \in (1..9) \X (1..9) :
                   \/ j = i + 1 /\ i % 3 # 0
                   \/ j = i + 3}}
GridNeighbor == [h \in {"h2c", "h2s"} |-> IF h = "h2c" THEN "s6" ELSE "s7"]
GridPairs == {<<"h2c", "h2s">>}

\* Switch features messages come in any order; these are the numbers of the
\* switches in one of them.
Order == <<7, 6, 5, 4, 9, 2, 8, 1, 3>>

GridInit ==
  /\ switches = [i \in 1..9 |-> Sw[Order[i]]]
  /\ links = [ends : Wires, bw : Bandwidths, failAt : {Unknown}]
  /\ hostPairs = <<[client |-> "h2c", server |-> "h2s", failAt |-> Unknown, size |-> Unknown]>>
GridNext == \E w \in Wires : RmLink(w)

GridSpec == GridInit /\ [][GridNext]_calcVars
=============================================================================
