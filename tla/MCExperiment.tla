---------------------------- MODULE MCExperiment ----------------------------
(***************************************************************************)
(* Two experiments, whole or interrupted, on a ring of three switches.     *)
(* The unit of time is 10 seconds.                                         *)
(***************************************************************************)
EXTENDS Experiment

MCCables == <<{"s1", "s2"}, {"s1", "s3"}, {"s2", "s3"}>>
MCDoomed == <<{"s1", "s2"}>>
MCServed == <<<<"c", "v">>>>
MCPairs == ToSet(MCServed)
MCWires == ToSet(MCCables)
MCHosts == {"c", "v"}
MCNeighbor == [h \in MCHosts |-> IF h = "c" THEN "s1" ELSE "s2"]

\* Ports are numbered as links are added, those of hosts come last.
MCPort == [e \in {<<"s1", "s2">>, <<"s2", "s1">>, <<"s3", "s1">>} |-> 1]
            @@ [e \in {<<"s1", "s3">>, <<"s2", "s3">>, <<"s3", "s2">>} |-> 2]
            @@ [e \in {<<"s1", "c">>, <<"s2", "v">>} |-> 3]
=============================================================================
