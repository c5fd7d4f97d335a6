----------------------------- MODULE MCLearning -----------------------------
(***************************************************************************)
(* LearningSwitch with two switches, two hosts at one and one at the other *)
(* of them: packets go both ways between switches and within one, an       *)
(* answer follows or overtakes what it answers, and one packet is for all. *)
(***************************************************************************)
EXTENDS LearningSwitch

MCPorts == [s1 |-> {"a", "b", "s2"}, s2 |-> {"c", "s1"}]
MCToward == [s1 |-> [a |-> "a", b |-> "b", c |-> "s2"],
             s2 |-> [a |-> "s1", b |-> "s1", c |-> "c"]]
MCPacket == {[src |-> "a", dst |-> "c"], [src |-> "c", dst |-> "a"], [src |-> "c", dst |-> "all"]}
=============================================================================
