----------------------------- MODULE MCTopology -----------------------------
(***************************************************************************)
(* Topology in sizes up to 7; 3 is the default, 5 that of the experiments. *)
(***************************************************************************)
EXTENDS Topology

MCSizes == 3..7
=============================================================================
