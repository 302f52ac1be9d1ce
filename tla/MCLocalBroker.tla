---------------------------- MODULE MCLocalBroker ----------------------------
(* Instances of the local broker for TLC: programs are interchangeable, and  *)
(* so are the ids of the database.                                           *)
EXTENDS LocalBroker, TLC

FullSymmetry ==
  {f @@ g : f \in Permutations(Program), g \in Permutations(GlobalId)}
=============================================================================
