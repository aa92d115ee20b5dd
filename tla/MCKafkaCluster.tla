---------------------------- MODULE MCKafkaCluster ----------------------------
(***************************************************************************)
(* Instances of KafkaCluster for TLC.                                      *)
(***************************************************************************)
EXTENDS KafkaCluster, TLC

CONSTANTS r1, r2, o1, o2

ReplicaSymmetry == Permutations(Replica)
=============================================================================
