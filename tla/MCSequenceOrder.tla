--------------------------- MODULE MCSequenceOrder ---------------------------
(* Instances of SequenceOrder: the nodes are interchangeable.              *)
EXTENDS SequenceOrder, TLC

NodeSymmetry == Permutations(Nodes)
=============================================================================
