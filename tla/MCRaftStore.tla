----------------------------- MODULE MCRaftStore ----------------------------
(***************************************************************************)
(* Instances of RaftStore for TLC: the default namespace, which one change *)
(* writes, and another resource, which all other changes write.            *)
(***************************************************************************)
EXTENDS RaftStore, TLC

CONSTANTS other, last   \* the other resource; the change of the namespace

MCKeyOf == [c \in Change |-> IF c = last THEN Default ELSE other]
Symmetry == Permutations(Node)
=============================================================================
