------------------------------ MODULE MCTempo ------------------------------
(***************************************************************************)
(* Instances of Tempo for TLC: three nodes that list each other, all       *)
(* changes writing one resource, and aliases that lead to one node.        *)
(***************************************************************************)
EXTENDS Tempo, TLC

CONSTANT AliasedNode  \* the node the aliases lead to

MCAddrOf == [m \in MemberId |-> IF m \in Node THEN m ELSE AliasedNode]
MCInitialMembers == [n \in Node |-> Node]
MCUnevenMembers == [n \in Node |-> IF n = AliasedNode THEN MemberId ELSE Node]
MCOneKey == [c \in Change |-> "key"]
MCClock == {0}

Symmetry == Permutations(Node) \cup Permutations(Change)
=============================================================================
