--------------------------- MODULE MCTempoRestart ---------------------------
(***************************************************************************)
(* Instances of TempoRestart for TLC: nodes that list each other, all      *)
(* changes writing one resource.                                           *)
(***************************************************************************)
EXTENDS TempoRestart, TLC

MCAddrOf == [m \in MemberId |-> m]
MCInitialMembers == [n \in Node |-> Node]
MCOneKey == [c \in Change |-> "key"]
MCClock == {0}

Symmetry == Permutations(Node) \cup Permutations(Change)
=============================================================================
