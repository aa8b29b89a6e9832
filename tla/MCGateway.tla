----------------------------- MODULE MCGateway ------------------------------
(***************************************************************************)
(* Instances of Gateway for TLC: one namespace besides the default one, a  *)
(* route that names a service and a module, a domain.                      *)
(***************************************************************************)
EXTENDS Gateway, TLC

CONSTANTS ns, route

MCNsOf == [x \in Resource |-> IF x \in Namespace THEN x ELSE ns]
MCUses == [r \in Route |-> Service \cup Module]
=============================================================================
