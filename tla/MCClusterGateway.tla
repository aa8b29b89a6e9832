-------------------------- MODULE MCClusterGateway --------------------------
(***************************************************************************)
(* Instances of ClusterGateway for TLC: one namespace, a route that names a *)
(* module, a domain.                                                       *)
(***************************************************************************)
EXTENDS ClusterGateway, TLC

CONSTANTS ns, route

MCNsOf == [x \in Resource |-> ns]
MCUses == [r \in Route |-> Service \cup Module]
=============================================================================
