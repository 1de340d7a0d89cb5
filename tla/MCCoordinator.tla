---------------------------- MODULE MCCoordinator ----------------------------
(***************************************************************************)
(* A coordinator with two nodes and edges in both directions between them. *)
(* It dies at any moment of its work and of a save, and goes on from the   *)
(* file.                                                                   *)
(***************************************************************************)
EXTENDS Coordinator

CONSTANTS na, nb

Nodes == {na, nb}
Decls == {[id |-> n, kind |-> "WORKLOAD_PHASE", static |-> FALSE] : n \in Nodes}
Hard(id, p, q) ==
  [id |-> id, kind |-> "REQUIRES", producer |-> p, consumer |-> q,
   generation_kind |-> "NONE", generations |-> {}, required_readiness |-> "READY",
   needs |-> {}, is_required |-> TRUE, active |-> TRUE]
Edges == {Hard("ab", na, nb), Hard("ba", nb, na)}
OnePolicy == {[mode |-> "DIRECT", max_depth |-> 0, propagate_through_optional |-> FALSE]}
=============================================================================
