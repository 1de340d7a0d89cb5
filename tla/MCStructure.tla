----------------------------- MODULE MCStructure -----------------------------
(***************************************************************************)
(* Edges and sets over four nodes: a path, a back edge that closes a       *)
(* cycle, an edge added inactive, and an edge id used again for other      *)
(* endpoints.                                                              *)
(***************************************************************************)
EXTENDS MCBase

Nodes == {na, nb, nc, nd}
Decls == Declared([n \in Nodes |-> "WORKLOAD_PHASE"], TRUE)
Edges == {Link("ab", na, nb), Link("bc", nb, nc), Link("cd", nc, nd), Link("da", nd, na),
          [Link("ac", na, nc) EXCEPT !.active = FALSE], Link("ac", nc, nb), Link("da", nd, nc)}
Sets == {[id |-> "s", owner |-> nc, op |-> "ANY_OF", at_least_n |-> 1,
          members |-> <<"ac", "bc">>, active |-> active] : active \in BOOLEAN}

StructureNext ==
  \/ \E who \in Authority : DeclareOps(who) \/ EdgeOps(who) \/ SetOps(who)
  \/ RecomputeOps

StructureSpec == Init /\ [][StructureNext]_vars
=============================================================================
