----------------------------- MODULE MCLevelled -----------------------------
(***************************************************************************)
(* A levelled graph: every path between two nodes has the same length.     *)
(* A model and a resource feed an execution graph that a service uses; the *)
(* edges carry a pin, a floor, evidence, a capability and an optional      *)
(* requirement, and a dependency set groups the inputs.  Adapters come,    *)
(* change their answers and go.                                            *)
(***************************************************************************)
EXTENDS MCBase

Nodes == {na, nb, nc, nd}
Decls == Declared([n \in {na} |-> "MODEL"], TRUE) \cup
         Declared([n \in {nb} |-> "RESOURCE"], FALSE) \cup
         Declared([n \in {nc} |-> "EXECUTION_GRAPH"], TRUE) \cup
         Declared([n \in {nd} |-> "WORKLOAD_PHASE"], TRUE)
Edges == {[Link("ac", na, nc) EXCEPT !.generation_kind = "COMPATIBLE_SET", !.generations = {1}],
          [Link("bc", nb, nc) EXCEPT !.needs = {"resource_available", "sm"},
                                   !.is_required = FALSE,
                                   !.required_readiness = "DECLARED"],
          Link("cd", nc, nd)}
Sets == {[id |-> "s", owner |-> nc, op |-> op, at_least_n |-> 2,
          members |-> <<"ac", "bc">>, active |-> TRUE] :
            op \in {"AT_LEAST_N", "OPTIONAL_GROUP"}}
Patches == {[set |-> {"resource_available"}, value |-> {}, caps |-> {}],
            [set |-> {"resource_available"}, value |-> {"resource_available"}, caps |-> {"sm"}]}
\* The adapter knows nothing of any node, or only that the resource is there.
Nothing == [n \in Nodes |-> {}]
Facts == {Nothing, [Nothing EXCEPT ![nb] = {"resource_available", "sm"}]}

\* The execution graph is published before it is wired.
Built(n) == n \in DOMAIN nodes_ /\ nodes_[n].current_generation = 1

LevelledNext ==
  \/ \E who \in Authority :
       \/ DeclareOps(who)
       \/ (\E gen \in Generation : publish_generation(na, gen, who)) \/ publish_generation(nc, 1, who)
       \/ \E patch \in EvidencePatches : set_node_evidence(nb, patch, who)
       \/ mark_missing(nb, who) \/ mark_recovered(nb, who)
       \/ Built(nc) /\ EdgeOps(who)
       \/ SetOps(who)
  \/ adapter_ = <<>> /\ set_adapter(<<Nothing>>)
  \/ adapter_ # <<>> /\ set_adapter(<<>>)
  \/ \E facts \in Adapters : adapter_reports(<<facts>>)

LevelledSpec == Init /\ [][LevelledNext]_vars
=============================================================================
