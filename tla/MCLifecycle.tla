----------------------------- MODULE MCLifecycle -----------------------------
(***************************************************************************)
(* The life of nodes: a static artifact and a dynamic service that pins    *)
(* the artifact's first generation; generations, evidence, marks,          *)
(* invalidation and recovery in every order.                               *)
(***************************************************************************)
EXTENDS MCBase

Nodes == {na, nb}
Decls == Declared([n \in {na} |-> "ARTIFACT"], TRUE) \cup Declared([n \in {nb} |-> "SERVICE"], FALSE)
Edges == {Pinned(Link("ab", na, nb), 1)}
OnePolicy == {Recursive}
Patches == {[set |-> {"resource_available"}, value |-> {}, caps |-> {}]}

\* The service has two generations, enough to supersede a gated one.
Offered(n) == IF n = nb THEN {1, 2} ELSE Generation

LifecycleNext ==
  \/ \E who \in Authority :
       \/ DeclareOps(who)
       \/ \E n \in Node : \E gen \in Offered(n) : publish_generation(n, gen, who)
       \/ \E n \in Node : \E old_gen, new_gen \in Offered(n) :
            supersede_generation(n, old_gen, new_gen, who)
       \/ ReadinessOps(who)
       \/ InvalidationOps(who)
       \/ \E e \in EdgeCatalog : add_edge(e, who)
  \/ RecomputeOps

LifecycleSpec == Init /\ [][LifecycleNext]_vars
=============================================================================
