----------------------------- MODULE MCShortcut -----------------------------
(***************************************************************************)
(* A graph with a shortcut: a feeds c directly and through b, and c feeds  *)
(* d.  Breadth-first order from a is then not always producers-first.  An  *)
(* adapter that answers for the integrity of c comes and goes.             *)
(***************************************************************************)
EXTENDS MCBase

Nodes == {na, nb, nc, nd}
Decls == Declared([n \in {na, nb} |-> "ARTIFACT"], TRUE) \cup
         Declared([n \in {nc, nd} |-> "WORKLOAD_PHASE"], TRUE)
Edges == {[Link("ac", na, nc) EXCEPT !.generation_kind = "MINIMUM", !.generations = {1}],
          Pinned(Link("ab", na, nb), 1),
          Link("bc", nb, nc),
          [Link("cd", nc, nd) EXCEPT !.kind = "OPTIONAL", !.needs = {"integrity_valid"}]}
AllPolicies ==
  {Recursive, [Recursive EXCEPT !.mode = "DIRECT"],
   [Recursive EXCEPT !.propagate_through_optional = TRUE],
   [Recursive EXCEPT !.mode = "BOUNDED", !.max_depth = 1],
   [Recursive EXCEPT !.mode = "BOUNDED", !.max_depth = 2, !.propagate_through_optional = TRUE],
   [Recursive EXCEPT !.mode = "BOUNDED", !.propagate_through_optional = TRUE]}

Unsound == [n \in Nodes |-> {}]
Facts == {Unsound, [Unsound EXCEPT ![nc] = {"integrity_valid"}]}

\* Edges are added once, in any order; nodes are published and invalidated.
ShortcutNext ==
  \/ \E who \in Authority :
       \/ DeclareOps(who)
       \/ (\E gen \in Generation : publish_generation(na, gen, who)) \/ publish_generation(nb, 1, who)
       \/ \E e \in EdgeCatalog : add_edge(e, who)
       \/ \E policy \in Policies : invalidate_node(na, policy, who)
  \/ recompute_all_readiness
  \/ adapter_ = <<>> /\ set_adapter(<<Unsound>>)
  \/ adapter_ # <<>> /\ set_adapter(<<>>)
  \/ \E facts \in Adapters : adapter_reports(<<facts>>)

ShortcutSpec == Init /\ [][ShortcutNext]_vars
=============================================================================
