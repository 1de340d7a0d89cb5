------------------------------ MODULE Recovery ------------------------------
(***************************************************************************)
(* The traversal and recovery queries (src/graph/recovery.cpp) as          *)
(* operators on a graph and a readiness map.  They run under the shared    *)
(* lock and change nothing.  The owner, action and wording of a recovery   *)
(* intent are tables over the node's kind and state and are left out.      *)
(***************************************************************************)
EXTENDS DependencyGraph

needs_recovery(s) ==
  s \in {"INVALIDATED", "BLOCKED", "STALE", "REVALIDATION_REQUIRED", "MISSING",
         "FAILED", "DEGRADED", "SUPERSEDED"}

(***************************************************************************)
(* affected_closure: the same breadth-first search as the propagation of a *)
(* bounded invalidation, through optional edges too.  The edges are those  *)
(* of the nodes it expanded; the frontier is made of the nodes without a   *)
(* successor in the closure.                                               *)
(***************************************************************************)
Bounded(max_depth) ==
  [mode |-> "BOUNDED", max_depth |-> max_depth, propagate_through_optional |-> TRUE]

affected_closure(g, seed, max_depth) ==
  LET queue == IF seed \in DOMAIN g.nodes THEN marked_queue(g, seed, Bounded(max_depth)) ELSE <<>>
      nodes == [i \in DOMAIN queue |-> queue[i][1]]
      expanded == {pair[1] : pair \in {q \in Range(queue) : q[2] < DepthLimit(Bounded(max_depth))}}
  IN [nodes |-> nodes,
      edges |-> {x \in UNION {Range(g.out[n]) : n \in expanded} : Followed(g, x)},
      frontier |-> Keep(nodes, {n \in Node : Successors(g, n) \cap Range(nodes) = {}})]

\* Mutant: the search stops after the consumers of the first node.
one_level_order(g, start) == enqueue_consumers(g, start, start[1])

\* topology_order_locked: breadth first from a list of distinct nodes.
topology_order(g, start) ==
  LET turn[k \in 0..Cardinality(Node)] ==
        IF k = 0 THEN start
        ELSE LET queue == turn[k - 1]
             IN IF k <= Len(queue) THEN enqueue_consumers(g, queue, queue[k])
                ELSE queue
  IN turn[Cardinality(Node)]

Ailing(g, st) == {n \in DOMAIN g.nodes : needs_recovery(st[n])}

recovery_set(g, st, seed) ==
  Keep(topology_order(g, affected_closure(g, seed, 0).nodes), Ailing(g, st))

recovery_plan(g, st, seed) == Keep(topology_order(g, <<seed>>), Ailing(g, st))

\* Mutant: a producer in the closure disqualifies whatever its state.
frontier_without_producers(g, st, seed) ==
  LET nodes == affected_closure(g, seed, 0).nodes
  IN Keep(nodes, {n \in Range(nodes) :
       /\ st[n] # "READY"
       /\ \A x \in g.in[n] : Followed(g, x) => g.edges[x].producer \notin Range(nodes) \ {n}})

\* The non-READY nodes of the closure with no non-READY producer in it.
recompute_frontier(g, st, seed) ==
  LET nodes == affected_closure(g, seed, 0).nodes
  IN Keep(nodes, {n \in Range(nodes) :
       /\ st[n] # "READY"
       /\ \A x \in g.in[n] :
            LET p == g.edges[x].producer
            IN Followed(g, x) /\ p \in Range(nodes) \ {n} => st[p] = "READY"})

-----------------------------------------------------------------------------
(* Properties that hold *)

Distances == 0..Cardinality(Node)

\* The nodes any number of active edges downstream of n.
Downstream(n) == Within(n, TRUE, Cardinality(Node))

(***************************************************************************)
(* README: the affected closure matches the reference traversal.  For      *)
(* every seed and depth limit (0 stands for kDefaultMaxTraversalDepth) it  *)
(* holds each node within that many hops over active edges once, and       *)
(* exactly the edges that leave the nodes closer than the limit.           *)
(***************************************************************************)
AffectedClosureExact ==
  \A seed \in DOMAIN nodes_, depth \in Distances :
    LET closure == affected_closure(graph, seed, depth)
        inner == Within(seed, TRUE, DepthLimit(Bounded(depth)) - 1)
    IN /\ IsInjective(closure.nodes)
       /\ Range(closure.nodes) = WithinReach(seed, Bounded(depth))
       /\ closure.edges = {x \in DOMAIN edges_ : edges_[x].active /\ edges_[x].producer \in inner}

(***************************************************************************)
(* README: a recovery plan identifies exactly the nodes that require       *)
(* recovery downstream of the seed, each once; recovery_set, which takes   *)
(* the closure first, names the same ones, however far they are.           *)
(***************************************************************************)
RecoveryPlanExact ==
  \A seed \in DOMAIN nodes_ :
    LET plan == recovery_plan(graph, state, seed)
    IN /\ IsInjective(plan)
       /\ Range(plan) = Downstream(seed) \cap Ailing(graph, state)
       /\ Range(recovery_set(graph, state, seed)) = Range(plan)

(***************************************************************************)
(* recompute_frontier bounds the region to recompute: in an acyclic graph  *)
(* every non-READY node of the closure lies downstream of a frontier node, *)
(* though the code looks at direct producers only.                         *)
(***************************************************************************)
FrontierCoversRegion ==
  Acyclic(edges_) =>
    \A seed \in DOMAIN nodes_ : \A n \in WithinReach(seed, Bounded(0)) :
      state[n] # "READY" =>
        \E f \in Range(recompute_frontier(graph, state, seed)) : n \in Downstream(f)
=============================================================================
