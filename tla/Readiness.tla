------------------------------ MODULE Readiness ------------------------------
(***************************************************************************)
(* Readiness evaluation (src/graph/readiness.cpp) as operators on a graph  *)
(*                                                                         *)
(*   g = [nodes, edges, sets, out, in, adapter]                            *)
(*                                                                         *)
(* (the containers nodes_, edges_, sets_, out_edges_, in_edges_ of         *)
(* graph.hpp and the attached adapter_, if any) and a readiness map st,    *)
(* the `state` field of every node.                                        *)
(* A recomputation changes nothing but st.                                 *)
(***************************************************************************)
EXTENDS FabricTypes, Functions

\* The elements of s that lie in S, in order.
Keep(s, S) ==
  LET f[i \in 0..Len(s)] ==
        IF i = 0 THEN <<>>
        ELSE LET kept == f[i - 1]
             IN IF s[i] \in S THEN Append(kept, s[i]) ELSE kept
  IN f[Len(s)]

-----------------------------------------------------------------------------
(* Predicates of one edge. *)

meets_readiness_constraint(actual, level) ==
  readiness_rank[actual] >= readiness_rank[level]

meets_generation_constraint(current, e) ==
  \/ e.generation_kind = "NONE"
  \/ /\ current # NoGeneration
     /\ CASE e.generation_kind = "MINIMUM" -> \A m \in e.generations : current >= m
          [] OTHER -> current \in e.generations

\* The producer moved past everything the edge was pinned to.
Advanced(current, e) ==
  /\ e.generation_kind \in {"EXACT", "COMPATIBLE_SET"}
  /\ e.generations # {}
  /\ \A m \in e.generations : current > m

\* The facts that edges of producer n are held against: the node's own, unless
\* an adapter is attached, which then answers alone.
EvidenceOf(g, n) == IF g.adapter = <<>> THEN g.nodes[n].evidence ELSE g.adapter[1][n]

(***************************************************************************)
(* The three flags one edge contributes.  A required edge blocks, an       *)
(* optional one degrades; a producer that advanced past the pin makes the  *)
(* consumer stale whether the edge is required or not.                     *)
(***************************************************************************)
eval_edge(g, st, e) ==
  IF e.producer \notin DOMAIN g.nodes
  THEN [blocked |-> required(e), degraded |-> ~required(e), stale |-> FALSE]
  ELSE LET p == g.nodes[e.producer]
           advanced == Advanced(p.current_generation, e)
           pending == ~advanced /\ ~meets_generation_constraint(p.current_generation, e)
           unready == ~meets_readiness_constraint(st[e.producer], e.required_readiness)
           lagging == unready /\ st[e.producer] \in {"STALE", "SUPERSEDED"}
           unmet == ~(e.needs \subseteq EvidenceOf(g, e.producer))
       IN [blocked  |-> required(e) /\ (pending \/ (unready /\ ~lagging) \/ unmet),
           degraded |-> advanced \/ (~required(e) /\ (pending \/ unready \/ unmet)),
           stale    |-> advanced \/ (required(e) /\ lagging)]

(***************************************************************************)
(* A dependency set counts the members whose edge exists and is active.    *)
(* A member is a vector slot: an edge listed twice counts twice.           *)
(***************************************************************************)
eval_set(g, st, s) ==
  LET live == {i \in DOMAIN s.members :
                  s.members[i] \in DOMAIN g.edges /\ g.edges[s.members[i]].active}
      verdict == [i \in live |-> eval_edge(g, st, g.edges[s.members[i]])]
      failed == {i \in live : verdict[i].blocked}
      soft == {i \in live \ failed :
                  verdict[i].degraded /\ ~required(g.edges[s.members[i]])}
      ok == live \ (failed \cup soft)
      stale == \E i \in ok : verdict[i].stale
      satisfied == CASE s.op = "ALL_OF" -> ok = live
                     [] s.op = "ANY_OF" -> ok # {}
                     [] s.op = "AT_LEAST_N" -> Cardinality(ok) >= s.at_least_n
                     [] s.op = "OPTIONAL_GROUP" -> TRUE
  IN [blocked  |-> ~satisfied,
      degraded |-> satisfied /\ (\/ soft # {}
                                 \/ stale
                                 \/ s.op = "OPTIONAL_GROUP" /\ failed # {}),
      stale    |-> stale]

\* The active sets of a node, and the inbound edges outside all of them,
\* which form an implicit ALL_OF group.
OwnedSets(g, n) ==
  {g.sets[s] : s \in {x \in DOMAIN g.sets : g.sets[x].owner = n /\ g.sets[x].active}}

FreeEdges(g, n) ==
  LET grouped == UNION {Range(s.members) : s \in OwnedSets(g, n)}
  IN {g.edges[e] : e \in {x \in g.in[n] \ grouped :
                             x \in DOMAIN g.edges /\ g.edges[x].active}}

Verdicts(g, st, n) ==
  {eval_set(g, st, s) : s \in OwnedSets(g, n)} \cup
  {eval_edge(g, st, e) : e \in FreeEdges(g, n)}

-----------------------------------------------------------------------------
(* The derived state of one node. *)

\* Dynamic evidence that has not been corroborated again since a recovery.
Gated(node) ==
  node.dynamic_evidence /\ node.recovered_evidence = "REVALIDATION_REQUIRED"

Derived(node, verdicts) ==
  IF \E v \in verdicts : v.blocked THEN "BLOCKED"
  ELSE IF \E v \in verdicts : v.stale
       THEN IF is_gate_kind(node.kind) THEN "BLOCKED" ELSE "STALE"
  ELSE IF \E v \in verdicts : v.degraded THEN "DEGRADED"
  ELSE IF requires_own_generation(node.kind) /\ node.current_generation = NoGeneration
       THEN "DECLARED"
  ELSE "READY"

\* Mutant: the revalidation gate is forgotten.
recompute_ungated(g, st, n) ==
  IF n \notin DOMAIN g.nodes \/ st[n] \in HeldState THEN st[n]
  ELSE Derived(g.nodes[n], Verdicts(g, st, n))

recompute_node(g, st, n) ==
  IF n \notin DOMAIN g.nodes \/ st[n] \in HeldState THEN st[n]
  ELSE IF Gated(g.nodes[n]) THEN "REVALIDATION_REQUIRED"
  ELSE Derived(g.nodes[n], Verdicts(g, st, n))

\* Recompute the nodes of `order` one after the other: each sees the new
\* state of the nodes before it and the old state of the nodes after it.
recompute_in_order(g, st, order) ==
  LET pass[i \in 0..Len(order)] ==
        IF i = 0 THEN st
        ELSE LET prev == pass[i - 1]
             IN [prev EXCEPT ![order[i]] = recompute_node(g, prev, order[i])]
  IN pass[Len(order)]

-----------------------------------------------------------------------------
(* The order of a recomputation. *)

\* An index entry that a traversal follows.
Followed(g, e) == e \in DOMAIN g.edges /\ g.edges[e].active

\* One turn of the breadth-first loop: append the unseen consumers of `cur`.
enqueue_consumers(g, queue, cur) ==
  LET entry == g.out[cur]
      scan[j \in 0..Len(entry)] ==
        IF j = 0 THEN queue
        ELSE LET seen == scan[j - 1]
             IN IF /\ Followed(g, entry[j])
                   /\ g.edges[entry[j]].consumer \notin Range(seen)
                THEN Append(seen, g.edges[entry[j]].consumer)
                ELSE seen
  IN scan[Len(entry)]

\* The queue of recompute_closure_locked: every node is pushed once, so the
\* sequence of pushes is also the sequence of pops, the recompute order.
closure_order(g, root) ==
  LET turn[k \in 0..Cardinality(Node)] ==
        IF k = 0 THEN <<root>>
        ELSE LET queue == turn[k - 1]
             IN IF k <= Len(queue) THEN enqueue_consumers(g, queue, queue[k])
                ELSE queue
  IN turn[Cardinality(Node)]

\* Mutant: only the changed node is recomputed.
recompute_root_only(g, st, root) == recompute_in_order(g, st, <<root>>)

recompute_closure(g, st, root) == recompute_in_order(g, st, closure_order(g, root))

\* Mutant: inactive edges are counted too.
InDegreeOfAll(g) ==
  [n \in DOMAIN g.nodes |-> Cardinality({e \in DOMAIN g.edges : g.edges[e].consumer = n})]

(***************************************************************************)
(* recompute_all_locked: Kahn's algorithm.  `listing` is the iteration     *)
(* order of the unordered map of in-degrees, which the program does not    *)
(* choose.  In-degrees count active edges; a node is queued when its count *)
(* reaches exactly zero; nodes never queued are appended at the end.       *)
(***************************************************************************)
InDegree(g) ==
  [n \in DOMAIN g.nodes |->
     Cardinality({e \in DOMAIN g.edges : g.edges[e].active /\ g.edges[e].consumer = n})]

release_consumers(g, work, cur) ==
  LET entry == g.out[cur]
      scan[j \in 0..Len(entry)] ==
        IF j = 0 THEN work
        ELSE LET w == scan[j - 1]
             IN IF ~Followed(g, entry[j]) THEN w
                ELSE LET c == g.edges[entry[j]].consumer
                         left == w.indeg[c] - 1
                     IN [indeg |-> [w.indeg EXCEPT ![c] = left],
                         queue |-> IF left = 0 THEN Append(w.queue, c) ELSE w.queue]
  IN scan[Len(entry)]

\* The nodes whose count reached zero, in the order they were queued.
kahn_queue(g, listing) ==
  LET indeg == InDegree(g)
      sources == Keep(listing, {n \in DOMAIN indeg : indeg[n] = 0})
      turn[k \in 0..Cardinality(Node)] ==
        IF k = 0 THEN [indeg |-> indeg, queue |-> sources]
        ELSE LET work == turn[k - 1]
             IN IF k <= Len(work.queue) THEN release_consumers(g, work, work.queue[k])
                ELSE work
  IN turn[Cardinality(Node)].queue

\* Mutant: the nodes in map order, not producers first.
map_order(g, listing) == listing

kahn_order(g, listing) ==
  LET queue == kahn_queue(g, listing)
  IN queue \o Keep(listing, DOMAIN g.nodes \ Range(queue))

recompute_all(g, st, listing) == recompute_in_order(g, st, kahn_order(g, listing))

-----------------------------------------------------------------------------
(* Reachability along the out index (would_create_cycle_locked): the       *)
(* visited set of the search from `consumer` is the least set that holds   *)
(* it and is closed under followed index entries.                          *)

Successors(g, n) == {g.edges[e].consumer : e \in {x \in Range(g.out[n]) : Followed(g, x)}}

Visited(g, consumer) ==
  {n \in Node : \A C \in SUBSET Node :
     (consumer \in C /\ \A m \in C : Successors(g, m) \subseteq C) => n \in C}

\* Mutant: only a self loop or a two-node cycle is found.
finds_short_cycle(g, producer, consumer) == producer \in {consumer} \cup Successors(g, consumer)

would_create_cycle(g, producer, consumer) == producer \in Visited(g, consumer)
=============================================================================
