--------------------------- MODULE DependencyGraph ---------------------------
(***************************************************************************)
(* The dependency graph (include/dependency_fabric/graph.hpp,              *)
(* src/graph/{graph_core,readiness,invalidation}.cpp): stale-authority     *)
(* rejection, node generations, edges and their adjacency index,           *)
(* dependency sets, readiness recomputation and invalidation.              *)
(*                                                                         *)
(* Every mutation holds the exclusive lock from its first check to the end *)
(* of the recomputation it triggers, so each is one action.  An operation  *)
(* that a check rejects changes nothing; its action is disabled.           *)
(*                                                                         *)
(* Left out because nothing in the modelled code reads them: descriptors,  *)
(* notes, the per-domain generation axes, the readiness and invalidation   *)
(* counters, the last invalidation reason.                                 *)
(***************************************************************************)
EXTENDS Readiness

CONSTANTS
  Source,            \* sources that may register
  Boot,              \* source boot ids (positive numbers)
  Epoch,             \* coordinator epochs (positive numbers)
  NodeDecls,         \* declarations offered to declare_node
  EdgeCatalog,       \* edges offered to add_edge
  SetCatalog,        \* sets offered to add_dependency_set
  EvidencePatches,   \* patches offered to set_node_evidence
  PublishableStates, \* states offered to publish_readiness
  Policies,          \* policies offered to the invalidations
  Adapters,          \* what adapters answer: a map from nodes to evidence each
  kMaxGraphNodes,    \* cap on nodes, and on the generation history publish extends
  kMaxGraphEdges,    \* cap on edges
  kDefaultMaxTraversalDepth, \* hops of a bounded search that names no depth
  MaxHistory         \* bound of the model on the history supersede extends

NodeDecl == [id : Node, kind : NodeKind, static : BOOLEAN]
EvidencePatch == [set : SUBSET EvidenceFlag, value : SUBSET EvidenceFlag, caps : SUBSET Capability]
Policy == [mode : {"DIRECT", "RECURSIVE", "BOUNDED", "GENERATION"},
           max_depth : Nat, propagate_through_optional : BOOLEAN]

ASSUME AuthorityAssumption ==
  /\ Boot \subseteq Nat \ {0}
  /\ Epoch \subseteq Nat \ {0}
  /\ 1 \in Epoch

ASSUME InputAssumption ==
  /\ NodeDecls \subseteq NodeDecl
  /\ EdgeCatalog \subseteq Edge
  /\ SetCatalog \subseteq DependencySet
  /\ EvidencePatches \subseteq EvidencePatch
  /\ PublishableStates \subseteq ReadinessState
  /\ Policies \subseteq Policy
  /\ Adapters \subseteq [Node -> SUBSET Evidence]

ASSUME BoundAssumption ==
  /\ kMaxGraphNodes \in Nat /\ kMaxGraphEdges \in Nat /\ MaxHistory \in Nat
  /\ kDefaultMaxTraversalDepth \in Nat \ {0}

VARIABLES
  epoch_,      \* coordinator epoch
  sources_,    \* source -> its registration
  nodes_,      \* node -> its facts, for the declared nodes
  edges_,      \* edge id -> edge
  sets_,       \* set id -> dependency set
  out_edges_,  \* node -> sequence of outbound edge ids (traversal order)
  in_edges_,   \* node -> set of inbound edge ids
  adapter_,    \* <<what it answers>> when an adapter is attached, else <<>>
  state        \* node -> readiness state; UNKNOWN while undeclared

authVars == <<epoch_, sources_, adapter_>>
structVars == <<edges_, sets_, out_edges_, in_edges_>>
vars == <<epoch_, sources_, nodes_, edges_, sets_, out_edges_, in_edges_, adapter_, state>>

graph == [nodes |-> nodes_, edges |-> edges_, sets |-> sets_,
          out |-> out_edges_, in |-> in_edges_, adapter |-> adapter_]

\* A partial map with one entry added, or with one entry erased.
Put(f, k, v) == [x \in DOMAIN f \cup {k} |-> IF x = k THEN v ELSE f[x]]
Drop(f, k) == [x \in DOMAIN f \ {k} |-> f[x]]

\* vector::erase(remove(...)): every occurrence goes.
EraseAll(s, x) == Keep(s, Range(s) \ {x})

-----------------------------------------------------------------------------
(* State *)

Origin == Source \X Boot

NodeFacts ==
  [kind : NodeKind,
   dynamic_evidence : BOOLEAN,
   recovered_evidence : DynamicEvidence,
   generation_history : Seq(Generation),
   current_generation : Generation \cup {NoGeneration},
   superseded_generations : SUBSET Generation,
   evidence : SUBSET Evidence,
   ever_invalidated : BOOLEAN,
   origin : Origin]

SourceRegistration == [boot : Boot, epoch : Epoch]

Init ==
  /\ epoch_ = 1
  /\ sources_ = <<>>
  /\ nodes_ = <<>>
  /\ edges_ = <<>>
  /\ sets_ = <<>>
  /\ out_edges_ = [n \in Node |-> <<>>]
  /\ in_edges_ = [n \in Node |-> {}]
  /\ adapter_ = <<>>
  /\ state = [n \in Node |-> "UNKNOWN"]

-----------------------------------------------------------------------------
(* Authority *)

\* The tuple every mutation carries.
Authority == [source : Source, boot : Boot, epoch : Epoch]

\* Mutant: the epoch a source registered at is not compared.
authority_any_registration(who) ==
  /\ who.epoch = epoch_
  /\ who.source \in DOMAIN sources_
  /\ who.boot = sources_[who.source].boot

\* Mutant: epochs are not compared at all.
authority_of_any_epoch(who) ==
  /\ who.source \in DOMAIN sources_
  /\ who.boot = sources_[who.source].boot

authority_ok(who) ==
  /\ who.epoch = epoch_
  /\ who.source \in DOMAIN sources_
  /\ who.boot = sources_[who.source].boot
  /\ sources_[who.source].epoch = epoch_

register_source(who) ==
  /\ who.epoch = epoch_
  /\ sources_' = Put(sources_, who.source, [boot |-> who.boot, epoch |-> who.epoch])
  /\ UNCHANGED <<epoch_, adapter_, nodes_, structVars, state>>

\* Mutant: an older epoch is accepted too.
advance_any_epoch(new_epoch) ==
  /\ epoch_' = new_epoch
  /\ UNCHANGED <<sources_, adapter_, nodes_, structVars, state>>

advance_epoch(new_epoch) ==
  /\ new_epoch > epoch_
  /\ epoch_' = new_epoch
  /\ UNCHANGED <<sources_, adapter_, nodes_, structVars, state>>

-----------------------------------------------------------------------------
(* What every mutation ends with: store the edited containers and recompute *)
(* the affected node and its dependents.                                    *)

CommitNodes(nodes, st, root) ==
  /\ nodes_' = nodes
  /\ UNCHANGED <<authVars, structVars>>
  /\ state' = recompute_closure(graph', st, root)

CommitEdges(edges, out, in, root) ==
  /\ edges_' = edges
  /\ out_edges_' = out
  /\ in_edges_' = in
  /\ UNCHANGED <<authVars, nodes_, sets_>>
  /\ state' = recompute_closure(graph', state, root)

CommitSets(sets, root) ==
  /\ sets_' = sets
  /\ UNCHANGED <<authVars, nodes_, edges_, out_edges_, in_edges_>>
  /\ state' = recompute_closure(graph', state, root)

-----------------------------------------------------------------------------
(* Nodes *)

\* Mutant: the state of the new node is not set.
declare_without_state(d, who) ==
  /\ authority_ok(who)
  /\ d.id \notin DOMAIN nodes_
  /\ Cardinality(DOMAIN nodes_) < kMaxGraphNodes
  /\ nodes_' = Put(nodes_, d.id,
                   [kind |-> d.kind,
                    dynamic_evidence |-> ~d.static,
                    recovered_evidence |-> "UNKNOWN",
                    generation_history |-> <<>>,
                    current_generation |-> NoGeneration,
                    superseded_generations |-> {},
                    evidence |-> {},
                    ever_invalidated |-> FALSE,
                    origin |-> <<who.source, who.boot>>])
  /\ UNCHANGED <<authVars, structVars, state>>

\* The only mutation that recomputes nothing.
declare_node(d, who) ==
  /\ authority_ok(who)
  /\ d.id \notin DOMAIN nodes_
  /\ Cardinality(DOMAIN nodes_) < kMaxGraphNodes
  /\ nodes_' = Put(nodes_, d.id,
                   [kind |-> d.kind,
                    dynamic_evidence |-> ~d.static,
                    recovered_evidence |-> "UNKNOWN",
                    generation_history |-> <<>>,
                    current_generation |-> NoGeneration,
                    superseded_generations |-> {},
                    evidence |-> {},
                    ever_invalidated |-> FALSE,
                    origin |-> <<who.source, who.boot>>])
  /\ state' = [state EXCEPT ![d.id] = "DECLARED"]
  /\ UNCHANGED <<authVars, structVars>>

\* The node after a generation took over as the authoritative one.
WithGeneration(node, superseded, gen, who) ==
  [node EXCEPT !.superseded_generations = @ \cup superseded,
               !.current_generation = gen,
               !.generation_history = Append(@, gen),
               !.origin = <<who.source, who.boot>>,
               !.ever_invalidated = FALSE,
               !.recovered_evidence = "FRESH"]

\* Mutant: the current generation may be published again.
publish_same_generation(n, gen, who) ==
  /\ authority_ok(who)
  /\ n \in DOMAIN nodes_
  /\ gen >= nodes_[n].current_generation
  /\ Len(nodes_[n].generation_history) < kMaxGraphNodes
  /\ CommitNodes([nodes_ EXCEPT ![n] = WithGeneration(@, {gen}, gen, who)],
                 [state EXCEPT ![n] = "PRESENT"], n)

publish_generation(n, gen, who) ==
  /\ authority_ok(who)
  /\ n \in DOMAIN nodes_
  /\ gen > nodes_[n].current_generation
  /\ Len(nodes_[n].generation_history) < kMaxGraphNodes
  /\ LET prior == {nodes_[n].current_generation} \ {NoGeneration}
     IN CommitNodes([nodes_ EXCEPT ![n] = WithGeneration(@, prior, gen, who)],
                    [state EXCEPT ![n] = "PRESENT"], n)

\* Mutant: the new generation is not compared with the old one.
supersede_unordered(n, old_gen, new_gen, who) ==
  /\ authority_ok(who)
  /\ n \in DOMAIN nodes_
  /\ old_gen \in Range(nodes_[n].generation_history)
  /\ Len(nodes_[n].generation_history) < MaxHistory
  /\ CommitNodes([nodes_ EXCEPT ![n] = WithGeneration(@, {old_gen}, new_gen, who)],
                 [state EXCEPT ![n] = "PRESENT"], n)

\* Both branches of the code (old_gen current, or historical) record old_gen
\* as superseded and make new_gen current; only old_gen < new_gen is checked.
supersede_generation(n, old_gen, new_gen, who) ==
  /\ authority_ok(who)
  /\ n \in DOMAIN nodes_
  /\ new_gen > old_gen
  /\ old_gen \in Range(nodes_[n].generation_history)
  /\ Len(nodes_[n].generation_history) < MaxHistory
  /\ CommitNodes([nodes_ EXCEPT ![n] = WithGeneration(@, {old_gen}, new_gen, who)],
                 [state EXCEPT ![n] = "PRESENT"], n)

\* An empty capability list leaves the claimed capabilities alone.
set_node_evidence(n, patch, who) ==
  /\ authority_ok(who)
  /\ n \in DOMAIN nodes_
  /\ LET old == nodes_[n].evidence
         flags == ((old \cap EvidenceFlag) \ patch.set) \cup (patch.value \cap patch.set)
         caps == IF patch.caps = {} THEN old \cap Capability ELSE patch.caps
     IN CommitNodes([nodes_ EXCEPT ![n].evidence = flags \cup caps], state, n)

\* retire_node and mark_missing differ in the state they store.
retire_node(n, who) ==
  /\ authority_ok(who)
  /\ n \in DOMAIN nodes_
  /\ CommitNodes(nodes_, [state EXCEPT ![n] = "RETIRED"], n)

mark_missing(n, who) ==
  /\ authority_ok(who)
  /\ n \in DOMAIN nodes_
  /\ CommitNodes(nodes_, [state EXCEPT ![n] = "MISSING"], n)

mark_stale(n, who) ==
  /\ authority_ok(who)
  /\ n \in DOMAIN nodes_
  /\ CommitNodes([nodes_ EXCEPT ![n].recovered_evidence = "STALE"],
                 [state EXCEPT ![n] = "STALE"], n)

\* Recovery does not corroborate dynamic evidence: it closes the gate.
mark_recovered(n, who) ==
  /\ authority_ok(who)
  /\ n \in DOMAIN nodes_
  /\ LET dynamic == nodes_[n].dynamic_evidence
     IN CommitNodes([nodes_ EXCEPT ![n] =
                       [@ EXCEPT !.ever_invalidated = FALSE,
                                 !.recovered_evidence =
                                    IF dynamic THEN "REVALIDATION_REQUIRED" ELSE "FRESH"]],
                    [state EXCEPT ![n] = IF dynamic THEN "REVALIDATION_REQUIRED" ELSE "PRESENT"],
                    n)

publish_readiness(n, s, who) ==
  /\ authority_ok(who)
  /\ n \in DOMAIN nodes_
  /\ IF s = "READY"
     THEN CommitNodes([nodes_ EXCEPT ![n] = [@ EXCEPT !.ever_invalidated = FALSE,
                                                      !.recovered_evidence = "FRESH",
                                                      !.dynamic_evidence = TRUE]],
                      state, n)
     ELSE CommitNodes(nodes_, [state EXCEPT ![n] = s], n)

-----------------------------------------------------------------------------
(* Edges *)

edge_fits(e) ==
  /\ e.producer \in DOMAIN nodes_ /\ e.consumer \in DOMAIN nodes_
  /\ e.id \notin DOMAIN edges_
  /\ \A x \in Range(out_edges_[e.producer]) :
        ~ (edges_[x].consumer = e.consumer /\ edges_[x].kind = e.kind /\ edges_[x].active)
  /\ ~would_create_cycle(graph, e.producer, e.consumer)
  /\ Cardinality(DOMAIN edges_) < kMaxGraphEdges

add_edge(e, who) ==
  /\ authority_ok(who)
  /\ edge_fits(e)
  /\ CommitEdges(Put(edges_, e.id, e),
                 [out_edges_ EXCEPT ![e.producer] = Append(@, e.id)],
                 [in_edges_ EXCEPT ![e.consumer] = @ \cup {e.id}],
                 e.consumer)

\* Mutant: the outbound index keeps the removed edge.
remove_edge_leaves_out(id, who) ==
  /\ authority_ok(who)
  /\ id \in DOMAIN edges_
  /\ CommitEdges(Drop(edges_, id), out_edges_,
                 [in_edges_ EXCEPT ![edges_[id].consumer] = @ \ {id}],
                 edges_[id].consumer)

remove_edge(id, who) ==
  /\ authority_ok(who)
  /\ id \in DOMAIN edges_
  /\ CommitEdges(Drop(edges_, id),
                 [out_edges_ EXCEPT ![edges_[id].producer] = EraseAll(@, id)],
                 [in_edges_ EXCEPT ![edges_[id].consumer] = @ \ {id}],
                 edges_[id].consumer)

\* Reactivation checks neither for a cycle nor for an equivalent edge.
set_edge_active(id, active, who) ==
  /\ authority_ok(who)
  /\ id \in DOMAIN edges_
  /\ LET e == edges_[id]
     IN IF e.active = active
        THEN CommitEdges(edges_, out_edges_, in_edges_, e.consumer)
        ELSE CommitEdges([edges_ EXCEPT ![id].active = active],
                         [out_edges_ EXCEPT ![e.producer] =
                            IF active THEN Append(@, id) ELSE EraseAll(@, id)],
                         [in_edges_ EXCEPT ![e.consumer] =
                            IF active THEN @ \cup {id} ELSE @ \ {id}],
                         e.consumer)

-----------------------------------------------------------------------------
(* Dependency sets.  node_sets_ holds exactly the ids of sets_ by owner. *)

add_dependency_set(s, who) ==
  /\ authority_ok(who)
  /\ s.owner \in DOMAIN nodes_
  /\ s.id \notin DOMAIN sets_
  /\ \A m \in Range(s.members) : m \in DOMAIN edges_ /\ edges_[m].consumer = s.owner
  /\ CommitSets(Put(sets_, s.id, s), s.owner)

remove_dependency_set(id, who) ==
  /\ authority_ok(who)
  /\ id \in DOMAIN sets_
  /\ CommitSets(Drop(sets_, id), sets_[id].owner)

-----------------------------------------------------------------------------
(* Invalidation *)

(***************************************************************************)
(* propagate_invalidation_locked: the breadth-first search that marks the  *)
(* descendants of `seed`, a queue of <<node, depth>> pairs.  Optional      *)
(* edges carry the mark only if the policy says so; a BOUNDED policy stops *)
(* at max_depth hops.                                                      *)
(***************************************************************************)
DepthLimit(policy) ==
  IF policy.max_depth # 0 THEN policy.max_depth ELSE kDefaultMaxTraversalDepth

\* Mutant: one hop beyond max_depth.
carries_one_more(g, policy, e, depth) ==
  /\ Followed(g, e)
  /\ g.edges[e].kind = "OPTIONAL" => policy.propagate_through_optional
  /\ policy.mode = "BOUNDED" => depth <= DepthLimit(policy)

Carries(g, policy, e, depth) ==
  /\ Followed(g, e)
  /\ g.edges[e].kind = "OPTIONAL" => policy.propagate_through_optional
  /\ policy.mode = "BOUNDED" => depth + 1 <= DepthLimit(policy)

enqueue_marked(g, policy, queue, cur, depth) ==
  LET entry == g.out[cur]
      scan[j \in 0..Len(entry)] ==
        IF j = 0 THEN queue
        ELSE LET q == scan[j - 1]
             IN IF /\ Carries(g, policy, entry[j], depth)
                   /\ \A i \in DOMAIN q : q[i][1] # g.edges[entry[j]].consumer
                THEN Append(q, <<g.edges[entry[j]].consumer, depth + 1>>)
                ELSE q
  IN scan[Len(entry)]

marked_queue(g, seed, policy) ==
  LET turn[k \in 0..Cardinality(Node)] ==
        IF k = 0 THEN << <<seed, 0>> >>
        ELSE LET q == turn[k - 1]
             IN IF k <= Len(q) THEN enqueue_marked(g, policy, q, q[k][1], q[k][2])
                ELSE q
  IN turn[Cardinality(Node)]

propagate_invalidation(g, seed, policy) == {pair[1] : pair \in Range(marked_queue(g, seed, policy))}

\* The nodes an accepted invalidation of n marks as ever invalidated.
MarkedBy(n, policy) ==
  IF policy.mode = "DIRECT" THEN {n} ELSE propagate_invalidation(graph, n, policy)

MarkInvalidated(marked) ==
  [m \in DOMAIN nodes_ |->
     IF m \in marked THEN [nodes_[m] EXCEPT !.ever_invalidated = TRUE] ELSE nodes_[m]]

invalidate_node(n, policy, who) ==
  /\ authority_ok(who)
  /\ n \in DOMAIN nodes_
  /\ CommitNodes(MarkInvalidated(MarkedBy(n, policy)), [state EXCEPT ![n] = "INVALIDATED"], n)

invalidate_generation(n, gen, policy, who) ==
  /\ authority_ok(who)
  /\ n \in DOMAIN nodes_
  /\ gen \in Range(nodes_[n].generation_history)
  /\ IF gen = nodes_[n].current_generation
     THEN CommitNodes(MarkInvalidated(MarkedBy(n, policy)),
                      [state EXCEPT ![n] = "INVALIDATED"], n)
     ELSE CommitNodes([nodes_ EXCEPT ![n].superseded_generations = @ \cup {gen},
                                     ![n].ever_invalidated = TRUE],
                      state, n)

-----------------------------------------------------------------------------
(* Recomputation on request: no authority is asked for. *)

recompute_readiness(n) ==
  /\ n \in DOMAIN nodes_
  /\ state' = [state EXCEPT ![n] = recompute_node(graph, state, n)]
  /\ UNCHANGED <<authVars, nodes_, structVars>>

\* The iteration orders of an unordered map over the declared nodes.
Listings == Bijection(1..Cardinality(DOMAIN nodes_), DOMAIN nodes_)

recompute_all_readiness ==
  /\ \E listing \in Listings : state' = recompute_all(graph, state, listing)
  /\ UNCHANGED <<authVars, nodes_, structVars>>

-----------------------------------------------------------------------------
(* Adapters.  The graph keeps a pointer to an object it does not own. *)

\* <<>> detaches.
set_adapter(adapter) ==
  /\ adapter_' = adapter
  /\ UNCHANGED <<epoch_, sources_, nodes_, structVars>>
  /\ \E listing \in Listings : state' = recompute_all(graph', state, listing)

\* The attached adapter learns something; the graph is not told.
adapter_reports(adapter) ==
  /\ adapter_ # <<>>
  /\ adapter_' = adapter
  /\ UNCHANGED <<epoch_, sources_, nodes_, structVars, state>>

-----------------------------------------------------------------------------
(* The operations by the part of the graph they touch. *)

GenerationOps(who) ==
  \/ \E n \in Node, gen \in Generation : publish_generation(n, gen, who)
  \/ \E n \in Node, old_gen, new_gen \in Generation :
       supersede_generation(n, old_gen, new_gen, who)

ReadinessOps(who) ==
  \/ \E n \in Node, patch \in EvidencePatches : set_node_evidence(n, patch, who)
  \/ \E n \in Node, s \in PublishableStates : publish_readiness(n, s, who)
  \/ \E n \in Node : retire_node(n, who)
  \/ \E n \in Node : mark_missing(n, who)
  \/ \E n \in Node : mark_stale(n, who)
  \/ \E n \in Node : mark_recovered(n, who)

EdgeOps(who) ==
  \/ \E e \in EdgeCatalog : add_edge(e, who)
  \/ \E id \in EdgeId : remove_edge(id, who)
  \/ \E id \in EdgeId, active \in BOOLEAN : set_edge_active(id, active, who)

SetOps(who) ==
  \/ \E s \in SetCatalog : add_dependency_set(s, who)
  \/ \E id \in SetId : remove_dependency_set(id, who)

InvalidationOps(who) ==
  \/ \E n \in Node, policy \in Policies : invalidate_node(n, policy, who)
  \/ \E n \in Node, gen \in Generation, policy \in Policies :
       invalidate_generation(n, gen, policy, who)

DeclareOps(who) ==
  \/ register_source(who)
  \/ \E d \in NodeDecls : declare_node(d, who)

RecomputeOps ==
  \/ \E n \in Node : recompute_readiness(n)
  \/ recompute_all_readiness

AdapterOps ==
  \/ set_adapter(<<>>)
  \/ \E facts \in Adapters : set_adapter(<<facts>>) \/ adapter_reports(<<facts>>)

Next ==
  \/ \E who \in Authority :
       \/ DeclareOps(who)
       \/ GenerationOps(who)
       \/ ReadinessOps(who)
       \/ EdgeOps(who)
       \/ SetOps(who)
       \/ InvalidationOps(who)
  \/ \E new_epoch \in Epoch : advance_epoch(new_epoch)
  \/ RecomputeOps
  \/ AdapterOps

Spec == Init /\ [][Next]_vars
-----------------------------------------------------------------------------
(* Properties that hold *)

(***************************************************************************)
(* Type invariant.  A node has the state UNKNOWN exactly while it is       *)
(* undeclared, which is what Graph::readiness reports for a node it does   *)
(* not find.                                                               *)
(***************************************************************************)
TypeOK ==
  /\ epoch_ \in Epoch
  /\ DOMAIN sources_ \subseteq Source
  /\ sources_ \in [DOMAIN sources_ -> SourceRegistration]
  /\ DOMAIN nodes_ \subseteq Node
  /\ nodes_ \in [DOMAIN nodes_ -> NodeFacts]
  /\ DOMAIN edges_ \subseteq EdgeId
  /\ edges_ \in [DOMAIN edges_ -> Edge]
  /\ DOMAIN sets_ \subseteq SetId
  /\ sets_ \in [DOMAIN sets_ -> DependencySet]
  /\ out_edges_ \in [Node -> Seq(EdgeId)]
  /\ in_edges_ \in [Node -> SUBSET EdgeId]
  /\ adapter_ \in {<<>>} \cup {<<facts>> : facts \in Adapters}
  /\ state \in [Node -> ReadinessState]
  /\ \A n \in Node : n \in DOMAIN nodes_ <=> state[n] # "UNKNOWN"

(***************************************************************************)
(* The adjacency index and the edge map agree under every mix of add_edge, *)
(* remove_edge and set_edge_active: an index entry never dangles           *)
(* (edges_.at in add_edge would throw), sits under the endpoint its edge   *)
(* names, and no active edge is missing from either direction, so that no  *)
(* traversal overlooks it.                                                 *)
(***************************************************************************)
IndexExact ==
  /\ \A n \in Node : \A x \in Range(out_edges_[n]) :
       x \in DOMAIN edges_ /\ edges_[x].producer = n
  /\ \A n \in Node : \A x \in in_edges_[n] :
       x \in DOMAIN edges_ /\ edges_[x].consumer = n
  /\ \A x \in DOMAIN edges_ :
       /\ edges_[x].producer \in DOMAIN nodes_ /\ edges_[x].consumer \in DOMAIN nodes_
       /\ edges_[x].active => /\ x \in Range(out_edges_[edges_[x].producer])
                              /\ x \in in_edges_[edges_[x].consumer]

(***************************************************************************)
(* Recovery does not bypass revalidation: while a node's dynamic evidence  *)
(* waits for revalidation (mark_recovered), no publication, recomputation  *)
(* or change of its prerequisites shows it in any state other than         *)
(* REVALIDATION_REQUIRED or one of the held non-ready states.              *)
(***************************************************************************)
GateHolds ==
  \A n \in DOMAIN nodes_ :
    Gated(nodes_[n]) => state[n] \in HeldState \cup {"REVALIDATION_REQUIRED"}

(***************************************************************************)
(* What publish_generation and supersede_generation guarantee together:    *)
(* the current generation is the newest history entry (the loader demands  *)
(* it), and although superseding a historical generation can move it       *)
(* backward it never returns to, or below, the first generation published. *)
(***************************************************************************)
GenerationLedger ==
  \A n \in DOMAIN nodes_ :
    LET h == nodes_[n].generation_history
    IN /\ nodes_[n].current_generation = IF h = <<>> THEN NoGeneration ELSE h[Len(h)]
       /\ \A i \in 2..Len(h) : h[i] > h[1]

\* No active cycle: every non-empty set of nodes has one without an active
\* producer in the set.
Acyclic(edges) ==
  \A S \in SUBSET Node : S # {} =>
    \E n \in S : \A x \in DOMAIN edges :
      edges[x].active /\ edges[x].consumer = n => edges[x].producer \notin S

\* A step that closes a cycle makes an inactive edge active.
ClosesCycleByReactivation ==
  Acyclic(edges_) /\ ~Acyclic(edges_') =>
    \E x \in DOMAIN edges_ \cap DOMAIN edges_' : ~edges_[x].active /\ edges_'[x].active

(***************************************************************************)
(* The cycle search of add_edge, which walks the index and not the edge    *)
(* map, is enough: in an acyclic graph the only step that can close a      *)
(* cycle is the reactivation of an edge (set_edge_active).                 *)
(***************************************************************************)
OnlyReactivationClosesCycle == [][ClosesCycleByReactivation]_vars

\* What a step changed was changed by a source registered at this epoch.
AuthorizedStep ==
  /\ <<nodes_, edges_, sets_>>' # <<nodes_, edges_, sets_>> =>
       \E s \in DOMAIN sources_ : sources_[s].epoch = epoch_
  /\ \A n \in DOMAIN nodes_' :
       \/ /\ n \in DOMAIN nodes_
          /\ nodes_'[n].generation_history = nodes_[n].generation_history
          /\ nodes_'[n].origin = nodes_[n].origin
       \/ \E s \in DOMAIN sources_ :
            /\ nodes_'[n].origin = <<s, sources_[s].boot>>
            /\ sources_[s].epoch = epoch_

(***************************************************************************)
(* Stale authority cannot mutate: after advance_epoch nothing changes      *)
(* until a source registers again at the new epoch, and whoever authors a  *)
(* node or a generation is the incarnation registered for that source at   *)
(* the current epoch, never a replaced boot.                               *)
(***************************************************************************)
OnlyCurrentAuthorityMutates == [][AuthorizedStep]_vars

\* Every node shows what its prerequisites imply.  A node that was only declared
\* has not been evaluated yet.
Settled ==
  \A n \in DOMAIN nodes_ :
    \/ state[n] = recompute_node(graph, state, n)
    \/ state[n] = "DECLARED" /\ Verdicts(graph, state, n) = {}

\* A step that makes a settled graph unsettled is a report to the adapter.
UnsettledByAdapterOnly ==
  Settled /\ ~Settled' => \E facts \in Adapters : adapter_reports(<<facts>>)

(***************************************************************************)
(* What a node shows goes out of date in one way only: the attached        *)
(* adapter learns something and the graph is not told.  Every operation of *)
(* the graph itself, however evidence, sets and edges are changed and      *)
(* whoever answers for the evidence, leaves a settled levelled graph       *)
(* settled, although it recomputes no more than its root and the nodes     *)
(* below.                                                                  *)
(***************************************************************************)
OnlyAdaptersUnsettle == [][UnsettledByAdapterOnly]_vars

\* No edge is indexed twice.
IndexedOnce ==
  \A n \in Node : IsInjective(out_edges_[n])

\* An adapter is attached where there was none, or detached.
Attaches == adapter_' # adapter_ /\ <<>> \in {adapter_, adapter_'}

\* The active edges a set names lead to its owner.  add_dependency_set checks
\* it, but remove_edge leaves the id in the set and add_edge can use the id
\* again for an edge to another node.
SetsNameOwnEdges ==
  \A k \in DOMAIN sets_ : \A x \in Range(sets_[k].members) :
    x \in DOMAIN edges_ /\ edges_[x].active => edges_[x].consumer = sets_[k].owner

(***************************************************************************)
(* recompute_all_readiness, and set_adapter that ends with it, leave every *)
(* node of an acyclic graph with the state its prerequisites imply under   *)
(* the adapter that is then attached, whatever the iteration order of the  *)
(* in-degree map and however unsettled the graph was before.  Edges        *)
(* indexed twice and sets that name a foreign edge are the two ways in     *)
(* which the order can put a node before one of its prerequisites.         *)
(***************************************************************************)
RecomputeAllSettles ==
  [][~Settled' /\ Acyclic(edges_) /\ IndexedOnce /\ SetsNameOwnEdges =>
       ~(Attaches \/ recompute_all_readiness)]_vars

\* The nodes at most `hops` active edges away from n, over the edge map.
Within(n, through_optional, hops) ==
  LET hop(S) == {edges_[x].consumer : x \in {y \in DOMAIN edges_ :
                   /\ edges_[y].active /\ edges_[y].producer \in S
                   /\ edges_[y].kind = "OPTIONAL" => through_optional}}
      reach[k \in 0..Cardinality(Node)] ==
        IF k = 0 THEN {n} ELSE reach[k - 1] \cup hop(reach[k - 1])
  IN reach[IF hops <= Cardinality(Node) THEN hops ELSE Cardinality(Node)]

\* The nodes within the policy's reach of n.
WithinReach(n, policy) ==
  Within(n, policy.propagate_through_optional,
         CASE policy.mode = "DIRECT" -> 0
           [] policy.mode = "BOUNDED" -> DepthLimit(policy)
           [] OTHER -> Cardinality(Node))

(***************************************************************************)
(* An accepted invalidate_node marks exactly the nodes within the policy's *)
(* reach: the breadth-first search, which visits a node once and cuts at   *)
(* the depth of that visit, misses no node that some short path reaches.   *)
(***************************************************************************)
InvalidationMarksReach ==
  [][\A n \in Node, policy \in Policies, who \in Authority :
       invalidate_node(n, policy, who) =>
         {m \in DOMAIN nodes_' : nodes_'[m].ever_invalidated} =
           {m \in DOMAIN nodes_ : nodes_[m].ever_invalidated} \cup WithinReach(n, policy)]_vars
=============================================================================
