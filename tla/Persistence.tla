----------------------------- MODULE Persistence -----------------------------
(***************************************************************************)
(* What the persisted format keeps of a graph and what the loader does     *)
(* with it (src/persistence/format.cpp).  The bytes, their digest and the  *)
(* decoding are left out: a file that is absent, empty, cut short or       *)
(* damaged fails the length or digest check, so a file either holds an     *)
(* image or nothing.  The adjacency index is not persisted.                *)
(***************************************************************************)
EXTENDS DependencyGraph

\* save: the durable containers, read under one shared lock.
Image ==
  [epoch |-> epoch_, sources |-> sources_, nodes |-> nodes_, edges |-> edges_,
   sets |-> sets_, state |-> state]

-----------------------------------------------------------------------------
(* The loader's semantic checks. *)

HistoryLimit(img) == 2 * Cardinality(DOMAIN img.nodes) + 16

\* The length checks on the two generation lists of a node.
HistoriesFit(img) ==
  \A n \in DOMAIN img.nodes :
    /\ Len(img.nodes[n].generation_history) <= HistoryLimit(img)
    /\ Cardinality(img.nodes[n].superseded_generations) <= HistoryLimit(img)

valid_history(node) ==
  LET h == node.generation_history
  IN /\ \A i \in 2..Len(h) : h[i] > h[i - 1]
     /\ node.current_generation = IF h = <<>> THEN NoGeneration ELSE h[Len(h)]

valid_edge(img, e) ==
  /\ e.producer # e.consumer
  /\ {e.producer, e.consumer} \subseteq DOMAIN img.nodes

valid_set(img, s) ==
  /\ s.owner \in DOMAIN img.nodes
  /\ s.members = <<>> => s.op = "OPTIONAL_GROUP"
  /\ Range(s.members) \subseteq DOMAIN img.edges

(***************************************************************************)
(* rebuild_indexes_locked: the active edges in the iteration order of the  *)
(* edge map, which the program does not choose.                            *)
(***************************************************************************)
ActiveEdges(edges) == {x \in DOMAIN edges : edges[x].active}
EdgeListings(edges) == Bijection(1..Cardinality(ActiveEdges(edges)), ActiveEdges(edges))
NodeListings(nodes) == Bijection(1..Cardinality(DOMAIN nodes), DOMAIN nodes)

\* Mutant: the inbound index is filed under the producer.
rebuild_under_producer(nodes, edges, sets, listing) ==
  [nodes |-> nodes, edges |-> edges, sets |-> sets, adapter |-> adapter_,
   out |-> [n \in Node |-> Keep(listing, {x \in DOMAIN edges : edges[x].producer = n})],
   in |-> [n \in Node |-> {x \in ActiveEdges(edges) : edges[x].producer = n}]]

rebuild_indexes(nodes, edges, sets, listing) ==
  [nodes |-> nodes, edges |-> edges, sets |-> sets, adapter |-> adapter_,
   out |-> [n \in Node |-> Keep(listing, {x \in DOMAIN edges : edges[x].producer = n})],
   in |-> [n \in Node |-> {x \in ActiveEdges(edges) : edges[x].consumer = n}]]

\* Kahn's algorithm over the rebuilt index reaches every node.
acyclic(g, listing) == Range(kahn_queue(g, listing)) = DOMAIN g.nodes

accepts(img, edge_listing, node_listing) ==
  /\ HistoriesFit(img)
  /\ \A n \in DOMAIN img.nodes : valid_history(img.nodes[n])
  /\ \A x \in DOMAIN img.edges : valid_edge(img, img.edges[x])
  /\ \A s \in DOMAIN img.sets : valid_set(img, img.sets[s])
  /\ acyclic(rebuild_indexes(img.nodes, img.edges, img.sets, edge_listing), node_listing)

Rejected(img) ==
  \E edge_listing \in EdgeListings(img.edges), node_listing \in NodeListings(img.nodes) :
    ~accepts(img, edge_listing, node_listing)

-----------------------------------------------------------------------------
(* Committing an accepted image. *)

\* Mutant: the evidence keeps the freshness it was saved with.
demote_nothing(nodes) == nodes

\* Dynamic evidence has to be corroborated again, durable facts have not.
demote_evidence(nodes) ==
  [n \in DOMAIN nodes |->
     [nodes[n] EXCEPT !.recovered_evidence =
        IF nodes[n].dynamic_evidence THEN "REVALIDATION_REQUIRED" ELSE "FRESH"]]

\* The state of a dynamic node is overwritten whatever it was.
demote_states(nodes, st) ==
  [n \in Node |->
     IF n \in DOMAIN nodes /\ nodes[n].dynamic_evidence THEN "REVALIDATION_REQUIRED"
     ELSE st[n]]

load(img) ==
  \E edge_listing \in EdgeListings(img.edges), node_listing \in NodeListings(img.nodes) :
    LET nodes == demote_evidence(img.nodes)
        g == rebuild_indexes(nodes, img.edges, img.sets, edge_listing)
    IN /\ accepts(img, edge_listing, node_listing)
       /\ epoch_' = img.epoch
       /\ sources_' = img.sources
       /\ nodes_' = nodes
       /\ edges_' = img.edges
       /\ sets_' = img.sets
       /\ out_edges_' = g.out
       /\ in_edges_' = g.in
       /\ UNCHANGED adapter_
       /\ state' = recompute_all(g, demote_states(img.nodes, img.state), node_listing)
-----------------------------------------------------------------------------

(***************************************************************************)
(* tests/test_property.cpp and README: a persistence round trip preserves  *)
(* the topology.  What the library's operations can leave behind (an edge  *)
(* removed under a set that names it, a long history) the loader refuses.  *)
(***************************************************************************)
RoundTrips == ~Rejected(Image)
=============================================================================
