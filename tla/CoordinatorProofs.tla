-------------------------- MODULE CoordinatorProofs --------------------------
(***************************************************************************)
(* What survives a save, a death and a restart of the coordinator, for     *)
(* every graph, file and sequence of requests.                             *)
(***************************************************************************)
EXTENDS KahnProofs, Coordinator

-----------------------------------------------------------------------------
(* Images *)

\* The types of an image; the coordinator's graph has no dependency sets.
ImageOK(img) ==
  /\ img.epoch \in Epoch
  /\ DOMAIN img.sources \subseteq Source
  /\ img.sources \in [DOMAIN img.sources -> SourceRegistration]
  /\ DOMAIN img.nodes \subseteq Node
  /\ img.nodes \in [DOMAIN img.nodes -> NodeFacts]
  /\ DOMAIN img.edges \subseteq EdgeId
  /\ img.edges \in [DOMAIN img.edges -> Edge]
  /\ img.sets = <<>>
  /\ img.state \in ReadinessMap
  /\ \A n \in Node : n \in DOMAIN img.nodes <=> img.state[n] # "UNKNOWN"

\* The generations of a node were published in increasing order.
Increasing(facts) ==
  LET h == facts.generation_history
  IN /\ facts.current_generation = IF h = <<>> THEN NoGeneration ELSE h[Len(h)]
     /\ \A i, j \in 1..Len(h) : i < j => h[i] < h[j]

\* What the loader's checks will ask of it, apart from the lengths.
ImageSound(img) ==
  /\ \A n \in DOMAIN img.nodes : Increasing(img.nodes[n])
  /\ \A x \in DOMAIN img.edges : valid_edge(img, img.edges[x])
  /\ Acyclic(img.edges)

GoodImage(img) == ImageOK(img) /\ ImageSound(img)

\* The graph the coordinator serves.
Served == ShapeOK /\ IndexExact /\ GoodImage(Image)

\* The loader accepts an increasing history.
LEMMA IncreasingIsValid ==
  ASSUME NEW facts \in NodeFacts, Increasing(facts)
  PROVE  valid_history(facts)
<1> DEFINE h == facts.generation_history
<1>1. h \in Seq(Generation)
  BY DEF NodeFacts
<1>2. \A i \in 2..Len(h) : i \in 1..Len(h) /\ i - 1 \in 1..Len(h) /\ i - 1 < i
  BY <1>1
<1>3. \A i \in 2..Len(h) : h[i] \in Nat /\ h[i - 1] \in Nat
  <2> HIDE DEF h
  <2>1. \A i \in 1..Len(h) : h[i] \in Nat
    <3>1. \A i \in 1..Len(h) : h[i] \in Generation
      BY <1>1
    <3> QED BY <3>1, GenerationAssumption
  <2> QED BY <1>2, <2>1
<1>4. \A i \in 2..Len(h) : h[i] > h[i - 1]
  <2>1. \A i, j \in 1..Len(h) : i < j => h[i] < h[j]
    BY DEF Increasing
  <2> HIDE DEF h
  <2> QED BY <1>2, <1>3, <2>1
<1> QED BY <1>4 DEF valid_history, Increasing

\* The index rebuilt from the edge map is exact and holds no edge twice.
LEMMA RebuiltIndex ==
  ASSUME NEW nodes, DOMAIN nodes \subseteq Node,
         NEW edges, DOMAIN edges \subseteq EdgeId, edges \in [DOMAIN edges -> Edge],
         \A x \in DOMAIN edges : edges[x].producer \in DOMAIN nodes /\ edges[x].consumer \in DOMAIN nodes,
         NEW sets, NEW listing \in EdgeListings(edges)
  PROVE  LET g == rebuild_indexes(nodes, edges, sets, listing)
         IN /\ g.nodes = nodes /\ g.edges = edges /\ g.sets = sets /\ g.adapter = adapter_
            /\ g.out \in [Node -> Seq(EdgeId)] /\ g.in \in [Node -> SUBSET EdgeId]
            /\ \A n \in Node : /\ Range(g.out[n]) = {x \in DOMAIN edges : edges[x].active /\ edges[x].producer = n}
                               /\ g.in[n] = {x \in DOMAIN edges : edges[x].active /\ edges[x].consumer = n}
                               /\ IsInjective(g.out[n])
            /\ KahnGraph(g)
<1> DEFINE g == rebuild_indexes(nodes, edges, sets, listing)
           from(n) == {x \in DOMAIN edges : edges[x].producer = n}
<1>1. /\ g.nodes = nodes /\ g.edges = edges /\ g.sets = sets /\ g.adapter = adapter_
      /\ g.out = [n \in Node |-> Keep(listing, from(n))]
      /\ g.in = [n \in Node |-> {x \in ActiveEdges(edges) : edges[x].consumer = n}]
  BY DEF rebuild_indexes
<1> HIDE DEF g
<1>2. ActiveEdges(edges) \subseteq EdgeId /\ IsFiniteSet(ActiveEdges(edges))
  <2>1. ActiveEdges(edges) \subseteq EdgeId
    BY DEF ActiveEdges
  <2> QED BY <2>1, FiniteAssumption, FS_Subset
<1>3. /\ listing \in Seq(ActiveEdges(edges)) /\ IsInjective(listing)
      /\ Range(listing) = ActiveEdges(edges)
  <2> HIDE DEF ActiveEdges
  <2> QED BY <1>2, ListingProperties DEF EdgeListings
<1>4. listing \in Seq(EdgeId)
  BY <1>2, <1>3
<1>5. ASSUME NEW n \in Node
      PROVE  /\ g.out[n] \in Seq(EdgeId) /\ IsInjective(g.out[n])
             /\ Range(g.out[n]) = ActiveEdges(edges) \cap from(n)
  <2>1. /\ Keep(listing, from(n)) \in Seq(EdgeId)
        /\ Range(Keep(listing, from(n))) = Range(listing) \cap from(n)
        /\ IsInjective(Keep(listing, from(n)))
    <3> HIDE DEF from
    <3> QED BY <1>3, <1>4, KeepProperties
  <2> QED BY <1>1, <1>3, <2>1
<1>6. g.out \in [Node -> Seq(EdgeId)] /\ g.in \in [Node -> SUBSET EdgeId]
  <2>1. g.out \in [Node -> Seq(EdgeId)]
    <3> HIDE DEF from
    <3> QED BY <1>1, <1>5
  <2>2. g.in \in [Node -> SUBSET EdgeId]
    BY <1>1, <1>2
  <2> QED BY <2>1, <2>2
<1>7. \A n \in Node :
        /\ Range(g.out[n]) = {x \in DOMAIN edges : edges[x].active /\ edges[x].producer = n}
        /\ g.in[n] = {x \in DOMAIN edges : edges[x].active /\ edges[x].consumer = n}
        /\ IsInjective(g.out[n])
  BY <1>1, <1>5 DEF ActiveEdges
<1>8. \A x \in DOMAIN edges : edges[x].producer \in Node /\ edges[x].consumer \in Node
  OBVIOUS
<1>9. GraphShape(g)
  BY <1>1, <1>6, <1>8 DEF GraphShape
<1>10. KahnGraph(g)
  BY <1>1, <1>7, <1>8, <1>9 DEF KahnGraph
<1> QED BY <1>1, <1>6, <1>7, <1>10 DEF g

\* A good image that fits passes every check of the loader.
LEMMA GoodImageAccepted ==
  ASSUME NEW img, GoodImage(img), HistoriesFit(img)
  PROVE  ~Rejected(img)
<1> SUFFICES ASSUME NEW edge_listing \in EdgeListings(img.edges),
                    NEW node_listing \in NodeListings(img.nodes)
             PROVE  accepts(img, edge_listing, node_listing)
  BY DEF Rejected
<1> DEFINE g == rebuild_indexes(img.nodes, img.edges, img.sets, edge_listing)
<1>1. /\ DOMAIN img.nodes \subseteq Node /\ img.nodes \in [DOMAIN img.nodes -> NodeFacts]
      /\ DOMAIN img.edges \subseteq EdgeId /\ img.edges \in [DOMAIN img.edges -> Edge]
      /\ img.sets = <<>>
  BY DEF GoodImage, ImageOK
<1>2. \A x \in DOMAIN img.edges : valid_edge(img, img.edges[x])
  BY DEF GoodImage, ImageSound
<1>3. \A n \in DOMAIN img.nodes : valid_history(img.nodes[n])
  BY <1>1, IncreasingIsValid DEF GoodImage, ImageSound
<1>4. \A s \in DOMAIN img.sets : valid_set(img, img.sets[s])
  BY <1>1
<1>5. KahnGraph(g) /\ g.nodes = img.nodes /\ g.edges = img.edges
  <2>1. \A x \in DOMAIN img.edges :
          img.edges[x].producer \in DOMAIN img.nodes /\ img.edges[x].consumer \in DOMAIN img.nodes
    BY <1>2 DEF valid_edge
  <2> QED BY <1>1, <2>1, RebuiltIndex
<1> HIDE DEF g
<1>6. /\ node_listing \in Seq(DOMAIN img.nodes) /\ IsInjective(node_listing)
      /\ Range(node_listing) = DOMAIN img.nodes
  <2>1. IsFiniteSet(DOMAIN img.nodes)
    BY <1>1, FiniteAssumption, FS_Subset
  <2> QED BY <2>1, ListingProperties DEF NodeListings
<1>7. node_listing \in Seq(Node)
  BY <1>1, <1>6
<1>8. Acyclic(g.edges)
  BY <1>5 DEF GoodImage, ImageSound
<1>9. acyclic(g, node_listing)
  BY <1>5, <1>6, <1>7, <1>8, KahnExact DEF acyclic
<1> QED BY <1>2, <1>3, <1>4, <1>9 DEF accepts, g

\* The image of a graph without dependency sets is typed.
LEMMA ServedImage ==
  ASSUME ShapeOK, sets_ = <<>>
  PROVE  ImageOK(Image)
<1>1. /\ Image.epoch = epoch_ /\ Image.sources = sources_ /\ Image.nodes = nodes_
      /\ Image.edges = edges_ /\ Image.sets = sets_ /\ Image.state = state
  BY DEF Image
<1>2. state \in ReadinessMap /\ \A n \in Node : n \in DOMAIN nodes_ <=> state[n] # "UNKNOWN"
  <2>1. graph.nodes = nodes_
    BY DEF graph
  <2> QED BY <2>1 DEF ShapeOK, SoundMaps, ShowsSound
<1> HIDE DEF Image
<1> QED BY <1>1, <1>2 DEF ImageOK, ShapeOK, StructOK

\* The same for the graph after a step.
LEMMA ServedImagePrimed == ShapeOK' /\ sets_' = <<>> => ImageOK(Image)'
<1>1. (ShapeOK /\ sets_ = <<>>) => ImageOK(Image)
  BY ServedImage
<1>2. (ShapeOK /\ sets_ = <<>>)' => ImageOK(Image)'
  BY <1>1, PTL
<1> QED BY <1>2

-----------------------------------------------------------------------------
(* What a request does to the graph *)

\* A request that changes the graph.
GraphRequest(who) ==
  \/ DeclareRequests(who)
  \/ ChangeRequests(who)
  \/ \E n \in Node, gen \in Generation : publish_generation(n, gen, who)
  \/ \E n \in Node : publish_readiness(n, "READY", who)

\* What it does to the generations: nothing, a new node, a newer generation.
KeepsNodes == DOMAIN nodes_' = DOMAIN nodes_ /\ \A m \in DOMAIN nodes_ : Kept(m)
Declares(n) ==
  /\ n \in Node \ DOMAIN nodes_
  /\ DOMAIN nodes_' = DOMAIN nodes_ \cup {n}
  /\ \A m \in DOMAIN nodes_ : Kept(m)
  /\ nodes_'[n].generation_history = <<>>
  /\ nodes_'[n].current_generation = NoGeneration
Records(n, gen) ==
  /\ n \in DOMAIN nodes_ /\ gen > nodes_[n].current_generation
  /\ DOMAIN nodes_' = DOMAIN nodes_
  /\ \A m \in DOMAIN nodes_ \ {n} : Kept(m)
  /\ nodes_'[n].generation_history = Append(nodes_[n].generation_history, gen)
  /\ nodes_'[n].current_generation = gen
LedgerMove ==
  \/ KeepsNodes
  \/ \E n \in Node : Declares(n)
  \/ \E n \in Node, gen \in Generation : Records(n, gen)

\* Every request is an operation of the graph.
LEMMA RequestIsOperation ==
  ASSUME NEW who \in Authority, DeclareRequests(who) \/ ChangeRequests(who)
                                \/ \E n \in Node, gen \in Generation : publish_generation(n, gen, who)
  PROVE  Next
<1>1. DeclareRequests(who) => DeclareOps(who)
  BY DEF DeclareRequests, DeclareOps
<1>2. ChangeRequests(who) => EdgeOps(who) \/ InvalidationOps(who) \/ ReadinessOps(who)
  BY DEF ChangeRequests, EdgeOps, InvalidationOps, ReadinessOps
<1>3. (\E n \in Node, gen \in Generation : publish_generation(n, gen, who)) => GenerationOps(who)
  BY DEF GenerationOps
<1> QED BY <1>1, <1>2, <1>3 DEF Next

\* Publishing READY opens the gate of one node and leaves the rest alone.
LEMMA PublishReadyFacts ==
  ASSUME ShapeOK, NEW who, NEW n \in Node, publish_readiness(n, "READY", who)
  PROVE  /\ n \in DOMAIN nodes_ /\ KeepsNodes
         /\ \A m \in DOMAIN nodes_ \ {n} : nodes_'[m] = nodes_[m]
         /\ UNCHANGED <<authVars, structVars>>
<1>0. nodes_ \in [DOMAIN nodes_ -> NodeFacts]
  BY DEF ShapeOK, StructOK
<1>1. /\ n \in DOMAIN nodes_ /\ UNCHANGED <<authVars, structVars>>
      /\ nodes_' = [nodes_ EXCEPT ![n] = [@ EXCEPT !.ever_invalidated = FALSE,
                                                   !.recovered_evidence = "FRESH",
                                                   !.dynamic_evidence = TRUE]]
  BY DEF publish_readiness, CommitNodes
<1>2. KeepsNodes /\ \A m \in DOMAIN nodes_ \ {n} : nodes_'[m] = nodes_[m]
  BY <1>0, <1>1 DEF KeepsNodes, Kept, NodeFacts
<1> QED BY <1>1, <1>2

\* Requests keep the graph in shape.
LEMMA RequestKeepsShape ==
  ASSUME ShapeOK, IndexExact, NEW who \in Authority, GraphRequest(who)
  PROVE  ShapeOK' /\ IndexExact'
<1>1. ASSUME NEW n \in Node, publish_readiness(n, "READY", who) PROVE ShapeOK' /\ IndexExact'
  <2>1. "READY" \in ReadinessState
    BY DEF ReadinessState
  <2>2. ShapeOK'
    BY <1>1, <2>1, PublishReadinessSound
  <2>3. KeepsNodes /\ edges_' = edges_ /\ out_edges_' = out_edges_ /\ in_edges_' = in_edges_
    BY <1>1, PublishReadyFacts DEF structVars
  <2>4. IndexExact'
    BY <2>3, IndexUnchanged DEF KeepsNodes
  <2> QED BY <2>2, <2>4
<1>2. Next => ShapeOK' /\ IndexExact'
  BY NextSound, IndexStep
<1> QED BY <1>1, <1>2, RequestIsOperation DEF GraphRequest

\* The containers a request leaves alone.
LEMMA RequestFrame ==
  ASSUME ShapeOK, NEW who \in Authority, GraphRequest(who)
  PROVE  epoch_' = epoch_ /\ sets_' = sets_ /\ adapter_' = adapter_
<1>1. ASSUME NEW n \in Node, publish_readiness(n, "READY", who)
      PROVE  epoch_' = epoch_ /\ sets_' = sets_ /\ adapter_' = adapter_
  BY <1>1, PublishReadyFacts DEF authVars, structVars
<1>2. DeclareRequests(who) => epoch_' = epoch_ /\ sets_' = sets_ /\ adapter_' = adapter_
  BY DEF DeclareRequests, register_source, declare_node, authVars, structVars
<1>3. ChangeRequests(who) => epoch_' = epoch_ /\ sets_' = sets_ /\ adapter_' = adapter_
  BY DEF ChangeRequests, add_edge, remove_edge, invalidate_node, mark_recovered,
         CommitEdges, CommitNodes, authVars, structVars
<1>4. ASSUME NEW n \in Node, NEW gen \in Generation, publish_generation(n, gen, who)
      PROVE  epoch_' = epoch_ /\ sets_' = sets_ /\ adapter_' = adapter_
  BY <1>4 DEF publish_generation, CommitNodes, authVars, structVars
<1> QED BY <1>1, <1>2, <1>3, <1>4 DEF GraphRequest

\* Publishing a generation records it for one node, and gates no other node.
LEMMA PublishRecords ==
  ASSUME ShapeOK, NEW who \in Authority, NEW n \in Node, NEW gen \in Generation,
         publish_generation(n, gen, who)
  PROVE  Records(n, gen) /\ \A m \in DOMAIN nodes_ \ {n} : nodes_'[m] = nodes_[m]
<1>0. nodes_ \in [DOMAIN nodes_ -> NodeFacts]
  BY DEF ShapeOK, StructOK
<1>1. n \in DOMAIN nodes_ /\ gen > nodes_[n].current_generation
  BY DEF publish_generation
<1>2. PICK prior : nodes_' = [nodes_ EXCEPT ![n] = WithGeneration(@, prior, gen, who)]
  BY DEF publish_generation, CommitNodes
<1>3. LET new == WithGeneration(nodes_[n], prior, gen, who)
      IN /\ new.generation_history = Append(nodes_[n].generation_history, gen)
         /\ new.current_generation = gen
  BY <1>0, <1>1 DEF WithGeneration, NodeFacts
<1>4. /\ DOMAIN nodes_' = DOMAIN nodes_ /\ nodes_'[n] = WithGeneration(nodes_[n], prior, gen, who)
      /\ \A m \in DOMAIN nodes_ \ {n} : nodes_'[m] = nodes_[m]
  BY <1>0, <1>1, <1>2
<1> QED BY <1>1, <1>3, <1>4 DEF Records, Kept

\* Declarations and changes: the generations, and the gates.
LEMMA DeclareMoves ==
  ASSUME ShapeOK, NEW who \in Authority, NEW d \in NodeDecls, declare_node(d, who)
  PROVE  Declares(d.id) /\ \A m \in DOMAIN nodes_ : nodes_'[m] = nodes_[m]
<1>1. d.id \in Node /\ d.id \notin DOMAIN nodes_
  BY InputAssumption DEF NodeDecl, declare_node
<1>2. PICK facts : /\ nodes_' = Put(nodes_, d.id, facts)
                   /\ facts.generation_history = <<>>
                   /\ facts.current_generation = NoGeneration
  BY DEF declare_node
<1>3. /\ DOMAIN nodes_' = DOMAIN nodes_ \cup {d.id} /\ nodes_'[d.id] = facts
      /\ \A m \in DOMAIN nodes_ : nodes_'[m] = nodes_[m]
  BY <1>1, <1>2 DEF Put
<1> QED BY <1>1, <1>2, <1>3 DEF Declares, Kept

\* Requests that record no generation keep the histories and open no gate.
LEMMA ChangeMoves ==
  ASSUME ShapeOK, NEW who \in Authority, ChangeRequests(who)
  PROVE  KeepsNodes /\ \A m \in DOMAIN nodes_ : Gated(nodes_[m]) => Gated(nodes_'[m])
<1>0. nodes_ \in [DOMAIN nodes_ -> NodeFacts]
  BY DEF ShapeOK, StructOK
<1>1. DOMAIN nodes_' = DOMAIN nodes_ /\ \A m \in DOMAIN nodes_ : Gated(nodes_[m]) => Gated(nodes_'[m])
  <2>1. ASSUME \/ \E e \in EdgeCatalog : add_edge(e, who)
               \/ \E id \in EdgeId : remove_edge(id, who)
        PROVE  nodes_' = nodes_
    BY <2>1 DEF add_edge, remove_edge, CommitEdges
  <2>2. ASSUME NEW n \in Node, NEW policy \in Policies, invalidate_node(n, policy, who)
        PROVE  /\ DOMAIN nodes_' = DOMAIN nodes_
               /\ \A m \in DOMAIN nodes_ : Gated(nodes_[m]) => Gated(nodes_'[m])
    <3>1. nodes_' = MarkInvalidated(MarkedBy(n, policy))
      BY <2>2 DEF invalidate_node, CommitNodes
    <3> QED BY <1>0, <3>1 DEF MarkInvalidated, Gated, NodeFacts
  <2>3. ASSUME NEW n \in Node, mark_recovered(n, who)
        PROVE  /\ DOMAIN nodes_' = DOMAIN nodes_
               /\ \A m \in DOMAIN nodes_ : Gated(nodes_[m]) => Gated(nodes_'[m])
    <3> DEFINE r == IF nodes_[n].dynamic_evidence THEN "REVALIDATION_REQUIRED" ELSE "FRESH"
    <3>1. /\ n \in DOMAIN nodes_
          /\ nodes_' = [nodes_ EXCEPT ![n] = [@ EXCEPT !.ever_invalidated = FALSE,
                                                       !.recovered_evidence = r]]
      BY <2>3 DEF mark_recovered, CommitNodes
    <3> QED BY <1>0, <3>1 DEF Gated, NodeFacts
  <2> QED BY <2>1, <2>2, <2>3 DEF ChangeRequests
<1>2. \A m \in DOMAIN nodes_' : Kept(m)
  <2>1. EdgeOps(who) \/ InvalidationOps(who) \/ ReadinessOps(who)
    BY DEF ChangeRequests, EdgeOps, InvalidationOps, ReadinessOps
  <2> QED BY <2>1, OthersKeepLedger
<1> QED BY <1>1, <1>2 DEF KeepsNodes

\* What requests do to the ledger.
LEMMA RequestMoves ==
  ASSUME ShapeOK, NEW who \in Authority, GraphRequest(who)
  PROVE  LedgerMove
<1>1. register_source(who) => KeepsNodes
  BY DEF register_source, KeepsNodes, Kept
<1>2. ASSUME NEW d \in NodeDecls, declare_node(d, who) PROVE \E n \in Node : Declares(n)
  <2>1. d.id \in Node
    BY InputAssumption DEF NodeDecl
  <2> QED BY <1>2, <2>1, DeclareMoves
<1> QED BY <1>1, <1>2, ChangeMoves, PublishRecords, PublishReadyFacts
        DEF GraphRequest, DeclareRequests, LedgerMove

-----------------------------------------------------------------------------
(* The served graph stays fit for saving *)

\* A generation above the current one is above every recorded one.
LEMMA IncreasingAppend ==
  ASSUME NEW old \in NodeFacts, Increasing(old), NEW new, NEW gen \in Generation,
         gen > old.current_generation,
         new.generation_history = Append(old.generation_history, gen),
         new.current_generation = gen
  PROVE  /\ Increasing(new)
         /\ \A i \in 1..Len(old.generation_history) : old.generation_history[i] < gen
<1> DEFINE h == old.generation_history
           k == new.generation_history
<1>1. h \in Seq(Generation) /\ k = Append(h, gen)
  BY DEF NodeFacts
<1>2. /\ old.current_generation = IF h = <<>> THEN NoGeneration ELSE h[Len(h)]
      /\ \A i, j \in 1..Len(h) : i < j => h[i] < h[j]
  BY DEF Increasing
<1> HIDE DEF h, k
<1>3. /\ k \in Seq(Generation) /\ Len(k) = Len(h) + 1 /\ Len(h) \in Nat /\ k # <<>>
      /\ k[Len(k)] = gen /\ \A i \in 1..Len(h) : k[i] = h[i]
  BY <1>1
<1>4. gen \in Nat /\ \A i \in 1..Len(h) : h[i] \in Nat
  <2>1. \A i \in 1..Len(h) : h[i] \in Generation
    BY <1>1
  <2> QED BY <2>1, GenerationAssumption
<1>5. \A i \in 1..Len(h) : h[i] < gen
  <2> TAKE i \in 1..Len(h)
  <2>1. h # <<>> /\ Len(h) \in 1..Len(h)
    BY <1>1, <1>3
  <2>2. gen > h[Len(h)] /\ h[Len(h)] \in Nat /\ h[i] \in Nat
    BY <1>2, <1>4, <2>1
  <2>3. h[i] <= h[Len(h)]
    <3>1. CASE i = Len(h)
      BY <2>2, <3>1
    <3>2. CASE i # Len(h)
      <4>1. i < Len(h)
        BY <1>3, <3>2
      <4> QED BY <1>2, <2>1, <2>2, <4>1
    <3> QED BY <3>1, <3>2
  <2> QED BY <1>4, <2>2, <2>3
<1>6. ASSUME NEW i \in 1..Len(k), NEW j \in 1..Len(k), i < j PROVE k[i] < k[j]
  <2>1. i \in 1..Len(h) /\ k[i] = h[i]
    BY <1>3, <1>6
  <2>2. CASE j = Len(k)
    BY <1>3, <1>5, <2>1, <2>2
  <2>3. CASE j # Len(k)
    <3>1. j \in 1..Len(h) /\ k[j] = h[j]
      BY <1>3, <2>3
    <3> QED BY <1>2, <1>6, <2>1, <3>1
  <2> QED BY <2>2, <2>3
<1>7. Increasing(new)
  BY <1>3, <1>6 DEF Increasing, k
<1> QED BY <1>5, <1>7 DEF h

\* A ledger move keeps the histories increasing.
LEMMA MoveKeepsIncreasing ==
  ASSUME ShapeOK, \A n \in DOMAIN nodes_ : Increasing(nodes_[n]), LedgerMove
  PROVE  \A n \in DOMAIN nodes_' : Increasing(nodes_'[n])
<1>0. nodes_ \in [DOMAIN nodes_ -> NodeFacts]
  BY DEF ShapeOK, StructOK
<1>1. \A m \in DOMAIN nodes_ : Kept(m) => Increasing(nodes_'[m])
  BY DEF Kept, Increasing
<1>2. CASE KeepsNodes
  BY <1>1, <1>2 DEF KeepsNodes
<1>3. ASSUME NEW n \in Node, Declares(n) PROVE \A m \in DOMAIN nodes_' : Increasing(nodes_'[m])
  <2>1. Increasing(nodes_'[n])
    BY <1>3 DEF Declares, Increasing
  <2> QED BY <1>1, <1>3, <2>1 DEF Declares
<1>4. ASSUME NEW n \in Node, NEW gen \in Generation, Records(n, gen)
      PROVE  \A m \in DOMAIN nodes_' : Increasing(nodes_'[m])
  <2>1. nodes_[n] \in NodeFacts /\ Increasing(nodes_[n])
    BY <1>0, <1>4 DEF Records
  <2>2. Increasing(nodes_'[n])
    BY <1>4, <2>1, IncreasingAppend DEF Records
  <2> QED BY <1>1, <1>4, <2>2 DEF Records
<1> QED BY <1>2, <1>3, <1>4 DEF LedgerMove

\* A ledger move loses no node.
LEMMA MoveForgetsNoNode ==
  ASSUME LedgerMove
  PROVE  DOMAIN nodes_ \subseteq DOMAIN nodes_'
BY DEF LedgerMove, KeepsNodes, Declares, Records

\* Edges keep distinct, declared ends and close no cycle.
LEMMA RequestKeepsEdges ==
  ASSUME ShapeOK, IndexExact, NEW who \in Authority, GraphRequest(who), Acyclic(edges_),
         \A x \in DOMAIN edges_ : valid_edge(Image, edges_[x])
  PROVE  /\ Acyclic(edges_')
         /\ \A x \in DOMAIN edges_' : valid_edge(Image', edges_'[x])
<1>1. Image.nodes = nodes_ /\ Image'.nodes = nodes_'
  BY DEF Image
<1> HIDE DEF Image
<1>2. DOMAIN nodes_ \subseteq DOMAIN nodes_'
  BY RequestMoves, MoveForgetsNoNode
<1>3. \A e : valid_edge(Image, e) => valid_edge(Image', e)
  BY <1>1, <1>2 DEF valid_edge
<1>4. ASSUME NEW e \in EdgeCatalog, add_edge(e, who)
      PROVE  Acyclic(edges_') /\ \A x \in DOMAIN edges_' : valid_edge(Image', edges_'[x])
  <2>1. e.producer \in DOMAIN nodes_ /\ e.consumer \in DOMAIN nodes_ /\ e.consumer \in Node
    BY <1>4, InputAssumption DEF add_edge, edge_fits, Edge
  <2>2. e.producer # e.consumer
    BY <1>4, <2>1, VisitedClosed DEF add_edge, edge_fits, would_create_cycle
  <2>3. valid_edge(Image', e)
    BY <1>1, <1>2, <2>1, <2>2 DEF valid_edge
  <2>4. edges_' = Put(edges_, e.id, e)
    BY <1>4 DEF add_edge, CommitEdges
  <2>5. \A x \in DOMAIN edges_' : valid_edge(Image', edges_'[x])
    BY <1>3, <2>3, <2>4 DEF Put
  <2> QED BY <1>4, <2>5, AddEdgeKeepsAcyclic
<1>5. ASSUME NEW id \in EdgeId, remove_edge(id, who)
      PROVE  Acyclic(edges_') /\ \A x \in DOMAIN edges_' : valid_edge(Image', edges_'[x])
  <2>1. edges_' = Drop(edges_, id)
    BY <1>5 DEF remove_edge, CommitEdges
  <2>2. \A x \in DOMAIN edges_' : x \in DOMAIN edges_ /\ edges_'[x] = edges_[x]
    BY <2>1 DEF Drop
  <2> QED BY <1>3, <2>2, AcyclicMonotone
<1>6. CASE edges_' = edges_
  BY <1>3, <1>6
<1>7. ASSUME NEW n \in Node, publish_readiness(n, "READY", who) PROVE edges_' = edges_
  BY <1>7, PublishReadyFacts DEF structVars
<1> QED BY <1>4, <1>5, <1>6, <1>7
        DEF GraphRequest, DeclareRequests, ChangeRequests, register_source, declare_node,
            invalidate_node, mark_recovered, publish_generation, CommitNodes, structVars

\* Requests keep what is served sound.
LEMMA RequestKeepsServed ==
  ASSUME Served, NEW who \in Authority, GraphRequest(who)
  PROVE  Served'
<1>1. /\ ShapeOK /\ IndexExact /\ ImageOK(Image) /\ ImageSound(Image)
      /\ Image.nodes = nodes_ /\ Image.edges = edges_ /\ Image.sets = sets_
      /\ Image'.nodes = nodes_' /\ Image'.edges = edges_' /\ Image'.sets = sets_'
  BY DEF Served, GoodImage, Image
<1> HIDE DEF Image
<1>2. ShapeOK' /\ IndexExact'
  BY <1>1, RequestKeepsShape
<1>3. sets_' = <<>>
  BY <1>1, RequestFrame DEF ImageOK
<1>4. \A n \in DOMAIN nodes_' : Increasing(nodes_'[n])
  BY <1>1, RequestMoves, MoveKeepsIncreasing DEF ImageSound
<1>5. Acyclic(edges_') /\ \A x \in DOMAIN edges_' : valid_edge(Image', edges_'[x])
  BY <1>1, RequestKeepsEdges DEF ImageSound
<1>6. ImageSound(Image')
  BY <1>1, <1>4, <1>5 DEF ImageSound
<1>7. ImageOK(Image')
  BY <1>2, <1>3, ServedImagePrimed
<1> QED BY <1>2, <1>6, <1>7 DEF Served, GoodImage

-----------------------------------------------------------------------------
(* Restarting *)

\* The empty graph is sound to serve.
LEMMA InitServed == Init => Served
<1> SUFFICES ASSUME Init PROVE Served
  OBVIOUS
<1>1. ShapeOK
  BY InitSound
<1>2. Range(<<>>) = {}
  BY DEF Range
<1>3. IndexExact
  BY <1>2 DEF Init, IndexExact
<1>4. nodes_ = <<>> /\ edges_ = <<>> /\ sets_ = <<>>
  BY DEF Init
<1>5. ImageOK(Image)
  BY <1>1, <1>4, ServedImage
<1>6. Image.nodes = nodes_ /\ Image.edges = edges_
  BY DEF Image
<1> HIDE DEF Image
<1>7. Acyclic(edges_)
  BY <1>4 DEF Acyclic
<1>8. ImageSound(Image)
  BY <1>4, <1>6, <1>7 DEF ImageSound
<1> QED BY <1>1, <1>3, <1>5, <1>8 DEF Served, GoodImage

\* A restart that finds nothing to load serves the empty graph.
LEMMA RestartedEmptyServed == Init' => Served'
<1>1. Init => Served
  BY InitServed
<1> QED BY <1>1, PTL

\* Demoting changes the freshness of the evidence only.
LEMMA DemotedFacts ==
  ASSUME NEW nodes, nodes \in [DOMAIN nodes -> NodeFacts]
  PROVE  LET demoted == demote_evidence(nodes)
         IN /\ demoted \in [DOMAIN nodes -> NodeFacts]
            /\ \A n \in DOMAIN nodes :
                 /\ demoted[n].generation_history = nodes[n].generation_history
                 /\ demoted[n].current_generation = nodes[n].current_generation
                 /\ Gated(demoted[n]) <=> nodes[n].dynamic_evidence
<1> DEFINE r(n) == IF nodes[n].dynamic_evidence THEN "REVALIDATION_REQUIRED" ELSE "FRESH"
           new(n) == [nodes[n] EXCEPT !.recovered_evidence = r(n)]
<1>1. ASSUME NEW n \in DOMAIN nodes
      PROVE  /\ new(n) \in NodeFacts
             /\ new(n).generation_history = nodes[n].generation_history
             /\ new(n).current_generation = nodes[n].current_generation
             /\ Gated(new(n)) <=> nodes[n].dynamic_evidence
  <2>1. nodes[n] \in NodeFacts
    OBVIOUS
  <2>2. r(n) \in DynamicEvidence /\ (r(n) = "REVALIDATION_REQUIRED" <=> nodes[n].dynamic_evidence)
    BY DEF DynamicEvidence
  <2> HIDE DEF r
  <2> QED BY <2>1, <2>2 DEF NodeFacts, Gated
<1>2. demote_evidence(nodes) = [n \in DOMAIN nodes |-> new(n)]
  BY DEF demote_evidence
<1> HIDE DEF new
<1> QED BY <1>1, <1>2

\* A dynamic node waits for revalidation before and after the recomputation.
LEMMA DemotedStatesSound ==
  ASSUME NEW img, ImageOK(img), NEW g, g.nodes = demote_evidence(img.nodes)
  PROVE  demote_states(img.nodes, img.state) \in SoundMaps(g)
<1> DEFINE st == demote_states(img.nodes, img.state)
<1>1. /\ DOMAIN img.nodes \subseteq Node /\ img.nodes \in [DOMAIN img.nodes -> NodeFacts]
      /\ img.state \in [Node -> ReadinessState]
      /\ \A n \in Node : n \in DOMAIN img.nodes <=> img.state[n] # "UNKNOWN"
  BY DEF ImageOK, ReadinessMap
<1>2. /\ st \in [Node -> ReadinessState]
      /\ \A n \in Node : st[n] = IF n \in DOMAIN img.nodes /\ img.nodes[n].dynamic_evidence
                                 THEN "REVALIDATION_REQUIRED" ELSE img.state[n]
  BY <1>1 DEF demote_states, ReadinessState
<1>3. DOMAIN g.nodes = DOMAIN img.nodes
      /\ \A n \in DOMAIN img.nodes : Gated(g.nodes[n]) <=> img.nodes[n].dynamic_evidence
  BY <1>1, DemotedFacts
<1> HIDE DEF st
<1>4. \A n \in Node : ShowsSound(g, st, n)
  BY <1>1, <1>2, <1>3 DEF ShowsSound
<1>5. st \in SoundMaps(g)
  BY <1>2, <1>4 DEF SoundMaps, ReadinessMap
<1> QED BY <1>5 DEF st

\* Loading a good image serves it.
LEMMA LoadServes ==
  ASSUME ShapeOK, NEW img, GoodImage(img), load(img)
  PROVE  /\ Served' /\ HistoriesFit(img)
         /\ epoch_' = img.epoch /\ nodes_' = demote_evidence(img.nodes)
<1> DEFINE nodes == demote_evidence(img.nodes)
<1>1. PICK edge_listing \in EdgeListings(img.edges), node_listing \in NodeListings(img.nodes) :
        LET g == rebuild_indexes(nodes, img.edges, img.sets, edge_listing)
        IN /\ accepts(img, edge_listing, node_listing)
           /\ epoch_' = img.epoch
           /\ sources_' = img.sources
           /\ nodes_' = nodes
           /\ edges_' = img.edges
           /\ sets_' = img.sets
           /\ out_edges_' = g.out
           /\ in_edges_' = g.in
           /\ UNCHANGED adapter_
           /\ state' = recompute_all(g, demote_states(img.nodes, img.state), node_listing)
  BY DEF load
<1> DEFINE g == rebuild_indexes(nodes, img.edges, img.sets, edge_listing)
<1>2. /\ accepts(img, edge_listing, node_listing)
      /\ epoch_' = img.epoch /\ sources_' = img.sources /\ nodes_' = nodes
      /\ edges_' = img.edges /\ sets_' = img.sets /\ out_edges_' = g.out /\ in_edges_' = g.in
      /\ adapter_' = adapter_
      /\ state' = recompute_all(g, demote_states(img.nodes, img.state), node_listing)
  BY <1>1
<1>3. /\ ImageOK(img) /\ ImageSound(img)
      /\ DOMAIN img.nodes \subseteq Node /\ img.nodes \in [DOMAIN img.nodes -> NodeFacts]
      /\ DOMAIN img.edges \subseteq EdgeId /\ img.edges \in [DOMAIN img.edges -> Edge]
      /\ \A x \in DOMAIN img.edges :
           img.edges[x].producer \in DOMAIN img.nodes /\ img.edges[x].consumer \in DOMAIN img.nodes
  BY DEF GoodImage, ImageOK, ImageSound, valid_edge
<1>4. /\ nodes \in [DOMAIN img.nodes -> NodeFacts] /\ DOMAIN nodes = DOMAIN img.nodes
      /\ \A n \in DOMAIN img.nodes :
           /\ nodes[n].generation_history = img.nodes[n].generation_history
           /\ nodes[n].current_generation = img.nodes[n].current_generation
  BY <1>3, DemotedFacts
<1> HIDE DEF nodes
<1>5. /\ g.nodes = nodes /\ g.edges = img.edges
      /\ g.out \in [Node -> Seq(EdgeId)] /\ g.in \in [Node -> SUBSET EdgeId]
      /\ \A n \in Node :
           /\ Range(g.out[n]) = {x \in DOMAIN img.edges : img.edges[x].active /\ img.edges[x].producer = n}
           /\ g.in[n] = {x \in DOMAIN img.edges : img.edges[x].active /\ img.edges[x].consumer = n}
      /\ KahnGraph(g)
  <2>1. /\ DOMAIN nodes \subseteq Node
        /\ \A x \in DOMAIN img.edges :
             img.edges[x].producer \in DOMAIN nodes /\ img.edges[x].consumer \in DOMAIN nodes
    BY <1>3, <1>4
  <2> DEFINE edges == img.edges
  <2>2. DOMAIN edges \subseteq EdgeId /\ edges \in [DOMAIN edges -> Edge]
        /\ edge_listing \in EdgeListings(edges)
        /\ \A x \in DOMAIN edges :
             edges[x].producer \in DOMAIN nodes /\ edges[x].consumer \in DOMAIN nodes
    BY <1>3, <2>1
  <2>3. g = rebuild_indexes(nodes, edges, img.sets, edge_listing)
    OBVIOUS
  <2> HIDE DEF edges, g
  <2>4. /\ g.nodes = nodes /\ g.edges = edges
        /\ g.out \in [Node -> Seq(EdgeId)] /\ g.in \in [Node -> SUBSET EdgeId]
        /\ \A n \in Node :
             /\ Range(g.out[n]) = {x \in DOMAIN edges : edges[x].active /\ edges[x].producer = n}
             /\ g.in[n] = {x \in DOMAIN edges : edges[x].active /\ edges[x].consumer = n}
        /\ KahnGraph(g)
    BY <2>1, <2>2, <2>3, RebuiltIndex
  <2> QED BY <2>4 DEF edges
<1> HIDE DEF g
<1>6. StructOK'
  BY <1>2, <1>3, <1>4, <1>5 DEF StructOK, ShapeOK, ImageOK
<1>7. IndexExact'
  <2>1. \A x \in DOMAIN img.edges : img.edges[x].producer \in Node /\ img.edges[x].consumer \in Node
    BY <1>3
  <2> QED BY <1>2, <1>3, <1>4, <1>5, <2>1 DEF IndexExact
<1>8. state' \in SoundMaps(g)
  <2>1. demote_states(img.nodes, img.state) \in SoundMaps(g)
    BY <1>3, <1>5, DemotedStatesSound DEF nodes
  <2>2. SoundMaps(g) \in SUBSET ReadinessMap
    BY DEF SoundMaps
  <2>3. \A s \in SoundMaps(g), n \in Node : Recomputed(g, s, n) \in SoundMaps(g)
    BY SoundClosed
  <2>4. node_listing \in Seq(Node)
    <3>1. IsFiniteSet(DOMAIN img.nodes)
      BY <1>3, FiniteAssumption, FS_Subset
    <3>2. node_listing \in Seq(DOMAIN img.nodes)
      BY <3>1, ListingProperties DEF NodeListings
    <3> QED BY <1>3, <3>2
  <2>5. GraphShape(g)
    BY <1>5 DEF KahnGraph
  <2> QED BY <1>2, <2>1, <2>2, <2>3, <2>4, <2>5, RecomputeAllLeadsTo
<1>9. ShapeOK'
  <2>1. graph'.nodes = g.nodes
    BY <1>2, <1>5 DEF graph
  <2>2. SoundMaps(graph') = SoundMaps(g)
    BY <2>1 DEF SoundMaps, ShowsSound
  <2> QED BY <1>6, <1>8, <2>2 DEF ShapeOK
<1>10. /\ Image'.nodes = nodes /\ Image'.edges = img.edges
       /\ ImageOK(Image)'
  <2>1. Image'.nodes = nodes /\ Image'.edges = img.edges
    BY <1>2 DEF Image
  <2>2. sets_' = <<>>
    BY <1>2, <1>3 DEF ImageOK
  <2> QED BY <1>9, <2>1, <2>2, ServedImagePrimed
<1> HIDE DEF Image
<1>11. ImageSound(Image')
  <2>1. \A n \in DOMAIN nodes : Increasing(nodes[n])
    BY <1>3, <1>4 DEF ImageSound, Increasing
  <2>2. \A x \in DOMAIN img.edges : valid_edge(Image', img.edges[x])
    BY <1>3, <1>4, <1>10 DEF ImageSound, valid_edge
  <2> QED BY <1>3, <1>10, <2>1, <2>2 DEF ImageSound
<1>12. HistoriesFit(img)
  BY <1>2 DEF accepts
<1> QED BY <1>2, <1>7, <1>9, <1>10, <1>11, <1>12 DEF Served, GoodImage, nodes

-----------------------------------------------------------------------------
(* The inductive invariant *)

\* The served graph has everything an image promises.
Floor(img) ==
  /\ epoch_ >= img.epoch
  /\ \A n \in DOMAIN img.nodes :
       /\ n \in DOMAIN nodes_
       /\ Extends(nodes_[n].generation_history, img.nodes[n].generation_history)

\* A whole image in the file is good, and a floor unless it is too long.
FileOK ==
  /\ graph_file # <<>> => graph_file = <<graph_file[1]>>
  /\ \A img \in Range(graph_file) : GoodImage(img) /\ (HistoriesFit(img) => Floor(img))

\* A save under way holds the graph as it is still served.
WriteOK == pending_write # <<>> => graph_file = <<>> /\ pending_write = <<Image>>

RestoredOK == \A n \in restored : n \in DOMAIN nodes_ /\ Gated(nodes_[n])

CoordInv == Served /\ FileOK /\ WriteOK /\ RestoredOK

\* A request leaves the floor under the graph.
LEMMA MoveKeepsFloor ==
  ASSUME ShapeOK, LedgerMove, NEW img, ImageOK(img), Floor(img), epoch_' >= epoch_, epoch_' \in Epoch
  PROVE  Floor(img)'
<1>0. nodes_ \in [DOMAIN nodes_ -> NodeFacts] /\ img.nodes \in [DOMAIN img.nodes -> NodeFacts]
  BY DEF ShapeOK, StructOK, ImageOK
<1>1. epoch_' >= img.epoch
  <2>1. epoch_ \in Nat /\ epoch_' \in Nat /\ img.epoch \in Nat
    BY AuthorityAssumption DEF ShapeOK, StructOK, ImageOK
  <2> QED BY <2>1 DEF Floor
<1>2. ASSUME NEW n \in DOMAIN img.nodes
      PROVE  n \in DOMAIN nodes_' /\ Extends(nodes_'[n].generation_history, img.nodes[n].generation_history)
  <2> DEFINE old == img.nodes[n].generation_history
             cur == nodes_[n].generation_history
             new == nodes_'[n].generation_history
  <2>1. n \in DOMAIN nodes_ /\ Extends(cur, old)
    BY DEF Floor
  <2>2. n \in DOMAIN nodes_'
    BY <2>1, MoveForgetsNoNode
  <2>3. old \in Seq(Generation) /\ cur \in Seq(Generation)
    BY <1>0, <2>1 DEF NodeFacts
  <2>4. new = cur \/ \E gen \in Generation : new = Append(cur, gen)
    BY <2>1 DEF LedgerMove, KeepsNodes, Declares, Records, Kept
  <2> HIDE DEF old, cur, new
  <2>5. Extends(new, old)
    BY <2>1, <2>3, <2>4 DEF Extends
  <2> QED BY <2>2, <2>5 DEF old, new
<1> QED BY <1>1, <1>2 DEF Floor

\* Requests keep the inductive invariant.
LEMMA RequestKeepsInv ==
  ASSUME CoordInv, pending_write = <<>>, UNCHANGED fileVars,
         NEW who \in Authority, GraphRequest(who), RestoredOK'
  PROVE  CoordInv'
<1>1. Served' /\ ShapeOK /\ ShapeOK'
  BY RequestKeepsServed DEF CoordInv, Served
<1>2. LedgerMove /\ epoch_' = epoch_ /\ epoch_ \in Nat /\ epoch_' \in Epoch
  BY <1>1, RequestMoves, RequestFrame, AuthorityAssumption DEF ShapeOK, StructOK
<1>3. FileOK'
  <2>1. graph_file' = graph_file
    BY DEF fileVars
  <2>2. ASSUME NEW img \in Range(graph_file) PROVE GoodImage(img) /\ (HistoriesFit(img) => Floor(img)')
    <3>1. GoodImage(img) /\ ImageOK(img) /\ (HistoriesFit(img) => Floor(img))
      BY DEF CoordInv, FileOK, GoodImage
    <3> QED BY <1>1, <1>2, <3>1, MoveKeepsFloor
  <2> QED BY <2>1, <2>2 DEF CoordInv, FileOK
<1>4. WriteOK'
  BY DEF WriteOK, fileVars
<1> QED BY <1>1, <1>3, <1>4 DEF CoordInv

\* Steps that leave the graph alone keep what is served.
LEMMA ServedStutters ==
  ASSUME Served, UNCHANGED vars
  PROVE  Served' /\ Image' = Image
<1>1. Image' = Image
  BY DEF vars, Image
<1>2. ShapeOK' /\ IndexExact'
  BY NextSound, IndexStep DEF Served
<1> QED BY <1>1, <1>2 DEF Served

\* An epoch advance keeps what is served sound.
LEMMA EpochKeepsServed ==
  ASSUME Served, NEW e \in Epoch, advance_epoch(e)
  PROVE  Served' /\ nodes_' = nodes_ /\ epoch_' > epoch_ /\ epoch_' \in Epoch
<1>1. /\ nodes_' = nodes_ /\ edges_' = edges_ /\ sets_' = sets_
      /\ epoch_' > epoch_ /\ epoch_' \in Epoch
  BY DEF advance_epoch, structVars
<1>2. ShapeOK' /\ IndexExact'
  <2>1. Next
    BY DEF Next
  <2> QED BY <2>1, NextSound, IndexStep DEF Served
<1>3. /\ Image.nodes = nodes_ /\ Image.edges = edges_ /\ Image.sets = sets_
      /\ Image'.nodes = nodes_ /\ Image'.edges = edges_
  BY <1>1 DEF Image
<1> HIDE DEF Image
<1>4. ImageSound(Image')
  BY <1>3 DEF Served, GoodImage, ImageSound, valid_edge
<1>5. ImageOK(Image)'
  <2>1. sets_' = <<>>
    BY <1>1, <1>3 DEF Served, GoodImage, ImageOK
  <2> QED BY <1>2, <2>1, ServedImagePrimed
<1> QED BY <1>1, <1>2, <1>4, <1>5 DEF Served, GoodImage

\* The graph itself is the floor of its image.
LEMMA OwnFloor ==
  ASSUME ShapeOK
  PROVE  Floor(Image)
<1>1. Image.epoch = epoch_ /\ Image.nodes = nodes_
  BY DEF Image
<1> HIDE DEF Image
<1>2. epoch_ \in Nat
  BY AuthorityAssumption DEF ShapeOK, StructOK
<1>3. \A n \in DOMAIN nodes_ : nodes_[n].generation_history \in Seq(Generation)
  BY DEF ShapeOK, StructOK, NodeFacts
<1> QED BY <1>1, <1>2, <1>3 DEF Floor, Extends

\* Every step of the coordinator keeps the inductive invariant.
LEMMA CoordStep == CoordInv /\ [CoordNext]_coordVars => CoordInv'
<1> SUFFICES ASSUME CoordInv, [CoordNext]_coordVars PROVE CoordInv'
  OBVIOUS
<1>0. /\ Served /\ ShapeOK /\ FileOK /\ WriteOK /\ RestoredOK
      /\ DOMAIN nodes_ \subseteq Node /\ nodes_ \in [DOMAIN nodes_ -> NodeFacts]
  BY DEF CoordInv, Served, ShapeOK, StructOK
<1>1. CASE handle_request
  <2>1. PICK who \in Authority : DeclareRequests(who) \/ ChangeRequests(who)
    BY <1>1 DEF handle_request
  <2>2. pending_write = <<>> /\ UNCHANGED fileVars /\ restored' = restored
    BY <1>1 DEF handle_request
  <2>3. \A m \in DOMAIN nodes_ : m \in DOMAIN nodes_' /\ (Gated(nodes_[m]) => Gated(nodes_'[m]))
    <3>1. CASE register_source(who)
      BY <3>1 DEF register_source
    <3>2. ASSUME NEW d \in NodeDecls, declare_node(d, who)
          PROVE  \A m \in DOMAIN nodes_ : m \in DOMAIN nodes_' /\ (Gated(nodes_[m]) => Gated(nodes_'[m]))
      BY <1>0, <3>2, DeclareMoves DEF Declares
    <3>3. CASE ChangeRequests(who)
      BY <1>0, <3>3, ChangeMoves DEF KeepsNodes
    <3> QED BY <2>1, <3>1, <3>2, <3>3 DEF DeclareRequests
  <2>4. RestoredOK'
    BY <1>0, <2>2, <2>3 DEF RestoredOK
  <2> QED BY <2>1, <2>2, <2>4, RequestKeepsInv DEF GraphRequest
<1>2. CASE handle_publish
  <2>1. PICK n \in Node, who \in Authority :
          /\ \/ \E gen \in Generation : publish_generation(n, gen, who)
             \/ publish_readiness(n, "READY", who)
          /\ restored' = restored \ {n}
    BY <1>2 DEF handle_publish
  <2>2. pending_write = <<>> /\ UNCHANGED fileVars
    BY <1>2 DEF handle_publish
  <2>3. DOMAIN nodes_' = DOMAIN nodes_ /\ \A m \in DOMAIN nodes_ \ {n} : nodes_'[m] = nodes_[m]
    BY <1>0, <2>1, PublishRecords, PublishReadyFacts DEF Records, KeepsNodes
  <2>4. RestoredOK'
    BY <1>0, <2>1, <2>3 DEF RestoredOK
  <2> QED BY <2>1, <2>2, <2>4, RequestKeepsInv DEF GraphRequest
<1>3. CASE handle_advance_epoch
  <2>1. PICK e \in Epoch : advance_epoch(e)
    BY <1>3 DEF handle_advance_epoch
  <2>2. pending_write = <<>> /\ UNCHANGED <<fileVars, restored>>
    BY <1>3 DEF handle_advance_epoch
  <2>3. Served' /\ nodes_' = nodes_ /\ epoch_' > epoch_ /\ epoch_' \in Epoch
    BY <1>0, <2>1, EpochKeepsServed
  <2>4. LedgerMove /\ epoch_' >= epoch_
    <3>1. epoch_ \in Nat /\ epoch_' \in Nat
      BY <1>0, <2>3, AuthorityAssumption DEF ShapeOK, StructOK
    <3> QED BY <2>3, <3>1 DEF LedgerMove, KeepsNodes, Kept
  <2>5. FileOK'
    <3>1. ASSUME NEW img \in Range(graph_file)
          PROVE  GoodImage(img) /\ (HistoriesFit(img) => Floor(img)')
      <4>1. GoodImage(img) /\ ImageOK(img) /\ (HistoriesFit(img) => Floor(img))
        BY <1>0 DEF FileOK, GoodImage
      <4> QED BY <1>0, <2>3, <2>4, <4>1, MoveKeepsFloor
    <3> QED BY <1>0, <2>2, <3>1 DEF FileOK, fileVars
  <2> QED BY <1>0, <2>2, <2>3, <2>5 DEF CoordInv, WriteOK, RestoredOK, fileVars
<1>4. CASE persist_truncates
  <2>1. Served' /\ Image' = Image /\ nodes_' = nodes_
    BY <1>0, <1>4, ServedStutters DEF persist_truncates, vars
  <2>2. pending_write' = <<Image>> /\ graph_file' = <<>> /\ restored' = restored
    BY <1>4 DEF persist_truncates
  <2>3. Range(<<>>) = {}
    BY DEF Range
  <2>4. FileOK'
    BY <2>2, <2>3 DEF FileOK
  <2>5. WriteOK' /\ RestoredOK'
    BY <1>0, <2>1, <2>2 DEF WriteOK, RestoredOK
  <2> QED BY <2>1, <2>4, <2>5 DEF CoordInv
<1>5. CASE persist_writes
  <2>1. Served' /\ Image' = Image /\ nodes_' = nodes_ /\ epoch_' = epoch_ /\ restored' = restored
    BY <1>0, <1>5, ServedStutters DEF persist_writes, vars
  <2>2. graph_file' = <<Image>> /\ pending_write' = <<>>
    BY <1>0, <1>5 DEF persist_writes, WriteOK
  <2>3. Range(<<Image>>) = {Image}
    BY DEF Range
  <2>4. GoodImage(Image) /\ Floor(Image)
    BY <1>0, OwnFloor DEF Served
  <2>5. FileOK'
    <3>1. Floor(Image)'
      BY <2>1, <2>4 DEF Floor
    <3> HIDE DEF Image
    <3> QED BY <2>1, <2>2, <2>3, <2>4, <3>1 DEF FileOK
  <2>6. WriteOK' /\ RestoredOK'
    BY <1>0, <2>1, <2>2 DEF WriteOK, RestoredOK
  <2> QED BY <2>1, <2>5, <2>6 DEF CoordInv
<1>6. CASE persist_fails \/ UNCHANGED coordVars
  <2>1. UNCHANGED vars /\ graph_file' = graph_file /\ restored' = restored
        /\ pending_write' \in {pending_write, <<>>}
    BY <1>6 DEF persist_fails, coordVars, fileVars
  <2>2. Served' /\ Image' = Image /\ nodes_' = nodes_ /\ epoch_' = epoch_
    BY <1>0, <2>1, ServedStutters DEF vars
  <2>3. FileOK'
    BY <1>0, <2>1, <2>2 DEF FileOK, Floor
  <2>4. WriteOK' /\ RestoredOK'
    BY <1>0, <2>1, <2>2 DEF WriteOK, RestoredOK
  <2> QED BY <2>2, <2>3, <2>4 DEF CoordInv
<1>7. CASE restart_loads
  <2>1. PICK img \in Range(graph_file) :
          /\ load(img) /\ restored' = {n \in DOMAIN img.nodes : img.nodes[n].dynamic_evidence}
    BY <1>7 DEF restart_loads
  <2>2. graph_file' = graph_file /\ pending_write' = <<>>
    BY <1>7 DEF restart_loads
  <2>3. GoodImage(img) /\ img.nodes \in [DOMAIN img.nodes -> NodeFacts] /\ img.epoch \in Nat
    BY <1>0, <2>1, AuthorityAssumption DEF FileOK, GoodImage, ImageOK
  <2>4. Served' /\ epoch_' = img.epoch /\ nodes_' = demote_evidence(img.nodes)
    BY <1>0, <2>1, <2>3, LoadServes
  <2>5. /\ DOMAIN nodes_' = DOMAIN img.nodes
        /\ \A n \in DOMAIN img.nodes :
             /\ nodes_'[n].generation_history = img.nodes[n].generation_history
             /\ Gated(nodes_'[n]) <=> img.nodes[n].dynamic_evidence
    BY <2>3, <2>4, DemotedFacts
  <2>6. Floor(img)'
    <3>1. \A n \in DOMAIN img.nodes : img.nodes[n].generation_history \in Seq(Generation)
      BY <2>3 DEF NodeFacts
    <3> QED BY <2>3, <2>4, <2>5, <3>1 DEF Floor, Extends
  <2>7. \A other \in Range(graph_file) : other = img
    BY <1>0, <2>1 DEF FileOK, Range
  <2>8. FileOK'
    BY <1>0, <2>2, <2>3, <2>6, <2>7 DEF FileOK
  <2>9. WriteOK' /\ RestoredOK'
    BY <2>1, <2>2, <2>5 DEF WriteOK, RestoredOK
  <2> QED BY <2>4, <2>8, <2>9 DEF CoordInv
<1>8. CASE restart_serves_empty
  <2>1. Init' /\ restored' = {} /\ pending_write' = <<>> /\ graph_file' = graph_file
    BY <1>8 DEF restart_serves_empty, Init
  <2>2. Served'
    BY <2>1, RestartedEmptyServed
  <2>3. \A img \in Range(graph_file) : GoodImage(img) /\ ~HistoriesFit(img)
    BY <1>0, <1>8, GoodImageAccepted DEF FileOK, restart_serves_empty
  <2>4. FileOK'
    BY <1>0, <2>1, <2>3 DEF FileOK
  <2>5. WriteOK' /\ RestoredOK'
    BY <2>1 DEF WriteOK, RestoredOK
  <2> QED BY <2>2, <2>4, <2>5 DEF CoordInv
<1> QED BY <1>1, <1>2, <1>3, <1>4, <1>5, <1>6, <1>7, <1>8 DEF CoordNext

\* The inductive invariant holds in every reachable state.
LEMMA CoordInvariant == CoordSpec => []CoordInv
<1>1. CoordInit => CoordInv
  <2> SUFFICES ASSUME CoordInit PROVE CoordInv
    OBVIOUS
  <2>1. Served
    BY InitServed DEF CoordInit
  <2>2. Range(<<>>) = {}
    BY DEF Range
  <2>3. FileOK /\ WriteOK /\ RestoredOK
    BY <2>2 DEF CoordInit, FileOK, WriteOK, RestoredOK
  <2> QED BY <2>1, <2>3 DEF CoordInv
<1>2. CoordInv /\ [CoordNext]_coordVars => CoordInv'
  BY CoordStep
<1> QED BY <1>1, <1>2, PTL DEF CoordSpec

-----------------------------------------------------------------------------
(* What the coordinator guarantees *)

(***************************************************************************)
(* Dynamic evidence is not silently fresh after a restart: whatever is     *)
(* requested after a load, for any graph and file, a restored dynamic node *)
(* is not shown usable before the node itself is published again.          *)
(***************************************************************************)
THEOREM RestoredSafe == CoordSpec => []RestoredAwaitsRepublication
<1>1. CoordInv => RestoredAwaitsRepublication
  <2>1. ShapeOK => GateHolds
    BY ShapeMeaning
  <2> QED BY <2>1 DEF CoordInv, Served, RestoredOK, RestoredAwaitsRepublication, GateHolds
<1> QED BY <1>1, CoordInvariant, PTL

(***************************************************************************)
(* Whatever the requests have built passes the loader's checks, in every   *)
(* iteration order of its maps, unless a history is too long for it.       *)
(***************************************************************************)
THEOREM ReloadSafe == CoordSpec => []ServedGraphReloads
<1>1. CoordInv => ServedGraphReloads
  BY GoodImageAccepted DEF CoordInv, Served, ServedGraphReloads
<1> QED BY <1>1, CoordInvariant, PTL

\* The adjacency index, rebuilt by the loader and maintained by the requests,
\* agrees with the edge map in every state of the coordinator.
THEOREM CoordinatorIndexSafe == CoordSpec => []IndexExact
<1>1. CoordInv => IndexExact
  BY DEF CoordInv, Served
<1> QED BY <1>1, CoordInvariant, PTL

\* What extends a sequence starts with it.
LEMMA ExtendsIsPrefix ==
  ASSUME NEW S, NEW a \in Seq(S), NEW b \in Seq(S), Extends(b, a)
  PROVE  SubSeq(b, 1, Len(a)) = a
<1>1. Len(a) \in Nat /\ Len(a) <= Len(b) /\ \A i \in 1..Len(a) : b[i] = a[i]
  BY DEF Extends
<1>2. SubSeq(b, 1, Len(a)) = [i \in 1..Len(a) |-> b[i]]
  BY <1>1
<1>3. a = [i \in 1..Len(a) |-> a[i]]
  OBVIOUS
<1> QED BY <1>1, <1>2, <1>3

(***************************************************************************)
(* A completed save is a floor for every graph, any number of requests and *)
(* any number of restarts: no epoch below it is served, no saved node is   *)
(* lost, and a saved generation history is only extended.                  *)
(***************************************************************************)
THEOREM SavedFloorSafe == CoordSpec => []SavedGraphIsFloor
<1>1. CoordInv => SavedGraphIsFloor
  <2> SUFFICES ASSUME CoordInv, NEW img \in Range(graph_file), HistoriesFit(img)
               PROVE  /\ epoch_ >= img.epoch
                      /\ \A n \in DOMAIN img.nodes :
                           /\ n \in DOMAIN nodes_
                           /\ LET saved == img.nodes[n].generation_history
                                  served == nodes_[n].generation_history
                              IN Len(saved) <= Len(served) /\ SubSeq(served, 1, Len(saved)) = saved
    BY DEF SavedGraphIsFloor
  <2>1. Floor(img) /\ ImageOK(img) /\ StructOK
    BY DEF CoordInv, FileOK, GoodImage, Served, ShapeOK
  <2>2. ASSUME NEW n \in DOMAIN img.nodes
        PROVE  /\ n \in DOMAIN nodes_
               /\ LET saved == img.nodes[n].generation_history
                      served == nodes_[n].generation_history
                  IN Len(saved) <= Len(served) /\ SubSeq(served, 1, Len(saved)) = saved
    <3> DEFINE saved == img.nodes[n].generation_history
               served == nodes_[n].generation_history
    <3>1. n \in DOMAIN nodes_ /\ Extends(served, saved)
      BY <2>1 DEF Floor
    <3>2. saved \in Seq(Generation) /\ served \in Seq(Generation)
      BY <2>1, <3>1 DEF ImageOK, StructOK, NodeFacts
    <3> HIDE DEF saved, served
    <3>3. Len(saved) <= Len(served) /\ SubSeq(served, 1, Len(saved)) = saved
      BY <3>1, <3>2, ExtendsIsPrefix DEF Extends
    <3> QED BY <3>1, <3>3 DEF saved, served
  <2> QED BY <2>1, <2>2 DEF Floor
<1> QED BY <1>1, CoordInvariant, PTL

-----------------------------------------------------------------------------
(* The refinement of the durable ledger *)

\* The abstract copy of the served graph.
LEMMA CopyOfImage == CopyOf(Image) = [epoch |-> epoch_, ledger |-> LedgerOf(nodes_)]
BY DEF CopyOf, Image

\* The abstract copies of a file: none, or that of its image.
LEMMA CopiesOfFile ==
  /\ Copies(<<>>) = <<>>
  /\ \A img : /\ HistoriesFit(img) => Copies(<<img>>) = <<CopyOf(img)>>
              /\ ~HistoriesFit(img) => Copies(<<img>>) = <<>>
<1>1. Range(<<>>) = {} /\ \A img : Range(<<img>>) = {img} /\ <<img>>[1] = img
  BY DEF Range
<1> QED BY <1>1 DEF Copies

\* What the ledger sees of the requests.
LEMMA MoveRefines ==
  ASSUME ShapeOK, \A n \in DOMAIN nodes_ : Increasing(nodes_[n]), LedgerMove,
         epoch_' = epoch_, pending_write = <<>>, UNCHANGED fileVars
  PROVE  [Ledger!LedgerNext]_(Ledger!ledgerVars)
<1> DEFINE ledger == LedgerOf(nodes_)
           writing == [i \in DOMAIN pending_write |-> CopyOf(pending_write[i])]
<1>0. nodes_ \in [DOMAIN nodes_ -> NodeFacts] /\ DOMAIN nodes_ \subseteq Node
  BY DEF ShapeOK, StructOK
<1>1. /\ graph_file' = graph_file /\ pending_write' = pending_write
      /\ Copies(graph_file)' = Copies(graph_file) /\ writing' = writing /\ writing = <<>>
  BY DEF fileVars, Copies, CopyOf, LedgerOf, HistoriesFit, HistoryLimit
<1>2. /\ ledger = [n \in DOMAIN nodes_ |-> nodes_[n].generation_history]
      /\ ledger' = [n \in DOMAIN nodes_' |-> nodes_'[n].generation_history]
  BY DEF LedgerOf
<1> HIDE DEF writing
<1>3. CASE KeepsNodes
  <2>1. ledger' = ledger
    BY <1>2, <1>3 DEF KeepsNodes, Kept
  <2> QED BY <1>1, <2>1 DEF Ledger!ledgerVars, writing
<1>4. ASSUME NEW n \in Node, Declares(n) PROVE Ledger!DeclareNode(n)
  <2>1. n \notin DOMAIN ledger
    BY <1>2, <1>4 DEF Declares
  <2>2. ledger' = [m \in DOMAIN ledger \cup {n} |-> IF m = n THEN <<>> ELSE ledger[m]]
    BY <1>2, <1>4 DEF Declares, Kept
  <2> HIDE DEF ledger
  <2> QED BY <1>1, <2>1, <2>2 DEF Ledger!DeclareNode, ledger, writing
<1>5. ASSUME NEW n \in Node, NEW gen \in Generation, Records(n, gen)
      PROVE  Ledger!RecordGeneration(n, gen)
  <2>1. n \in DOMAIN nodes_ /\ nodes_[n] \in NodeFacts /\ Increasing(nodes_[n])
    BY <1>0, <1>5 DEF Records
  <2>2. \A i \in 1..Len(nodes_[n].generation_history) : nodes_[n].generation_history[i] < gen
    BY <1>5, <2>1, IncreasingAppend DEF Records
  <2>3. nodes_[n].generation_history \in Seq(Generation)
    BY <2>1 DEF NodeFacts
  <2>4. n \in DOMAIN ledger /\ \A i \in DOMAIN ledger[n] : ledger[n][i] < gen
    BY <1>2, <2>1, <2>2, <2>3
  <2>5. ledger' = [ledger EXCEPT ![n] = Append(@, gen)]
    <3>1. /\ DOMAIN nodes_' = DOMAIN nodes_
          /\ nodes_'[n].generation_history = Append(ledger[n], gen)
          /\ \A m \in DOMAIN nodes_ \ {n} : nodes_'[m].generation_history = ledger[m]
      BY <1>2, <1>5 DEF Records, Kept
    <3>2. DOMAIN ledger = DOMAIN nodes_
      BY <1>2
    <3>3. ledger' = [m \in DOMAIN ledger |-> IF m = n THEN Append(ledger[n], gen) ELSE ledger[m]]
      <4>1. ledger' = [m \in DOMAIN nodes_ |-> nodes_'[m].generation_history]
        BY <1>2, <3>1
      <4> HIDE DEF ledger
      <4> QED BY <3>1, <3>2, <4>1
    <3> HIDE DEF ledger
    <3> QED BY <3>3
  <2> HIDE DEF ledger
  <2> QED BY <1>1, <2>4, <2>5 DEF Ledger!RecordGeneration, ledger, writing
<1> QED BY <1>3, <1>4, <1>5 DEF LedgerMove, Ledger!LedgerNext

\* Every step of the coordinator is a step of the ledger or a stutter.
LEMMA CoordRefines ==
  CoordInv /\ [CoordNext]_coordVars => [Ledger!LedgerNext]_(Ledger!ledgerVars)
<1> SUFFICES ASSUME CoordInv, [CoordNext]_coordVars
             PROVE  [Ledger!LedgerNext]_(Ledger!ledgerVars)
  OBVIOUS
<1> DEFINE writing == [i \in DOMAIN pending_write |-> CopyOf(pending_write[i])]
<1>0. /\ Served /\ ShapeOK /\ FileOK /\ WriteOK
      /\ \A n \in DOMAIN nodes_ : Increasing(nodes_[n])
  BY DEF CoordInv, Served, GoodImage, ImageSound, Image
<1>1. CASE handle_request \/ handle_publish
  <2>1. \E who \in Authority : GraphRequest(who)
    BY <1>1 DEF handle_request, handle_publish, GraphRequest
  <2>2. LedgerMove /\ epoch_' = epoch_
    BY <1>0, <2>1, RequestMoves, RequestFrame
  <2>3. pending_write = <<>> /\ UNCHANGED fileVars
    BY <1>1 DEF handle_request, handle_publish
  <2> QED BY <1>0, <2>2, <2>3, MoveRefines
<1>2. CASE handle_advance_epoch
  <2>1. /\ epoch_' > epoch_ /\ nodes_' = nodes_ /\ pending_write = <<>>
        /\ graph_file' = graph_file /\ pending_write' = pending_write
    BY <1>2 DEF handle_advance_epoch, advance_epoch, fileVars
  <2>2. Ledger!RaiseEpoch
    BY <2>1 DEF Ledger!RaiseEpoch, LedgerOf, Copies, CopyOf, HistoriesFit, HistoryLimit
  <2> QED BY <2>2 DEF Ledger!LedgerNext
<1>3. CASE persist_truncates
  <2>1. /\ nodes_' = nodes_ /\ epoch_' = epoch_ /\ pending_write = <<>>
        /\ pending_write' = <<Image>> /\ graph_file' = <<>>
    BY <1>3 DEF persist_truncates, vars
  <2>2. Copies(graph_file)' = <<>>
    <3>1. Copies(graph_file)' = Copies(<<>>)
      BY <2>1 DEF Copies, CopyOf, LedgerOf, HistoriesFit, HistoryLimit
    <3> QED BY <3>1, CopiesOfFile
  <2>3. writing = <<>> /\ writing' = <<CopyOf(Image)>>
    BY <2>1 DEF CopyOf, LedgerOf, Image
  <2>4. LedgerOf(nodes_)' = LedgerOf(nodes_)
    BY <2>1 DEF LedgerOf
  <2> HIDE DEF Image
  <2>5. Ledger!SaveBegins
    BY <2>1, <2>2, <2>3, <2>4, CopyOfImage DEF Ledger!SaveBegins, Ledger!Copy
  <2> QED BY <2>5 DEF Ledger!LedgerNext
<1>4. CASE persist_writes \/ persist_fails
  <2>1. /\ nodes_' = nodes_ /\ epoch_' = epoch_ /\ pending_write # <<>> /\ pending_write' = <<>>
        /\ graph_file' \in {pending_write, <<>>}
    BY <1>0, <1>4 DEF persist_writes, persist_fails, vars, WriteOK
  <2>2. PICK img : pending_write = <<img>>
    BY <1>0, <2>1 DEF WriteOK
  <2>3. writing = <<CopyOf(img)>> /\ writing # <<>> /\ writing' = <<>>
    BY <2>1, <2>2
  <2>4. Copies(graph_file)' \in {writing, <<>>}
    <3>1. Copies(graph_file)' = Copies(graph_file')
      BY DEF Copies, CopyOf, LedgerOf, HistoriesFit, HistoryLimit
    <3>2. graph_file' = <<img>> \/ graph_file' = <<>>
      BY <2>1, <2>2
    <3>3. Copies(graph_file') \in {<<CopyOf(img)>>, <<>>}
      BY <3>2, CopiesOfFile
    <3> QED BY <2>3, <3>1, <3>3
  <2>5. LedgerOf(nodes_)' = LedgerOf(nodes_)
    BY <2>1 DEF LedgerOf
  <2> HIDE DEF writing
  <2>6. Ledger!SaveEnds
    BY <2>1, <2>3, <2>4, <2>5 DEF Ledger!SaveEnds, writing
  <2> QED BY <2>6 DEF Ledger!LedgerNext
<1>5. CASE restart_loads
  <2>1. PICK img \in Range(graph_file) : load(img)
    BY <1>5 DEF restart_loads
  <2>2. graph_file' = graph_file /\ pending_write' = <<>> /\ graph_file = <<img>> /\ GoodImage(img)
    BY <1>0, <1>5, <2>1 DEF restart_loads, FileOK, Range
  <2>3. HistoriesFit(img) /\ epoch_' = img.epoch /\ nodes_' = demote_evidence(img.nodes)
    BY <1>0, <2>1, <2>2, LoadServes
  <2>4. LedgerOf(nodes_') = LedgerOf(img.nodes)
    <3>1. img.nodes \in [DOMAIN img.nodes -> NodeFacts]
      BY <2>2 DEF GoodImage, ImageOK
    <3>2. /\ DOMAIN nodes_' = DOMAIN img.nodes
          /\ \A n \in DOMAIN img.nodes :
               nodes_'[n].generation_history = img.nodes[n].generation_history
      BY <2>3, <3>1, DemotedFacts
    <3> QED BY <3>2 DEF LedgerOf
  <2>5. /\ Copies(graph_file) = <<CopyOf(img)>> /\ Copies(graph_file)' = Copies(graph_file)
        /\ writing' = <<>>
    <3>1. Copies(graph_file) = <<CopyOf(img)>>
      BY <2>2, <2>3, CopiesOfFile
    <3>2. Copies(graph_file)' = Copies(graph_file)
      BY <2>2 DEF Copies, CopyOf, LedgerOf, HistoriesFit, HistoryLimit
    <3>3. writing' = <<>>
      BY <2>2
    <3> QED BY <3>1, <3>2, <3>3
  <2>6. CopyOf(img).epoch = epoch_' /\ CopyOf(img).ledger = LedgerOf(nodes_)'
    BY <2>3, <2>4 DEF CopyOf
  <2> HIDE DEF writing
  <2>7. Ledger!Restart
    BY <2>5, <2>6 DEF Ledger!Restart, writing
  <2> QED BY <2>7 DEF Ledger!LedgerNext
<1>6. CASE restart_serves_empty
  <2>1. /\ graph_file' = graph_file /\ pending_write' = <<>> /\ epoch_' = 1 /\ nodes_' = <<>>
        /\ \A img \in Range(graph_file) : ~HistoriesFit(img)
    BY <1>0, <1>6, GoodImageAccepted DEF restart_serves_empty, FileOK
  <2>2. Copies(graph_file) = <<>> /\ Copies(graph_file)' = Copies(graph_file)
    BY <2>1 DEF Copies, CopyOf, LedgerOf, HistoriesFit, HistoryLimit
  <2>3. writing' = <<>> /\ LedgerOf(nodes_)' = <<>>
    BY <2>1 DEF LedgerOf
  <2> HIDE DEF writing
  <2>4. Ledger!Restart
    BY <2>1, <2>2, <2>3 DEF Ledger!Restart, Ledger!Anew, writing
  <2> QED BY <2>4 DEF Ledger!LedgerNext
<1>7. CASE UNCHANGED coordVars
  BY <1>7 DEF coordVars, vars, fileVars, Ledger!ledgerVars, LedgerOf, Copies, CopyOf,
              HistoriesFit, HistoryLimit
<1> QED BY <1>1, <1>2, <1>3, <1>4, <1>5, <1>6, <1>7 DEF CoordNext

(***************************************************************************)
(* The coordinator implements the durable ledger, step by step: requests   *)
(* raise the epoch, declare a node or record a newer generation, a save is *)
(* lost or complete, and a restart resumes the saved copy or starts anew.  *)
(***************************************************************************)
THEOREM DurableLedgerRefined == CoordSpec => ImplementsDurableLedger
<1>1. CoordInit => Ledger!LedgerInit
  <2> SUFFICES ASSUME CoordInit PROVE Ledger!LedgerInit
    OBVIOUS
  <2>1. epoch_ = 1 /\ nodes_ = <<>> /\ graph_file = <<>> /\ pending_write = <<>>
    BY DEF CoordInit, Init
  <2>2. LedgerOf(nodes_) = <<>> /\ Copies(graph_file) = <<>>
    BY <2>1, CopiesOfFile DEF LedgerOf
  <2> QED BY <2>1, <2>2 DEF Ledger!LedgerInit, Ledger!Anew
<1>2. CoordInv /\ [CoordNext]_coordVars => [Ledger!LedgerNext]_(Ledger!ledgerVars)
  BY CoordRefines
<1> QED BY <1>1, <1>2, CoordInvariant, PTL DEF CoordSpec, ImplementsDurableLedger, Ledger!LedgerSpec
=============================================================================
