--------------------------- MODULE TraversalProofs ---------------------------
(***************************************************************************)
(* What the read-only questions answer in every reachable state of the     *)
(* graph, and that the searches along the index - invalidation, the        *)
(* affected closure, the recovery topology and the traversable frontier -  *)
(* visit exactly the nodes their answers promise, for every graph, policy  *)
(* and depth.                                                              *)
(***************************************************************************)
EXTENDS KahnProofs, Queries

-----------------------------------------------------------------------------
(* The read-only questions *)

\* The edge map files every edge under its own id.
EdgesById == \A x \in DOMAIN edges_ : edges_[x].id = x

QueryInv == ShapeOK /\ IndexExact /\ EdgesById

\* Every step keeps the edges under their ids.
LEMMA EdgesByIdStep == ShapeOK /\ EdgesById /\ [Next]_vars => EdgesById'
<1> SUFFICES ASSUME ShapeOK, EdgesById, [Next]_vars PROVE EdgesById'
  OBVIOUS
<1>0. edges_ \in [DOMAIN edges_ -> Edge]
  BY DEF ShapeOK, StructOK
<1>1. ASSUME NEW who \in Authority, NEW e \in EdgeCatalog, add_edge(e, who) PROVE EdgesById'
  <2>1. edges_' = Put(edges_, e.id, e)
    BY <1>1 DEF add_edge, CommitEdges
  <2> QED BY <2>1 DEF EdgesById, Put
<1>2. ASSUME NEW who \in Authority, NEW id \in EdgeId, remove_edge(id, who) PROVE EdgesById'
  <2>1. edges_' = Drop(edges_, id)
    BY <1>2 DEF remove_edge, CommitEdges
  <2> QED BY <2>1 DEF EdgesById, Drop
<1>3. ASSUME NEW who \in Authority, NEW id \in EdgeId, NEW active \in BOOLEAN,
             set_edge_active(id, active, who)
      PROVE  EdgesById'
  <2>1. edges_' = edges_ \/ edges_' = [edges_ EXCEPT ![id].active = active]
    BY <1>3 DEF set_edge_active, CommitEdges
  <2> QED BY <1>0, <2>1 DEF EdgesById, Edge
<1>4. CASE \A who \in Authority : ~EdgeOps(who)
  BY <1>4, OthersKeepIndex DEF EdgesById
<1> QED BY <1>1, <1>2, <1>3, <1>4 DEF EdgeOps

\* What the queries rely on holds in every reachable state.
LEMMA QueryInvariant == Spec => []QueryInv
<1>1. Init => QueryInv
  <2>1. Range(<<>>) = {}
    BY DEF Range
  <2> QED BY InitSound, <2>1 DEF Init, IndexExact, EdgesById, QueryInv
<1>2. QueryInv /\ [Next]_vars => QueryInv'
  BY NextSound, IndexStep, EdgesByIdStep DEF QueryInv
<1> QED BY <1>1, <1>2, PTL DEF Spec

-----------------------------------------------------------------------------
(* Searching with the edges and against them *)

\* Both indexes hold the same followed edges.
LEMMA IndexesMirror ==
  ASSUME ShapeOK, IndexExact, NEW n \in Node, NEW m \in Node
  PROVE  m \in Successors(graph, n) <=>
           n \in {edges_[x].producer : x \in {y \in in_edges_[m] : Followed(graph, y)}}
<1>1. graph.edges = edges_ /\ graph.out = out_edges_
  BY DEF graph
<1> HIDE DEF graph
<1> QED BY <1>1 DEF IndexExact, Successors, Followed

\* Node m is found from n along `next` exactly if n is found from m against it:
\* the complement of a set closed one way is closed the other way.
LEMMA SearchBothWays ==
  ASSUME NEW next, NEW prev, NEW n \in Node, NEW m \in Node,
         \A a \in Node : next[a] \subseteq Node,
         \A a, b \in Node : b \in next[a] => a \in prev[b],
         m \in SearchFrom(next, n)
  PROVE  n \in SearchFrom(prev, m)
<1> SUFFICES ASSUME NEW C \in SUBSET Node, m \in C, \A c \in C : prev[c] \subseteq C, n \notin C
             PROVE  FALSE
  BY DEF SearchFrom
<1> DEFINE D == Node \ C
<1>1. n \in D /\ m \notin D /\ D \in SUBSET Node
  OBVIOUS
<1>2. \A c \in D : next[c] \subseteq D
  OBVIOUS
<1> HIDE DEF D
<1> QED BY <1>1, <1>2 DEF SearchFrom

\* The two walks agree over an exact index.
LEMMA InverseQueries == ShapeOK /\ IndexExact => PrerequisitesInvertDependents
<1> SUFFICES ASSUME ShapeOK, IndexExact,
                    NEW n \in DOMAIN nodes_, NEW m \in DOMAIN nodes_, NEW transitive \in BOOLEAN
             PROVE  m \in dependents(graph, n, transitive) <=>
                      n \in prerequisites(graph, m, transitive)
  BY DEF PrerequisitesInvertDependents
<1> DEFINE next == [a \in Node |-> Successors(graph, a)]
           prev == [b \in Node |->
                      {graph.edges[x].producer : x \in {y \in graph.in[b] : Followed(graph, y)}}]
<1>1. n \in Node /\ m \in Node
  BY DEF ShapeOK, StructOK
<1>2. graph.edges = edges_ /\ graph.in = in_edges_ /\ graph.out = out_edges_
  BY DEF graph
<1> HIDE DEF graph
<1>3. \A a, b \in Node : b \in next[a] <=> a \in prev[b]
  BY <1>2, IndexesMirror
<1>4. /\ \A a \in Node : next[a] \subseteq Node
      /\ \A a \in Node : prev[a] \subseteq Node
  <2>1. \A x \in DOMAIN edges_ : edges_[x].producer \in Node /\ edges_[x].consumer \in Node
    BY DEF ShapeOK, StructOK, Edge
  <2> QED BY <1>2, <2>1 DEF Successors, Followed
<1>5. /\ dependents(graph, n, transitive) =
           (IF transitive THEN SearchFrom(next, n) ELSE next[n]) \ {n}
      /\ prerequisites(graph, m, transitive) =
           (IF transitive THEN SearchFrom(prev, m) ELSE prev[m]) \ {m}
  BY DEF dependents, prerequisites
<1> HIDE DEF next, prev
<1>6. m \in SearchFrom(next, n) => n \in SearchFrom(prev, m)
  BY <1>1, <1>3, <1>4, SearchBothWays
<1>7. n \in SearchFrom(prev, m) => m \in SearchFrom(next, n)
  BY <1>1, <1>3, <1>4, SearchBothWays
<1> QED BY <1>1, <1>3, <1>5, <1>6, <1>7

(***************************************************************************)
(* For every graph the two traversal queries are inverse to each other,    *)
(* over the two indexes that add_edge, remove_edge and set_edge_active     *)
(* maintain separately.                                                    *)
(***************************************************************************)
THEOREM QueriesInverse == Spec => []PrerequisitesInvertDependents
<1>1. QueryInv => PrerequisitesInvertDependents
  BY InverseQueries DEF QueryInv
<1> QED BY <1>1, QueryInvariant, PTL

-----------------------------------------------------------------------------
(* The acyclicity query *)

\* The answer of acyclic over an exact index.
LEMMA AcyclicExact == ShapeOK /\ IndexExact => AcyclicQueryExact
<1> SUFFICES ASSUME ShapeOK, IndexExact, NEW listing \in Listings
             PROVE  /\ Acyclic(edges_) => acyclic(graph, listing)
                    /\ IndexedOnce /\ acyclic(graph, listing) => Acyclic(edges_)
  BY DEF AcyclicQueryExact
<1>1. graph.nodes = nodes_ /\ graph.edges = edges_ /\ graph.out = out_edges_
  BY DEF graph
<1> HIDE DEF graph
<1>2. KahnGraph(graph)
  BY <1>1, GraphIsKahn
<1>3. listing \in Seq(Node) /\ IsInjective(listing) /\ Range(listing) = DOMAIN graph.nodes
  BY <1>1, NodeListing
<1>4. /\ Acyclic(graph.edges) => Range(kahn_queue(graph, listing)) = DOMAIN graph.nodes
      /\ Once(graph) /\ Range(kahn_queue(graph, listing)) = DOMAIN graph.nodes =>
           Acyclic(graph.edges)
  BY <1>2, <1>3, KahnExact
<1> QED BY <1>1, <1>4 DEF acyclic, Once, IndexedOnce

(***************************************************************************)
(* Graph::acyclic is exact on every graph in which no edge is indexed      *)
(* twice, whatever the iteration order of the in-degree map, and on every  *)
(* graph it reports no cycle that is not there.                            *)
(***************************************************************************)
THEOREM AcyclicQuerySafe == Spec => []AcyclicQueryExact
<1>1. QueryInv => AcyclicQueryExact
  BY AcyclicExact DEF QueryInv
<1> QED BY <1>1, QueryInvariant, PTL

-----------------------------------------------------------------------------
(* Explanations *)

\* Only a required edge blocks.
LEMMA OnlyRequiredBlocks ==
  ASSUME NEW g, NEW st, NEW e, eval_edge(g, st, e).blocked
  PROVE  required(e)
BY DEF eval_edge

\* The free edges, by id.
LEMMA FreeById ==
  ASSUME EdgesById, NEW n
  PROVE  LET grouped == UNION {Range(s.members) : s \in OwnedSets(graph, n)}
             ids == {x \in in_edges_[n] \ grouped : Followed(graph, x)}
         IN /\ FreeEdges(graph, n) = {edges_[x] : x \in ids}
            /\ {e.id : e \in FreeEdges(graph, n)} = ids
            /\ \A e \in FreeEdges(graph, n) : e.id \in ids /\ edges_[e.id] = e
<1> DEFINE grouped == UNION {Range(s.members) : s \in OwnedSets(graph, n)}
           ids == {x \in in_edges_[n] \ grouped : Followed(graph, x)}
<1>1. graph.edges = edges_ /\ graph.in = in_edges_
  BY DEF graph
<1> HIDE DEF graph
<1>2. \A x \in ids : x \in DOMAIN edges_ /\ edges_[x].id = x
  BY <1>1 DEF Followed, EdgesById
<1>3. FreeEdges(graph, n) = {edges_[x] : x \in ids}
  BY <1>1 DEF FreeEdges, Followed
<1> HIDE DEF ids
<1>4. /\ {e.id : e \in FreeEdges(graph, n)} = ids
      /\ \A e \in FreeEdges(graph, n) : e.id \in ids /\ edges_[e.id] = e
  BY <1>2, <1>3
<1> QED BY <1>3, <1>4 DEF ids

\* What a settled node that is BLOCKED or READY was derived from.
LEMMA SettledDerived ==
  ASSUME Settled, NEW n \in DOMAIN nodes_, state[n] \in {"BLOCKED", "READY"}
  PROVE  state[n] = Derived(nodes_[n], Verdicts(graph, state, n))
<1>1. graph.nodes = nodes_
  BY DEF graph
<1> HIDE DEF graph
<1>2. state[n] = recompute_node(graph, state, n)
  BY DEF Settled
<1> QED BY <1>1, <1>2 DEF recompute_node, HeldState

\* What explain and blockers name in one state.
LEMMA ExplanationsExact == ShapeOK /\ EdgesById => ExplanationsNameCulprits
<1> SUFFICES ASSUME ShapeOK, EdgesById, Settled, NEW n \in DOMAIN nodes_
             PROVE  LET culprits == explain(graph, state, n)
                    IN /\ state[n] = "BLOCKED" => culprits # {} \/ ShortOfMembers(n) \/ StaleGate(n)
                       /\ state[n] = "READY" => culprits = {}
                       /\ blockers(graph, state, n) \subseteq culprits
                       /\ culprits # blockers(graph, state, n) =>
                            \E k \in DOMAIN sets_ : sets_[k].owner = n /\ ~sets_[k].active
  BY DEF ExplanationsNameCulprits
<1> DEFINE grouped == UNION {Range(s.members) : s \in OwnedSets(graph, n)}
           ids == {x \in in_edges_[n] \ grouped : Followed(graph, x)}
           ofSets == OfSets(graph, state, n)
           culprits == explain(graph, state, n)
           verdicts == Verdicts(graph, state, n)
<1>1. /\ graph.nodes = nodes_ /\ graph.edges = edges_
      /\ graph.in = in_edges_ /\ graph.sets = sets_
  BY DEF graph
<1> HIDE DEF graph
<1>2. /\ FreeEdges(graph, n) = {edges_[x] : x \in ids}
      /\ {e.id : e \in FreeEdges(graph, n)} = ids
      /\ \A e \in FreeEdges(graph, n) : e.id \in ids /\ edges_[e.id] = e
  BY FreeById
<1>3. culprits = {x \in ofSets \cup ids : Blocks(graph, state, x)}
  BY <1>2 DEF explain
<1>4. verdicts = {eval_set(graph, state, s) : s \in OwnedSets(graph, n)} \cup
                 {eval_edge(graph, state, e) : e \in FreeEdges(graph, n)}
  BY DEF Verdicts
<1>5. ASSUME state[n] = "BLOCKED" PROVE culprits # {} \/ ShortOfMembers(n) \/ StaleGate(n)
  <2>1. Derived(nodes_[n], verdicts) = "BLOCKED"
    BY <1>5, SettledDerived
  <2> HIDE DEF verdicts, culprits, ids
  <2>2. CASE \A v \in verdicts : ~v.blocked
    <3>1. is_gate_kind(nodes_[n].kind)
      BY <2>1, <2>2 DEF Derived
    <3> QED BY <2>2, <3>1 DEF StaleGate, verdicts
  <2>3. ASSUME NEW s \in OwnedSets(graph, n), eval_set(graph, state, s).blocked
        PROVE  culprits # {} \/ ShortOfMembers(n)
    <3>1. CASE \A x \in Named(graph, s.members) : ~Blocks(graph, state, x)
      BY <2>3, <3>1 DEF ShortOfMembers
    <3>2. ASSUME NEW x \in Named(graph, s.members), Blocks(graph, state, x)
          PROVE  x \in culprits
      BY <1>3, <2>3, <3>2 DEF OfSets
    <3> QED BY <3>1, <3>2
  <2>4. ASSUME NEW e \in FreeEdges(graph, n), eval_edge(graph, state, e).blocked
        PROVE  culprits # {}
    <3>1. required(e) /\ edges_[e.id] = e /\ e.id \in ids
      BY <1>2, <2>4, OnlyRequiredBlocks
    <3>2. Blocks(graph, state, e.id)
      BY <1>1, <2>4, <3>1 DEF Blocks
    <3> QED BY <1>3, <3>1, <3>2
  <2> QED BY <1>4, <2>2, <2>3, <2>4
<1>6. ASSUME state[n] = "READY", NEW x \in culprits PROVE FALSE
  <2>1. Derived(nodes_[n], verdicts) = "READY"
    BY <1>6, SettledDerived
  <2> HIDE DEF verdicts, culprits, ids, ofSets
  <2>2. \A v \in verdicts : ~v.blocked /\ ~v.stale
    BY <2>1 DEF Derived
  <2>3. x \notin ofSets
    BY <1>4, <2>2 DEF OfSets, ofSets
  <2>4. x \in ids /\ Blocks(graph, state, x)
    BY <1>3, <1>6, <2>3
  <2>5. edges_[x] \in FreeEdges(graph, n)
    BY <1>2, <2>4
  <2>6. eval_edge(graph, state, edges_[x]) \in verdicts
    BY <1>4, <2>5
  <2> QED BY <1>1, <2>2, <2>4, <2>6 DEF Blocks
<1> DEFINE owned == {sets_[k] : k \in {j \in DOMAIN sets_ : sets_[j].owner = n}}
           members == UNION {Range(s.members) : s \in owned}
<1>7. blockers(graph, state, n) =
        {x \in ofSets \cup {y \in in_edges_[n] \ members : Followed(graph, y)} :
           Blocks(graph, state, x)}
  BY <1>1 DEF blockers
<1>8. OwnedSets(graph, n) = {s \in owned : s.active}
  BY <1>1 DEF OwnedSets
<1>9. grouped \subseteq members /\ ((\A s \in owned : s.active) => grouped = members)
  <2> HIDE DEF owned
  <2> QED BY <1>8
<1>10. blockers(graph, state, n) \subseteq culprits
  <2> HIDE DEF grouped, members, ofSets, culprits
  <2> QED BY <1>3, <1>7, <1>9
<1>11. ASSUME culprits # blockers(graph, state, n)
       PROVE  \E k \in DOMAIN sets_ : sets_[k].owner = n /\ ~sets_[k].active
  <2>1. ~ \A s \in owned : s.active
    <3> HIDE DEF grouped, members, ofSets, culprits, owned
    <3> QED BY <1>3, <1>7, <1>9, <1>11
  <2> QED BY <2>1
<1> HIDE DEF culprits
<1>12. /\ state[n] = "BLOCKED" => culprits # {} \/ ShortOfMembers(n) \/ StaleGate(n)
       /\ state[n] = "READY" => culprits = {}
       /\ blockers(graph, state, n) \subseteq culprits
       /\ culprits # blockers(graph, state, n) =>
            \E k \in DOMAIN sets_ : sets_[k].owner = n /\ ~sets_[k].active
  BY <1>5, <1>6, <1>10, <1>11
<1> QED BY <1>12 DEF culprits

(***************************************************************************)
(* For every settled graph Graph::explain names a culprit of every BLOCKED *)
(* node that has one and none of a READY node, and Graph::blockers agrees  *)
(* with it except for nodes with an inactive set, although both evaluate   *)
(* edges and sets on their own.                                            *)
(***************************************************************************)
THEOREM ExplanationsSafe == Spec => []ExplanationsNameCulprits
<1>1. QueryInv => ExplanationsNameCulprits
  BY ExplanationsExact DEF QueryInv
<1> QED BY <1>1, QueryInvariant, PTL

-----------------------------------------------------------------------------
(* The runs of the bounded search *)

\* Queues of nodes with the depth they were reached at.
MarkQueue == Seq(Node \X Nat)

\* One turn of the loop over the index entries of a node at `depth`.
MarkOne(g, policy, q, x, depth) ==
  IF /\ Carries(g, policy, x, depth)
     /\ \A i \in DOMAIN q : q[i][1] # g.edges[x].consumer
  THEN Append(q, <<g.edges[x].consumer, depth + 1>>)
  ELSE q

IsMarkScan(g, policy, queue, cur, depth, scan) ==
  /\ scan \in [0..Len(g.out[cur]) -> MarkQueue]
  /\ scan[0] = queue
  /\ \A j \in 1..Len(g.out[cur]) :
       scan[j] = MarkOne(g, policy, scan[j - 1], g.out[cur][j], depth)
  /\ enqueue_marked(g, policy, queue, cur, depth) = scan[Len(g.out[cur])]

\* The run of the loop over the index entries.
LEMMA MarkScanRun ==
  ASSUME NEW g, GraphShape(g), NEW policy, NEW queue \in MarkQueue,
         NEW cur \in Node, NEW depth \in Nat
  PROVE  \E scan : IsMarkScan(g, policy, queue, cur, depth, scan)
<1> DEFINE entry == g.out[cur]
           m == Len(entry)
           X == MarkQueue
           step(q, j) ==
             IF /\ Carries(g, policy, entry[j], depth)
                /\ \A i \in DOMAIN q : q[i][1] # g.edges[entry[j]].consumer
             THEN Append(q, <<g.edges[entry[j]].consumer, depth + 1>>)
             ELSE q
           F == [p \in (1..m) \X X |-> step(p[2], p[1])]
           body(f, j) == IF j = 0 THEN queue ELSE step(f[j - 1], j)
           scan[j \in 0..Len(entry)] ==
             IF j = 0 THEN queue
             ELSE LET q == scan[j - 1]
                  IN IF /\ Carries(g, policy, entry[j], depth)
                        /\ \A i \in DOMAIN q : q[i][1] # g.edges[entry[j]].consumer
                     THEN Append(q, <<g.edges[entry[j]].consumer, depth + 1>>)
                     ELSE q
<1>1. m \in Nat
  BY DEF GraphShape
<1>2. ASSUME NEW q \in X, NEW j PROVE step(q, j) \in X
  <2>1. CASE Carries(g, policy, entry[j], depth)
    <3> DEFINE pair == <<g.edges[entry[j]].consumer, depth + 1>>
    <3>1. pair \in Node \X Nat
      BY <2>1 DEF Carries, Followed, GraphShape
    <3> HIDE DEF pair
    <3>2. Append(q, pair) \in Seq(Node \X Nat)
      BY <3>1 DEF MarkQueue
    <3> QED BY <3>2 DEF MarkQueue, pair
  <2>2. CASE ~Carries(g, policy, entry[j], depth)
    BY <2>2
  <2> QED BY <2>1, <2>2
<1>3. F \in LoopStep(m, X)
  <2> HIDE DEF step, X, m
  <2> QED BY <1>2 DEF LoopStep
<1>4. PICK f \in [0..m -> X] : IsRun(f, m, queue, F)
  <2>1. queue \in X
    OBVIOUS
  <2> HIDE DEF F, m, X, step, body, scan, entry
  <2> QED BY <1>1, <1>3, <2>1, LoopHasRun
<1>5. f = [j \in 0..m |-> body(f, j)]
  <2>1. ASSUME NEW j \in 0..m PROVE f[j] = body(f, j)
    <3>1. CASE j = 0
      BY <3>1, <1>4 DEF IsRun
    <3>2. CASE j # 0
      <4>1. j \in 1..m /\ j - 1 \in 0..m
        BY <3>2, <1>1
      <4>2. f[j] = step(f[j - 1], j)
        <5> HIDE DEF step, X, m
        <5> QED BY <4>1, <1>4 DEF IsRun
      <4> HIDE DEF step
      <4> QED BY <3>2, <4>2
    <3> QED BY <3>1, <3>2
  <2> HIDE DEF body, m, X
  <2> QED BY <2>1, <1>4
<1>6. scan = [j \in 0..Len(entry) |-> body(scan, j)]
  BY <1>5, Zenon
<1>7. scan[0] = queue
  <2> HIDE DEF scan
  <2>1. 0 \in 0..Len(entry)
    BY <1>1
  <2>2. scan[0] = body(scan, 0)
    <3> HIDE DEF body
    <3> QED BY <2>1, <1>6
  <2> HIDE DEF step
  <2> QED BY <2>2
<1>8. \A j \in 1..m : scan[j] = step(scan[j - 1], j)
  <2> TAKE j \in 1..m
  <2> HIDE DEF scan
  <2>1. j \in 0..Len(entry) /\ j # 0
    BY <1>1
  <2>2. scan[j] = body(scan, j)
    <3> HIDE DEF body
    <3> QED BY <2>1, <1>6
  <2> HIDE DEF step
  <2> QED BY <2>1, <2>2
<1> DEFINE T == {j \in 0..m : scan[j] \in X}
<1>9. \A j \in 0..m : j \in T
  <2> HIDE DEF scan, step, X, m
  <2>1. 0 \in T
    BY <1>1, <1>7 DEF X
  <2>2. ASSUME NEW j \in 1..m, j - 1 \in T PROVE j \in T
    BY <1>8, <2>2, <1>2, <1>1
  <2> HIDE DEF T
  <2> QED BY <1>1, <2>1, <2>2, UpTo
<1>10. scan \in [0..m -> X]
  <2>1. scan = [j \in 0..m |-> body(scan, j)]
    BY <1>6
  <2> HIDE DEF scan, X, m, body
  <2> QED BY <1>9, <2>1
<1>11. enqueue_marked(g, policy, queue, cur, depth) = scan[m]
  BY Zenon DEF enqueue_marked
<1>12. \A q, j : step(q, j) = MarkOne(g, policy, q, entry[j], depth)
  BY DEF MarkOne
<1> HIDE DEF scan, step, X
<1>13. \A j \in 1..m : scan[j] = MarkOne(g, policy, scan[j - 1], entry[j], depth)
  BY <1>8, <1>12
<1> QED BY <1>7, <1>10, <1>11, <1>13 DEF X, IsMarkScan

\* A scan of the index entries yields a queue again.
LEMMA MarkScanType ==
  ASSUME NEW g, GraphShape(g), NEW policy, NEW queue \in MarkQueue,
         NEW cur \in Node, NEW depth \in Nat
  PROVE  enqueue_marked(g, policy, queue, cur, depth) \in MarkQueue
<1>1. Len(g.out[cur]) \in Nat
  BY DEF GraphShape
<1>2. PICK scan : IsMarkScan(g, policy, queue, cur, depth, scan)
  BY MarkScanRun
<1> QED BY <1>1, <1>2 DEF IsMarkScan

\* One turn of the search.
MarkTurn(g, policy, q, k) ==
  IF k <= Len(q) THEN enqueue_marked(g, policy, q, q[k][1], q[k][2]) ELSE q

IsMarkRun(g, policy, seed, turn) ==
  /\ turn \in [0..Cardinality(Node) -> MarkQueue]
  /\ turn[0] = << <<seed, 0>> >>
  /\ \A k \in 1..Cardinality(Node) : turn[k] = MarkTurn(g, policy, turn[k - 1], k)
  /\ marked_queue(g, seed, policy) = turn[Cardinality(Node)]

\* The run of the search.
LEMMA MarkRun ==
  ASSUME NEW g, GraphShape(g), NEW policy, NEW seed \in Node
  PROVE  \E turn : IsMarkRun(g, policy, seed, turn)
<1> DEFINE m == Cardinality(Node)
           X == MarkQueue
           x0 == << <<seed, 0>> >>
           step(q, k) == IF k <= Len(q) THEN enqueue_marked(g, policy, q, q[k][1], q[k][2])
                         ELSE q
           F == [p \in (1..m) \X X |-> step(p[2], p[1])]
           body(f, k) == IF k = 0 THEN x0 ELSE step(f[k - 1], k)
           turn[k \in 0..Cardinality(Node)] ==
             IF k = 0 THEN << <<seed, 0>> >>
             ELSE LET q == turn[k - 1]
                  IN IF k <= Len(q) THEN enqueue_marked(g, policy, q, q[k][1], q[k][2])
                     ELSE q
<1>1. m \in Nat
  BY FiniteAssumption, FS_CardinalityType
<1>2. ASSUME NEW q \in X, NEW k \in 1..m PROVE step(q, k) \in X
  <2>1. CASE k <= Len(q)
    <3> DEFINE cur == q[k][1]
               depth == q[k][2]
    <3>1. cur \in Node /\ depth \in Nat
      <4>1. q[k] \in Node \X Nat
        BY <2>1 DEF MarkQueue
      <4> QED BY <4>1
    <3> HIDE DEF cur, depth
    <3>2. enqueue_marked(g, policy, q, cur, depth) \in MarkQueue
      BY <3>1, MarkScanType
    <3> QED BY <2>1, <3>2 DEF cur, depth
  <2>2. CASE ~(k <= Len(q))
    BY <2>2
  <2> QED BY <2>1, <2>2
<1>3. F \in LoopStep(m, X)
  <2> HIDE DEF step, X, m
  <2> QED BY <1>2 DEF LoopStep
<1>4. x0 \in X
  BY DEF MarkQueue
<1>5. PICK f \in [0..m -> X] : IsRun(f, m, x0, F)
  <2> HIDE DEF F, m, X, step, body, turn, x0
  <2> QED BY <1>1, <1>3, <1>4, LoopHasRun
<1>6. f = [k \in 0..m |-> body(f, k)]
  <2>1. ASSUME NEW k \in 0..m PROVE f[k] = body(f, k)
    <3> HIDE DEF x0
    <3>1. CASE k = 0
      BY <3>1, <1>5 DEF IsRun
    <3>2. CASE k # 0
      <4>1. k \in 1..m /\ k - 1 \in 0..m
        BY <3>2, <1>1
      <4>2. f[k] = step(f[k - 1], k)
        <5> HIDE DEF step, X, m
        <5> QED BY <4>1, <1>5 DEF IsRun
      <4> HIDE DEF step
      <4> QED BY <3>2, <4>2
    <3> QED BY <3>1, <3>2
  <2> HIDE DEF body, m, X
  <2> QED BY <2>1, <1>5
<1>7. turn = [k \in 0..Cardinality(Node) |-> body(turn, k)]
  BY <1>6, Zenon
<1>8. turn[0] = x0
  <2>1. 0 \in 0..Cardinality(Node)
    BY <1>1
  <2> HIDE DEF turn, x0
  <2>2. turn[0] = body(turn, 0)
    <3> HIDE DEF body
    <3> QED BY <2>1, <1>7
  <2> HIDE DEF step
  <2> QED BY <2>2
<1>9. \A k \in 1..m : turn[k] = step(turn[k - 1], k)
  <2> TAKE k \in 1..m
  <2> HIDE DEF turn
  <2>1. k \in 0..Cardinality(Node) /\ k # 0
    BY <1>1
  <2>2. turn[k] = body(turn, k)
    <3> HIDE DEF body
    <3> QED BY <2>1, <1>7
  <2> HIDE DEF step
  <2> QED BY <2>1, <2>2
<1> DEFINE T == {k \in 0..m : turn[k] \in X}
<1>10. \A k \in 0..m : k \in T
  <2> HIDE DEF turn, step, X, m, x0
  <2>1. 0 \in T
    BY <1>1, <1>4, <1>8
  <2>2. ASSUME NEW k \in 1..m, k - 1 \in T PROVE k \in T
    BY <1>9, <2>2, <1>2, <1>1
  <2> HIDE DEF T
  <2> QED BY <1>1, <2>1, <2>2, UpTo
<1>11. turn \in [0..m -> X]
  <2>1. turn = [k \in 0..m |-> body(turn, k)]
    BY <1>7
  <2> HIDE DEF turn, X, m, body
  <2> QED BY <1>10, <2>1
<1>12. marked_queue(g, seed, policy) = turn[Cardinality(Node)]
  BY Zenon DEF marked_queue
<1>13. \A q, k : step(q, k) = MarkTurn(g, policy, q, k)
  BY DEF MarkTurn
<1> HIDE DEF turn, step, X
<1>14. \A k \in 1..m : turn[k] = MarkTurn(g, policy, turn[k - 1], k)
  BY <1>9, <1>13
<1> QED BY <1>8, <1>11, <1>12, <1>14 DEF X, IsMarkRun

-----------------------------------------------------------------------------
(* The bounded search is breadth first *)

\* The nodes one hop downstream of the nodes of S.
Hop(g, S, through_optional) ==
  {g.edges[x].consumer : x \in {y \in DOMAIN g.edges :
     /\ g.edges[y].active /\ g.edges[y].producer \in S
     /\ g.edges[y].kind = "OPTIONAL" => through_optional}}

\* reach[k] holds the nodes at most k hops downstream of the seed.
IsReach(g, seed, through_optional, reach) ==
  /\ reach \in [0..Cardinality(Node) -> SUBSET Node]
  /\ reach[0] = {seed}
  /\ \A k \in 1..Cardinality(Node) :
       reach[k] = reach[k - 1] \cup Hop(g, reach[k - 1], through_optional)

Allowed(policy, depth) == policy.mode = "BOUNDED" => depth <= DepthLimit(policy)

Distinct(q) == \A i, j \in DOMAIN q : i # j => q[i][1] # q[j][1]

\* Queued nodes lie within their depth, and no deeper than the policy allows.
DepthsSound(policy, reach, q) ==
  \A i \in DOMAIN q :
    q[i][2] < i /\ q[i][1] \in reach[q[i][2]] /\ Allowed(policy, q[i][2])

\* The queue is sorted by depth, and from the c-th entry on spans two depths.
Levels(q, c) ==
  /\ \A i, j \in DOMAIN q : i <= j => q[i][2] <= q[j][2]
  /\ \A i, j \in DOMAIN q : c <= i => q[j][2] <= q[i][2] + 1

MarkOK(policy, reach, q, c) ==
  /\ Distinct(q)
  /\ DepthsSound(policy, reach, q)
  /\ Levels(q, c)

\* A queue of distinct nodes is no longer than there are nodes.
LEMMA DistinctLength ==
  ASSUME NEW q \in MarkQueue, Distinct(q)
  PROVE  Len(q) <= Cardinality(Node)
<1> DEFINE f == [i \in 1..Len(q) |-> q[i][1]]
<1>1. Len(q) \in Nat /\ DOMAIN q = 1..Len(q) /\ \A i \in 1..Len(q) : q[i] \in Node \X Nat
  BY DEF MarkQueue
<1>2. f \in Injection(1..Len(q), Node)
  BY <1>1 DEF Distinct, Injection, IsInjective
<1>3. Cardinality(1..Len(q)) <= Cardinality(Node)
  BY <1>2, FiniteAssumption, FS_Injection
<1>4. Cardinality(1..Len(q)) = Len(q)
  BY <1>1, CountUpTo
<1> QED BY <1>3, <1>4

\* One entry of the c-th node of the queue.
LEMMA MarkOneKeeps ==
  ASSUME NEW g, KahnGraph(g), NEW policy \in Policy, NEW seed, NEW reach,
         IsReach(g, seed, policy.propagate_through_optional, reach),
         NEW q \in MarkQueue, NEW c \in DOMAIN q, MarkOK(policy, reach, q, c),
         NEW x \in Range(g.out[q[c][1]])
  PROVE  LET r == MarkOne(g, policy, q, x, q[c][2])
         IN /\ r \in MarkQueue /\ MarkOK(policy, reach, r, c) /\ Extends(r, q)
            /\ Carries(g, policy, x, q[c][2]) =>
                 \E i \in DOMAIN r : r[i][1] = g.edges[x].consumer
<1> DEFINE n == q[c][1]
           d == q[c][2]
           t == g.edges[x].consumer
           r == MarkOne(g, policy, q, x, d)
           m == Cardinality(Node)
<1>1. /\ Len(q) \in Nat /\ DOMAIN q = 1..Len(q) /\ \A i \in 1..Len(q) : q[i] \in Node \X Nat
      /\ q \in Seq(Node \X Nat)
  BY DEF MarkQueue
<1>2. \A i \in DOMAIN q : q[i][1] \in Node /\ q[i][2] \in Nat
  BY <1>1
<1>3. m \in Nat /\ Len(q) <= m
  BY FiniteAssumption, FS_CardinalityType, DistinctLength DEF MarkOK
<1>4. Extends(q, q)
  BY <1>1 DEF Extends
<1>5. CASE ~Carries(g, policy, x, d)
  <2>1. r = q
    BY <1>5 DEF MarkOne
  <2> QED BY <1>4, <1>5, <2>1
<1>6. CASE \E i \in DOMAIN q : q[i][1] = t
  <2>1. r = q
    BY <1>6 DEF MarkOne
  <2> QED BY <1>4, <1>6, <2>1
<1>7. CASE Carries(g, policy, x, d) /\ \A i \in DOMAIN q : q[i][1] # t
  <2> DEFINE pair == <<t, d + 1>>
  <2>1. r = Append(q, pair)
    BY <1>7 DEF MarkOne
  <2>2. x \in DOMAIN g.edges /\ g.edges[x].active /\ g.edges[x].producer = n /\ t \in Node
    BY <1>2, <1>7 DEF Carries, Followed, KahnGraph, GraphShape
  <2>3. d \in Nat /\ d < c /\ d + 1 \in 1..m /\ n \in reach[d] /\ d + 1 <= Len(q)
    <3>1. d \in Nat /\ d < c /\ n \in reach[d]
      BY <1>2 DEF MarkOK, DepthsSound
    <3> HIDE DEF d, n, m
    <3> QED BY <1>1, <1>3, <3>1
  <2>4. t \in reach[d + 1]
    <3>1. reach[d + 1] = reach[d] \cup Hop(g, reach[d], policy.propagate_through_optional)
      <4>1. (d + 1) - 1 = d
        BY <2>3
      <4> HIDE DEF d
      <4> QED BY <2>3, <4>1 DEF IsReach
    <3>2. t \in Hop(g, reach[d], policy.propagate_through_optional)
      BY <1>7, <2>2, <2>3 DEF Hop, Carries
    <3> QED BY <3>1, <3>2
  <2>5. pair \in Node \X Nat /\ pair[1] = t /\ pair[2] = d + 1
    BY <2>2, <2>3
  <2>6. Allowed(policy, d + 1)
    BY <1>7 DEF Carries, Allowed
  <2> HIDE DEF pair, t, d, n, r
  <2>7. /\ r \in Seq(Node \X Nat) /\ DOMAIN r = 1..(Len(q) + 1) /\ Len(r) = Len(q) + 1
        /\ \A i \in 1..Len(q) : r[i] = q[i]
        /\ r[Len(q) + 1] = pair
    BY <1>1, <2>1, <2>5
  <2>8. Extends(r, q)
    BY <1>1, <2>7 DEF Extends
  <2>9. Distinct(r)
    <3>1. \A i \in DOMAIN r : (i \in DOMAIN q /\ r[i] = q[i]) \/ (i = Len(q) + 1 /\ r[i][1] = t)
      BY <1>1, <2>5, <2>7
    <3>2. \A i \in DOMAIN q : q[i][1] # t
      BY <1>7 DEF t
    <3>3. Distinct(q)
      BY DEF MarkOK
    <3> QED BY <3>1, <3>2, <3>3 DEF Distinct
  <2>10. DepthsSound(policy, reach, r)
    <3>1. ASSUME NEW i \in DOMAIN r
          PROVE  r[i][2] < i /\ r[i][1] \in reach[r[i][2]] /\ Allowed(policy, r[i][2])
      <4>1. CASE i = Len(q) + 1
        BY <1>1, <2>3, <2>4, <2>5, <2>6, <2>7, <4>1
      <4>2. CASE i # Len(q) + 1
        <5>1. i \in DOMAIN q /\ r[i] = q[i]
          BY <1>1, <2>7, <4>2
        <5> QED BY <5>1 DEF MarkOK, DepthsSound
      <4> QED BY <4>1, <4>2
    <3> QED BY <3>1 DEF DepthsSound
  <2>11. \A i \in DOMAIN q : q[i][2] <= d + 1 /\ (c <= i => d <= q[i][2])
    BY <1>1, <1>2 DEF MarkOK, Levels, d
  <2>12. Levels(r, c)
    <3>1. ASSUME NEW i \in DOMAIN r
          PROVE  \/ i \in DOMAIN q /\ r[i] = q[i]
                 \/ i = Len(q) + 1 /\ r[i][2] = d + 1
      BY <1>1, <2>5, <2>7
    <3>2. ASSUME NEW i \in DOMAIN r, NEW j \in DOMAIN r
          PROVE  /\ i <= j => r[i][2] <= r[j][2]
                 /\ c <= i => r[j][2] <= r[i][2] + 1
      <4>1. CASE i \in DOMAIN q /\ r[i] = q[i] /\ j \in DOMAIN q /\ r[j] = q[j]
        BY <4>1 DEF MarkOK, Levels
      <4>2. CASE i \in DOMAIN q /\ r[i] = q[i] /\ j = Len(q) + 1 /\ r[j][2] = d + 1
        BY <1>2, <2>3, <2>11, <4>2
      <4>3. CASE i = Len(q) + 1 /\ r[i][2] = d + 1 /\ j \in DOMAIN q /\ r[j] = q[j]
        BY <1>1, <1>2, <2>3, <2>11, <4>3
      <4>4. CASE i = Len(q) + 1 /\ j = Len(q) + 1 /\ r[i][2] = d + 1
        BY <2>3, <4>4
      <4> QED BY <3>1, <4>1, <4>2, <4>3, <4>4
    <3> QED BY <3>2 DEF Levels
  <2>13. r[Len(q) + 1][1] = t /\ Len(q) + 1 \in DOMAIN r
    BY <1>1, <2>5, <2>7
  <2> QED BY <2>7, <2>8, <2>9, <2>10, <2>12, <2>13 DEF MarkOK, MarkQueue, r, t, d
<1> QED BY <1>5, <1>6, <1>7

\* The consumers of the first k entries are queued, no deeper than they lie.
Expanded(g, policy, q, k) ==
  \A i \in DOMAIN q : i <= k /\ Allowed(policy, q[i][2] + 1) =>
    \A t \in Hop(g, {q[i][1]}, policy.propagate_through_optional) :
      \E j \in DOMAIN q : q[j][1] = t /\ q[j][2] <= q[i][2] + 1

\* A longer queue keeps the entries of the shorter one.
LEMMA ExtendsKeeps ==
  ASSUME NEW E, NEW old \in Seq(E), NEW new \in Seq(E), Extends(new, old)
  PROVE  \A i \in DOMAIN old : i \in DOMAIN new /\ new[i] = old[i]
BY DEF Extends

\* One turn of the search: the c-th node is expanded.
LEMMA MarkTurnKeeps ==
  ASSUME NEW g, KahnGraph(g), NEW policy \in Policy, NEW seed, NEW reach,
         IsReach(g, seed, policy.propagate_through_optional, reach),
         NEW q \in MarkQueue, NEW c \in DOMAIN q, MarkOK(policy, reach, q, c),
         Expanded(g, policy, q, c - 1)
  PROVE  LET r == enqueue_marked(g, policy, q, q[c][1], q[c][2])
         IN /\ r \in MarkQueue /\ MarkOK(policy, reach, r, c) /\ Extends(r, q)
            /\ Expanded(g, policy, r, c)
<1> DEFINE n == q[c][1]
           d == q[c][2]
           entry == g.out[n]
           m == Len(entry)
           r == enqueue_marked(g, policy, q, n, d)
           In(s, t) == \E i \in DOMAIN s : s[i][1] = t
<1>1. /\ Len(q) \in Nat /\ DOMAIN q = 1..Len(q) /\ n \in Node /\ d \in Nat
      /\ q \in Seq(Node \X Nat)
  <2>1. q[c] \in Node \X Nat
    BY DEF MarkQueue
  <2> QED BY <2>1 DEF MarkQueue
<1>2. entry \in Seq(EdgeId) /\ m \in Nat /\ \A j \in 1..m : entry[j] \in Range(g.out[n])
  <2>1. entry \in Seq(EdgeId)
    BY <1>1 DEF KahnGraph, GraphShape
  <2> HIDE DEF n
  <2> QED BY <2>1 DEF Range
<1>3. PICK scan : IsMarkScan(g, policy, q, n, d, scan)
  <2> HIDE DEF n, d
  <2> QED BY <1>1, MarkScanRun DEF KahnGraph
<1>4. /\ scan \in [0..m -> MarkQueue] /\ scan[0] = q /\ r = scan[m]
      /\ \A j \in 1..m : scan[j] = MarkOne(g, policy, scan[j - 1], entry[j], d)
  BY <1>3 DEF IsMarkScan
<1> HIDE DEF r
<1> DEFINE Done(j) ==
             /\ MarkOK(policy, reach, scan[j], c) /\ Extends(scan[j], q)
             /\ \A i \in 1..j : Carries(g, policy, entry[i], d) =>
                                  In(scan[j], g.edges[entry[i]].consumer)
           T == {j \in 0..m : Done(j)}
<1>5. \A j \in 0..m : j \in T
  <2>1. 0 \in T
    <3>1. Extends(q, q)
      BY <1>1 DEF Extends
    <3>2. 1..0 = {}
      OBVIOUS
    <3> HIDE DEF n, d, entry, m
    <3> QED BY <1>2, <1>4, <3>1, <3>2
  <2>2. ASSUME NEW j \in 1..m, j - 1 \in T PROVE j \in T
    <3> DEFINE s == scan[j - 1]
               x == entry[j]
    <3>1. j \in 0..m /\ j - 1 \in 0..m
      BY <1>2
    <3>2. s \in MarkQueue /\ s \in Seq(Node \X Nat) /\ scan[j] = MarkOne(g, policy, s, x, d)
      <4> HIDE DEF n, d, entry, m
      <4> QED BY <1>4, <3>1 DEF MarkQueue
    <3>3. /\ MarkOK(policy, reach, s, c) /\ Extends(s, q)
          /\ \A i \in 1..(j - 1) : Carries(g, policy, entry[i], d) =>
                                     In(s, g.edges[entry[i]].consumer)
      BY <2>2
    <3> HIDE DEF s, x, entry, m
    <3>4. c \in DOMAIN s /\ s[c] = q[c]
      BY <1>1, <3>2, <3>3 DEF Extends
    <3>5. x \in Range(g.out[s[c][1]]) /\ s[c][2] = d
      BY <1>2, <3>4 DEF x
    <3> HIDE DEF n, d
    <3> DEFINE v == MarkOne(g, policy, s, x, s[c][2])
    <3>6. /\ v \in MarkQueue /\ MarkOK(policy, reach, v, c) /\ Extends(v, s)
          /\ Carries(g, policy, x, s[c][2]) => In(v, g.edges[x].consumer)
      BY <3>2, <3>3, <3>4, <3>5, MarkOneKeeps
    <3>7. v = scan[j] /\ v \in Seq(Node \X Nat)
      BY <3>2, <3>5, <3>6 DEF MarkQueue
    <3> HIDE DEF v
    <3>8. Extends(v, q)
      BY <1>1, <3>2, <3>3, <3>6, <3>7, ExtendsTransitive
    <3>9. \A t : In(s, t) => In(v, t)
      <4>1. \A i \in DOMAIN s : i \in DOMAIN v /\ v[i] = s[i]
        BY <3>2, <3>6, <3>7, ExtendsKeeps
      <4> QED BY <4>1
    <3>10. \A i \in 1..j : Carries(g, policy, entry[i], d) => In(v, g.edges[entry[i]].consumer)
      <4>1. \A i \in 1..j : i \in 1..(j - 1) \/ i = j
        OBVIOUS
      <4> HIDE DEF In
      <4> QED BY <3>3, <3>5, <3>6, <3>9, <4>1 DEF x
    <3> QED BY <3>1, <3>6, <3>7, <3>8, <3>10
  <2> HIDE DEF T, m
  <2> QED BY <1>2, <2>1, <2>2, UpTo
<1>6. r \in MarkQueue /\ r \in Seq(Node \X Nat) /\ Done(m)
  <2>1. m \in 0..m
    BY <1>2
  <2>2. r \in MarkQueue
    BY <1>4, <2>1
  <2>3. Done(m)
    BY <1>5, <2>1
  <2> QED BY <2>2, <2>3 DEF MarkQueue
<1>7. /\ MarkOK(policy, reach, r, c) /\ Extends(r, q)
      /\ \A i \in 1..m : Carries(g, policy, entry[i], d) => In(r, g.edges[entry[i]].consumer)
  BY <1>4, <1>6
<1>8. /\ Len(r) \in Nat /\ DOMAIN r = 1..Len(r) /\ \A i \in DOMAIN r : r[i][2] \in Nat
      /\ \A i \in DOMAIN q : i \in DOMAIN r /\ r[i] = q[i]
  <2> HIDE DEF r, Done, In, m
  <2>1. Len(r) \in Nat /\ DOMAIN r = 1..Len(r) /\ \A i \in DOMAIN r : r[i] \in Node \X Nat
    BY <1>6
  <2>2. \A i \in DOMAIN r : r[i][2] \in Nat
    BY <2>1
  <2>3. q \in Seq(Node \X Nat)
    BY DEF MarkQueue
  <2>4. \A i \in DOMAIN q : i \in DOMAIN r /\ r[i] = q[i]
    BY <1>6, <1>7, <2>3, ExtendsKeeps
  <2> QED BY <2>1, <2>2, <2>4
<1> HIDE DEF Done, T
<1>9. Expanded(g, policy, r, c)
  <2> SUFFICES ASSUME NEW i \in DOMAIN r, i <= c, Allowed(policy, r[i][2] + 1),
                      NEW t \in Hop(g, {r[i][1]}, policy.propagate_through_optional)
               PROVE  \E j \in DOMAIN r : r[j][1] = t /\ r[j][2] <= r[i][2] + 1
    BY DEF Expanded
  <2>1. i \in DOMAIN q /\ r[i] = q[i]
    BY <1>1, <1>8
  <2>2. CASE i = c
    <3>1. PICK x \in DOMAIN g.edges :
            /\ g.edges[x].active /\ g.edges[x].producer = n /\ g.edges[x].consumer = t
            /\ g.edges[x].kind = "OPTIONAL" => policy.propagate_through_optional
      BY <2>1, <2>2 DEF Hop
    <3>2. x \in Range(entry)
      BY <3>1 DEF KahnGraph
    <3>3. PICK j \in 1..m : entry[j] = x
      <4> HIDE DEF entry
      <4> QED BY <1>2, <3>2 DEF Range
    <3>4. Carries(g, policy, x, d)
      BY <2>1, <2>2, <3>1 DEF Carries, Followed, Allowed
    <3>5. In(r, t)
      <4> HIDE DEF In, entry, m, d
      <4> QED BY <1>7, <3>1, <3>3, <3>4
    <3>6. PICK l \in DOMAIN r : r[l][1] = t
      BY <3>5
    <3>7. r[l][2] <= r[i][2] + 1
      BY <1>1, <1>7, <1>8, <2>2 DEF MarkOK, Levels
    <3> QED BY <3>6, <3>7
  <2>3. CASE i # c
    <3>1. i <= c - 1
      BY <1>1, <2>1, <2>3
    <3>2. PICK j \in DOMAIN q : q[j][1] = t /\ q[j][2] <= q[i][2] + 1
      BY <2>1, <3>1 DEF Expanded
    <3> QED BY <1>8, <2>1, <3>2
  <2> QED BY <2>2, <2>3
<1> QED BY <1>6, <1>7, <1>9 DEF r

\* What a policy allows at a depth it allows nearer to the seed.
LEMMA AllowedBelow ==
  ASSUME NEW policy \in Policy, NEW d \in Nat, NEW h \in Nat, d <= h, Allowed(policy, h)
  PROVE  Allowed(policy, d)
<1>1. DepthLimit(policy) \in Nat
  BY BoundAssumption DEF DepthLimit, Policy
<1> QED BY <1>1 DEF Allowed

\* What the queue of the search holds at the end.
Searched(policy, seed, reach, q) ==
  /\ q \in MarkQueue /\ q # <<>> /\ q[1] = <<seed, 0>> /\ Distinct(q)
  /\ \A i \in DOMAIN q : /\ q[i][1] \in Node
                         /\ q[i][2] \in 0..Cardinality(Node)
                         /\ q[i][1] \in reach[q[i][2]]
                         /\ Allowed(policy, q[i][2])
  /\ \A h \in 0..Cardinality(Node) : Allowed(policy, h) =>
       \A n \in reach[h] : \E i \in DOMAIN q : q[i][1] = n /\ q[i][2] <= h

(***************************************************************************)
(* The search visits each node once, at the depth of its first visit, and  *)
(* cuts there; as it is breadth first, that depth is the least one, and no *)
(* node that a short path reaches is lost.                                 *)
(***************************************************************************)
LEMMA MarkedExact ==
  ASSUME NEW g, KahnGraph(g), NEW policy \in Policy, NEW seed \in Node, NEW reach,
         IsReach(g, seed, policy.propagate_through_optional, reach)
  PROVE  /\ Searched(policy, seed, reach, marked_queue(g, seed, policy))
         /\ Expanded(g, policy, marked_queue(g, seed, policy), Cardinality(Node))
<1> DEFINE m == Cardinality(Node)
           opt == policy.propagate_through_optional
<1>1. m \in Nat /\ GraphShape(g)
  BY FiniteAssumption, FS_CardinalityType DEF KahnGraph
<1>2. PICK turn : /\ turn \in [0..m -> MarkQueue]
                  /\ turn[0] = << <<seed, 0>> >>
                  /\ \A k \in 1..m : turn[k] = MarkTurn(g, policy, turn[k - 1], k)
                  /\ marked_queue(g, seed, policy) = turn[m]
  <2>1. PICK turn : IsMarkRun(g, policy, seed, turn)
    BY <1>1, MarkRun
  <2> QED BY <2>1 DEF IsMarkRun
<1> DEFINE Inv(q, k) == /\ q # <<>> /\ q[1] = <<seed, 0>> /\ MarkOK(policy, reach, q, k + 1)
                        /\ Expanded(g, policy, q, k)
           T == {k \in 0..m : Inv(turn[k], k)}
<1>3. \A k \in 0..m : k \in T
  <2>1. 0 \in T
    <3> DEFINE q == << <<seed, 0>> >>
    <3>1. DOMAIN q = {1} /\ q[1][1] = seed /\ q[1][2] = 0 /\ q # <<>>
      OBVIOUS
    <3>2. seed \in reach[0]
      BY DEF IsReach
    <3>3. Allowed(policy, 0)
      BY BoundAssumption DEF Allowed, DepthLimit, Policy
    <3> HIDE DEF q
    <3>4. MarkOK(policy, reach, q, 1)
      BY <3>1, <3>2, <3>3 DEF MarkOK, Distinct, DepthsSound, Levels
    <3>5. Expanded(g, policy, q, 0)
      BY <3>1 DEF Expanded
    <3>6. q[1] = <<seed, 0>> /\ turn[0] = q /\ 0 + 1 = 1
      BY <1>2 DEF q
    <3>7. Inv(turn[0], 0)
      BY <3>1, <3>4, <3>5, <3>6
    <3> HIDE DEF Inv
    <3> QED BY <1>1, <3>7
  <2>2. ASSUME NEW k \in 1..m, k - 1 \in T PROVE k \in T
    <3> DEFINE q == turn[k - 1]
               r == turn[k]
    <3>1. k \in 0..m /\ k - 1 \in 0..m /\ (k - 1) + 1 = k
      BY <1>1
    <3>2. q \in MarkQueue /\ q \in Seq(Node \X Nat) /\ r = MarkTurn(g, policy, q, k)
      BY <1>2, <3>1 DEF MarkQueue
    <3>3. q # <<>> /\ q[1] = <<seed, 0>> /\ MarkOK(policy, reach, q, k) /\ Expanded(g, policy, q, k - 1)
      BY <2>2, <3>1
    <3> HIDE DEF q, r
    <3>4. CASE k <= Len(q)
      <4>1. k \in DOMAIN q
        BY <3>2, <3>4
      <4>2. r = enqueue_marked(g, policy, q, q[k][1], q[k][2])
        BY <3>2, <3>4 DEF MarkTurn
      <4>3. /\ r \in MarkQueue /\ MarkOK(policy, reach, r, k) /\ Extends(r, q)
            /\ Expanded(g, policy, r, k)
        BY <3>2, <3>3, <4>1, <4>2, MarkTurnKeeps
      <4>4. r \in Seq(Node \X Nat)
        BY <4>3 DEF MarkQueue
      <4>5. MarkOK(policy, reach, r, k + 1)
        BY <4>3, <4>4 DEF MarkOK, Levels
      <4>6. 1 \in DOMAIN q
        BY <3>2, <3>3
      <4>7. r # <<>> /\ r[1] = <<seed, 0>>
        <5>1. 1 \in DOMAIN r /\ r[1] = q[1]
          BY <3>2, <4>3, <4>4, <4>6, ExtendsKeeps
        <5> QED BY <3>3, <5>1
      <4> QED BY <3>1, <4>3, <4>5, <4>7 DEF r
    <3>5. CASE ~(k <= Len(q))
      <4>1. r = q
        BY <3>2, <3>5 DEF MarkTurn
      <4>2. \A i \in DOMAIN q : i <= k - 1 /\ ~(k + 1 <= i)
        BY <3>2, <3>5
      <4>3. MarkOK(policy, reach, q, k + 1)
        BY <3>3, <4>2 DEF MarkOK, Levels
      <4>4. Expanded(g, policy, q, k)
        BY <3>3, <4>2 DEF Expanded
      <4> QED BY <3>1, <3>3, <4>1, <4>3, <4>4 DEF r
    <3> QED BY <3>4, <3>5
  <2> HIDE DEF T, m
  <2> QED BY <1>1, <2>1, <2>2, UpTo
<1> DEFINE q == turn[m]
<1>4. q \in MarkQueue /\ Inv(q, m)
  <2>1. m \in 0..m
    BY <1>1
  <2>2. m \in T
    BY <1>3, <2>1
  <2> QED BY <1>2, <2>1, <2>2
<1>5. /\ q # <<>> /\ q[1] = <<seed, 0>> /\ Distinct(q) /\ DepthsSound(policy, reach, q)
      /\ Expanded(g, policy, q, m)
  BY <1>4 DEF MarkOK
<1> HIDE DEF q, T
<1>6. Len(q) <= m
  BY <1>4, <1>5, DistinctLength
<1>7. Len(q) \in Nat /\ DOMAIN q = 1..Len(q) /\ \A i \in DOMAIN q : q[i][1] \in Node /\ q[i][2] \in Nat
  <2>1. \A i \in DOMAIN q : q[i] \in Node \X Nat
    BY <1>4 DEF MarkQueue
  <2> QED BY <1>4, <2>1 DEF MarkQueue
<1>8. \A i \in DOMAIN q : q[i][2] \in 0..m
  BY <1>1, <1>5, <1>6, <1>7 DEF DepthsSound
<1> DEFINE Found(h) == Allowed(policy, h) =>
             \A n \in reach[h] : \E i \in DOMAIN q : q[i][1] = n /\ q[i][2] <= h
           H == {h \in 0..m : Found(h)}
<1>9. \A h \in 0..m : h \in H
  <2>1. 0 \in H
    <3>1. 1 \in DOMAIN q /\ q[1][1] = seed /\ q[1][2] = 0
      BY <1>4, <1>5, <1>7
    <3>2. reach[0] = {seed}
      BY DEF IsReach
    <3> QED BY <1>1, <3>1, <3>2
  <2>2. ASSUME NEW h \in 1..m, h - 1 \in H PROVE h \in H
    <3>1. h \in 0..m /\ h - 1 \in 0..m /\ h \in Nat /\ h - 1 \in Nat
      BY <1>1
    <3>2. ASSUME Allowed(policy, h), NEW n \in reach[h]
          PROVE  \E i \in DOMAIN q : q[i][1] = n /\ q[i][2] <= h
      <4>1. reach[h] = reach[h - 1] \cup Hop(g, reach[h - 1], opt)
        BY DEF IsReach
      <4>2. Allowed(policy, h - 1)
        BY <3>1, <3>2, AllowedBelow
      <4>3. \A b \in reach[h - 1] : \E i \in DOMAIN q : q[i][1] = b /\ q[i][2] <= h - 1
        BY <2>2, <4>2
      <4>4. CASE n \in reach[h - 1]
        BY <1>7, <3>1, <4>3, <4>4
      <4>5. CASE n \in Hop(g, reach[h - 1], opt)
        <5>1. PICK b \in reach[h - 1] : n \in Hop(g, {b}, opt)
          BY <4>5 DEF Hop
        <5>2. PICK i \in DOMAIN q : q[i][1] = b /\ q[i][2] <= h - 1
          BY <4>3
        <5>3. i <= m /\ q[i][2] + 1 <= h /\ q[i][2] + 1 \in Nat
          BY <1>1, <1>6, <1>7, <3>1, <5>2
        <5>4. Allowed(policy, q[i][2] + 1)
          BY <3>1, <3>2, <5>3, AllowedBelow
        <5>5. PICK j \in DOMAIN q : q[j][1] = n /\ q[j][2] <= q[i][2] + 1
          BY <1>5, <5>1, <5>2, <5>3, <5>4 DEF Expanded
        <5>6. q[j][2] <= h
          BY <1>7, <3>1, <5>3, <5>5
        <5> QED BY <5>5, <5>6
      <4> QED BY <3>2, <4>1, <4>4, <4>5
    <3> QED BY <3>1, <3>2
  <2> HIDE DEF H, m
  <2> QED BY <1>1, <2>1, <2>2, UpTo
<1>10. \A h \in 0..m : Found(h)
  BY <1>9
<1>11. Searched(policy, seed, reach, q)
  BY <1>4, <1>5, <1>7, <1>8, <1>10 DEF Searched, DepthsSound
<1> QED BY <1>2, <1>5, <1>11 DEF q

-----------------------------------------------------------------------------
(* The reference the searches are compared with *)

\* The hop to which Within goes.
Capped(hops) == IF hops <= Cardinality(Node) THEN hops ELSE Cardinality(Node)

\* The reference reach is computed hop by hop, as often as there are nodes at most.
LEMMA WithinRun ==
  ASSUME ShapeOK, NEW n \in Node, NEW through_optional
  PROVE  \E reach : /\ IsReach(graph, n, through_optional, reach)
                    /\ \A hops : Within(n, through_optional, hops) = reach[Capped(hops)]
<1> DEFINE m == Cardinality(Node)
           X == SUBSET Node
           hop(S) == {edges_[x].consumer : x \in {y \in DOMAIN edges_ :
                        /\ edges_[y].active /\ edges_[y].producer \in S
                        /\ edges_[y].kind = "OPTIONAL" => through_optional}}
           step(S, k) == S \cup hop(S)
           F == [p \in (1..m) \X X |-> step(p[2], p[1])]
           body(f, k) == IF k = 0 THEN {n} ELSE step(f[k - 1], k)
           reach[k \in 0..Cardinality(Node)] ==
             IF k = 0 THEN {n} ELSE reach[k - 1] \cup hop(reach[k - 1])
<1>1. m \in Nat
  BY FiniteAssumption, FS_CardinalityType
<1>2. ASSUME NEW S \in X, NEW k PROVE step(S, k) \in X
  <2>1. \A x \in DOMAIN edges_ : edges_[x].consumer \in Node
    BY DEF ShapeOK, StructOK, Edge
  <2> QED BY <2>1
<1> HIDE DEF hop
<1>3. F \in LoopStep(m, X)
  <2> HIDE DEF step, X, m
  <2> QED BY <1>2 DEF LoopStep
<1>4. PICK f \in [0..m -> X] : IsRun(f, m, {n}, F)
  <2>1. {n} \in X
    OBVIOUS
  <2> HIDE DEF F, m, X, step, body, reach
  <2> QED BY <1>1, <1>3, <2>1, LoopHasRun
<1>5. f = [k \in 0..m |-> body(f, k)]
  <2>1. ASSUME NEW k \in 0..m PROVE f[k] = body(f, k)
    <3>1. CASE k = 0
      BY <3>1, <1>4 DEF IsRun
    <3>2. CASE k # 0
      <4>1. k \in 1..m /\ k - 1 \in 0..m
        BY <3>2, <1>1
      <4>2. f[k] = step(f[k - 1], k)
        <5> HIDE DEF step, X, m
        <5> QED BY <4>1, <1>4 DEF IsRun
      <4> HIDE DEF step
      <4> QED BY <3>2, <4>2
    <3> QED BY <3>1, <3>2
  <2> HIDE DEF body, m, X
  <2> QED BY <2>1, <1>4
<1>6. reach = [k \in 0..Cardinality(Node) |-> body(reach, k)]
  BY <1>5, Zenon
<1>7. reach[0] = {n}
  <2> HIDE DEF reach
  <2>1. 0 \in 0..Cardinality(Node)
    BY <1>1
  <2>2. reach[0] = body(reach, 0)
    <3> HIDE DEF body
    <3> QED BY <2>1, <1>6
  <2> HIDE DEF step
  <2> QED BY <2>2
<1>8. \A k \in 1..m : reach[k] = step(reach[k - 1], k)
  <2> TAKE k \in 1..m
  <2> HIDE DEF reach
  <2>1. k \in 0..Cardinality(Node) /\ k # 0
    BY <1>1
  <2>2. reach[k] = body(reach, k)
    <3> HIDE DEF body
    <3> QED BY <2>1, <1>6
  <2> HIDE DEF step
  <2> QED BY <2>1, <2>2
<1> DEFINE T == {k \in 0..m : reach[k] \in X}
<1>9. \A k \in 0..m : k \in T
  <2> HIDE DEF reach, step, m
  <2>1. 0 \in T
    BY <1>1, <1>7
  <2> HIDE DEF X
  <2>2. ASSUME NEW k \in 1..m, k - 1 \in T PROVE k \in T
    BY <1>8, <2>2, <1>2, <1>1
  <2> HIDE DEF T
  <2> QED BY <1>1, <2>1, <2>2, UpTo
<1>10. reach \in [0..m -> X]
  <2>1. reach = [k \in 0..m |-> body(reach, k)]
    BY <1>6
  <2> HIDE DEF reach, X, m, body
  <2> QED BY <1>9, <2>1
<1>11. \A hops : Within(n, through_optional, hops) = reach[Capped(hops)]
  BY Zenon DEF Within, Capped, hop
<1>12. \A S : hop(S) = Hop(graph, S, through_optional)
  BY DEF hop, Hop, graph
<1> HIDE DEF reach
<1>13. \A k \in 1..m : reach[k] = reach[k - 1] \cup Hop(graph, reach[k - 1], through_optional)
  BY <1>8, <1>12
<1>14. IsReach(graph, n, through_optional, reach)
  BY <1>7, <1>10, <1>13 DEF IsReach
<1> QED BY <1>11, <1>14

\* Further hops lose nothing.
LEMMA ReachMonotone ==
  ASSUME NEW g, NEW seed, NEW opt, NEW reach, IsReach(g, seed, opt, reach),
         NEW d \in 0..Cardinality(Node), NEW h \in 0..Cardinality(Node), d <= h
  PROVE  reach[d] \subseteq reach[h]
<1> DEFINE m == Cardinality(Node)
           T == {k \in 0..m : d <= k => reach[d] \subseteq reach[k]}
<1>1. m \in Nat
  BY FiniteAssumption, FS_CardinalityType
<1>2. \A k \in 0..m : k \in T
  <2>1. 0 \in T
    BY <1>1
  <2>2. ASSUME NEW k \in 1..m, k - 1 \in T PROVE k \in T
    <3>1. reach[k - 1] \subseteq reach[k]
      BY DEF IsReach
    <3>2. k \in 0..m /\ (d <= k => d = k \/ d <= k - 1)
      BY <1>1
    <3> QED BY <2>2, <3>1, <3>2
  <2> HIDE DEF T, m
  <2> QED BY <1>1, <2>1, <2>2, UpTo
<1> QED BY <1>2

\* A set that holds the seed and is closed under hops holds all that is reached.
LEMMA ReachLeast ==
  ASSUME NEW g, NEW seed, NEW opt, NEW reach, IsReach(g, seed, opt, reach),
         NEW C, seed \in C, Hop(g, C, opt) \subseteq C, NEW h \in 0..Cardinality(Node)
  PROVE  reach[h] \subseteq C
<1> DEFINE m == Cardinality(Node)
           T == {k \in 0..m : reach[k] \subseteq C}
<1>1. m \in Nat
  BY FiniteAssumption, FS_CardinalityType
<1>2. \A k \in 0..m : k \in T
  <2>1. 0 \in T
    BY <1>1 DEF IsReach
  <2>2. ASSUME NEW k \in 1..m, k - 1 \in T PROVE k \in T
    <3>1. Hop(g, reach[k - 1], opt) \subseteq C
      BY <2>2 DEF Hop
    <3>2. reach[k] = reach[k - 1] \cup Hop(g, reach[k - 1], opt) /\ k \in 0..m
      BY <1>1 DEF IsReach
    <3> QED BY <2>2, <3>1, <3>2
  <2> HIDE DEF T, m
  <2> QED BY <1>1, <2>1, <2>2, UpTo
<1> QED BY <1>2

\* The hops a policy allows.
PolicyHops(policy) ==
  CASE policy.mode = "DIRECT" -> 0
    [] policy.mode = "BOUNDED" -> DepthLimit(policy)
    [] OTHER -> Cardinality(Node)

\* The hops of a policy are the depths it allows.
LEMMA PolicyHopsMeaning ==
  ASSUME NEW policy \in Policy
  PROVE  /\ Capped(PolicyHops(policy)) \in 0..Cardinality(Node)
         /\ Allowed(policy, Capped(PolicyHops(policy)))
         /\ policy.mode # "DIRECT" => \A d \in 0..Cardinality(Node) :
              Allowed(policy, d) => d <= Capped(PolicyHops(policy))
<1>1. DepthLimit(policy) \in Nat /\ Cardinality(Node) \in Nat
  BY BoundAssumption, FiniteAssumption, FS_CardinalityType DEF DepthLimit, Policy
<1> QED BY <1>1 DEF Capped, PolicyHops, Allowed

\* The nodes found by the search are those within the policy's reach.
LEMMA MarkedWithinReach ==
  ASSUME ShapeOK, IndexExact, NEW seed \in Node, NEW policy \in Policy, policy.mode # "DIRECT"
  PROVE  propagate_invalidation(graph, seed, policy) = WithinReach(seed, policy)
<1> DEFINE opt == policy.propagate_through_optional
           h == Capped(PolicyHops(policy))
           q == marked_queue(graph, seed, policy)
<1>1. graph.nodes = nodes_ /\ graph.edges = edges_ /\ graph.out = out_edges_
  BY DEF graph
<1>2. PICK reach : /\ IsReach(graph, seed, opt, reach)
                   /\ \A hops : Within(seed, opt, hops) = reach[Capped(hops)]
  BY WithinRun
<1> HIDE DEF graph
<1>3. KahnGraph(graph)
  BY <1>1, GraphIsKahn
<1>4. Searched(policy, seed, reach, q)
  BY <1>2, <1>3, MarkedExact
<1>5. WithinReach(seed, policy) = reach[h]
  BY <1>2 DEF WithinReach, PolicyHops
<1>6. /\ h \in 0..Cardinality(Node) /\ Allowed(policy, h)
      /\ \A d \in 0..Cardinality(Node) : Allowed(policy, d) => d <= h
  BY PolicyHopsMeaning
<1> HIDE DEF q, h
<1>7. \A i \in DOMAIN q : q[i][1] \in reach[h]
  <2> TAKE i \in DOMAIN q
  <2> DEFINE d == q[i][2]
  <2>1. d \in 0..Cardinality(Node) /\ q[i][1] \in reach[d] /\ d <= h
    BY <1>4, <1>6 DEF Searched
  <2> HIDE DEF d
  <2>2. reach[d] \subseteq reach[h]
    BY <1>2, <1>6, <2>1, ReachMonotone
  <2> QED BY <2>1, <2>2
<1>8. \A n \in reach[h] : \E i \in DOMAIN q : q[i][1] = n
  BY <1>4, <1>6 DEF Searched
<1>9. propagate_invalidation(graph, seed, policy) = {q[i][1] : i \in DOMAIN q}
  BY DEF propagate_invalidation, Range, q
<1> QED BY <1>5, <1>7, <1>8, <1>9

-----------------------------------------------------------------------------
(* Invalidation *)

\* Only declared nodes are reached.
LEMMA WithinDeclared ==
  ASSUME ShapeOK, IndexExact, NEW n \in DOMAIN nodes_, NEW through_optional,
         NEW hops \in Nat
  PROVE  Within(n, through_optional, hops) \subseteq DOMAIN nodes_
<1>1. graph.nodes = nodes_ /\ graph.edges = edges_ /\ graph.out = out_edges_
  BY DEF graph
<1>2. n \in Node
  BY DEF ShapeOK, StructOK
<1>3. PICK reach : /\ IsReach(graph, n, through_optional, reach)
                   /\ \A k : Within(n, through_optional, k) = reach[Capped(k)]
  BY <1>2, WithinRun
<1> HIDE DEF graph
<1>4. KahnGraph(graph)
  BY <1>1, GraphIsKahn
<1>5. Hop(graph, DOMAIN nodes_, through_optional) \subseteq DOMAIN nodes_
  BY <1>1, <1>4 DEF Hop, KahnGraph
<1>6. Capped(hops) \in 0..Cardinality(Node)
  BY FiniteAssumption, FS_CardinalityType DEF Capped
<1>7. reach[Capped(hops)] \subseteq DOMAIN nodes_
  BY <1>3, <1>5, <1>6, ReachLeast
<1> QED BY <1>3, <1>7

\* The search of a policy finds the reach of the policy.
LEMMA MarkedByExact ==
  ASSUME ShapeOK, IndexExact, NEW n \in DOMAIN nodes_, NEW policy \in Policy
  PROVE  /\ MarkedBy(n, policy) = WithinReach(n, policy)
         /\ WithinReach(n, policy) \subseteq DOMAIN nodes_
<1>1. n \in Node
  BY DEF ShapeOK, StructOK
<1>2. DepthLimit(policy) \in Nat /\ Cardinality(Node) \in Nat
  BY BoundAssumption, FiniteAssumption, FS_CardinalityType DEF DepthLimit, Policy
<1>3. PolicyHops(policy) \in Nat
  BY <1>2 DEF PolicyHops
<1>4. WithinReach(n, policy) = Within(n, policy.propagate_through_optional, PolicyHops(policy))
  BY DEF WithinReach, PolicyHops
<1>5. WithinReach(n, policy) \subseteq DOMAIN nodes_
  BY <1>3, <1>4, WithinDeclared
<1>6. CASE policy.mode # "DIRECT"
  BY <1>1, <1>5, <1>6, MarkedWithinReach DEF MarkedBy
<1>7. CASE policy.mode = "DIRECT"
  <2>1. PICK reach : /\ IsReach(graph, n, policy.propagate_through_optional, reach)
                     /\ \A k : Within(n, policy.propagate_through_optional, k) = reach[Capped(k)]
    BY <1>1, WithinRun
  <2>2. PolicyHops(policy) = 0 /\ Capped(0) = 0
    BY <1>2, <1>7 DEF PolicyHops, Capped
  <2>3. WithinReach(n, policy) = {n}
    BY <1>4, <2>1, <2>2 DEF IsReach
  <2> QED BY <1>5, <1>7, <2>3 DEF MarkedBy
<1> QED BY <1>6, <1>7

\* An invalidation marks the nodes its policy reaches, and no others.
LEMMA InvalidationStep ==
  ASSUME ShapeOK, IndexExact, NEW n \in Node, NEW policy \in Policies, NEW who \in Authority,
         invalidate_node(n, policy, who)
  PROVE  {m \in DOMAIN nodes_' : nodes_'[m].ever_invalidated} =
           {m \in DOMAIN nodes_ : nodes_[m].ever_invalidated} \cup WithinReach(n, policy)
<1> DEFINE marked == MarkedBy(n, policy)
<1>1. n \in DOMAIN nodes_ /\ nodes_' = MarkInvalidated(marked)
  BY DEF invalidate_node, CommitNodes
<1>2. policy \in Policy
  BY InputAssumption
<1>3. marked = WithinReach(n, policy) /\ marked \subseteq DOMAIN nodes_
  BY <1>1, <1>2, MarkedByExact
<1> HIDE DEF marked
<1>4. /\ DOMAIN nodes_' = DOMAIN nodes_
      /\ \A m \in DOMAIN nodes_ :
           nodes_'[m] = IF m \in marked THEN [nodes_[m] EXCEPT !.ever_invalidated = TRUE]
                        ELSE nodes_[m]
  BY <1>1 DEF MarkInvalidated
<1>5. \A m \in DOMAIN nodes_ : nodes_[m] \in NodeFacts
  BY DEF ShapeOK, StructOK
<1>6. \A m \in DOMAIN nodes_ :
        nodes_'[m].ever_invalidated <=> nodes_[m].ever_invalidated \/ m \in marked
  BY <1>4, <1>5 DEF NodeFacts
<1> QED BY <1>3, <1>4, <1>6

(***************************************************************************)
(* For every graph and policy an accepted invalidate_node marks exactly    *)
(* the nodes within the policy's reach.                                    *)
(***************************************************************************)
THEOREM InvalidationSafe == Spec => InvalidationMarksReach
<1>1. ShapeOK /\ IndexExact =>
        \A n \in Node, policy \in Policies, who \in Authority :
          invalidate_node(n, policy, who) =>
            {m \in DOMAIN nodes_' : nodes_'[m].ever_invalidated} =
              {m \in DOMAIN nodes_ : nodes_[m].ever_invalidated} \cup WithinReach(n, policy)
  BY InvalidationStep
<1> QED BY <1>1, QueryInvariant, PTL DEF QueryInv, InvalidationMarksReach

-----------------------------------------------------------------------------
(* The affected closure *)

\* The nodes of a queue, in its order.
LEMMA ClosureNodes ==
  ASSUME ShapeOK, IndexExact, NEW seed \in DOMAIN nodes_, NEW depth \in Nat
  PROVE  LET nodes == affected_closure(graph, seed, depth).nodes
         IN /\ nodes \in Seq(Node) /\ IsInjective(nodes) /\ seed \in Range(nodes)
            /\ Range(nodes) = WithinReach(seed, Bounded(depth))
<1> DEFINE policy == Bounded(depth)
           q == marked_queue(graph, seed, policy)
           nodes == [i \in DOMAIN q |-> q[i][1]]
<1>1. graph.nodes = nodes_ /\ graph.edges = edges_ /\ graph.out = out_edges_
  BY DEF graph
<1>2. policy \in Policy /\ policy.mode # "DIRECT" /\ seed \in Node
  BY DEF Bounded, Policy, ShapeOK, StructOK
<1> HIDE DEF policy
<1>3. PICK reach : /\ IsReach(graph, seed, policy.propagate_through_optional, reach)
                   /\ \A hops : Within(seed, policy.propagate_through_optional, hops) =
                                  reach[Capped(hops)]
  BY <1>2, WithinRun
<1> HIDE DEF graph
<1>4. KahnGraph(graph)
  BY <1>1, GraphIsKahn
<1>5. Searched(policy, seed, reach, q)
  BY <1>2, <1>3, <1>4, MarkedExact
<1>6. propagate_invalidation(graph, seed, policy) = WithinReach(seed, policy)
  BY <1>2, MarkedWithinReach
<1>7. propagate_invalidation(graph, seed, policy) = {q[i][1] : i \in DOMAIN q}
  BY DEF propagate_invalidation, Range
<1>8. affected_closure(graph, seed, depth).nodes = nodes
  BY <1>1 DEF affected_closure, policy
<1> HIDE DEF q
<1>9. Len(q) \in Nat /\ DOMAIN q = 1..Len(q) /\ q[1] = <<seed, 0>> /\ q # <<>>
  BY <1>5 DEF Searched, MarkQueue
<1>10. nodes \in Seq(Node)
  BY <1>5, <1>9 DEF Searched
<1>11. IsInjective(nodes)
  BY <1>5 DEF Searched, Distinct, IsInjective
<1>12. seed \in Range(nodes)
  <2>1. 1 \in DOMAIN q /\ q[1][1] = seed
    BY <1>5, <1>9 DEF Searched, MarkQueue
  <2> QED BY <2>1 DEF Range
<1>13. Range(nodes) = WithinReach(seed, policy)
  BY <1>6, <1>7 DEF Range
<1> HIDE DEF nodes
<1> QED BY <1>8, <1>10, <1>11, <1>12, <1>13 DEF policy

\* The nodes whose edges belong to the closure.
LEMMA ClosureInner ==
  ASSUME ShapeOK, IndexExact, NEW seed \in DOMAIN nodes_, NEW depth \in Nat
  PROVE  LET queue == marked_queue(graph, seed, Bounded(depth))
             limit == DepthLimit(Bounded(depth))
         IN {pair[1] : pair \in {q \in Range(queue) : q[2] < limit}} =
              Within(seed, TRUE, limit - 1)
<1> DEFINE policy == Bounded(depth)
           q == marked_queue(graph, seed, policy)
           limit == DepthLimit(policy)
           h == Capped(limit - 1)
           m == Cardinality(Node)
<1>1. graph.nodes = nodes_ /\ graph.edges = edges_ /\ graph.out = out_edges_
  BY DEF graph
<1>2. /\ policy \in Policy /\ policy.mode = "BOUNDED" /\ policy.propagate_through_optional = TRUE
      /\ seed \in Node
  BY DEF Bounded, Policy, ShapeOK, StructOK
<1>3. limit \in Nat \ {0} /\ m \in Nat
  BY BoundAssumption, FiniteAssumption, FS_CardinalityType DEF DepthLimit, Bounded
<1> HIDE DEF policy
<1>4. PICK reach : /\ IsReach(graph, seed, TRUE, reach)
                   /\ \A hops : Within(seed, TRUE, hops) = reach[Capped(hops)]
  BY <1>2, WithinRun
<1> HIDE DEF graph
<1>5. KahnGraph(graph)
  BY <1>1, GraphIsKahn
<1>6. Searched(policy, seed, reach, q)
  BY <1>2, <1>4, <1>5, MarkedExact
<1> HIDE DEF q, limit
<1>7. /\ h \in 0..m /\ h <= limit - 1 /\ h <= limit
      /\ \A d \in 0..m : d < limit => d <= h
  BY <1>3 DEF Capped
<1>8. Allowed(policy, h)
  BY <1>7 DEF Allowed, limit
<1> HIDE DEF h
<1> DEFINE expanded == {pair[1] : pair \in {p \in Range(q) : p[2] < limit}}
<1>9. ASSUME NEW n \in expanded PROVE n \in reach[h]
  <2>1. PICK i \in DOMAIN q : q[i][2] < limit /\ q[i][1] = n
    BY <1>9 DEF Range
  <2> DEFINE d == q[i][2]
  <2>2. d \in 0..m /\ n \in reach[d] /\ d <= h
    BY <1>6, <1>7, <2>1 DEF Searched
  <2> HIDE DEF d
  <2>3. reach[d] \subseteq reach[h]
    BY <1>4, <1>7, <2>2, ReachMonotone
  <2> QED BY <2>2, <2>3
<1>10. ASSUME NEW n \in reach[h] PROVE n \in expanded
  <2>1. PICK i \in DOMAIN q : q[i][1] = n /\ q[i][2] <= h
    BY <1>6, <1>7, <1>8 DEF Searched
  <2>2. q[i][2] < limit
    BY <1>3, <1>6, <1>7, <2>1 DEF Searched
  <2> QED BY <2>1, <2>2 DEF Range
<1>11. expanded = Within(seed, TRUE, limit - 1)
  <2>1. Within(seed, TRUE, limit - 1) = reach[h]
    BY <1>4 DEF h
  <2> HIDE DEF expanded
  <2> QED BY <1>9, <1>10, <2>1
<1> QED BY <1>11 DEF limit, q, policy

\* The affected closure in one state.
LEMMA ClosureExact == ShapeOK /\ IndexExact => AffectedClosureExact
<1> SUFFICES ASSUME ShapeOK, IndexExact, NEW seed \in DOMAIN nodes_, NEW depth \in Distances
             PROVE  LET closure == affected_closure(graph, seed, depth)
                        inner == Within(seed, TRUE, DepthLimit(Bounded(depth)) - 1)
                    IN /\ IsInjective(closure.nodes)
                       /\ Range(closure.nodes) = WithinReach(seed, Bounded(depth))
                       /\ closure.edges =
                            {x \in DOMAIN edges_ : edges_[x].active /\ edges_[x].producer \in inner}
  BY DEF AffectedClosureExact
<1> DEFINE closure == affected_closure(graph, seed, depth)
           limit == DepthLimit(Bounded(depth))
           q == marked_queue(graph, seed, Bounded(depth))
           inner == Within(seed, TRUE, limit - 1)
           expanded == {pair[1] : pair \in {p \in Range(q) : p[2] < limit}}
<1>1. depth \in Nat
  BY FiniteAssumption, FS_CardinalityType DEF Distances
<1>2. IsInjective(closure.nodes) /\ Range(closure.nodes) = WithinReach(seed, Bounded(depth))
  BY <1>1, ClosureNodes
<1>3. expanded = inner
  BY <1>1, ClosureInner
<1>4. graph.nodes = nodes_ /\ graph.edges = edges_ /\ graph.out = out_edges_
  BY DEF graph
<1>5. closure.edges = {x \in UNION {Range(graph.out[n]) : n \in expanded} : Followed(graph, x)}
  BY <1>4 DEF affected_closure
<1> HIDE DEF graph, expanded, limit, closure
<1>6. inner \subseteq Node
  <2>1. limit - 1 \in Nat
    BY <1>1, BoundAssumption DEF limit, DepthLimit, Bounded
  <2>2. inner \subseteq DOMAIN nodes_
    BY <2>1, WithinDeclared
  <2> QED BY <2>2 DEF ShapeOK, StructOK
<1> HIDE DEF inner
<1>7. KahnGraph(graph)
  BY <1>4, GraphIsKahn
<1>8. \A x : x \in closure.edges <=>
               x \in DOMAIN edges_ /\ edges_[x].active /\ edges_[x].producer \in inner
  BY <1>3, <1>4, <1>5, <1>6, <1>7 DEF Followed, KahnGraph
<1>9. closure.edges = {x \in DOMAIN edges_ : edges_[x].active /\ edges_[x].producer \in inner}
  BY <1>8
<1> QED BY <1>2, <1>9 DEF closure, inner, limit

(***************************************************************************)
(* For every graph, seed and depth Graph::affected_closure holds exactly   *)
(* the nodes within the depth and the edges that leave nodes closer than   *)
(* it.                                                                     *)
(***************************************************************************)
THEOREM ClosureSafe == Spec => []AffectedClosureExact
<1>1. QueryInv => AffectedClosureExact
  BY ClosureExact DEF QueryInv
<1> QED BY <1>1, QueryInvariant, PTL

-----------------------------------------------------------------------------
(* The unbounded search: topology_order *)

\* One turn of the loop over the index entries of a node.
EnqueueOne(g, q, x) ==
  IF Followed(g, x) /\ g.edges[x].consumer \notin Range(q)
  THEN Append(q, g.edges[x].consumer)
  ELSE q

IsEnqueueScan(g, queue, cur, scan) ==
  /\ scan \in [0..Len(g.out[cur]) -> Seq(Node)]
  /\ scan[0] = queue
  /\ \A j \in 1..Len(g.out[cur]) : scan[j] = EnqueueOne(g, scan[j - 1], g.out[cur][j])
  /\ enqueue_consumers(g, queue, cur) = scan[Len(g.out[cur])]

\* The run of the loop over the index entries.
LEMMA EnqueueRun ==
  ASSUME NEW g, GraphShape(g), NEW queue \in Seq(Node), NEW cur \in Node
  PROVE  \E scan : IsEnqueueScan(g, queue, cur, scan)
<1> DEFINE entry == g.out[cur]
           m == Len(entry)
           X == Seq(Node)
           step(seen, j) == IF /\ Followed(g, entry[j])
                               /\ g.edges[entry[j]].consumer \notin Range(seen)
                            THEN Append(seen, g.edges[entry[j]].consumer)
                            ELSE seen
           F == [p \in (1..m) \X X |-> step(p[2], p[1])]
           body(f, j) == IF j = 0 THEN queue ELSE step(f[j - 1], j)
           scan[j \in 0..Len(entry)] ==
             IF j = 0 THEN queue
             ELSE LET seen == scan[j - 1]
                  IN IF /\ Followed(g, entry[j])
                        /\ g.edges[entry[j]].consumer \notin Range(seen)
                     THEN Append(seen, g.edges[entry[j]].consumer)
                     ELSE seen
<1>1. m \in Nat
  BY DEF GraphShape
<1>2. ASSUME NEW q \in X, NEW j PROVE step(q, j) \in X
  <2>1. CASE Followed(g, entry[j])
    <3>1. g.edges[entry[j]].consumer \in Node
      BY <2>1 DEF Followed, GraphShape
    <3> QED BY <3>1
  <2>2. CASE ~Followed(g, entry[j])
    BY <2>2
  <2> QED BY <2>1, <2>2
<1>3. F \in LoopStep(m, X)
  <2> HIDE DEF step, X, m
  <2> QED BY <1>2 DEF LoopStep
<1>4. PICK f \in [0..m -> X] : IsRun(f, m, queue, F)
  <2>1. queue \in X
    OBVIOUS
  <2> HIDE DEF F, m, X, step, body, scan, entry
  <2> QED BY <1>1, <1>3, <2>1, LoopHasRun
<1>5. f = [j \in 0..m |-> body(f, j)]
  <2>1. ASSUME NEW j \in 0..m PROVE f[j] = body(f, j)
    <3>1. CASE j = 0
      BY <3>1, <1>4 DEF IsRun
    <3>2. CASE j # 0
      <4>1. j \in 1..m /\ j - 1 \in 0..m
        BY <3>2, <1>1
      <4>2. f[j] = step(f[j - 1], j)
        <5> HIDE DEF step, X, m
        <5> QED BY <4>1, <1>4 DEF IsRun
      <4> HIDE DEF step
      <4> QED BY <3>2, <4>2
    <3> QED BY <3>1, <3>2
  <2> HIDE DEF body, m, X
  <2> QED BY <2>1, <1>4
<1>6. scan = [j \in 0..Len(entry) |-> body(scan, j)]
  BY <1>5, Zenon
<1>7. scan[0] = queue
  <2> HIDE DEF scan
  <2>1. 0 \in 0..Len(entry)
    BY <1>1
  <2>2. scan[0] = body(scan, 0)
    <3> HIDE DEF body
    <3> QED BY <2>1, <1>6
  <2> HIDE DEF step
  <2> QED BY <2>2
<1>8. \A j \in 1..m : scan[j] = step(scan[j - 1], j)
  <2> TAKE j \in 1..m
  <2> HIDE DEF scan
  <2>1. j \in 0..Len(entry) /\ j # 0
    BY <1>1
  <2>2. scan[j] = body(scan, j)
    <3> HIDE DEF body
    <3> QED BY <2>1, <1>6
  <2> HIDE DEF step
  <2> QED BY <2>1, <2>2
<1> DEFINE T == {j \in 0..m : scan[j] \in X}
<1>9. \A j \in 0..m : j \in T
  <2> HIDE DEF scan, step, m
  <2>1. 0 \in T
    BY <1>1, <1>7
  <2> HIDE DEF X
  <2>2. ASSUME NEW j \in 1..m, j - 1 \in T PROVE j \in T
    BY <1>8, <2>2, <1>2, <1>1
  <2> HIDE DEF T
  <2> QED BY <1>1, <2>1, <2>2, UpTo
<1>10. scan \in [0..m -> X]
  <2>1. scan = [j \in 0..m |-> body(scan, j)]
    BY <1>6
  <2> HIDE DEF scan, X, m, body
  <2> QED BY <1>9, <2>1
<1>11. enqueue_consumers(g, queue, cur) = scan[m]
  BY Zenon DEF enqueue_consumers
<1>12. \A q, j : step(q, j) = EnqueueOne(g, q, entry[j])
  BY DEF EnqueueOne
<1> HIDE DEF scan, step
<1>13. \A j \in 1..m : scan[j] = EnqueueOne(g, scan[j - 1], entry[j])
  BY <1>8, <1>12
<1> QED BY <1>7, <1>10, <1>11, <1>13 DEF IsEnqueueScan

\* Nothing outside C, which holds the queue and the consumers, is queued.
LEMMA EnqueueKeeps ==
  ASSUME NEW g, GraphShape(g), NEW q \in Seq(Node), NEW cur \in Node,
         NEW C, Range(q) \subseteq C, Successors(g, cur) \subseteq C, IsInjective(q)
  PROVE  LET r == enqueue_consumers(g, q, cur)
         IN /\ r \in Seq(Node) /\ IsInjective(r) /\ Extends(r, q)
            /\ Range(r) \subseteq C /\ Successors(g, cur) \subseteq Range(r)
<1> DEFINE entry == g.out[cur]
           m == Len(entry)
           r == enqueue_consumers(g, q, cur)
<1>1. entry \in Seq(EdgeId) /\ m \in Nat /\ DOMAIN entry = 1..m
  BY DEF GraphShape
<1>2. PICK scan : IsEnqueueScan(g, q, cur, scan)
  BY EnqueueRun
<1>3. /\ scan \in [0..m -> Seq(Node)] /\ scan[0] = q /\ r = scan[m]
      /\ \A j \in 1..m : scan[j] = EnqueueOne(g, scan[j - 1], entry[j])
  BY <1>2 DEF IsEnqueueScan
<1> HIDE DEF r
<1>4. \A j \in 1..m : Followed(g, entry[j]) =>
        g.edges[entry[j]].consumer \in Node /\ g.edges[entry[j]].consumer \in C
  BY <1>1 DEF Followed, GraphShape, Successors, Range
<1> DEFINE Done(j) ==
             /\ IsInjective(scan[j]) /\ Extends(scan[j], q) /\ Range(scan[j]) \subseteq C
             /\ \A i \in 1..j : Followed(g, entry[i]) => g.edges[entry[i]].consumer \in Range(scan[j])
           T == {j \in 0..m : Done(j)}
<1>5. \A j \in 0..m : j \in T
  <2> HIDE DEF entry, m
  <2>1. 0 \in T
    <3>1. Extends(q, q)
      BY DEF Extends
    <3>2. 1..0 = {}
      OBVIOUS
    <3> QED BY <1>1, <1>3, <3>1, <3>2
  <2>2. ASSUME NEW j \in 1..m, j - 1 \in T PROVE j \in T
    <3> DEFINE s == scan[j - 1]
               x == entry[j]
               c == g.edges[x].consumer
               v == scan[j]
    <3>1. j \in 0..m /\ j - 1 \in 0..m
      BY <1>1
    <3>2. s \in Seq(Node) /\ v \in Seq(Node) /\ v = EnqueueOne(g, s, x)
      BY <1>3, <3>1
    <3>3. /\ IsInjective(s) /\ Extends(s, q) /\ Range(s) \subseteq C
          /\ \A i \in 1..(j - 1) : Followed(g, entry[i]) => g.edges[entry[i]].consumer \in Range(s)
      BY <2>2
    <3>4. Followed(g, x) => c \in Node /\ c \in C
      BY <1>4
    <3> HIDE DEF s, v, c
    <3>5. /\ IsInjective(v) /\ Extends(v, s) /\ Range(v) \subseteq C /\ Range(s) \subseteq Range(v)
          /\ Followed(g, x) => c \in Range(v)
      <4>1. CASE Followed(g, x) /\ c \notin Range(s)
        <5>1. v = Append(s, c) /\ c \in Node /\ c \in C
          BY <3>2, <3>4, <4>1 DEF EnqueueOne, c
        <5>2. Range(v) = Range(s) \cup {c}
          BY <3>2, <5>1, RangeAppend
        <5>3. IsInjective(v)
          BY <3>2, <3>3, <4>1, <5>1, AppendDistinct
        <5>4. Extends(v, s)
          BY <3>2, <5>1 DEF Extends
        <5> QED BY <3>3, <5>1, <5>2, <5>3, <5>4
      <4>2. CASE ~(Followed(g, x) /\ c \notin Range(s))
        <5>1. v = s
          BY <3>2, <4>2 DEF EnqueueOne, c
        <5>2. Extends(s, s)
          BY <3>2 DEF Extends
        <5> QED BY <3>3, <4>2, <5>1, <5>2
      <4> QED BY <4>1, <4>2
    <3>6. Extends(v, q)
      BY <3>2, <3>3, <3>5, ExtendsTransitive
    <3>7. \A i \in 1..j : Followed(g, entry[i]) => g.edges[entry[i]].consumer \in Range(v)
      <4>1. \A i \in 1..j : i \in 1..(j - 1) \/ i = j
        OBVIOUS
      <4> QED BY <3>3, <3>5, <4>1 DEF c
    <3> QED BY <3>1, <3>5, <3>6, <3>7 DEF v
  <2> HIDE DEF T
  <2> QED BY <1>1, <2>1, <2>2, UpTo
<1>6. m \in 0..m /\ r \in Seq(Node)
  BY <1>1, <1>3
<1>7. Done(m)
  BY <1>5, <1>6
<1>8. Successors(g, cur) \subseteq Range(r)
  <2>1. ASSUME NEW t \in Successors(g, cur) PROVE t \in Range(r)
    <3>1. PICK j \in 1..m : Followed(g, entry[j]) /\ g.edges[entry[j]].consumer = t
      BY <1>1 DEF Successors, Range
    <3> HIDE DEF entry, m
    <3> QED BY <1>3, <1>7, <3>1
  <2> QED BY <2>1
<1> QED BY <1>3, <1>6, <1>7, <1>8 DEF r

\* One turn of the search.
TopologyTurn(g, q, k) == IF k <= Len(q) THEN enqueue_consumers(g, q, q[k]) ELSE q

IsTopologyRun(g, start, turn) ==
  /\ turn \in [0..Cardinality(Node) -> Seq(Node)]
  /\ turn[0] = start
  /\ \A k \in 1..Cardinality(Node) : turn[k] = TopologyTurn(g, turn[k - 1], k)
  /\ topology_order(g, start) = turn[Cardinality(Node)]

\* The run of the search.
LEMMA TopologyRun ==
  ASSUME NEW g, GraphShape(g), NEW start \in Seq(Node)
  PROVE  \E turn : IsTopologyRun(g, start, turn)
<1> DEFINE m == Cardinality(Node)
           X == Seq(Node)
           step(queue, k) == IF k <= Len(queue) THEN enqueue_consumers(g, queue, queue[k])
                             ELSE queue
           F == [p \in (1..m) \X X |-> step(p[2], p[1])]
           body(f, k) == IF k = 0 THEN start ELSE step(f[k - 1], k)
           turn[k \in 0..Cardinality(Node)] ==
             IF k = 0 THEN start
             ELSE LET queue == turn[k - 1]
                  IN IF k <= Len(queue) THEN enqueue_consumers(g, queue, queue[k])
                     ELSE queue
<1>1. m \in Nat
  BY FiniteAssumption, FS_CardinalityType
<1>2. ASSUME NEW q \in X, NEW k \in 1..m PROVE step(q, k) \in X
  <2>1. CASE k <= Len(q)
    <3> DEFINE cur == q[k]
    <3>1. cur \in Node
      BY <2>1
    <3> HIDE DEF cur
    <3>2. PICK scan : IsEnqueueScan(g, q, cur, scan)
      BY <3>1, EnqueueRun
    <3>3. Len(g.out[cur]) \in Nat
      BY <3>1 DEF GraphShape
    <3>4. enqueue_consumers(g, q, cur) \in Seq(Node)
      <4>1. Len(g.out[cur]) \in 0..Len(g.out[cur])
        BY <3>3
      <4>2. scan \in [0..Len(g.out[cur]) -> Seq(Node)]
        BY <3>2 DEF IsEnqueueScan
      <4>3. enqueue_consumers(g, q, cur) = scan[Len(g.out[cur])]
        BY <3>2 DEF IsEnqueueScan
      <4> QED BY <4>1, <4>2, <4>3
    <3> QED BY <2>1, <3>4 DEF cur
  <2>2. CASE ~(k <= Len(q))
    BY <2>2
  <2> QED BY <2>1, <2>2
<1>3. F \in LoopStep(m, X)
  <2> HIDE DEF step, X, m
  <2> QED BY <1>2 DEF LoopStep
<1>4. PICK f \in [0..m -> X] : IsRun(f, m, start, F)
  <2>1. start \in X
    OBVIOUS
  <2> HIDE DEF F, m, X, step, body, turn
  <2> QED BY <1>1, <1>3, <2>1, LoopHasRun
<1>5. f = [k \in 0..m |-> body(f, k)]
  <2>1. ASSUME NEW k \in 0..m PROVE f[k] = body(f, k)
    <3>1. CASE k = 0
      BY <3>1, <1>4 DEF IsRun
    <3>2. CASE k # 0
      <4>1. k \in 1..m /\ k - 1 \in 0..m
        BY <3>2, <1>1
      <4>2. f[k] = step(f[k - 1], k)
        <5> HIDE DEF step, X, m
        <5> QED BY <4>1, <1>4 DEF IsRun
      <4> HIDE DEF step
      <4> QED BY <3>2, <4>2
    <3> QED BY <3>1, <3>2
  <2> HIDE DEF body, m, X
  <2> QED BY <2>1, <1>4
<1>6. turn = [k \in 0..Cardinality(Node) |-> body(turn, k)]
  BY <1>5, Zenon
<1>7. turn[0] = start
  <2> HIDE DEF turn
  <2>1. 0 \in 0..Cardinality(Node)
    BY <1>1
  <2>2. turn[0] = body(turn, 0)
    <3> HIDE DEF body
    <3> QED BY <2>1, <1>6
  <2> HIDE DEF step
  <2> QED BY <2>2
<1>8. \A k \in 1..m : turn[k] = step(turn[k - 1], k)
  <2> TAKE k \in 1..m
  <2> HIDE DEF turn
  <2>1. k \in 0..Cardinality(Node) /\ k # 0
    BY <1>1
  <2>2. turn[k] = body(turn, k)
    <3> HIDE DEF body
    <3> QED BY <2>1, <1>6
  <2> HIDE DEF step
  <2> QED BY <2>1, <2>2
<1> DEFINE T == {k \in 0..m : turn[k] \in X}
<1>9. \A k \in 0..m : k \in T
  <2> HIDE DEF turn, step, m
  <2>1. 0 \in T
    BY <1>1, <1>7
  <2> HIDE DEF X
  <2>2. ASSUME NEW k \in 1..m, k - 1 \in T PROVE k \in T
    BY <1>8, <2>2, <1>2, <1>1
  <2> HIDE DEF T
  <2> QED BY <1>1, <2>1, <2>2, UpTo
<1>10. turn \in [0..m -> X]
  <2>1. turn = [k \in 0..m |-> body(turn, k)]
    BY <1>6
  <2> HIDE DEF turn, X, m, body
  <2> QED BY <1>9, <2>1
<1>11. topology_order(g, start) = turn[m]
  BY Zenon DEF topology_order
<1>12. \A q, k : step(q, k) = TopologyTurn(g, q, k)
  BY DEF TopologyTurn
<1> HIDE DEF turn, step
<1>13. \A k \in 1..m : turn[k] = TopologyTurn(g, turn[k - 1], k)
  BY <1>8, <1>12
<1> QED BY <1>7, <1>10, <1>11, <1>13 DEF IsTopologyRun

\* The search finds the least set that holds the start and is closed.
LEMMA TopologyExact ==
  ASSUME NEW g, GraphShape(g), NEW start \in Seq(Node), IsInjective(start),
         NEW C, Range(start) \subseteq C, \A n \in C : Successors(g, n) \subseteq C
  PROVE  LET q == topology_order(g, start)
         IN /\ q \in Seq(Node) /\ IsInjective(q)
            /\ Range(start) \subseteq Range(q) /\ Range(q) \subseteq C
            /\ \A n \in Range(q) : Successors(g, n) \subseteq Range(q)
<1> DEFINE m == Cardinality(Node)
<1>1. m \in Nat
  BY FiniteAssumption, FS_CardinalityType
<1>2. PICK turn : IsTopologyRun(g, start, turn)
  BY TopologyRun
<1>3. /\ turn \in [0..m -> Seq(Node)] /\ turn[0] = start
      /\ \A k \in 1..m : turn[k] = TopologyTurn(g, turn[k - 1], k)
      /\ topology_order(g, start) = turn[m]
  BY <1>2 DEF IsTopologyRun
<1> DEFINE Inv(q, k) ==
             /\ IsInjective(q) /\ Extends(q, start) /\ Range(q) \subseteq C
             /\ \A i \in DOMAIN q : i <= k => Successors(g, q[i]) \subseteq Range(q)
           T == {k \in 0..m : Inv(turn[k], k)}
<1>4. \A k \in 0..m : k \in T
  <2>1. 0 \in T
    <3>1. Extends(start, start)
      BY DEF Extends
    <3>2. \A i \in DOMAIN start : ~(i <= 0)
      OBVIOUS
    <3> QED BY <1>1, <1>3, <3>1, <3>2
  <2>2. ASSUME NEW k \in 1..m, k - 1 \in T PROVE k \in T
    <3> DEFINE q == turn[k - 1]
               r == turn[k]
    <3>1. k \in 0..m /\ k - 1 \in 0..m
      BY <1>1
    <3>2. q \in Seq(Node) /\ r = TopologyTurn(g, q, k)
      BY <1>3, <3>1
    <3>3. Inv(q, k - 1)
      BY <2>2
    <3> HIDE DEF q, r
    <3>4. CASE k <= Len(q)
      <4> DEFINE cur == q[k]
      <4>1. k \in DOMAIN q /\ cur \in Node /\ cur \in C
        <5>1. k \in DOMAIN q
          BY <3>2, <3>4
        <5> QED BY <3>2, <3>3, <5>1 DEF Range
      <4>2. r = enqueue_consumers(g, q, cur)
        BY <3>2, <3>4 DEF TopologyTurn
      <4> HIDE DEF cur
      <4>3. /\ r \in Seq(Node) /\ IsInjective(r) /\ Extends(r, q)
            /\ Range(r) \subseteq C /\ Successors(g, cur) \subseteq Range(r)
        BY <3>2, <3>3, <4>1, <4>2, EnqueueKeeps
      <4>4. \A i \in DOMAIN q : i \in DOMAIN r /\ r[i] = q[i]
        BY <3>2, <4>3, ExtendsKeeps
      <4>5. Range(q) \subseteq Range(r)
        BY <4>4 DEF Range
      <4>6. Extends(r, start)
        BY <3>2, <3>3, <4>3, ExtendsTransitive
      <4>7. ASSUME NEW i \in DOMAIN r, i <= k PROVE Successors(g, r[i]) \subseteq Range(r)
        <5>1. i \in DOMAIN q /\ r[i] = q[i]
          BY <3>2, <3>4, <4>3, <4>4, <4>7
        <5>2. CASE i = k
          BY <4>3, <5>1, <5>2 DEF cur
        <5>3. CASE i # k
          <6>1. i <= k - 1
            BY <3>2, <4>7, <5>1, <5>3
          <6> QED BY <3>3, <4>5, <5>1, <6>1
        <5> QED BY <5>2, <5>3
      <4>8. Inv(r, k)
        BY <4>3, <4>6, <4>7
      <4> HIDE DEF Inv
      <4> QED BY <3>1, <4>8 DEF r
    <3>5. CASE ~(k <= Len(q))
      <4>1. r = q
        BY <3>2, <3>5 DEF TopologyTurn
      <4>2. \A i \in DOMAIN q : i <= k - 1
        BY <3>2, <3>5
      <4>3. Inv(q, k)
        BY <3>3, <4>2
      <4> HIDE DEF Inv
      <4> QED BY <3>1, <4>1, <4>3 DEF r
    <3> QED BY <3>4, <3>5
  <2> HIDE DEF T, m
  <2> QED BY <1>1, <2>1, <2>2, UpTo
<1> DEFINE q == turn[m]
<1>5. m \in 0..m /\ q \in Seq(Node)
  BY <1>1, <1>3
<1>6. Inv(q, m)
  BY <1>4, <1>5
<1> HIDE DEF q
<1>7. Len(q) <= m
  <2>1. q \in Injection(1..Len(q), Node)
    BY <1>5, <1>6 DEF Injection
  <2>2. Cardinality(1..Len(q)) <= Cardinality(Node)
    BY <2>1, FiniteAssumption, FS_Injection
  <2>3. Len(q) \in Nat
    BY <1>5
  <2>4. Cardinality(1..Len(q)) = Len(q)
    BY <2>3, CountUpTo
  <2>5. m = Cardinality(Node)
    OBVIOUS
  <2> HIDE DEF m
  <2> QED BY <2>2, <2>4, <2>5
<1>8. \A n \in Range(q) : Successors(g, n) \subseteq Range(q)
  <2>1. \A i \in DOMAIN q : i <= m
    BY <1>1, <1>5, <1>7
  <2> QED BY <1>6, <2>1 DEF Range
<1>9. Range(start) \subseteq Range(q)
  <2>1. \A i \in DOMAIN start : i \in DOMAIN q /\ q[i] = start[i]
    BY <1>5, <1>6, ExtendsKeeps
  <2> QED BY <2>1 DEF Range
<1> QED BY <1>3, <1>5, <1>6, <1>8, <1>9 DEF q

-----------------------------------------------------------------------------
(* Recovery *)

(***************************************************************************)
(* The nodes downstream of n are the least set that holds n and is closed  *)
(* under index entries: as many hops as there are nodes are enough.  That  *)
(* they are closed follows from the search itself, which expands every     *)
(* node it queues.                                                         *)
(***************************************************************************)
LEMMA DownstreamLeast ==
  ASSUME ShapeOK, IndexExact, NEW n \in Node
  PROVE  /\ Downstream(n) \subseteq Node /\ n \in Downstream(n)
         /\ \A a \in Downstream(n) : Successors(graph, a) \subseteq Downstream(n)
         /\ \A C \in SUBSET Node :
              n \in C /\ (\A a \in C : Successors(graph, a) \subseteq C) => Downstream(n) \subseteq C
<1> DEFINE policy == [mode |-> "RECURSIVE", max_depth |-> 0, propagate_through_optional |-> TRUE]
           m == Cardinality(Node)
           q == marked_queue(graph, n, policy)
<1>1. graph.nodes = nodes_ /\ graph.edges = edges_ /\ graph.out = out_edges_
  BY DEF graph
<1>2. /\ policy \in Policy /\ policy.mode = "RECURSIVE" /\ policy.propagate_through_optional = TRUE
      /\ \A d : Allowed(policy, d)
  BY DEF Policy, Allowed
<1>3. m \in Nat /\ Capped(m) = m
  BY FiniteAssumption, FS_CardinalityType DEF Capped
<1>4. PICK reach : /\ IsReach(graph, n, TRUE, reach)
                   /\ \A hops : Within(n, TRUE, hops) = reach[Capped(hops)]
  BY WithinRun
<1> HIDE DEF graph, policy
<1>5. Downstream(n) = reach[m] /\ reach[m] \subseteq Node
  <2>1. Within(n, TRUE, m) = reach[Capped(m)]
    BY <1>4
  <2>2. Downstream(n) = Within(n, TRUE, m)
    BY DEF Downstream
  <2>3. reach \in [0..m -> SUBSET Node]
    BY <1>4 DEF IsReach
  <2> HIDE DEF m
  <2>4. m \in 0..m
    BY <1>3
  <2> QED BY <1>3, <2>1, <2>2, <2>3, <2>4
<1>6. KahnGraph(graph)
  BY <1>1, GraphIsKahn
<1>7. Searched(policy, n, reach, q) /\ Expanded(graph, policy, q, m)
  BY <1>2, <1>4, <1>6, MarkedExact
<1> HIDE DEF q
<1>8. \A a \in Node : Successors(graph, a) = Hop(graph, {a}, TRUE)
  BY <1>6 DEF Successors, Hop, Followed, KahnGraph
<1>9. \A a \in Downstream(n) : Successors(graph, a) \subseteq Downstream(n)
  <2> SUFFICES ASSUME NEW a \in reach[m], NEW t \in Successors(graph, a) PROVE t \in reach[m]
    BY <1>5
  <2>1. PICK i \in DOMAIN q : q[i][1] = a
    BY <1>2, <1>3, <1>7 DEF Searched
  <2>2. i <= m
    <3>1. q \in MarkQueue /\ Distinct(q)
      BY <1>7 DEF Searched
    <3>2. Len(q) \in Nat /\ DOMAIN q = 1..Len(q) /\ Len(q) <= m
      BY <3>1, DistinctLength DEF MarkQueue
    <3> QED BY <1>3, <3>2
  <2>3. t \in Hop(graph, {q[i][1]}, TRUE)
    BY <1>5, <1>8, <2>1
  <2>4. PICK j \in DOMAIN q : q[j][1] = t
    BY <1>2, <1>7, <2>2, <2>3 DEF Expanded
  <2> DEFINE d == q[j][2]
  <2>5. d \in 0..m /\ t \in reach[d] /\ m \in 0..m /\ d <= m
    BY <1>3, <1>7, <2>4 DEF Searched
  <2> HIDE DEF d
  <2>6. reach[d] \subseteq reach[m]
    BY <1>4, <2>5, ReachMonotone
  <2> QED BY <2>5, <2>6
<1>10. ASSUME NEW C \in SUBSET Node, n \in C, \A a \in C : Successors(graph, a) \subseteq C
       PROVE  Downstream(n) \subseteq C
  <2>1. Hop(graph, C, TRUE) \subseteq C
    <3>1. \A t \in Hop(graph, C, TRUE) : \E a \in C : t \in Hop(graph, {a}, TRUE)
      BY DEF Hop
    <3> QED BY <1>8, <1>10, <3>1
  <2>2. m \in 0..m
    BY <1>3
  <2>3. reach[m] \subseteq C
    BY <1>4, <1>10, <2>1, <2>2, ReachLeast
  <2> QED BY <1>5, <2>3
<1>11. n \in Downstream(n)
  <2>1. 0 \in 0..m /\ m \in 0..m /\ 0 <= m
    BY <1>3
  <2>2. reach[0] \subseteq reach[m]
    BY <1>4, <2>1, ReachMonotone
  <2> QED BY <1>4, <1>5, <2>2 DEF IsReach
<1> QED BY <1>5, <1>9, <1>10, <1>11

\* From any list of nodes downstream of the seed that holds it the search
\* finds all of them.
LEMMA TopologyDownstream ==
  ASSUME ShapeOK, IndexExact, NEW seed \in Node, NEW start \in Seq(Node), IsInjective(start),
         seed \in Range(start), Range(start) \subseteq Downstream(seed)
  PROVE  LET q == topology_order(graph, start)
         IN q \in Seq(Node) /\ IsInjective(q) /\ Range(q) = Downstream(seed)
<1> DEFINE q == topology_order(graph, start)
           C == Downstream(seed)
<1>1. graph.nodes = nodes_ /\ graph.edges = edges_ /\ graph.out = out_edges_
  BY DEF graph
<1>2. /\ C \subseteq Node /\ \A a \in C : Successors(graph, a) \subseteq C
      /\ \A D \in SUBSET Node :
           seed \in D /\ (\A a \in D : Successors(graph, a) \subseteq D) => C \subseteq D
  BY DownstreamLeast
<1> HIDE DEF graph, C
<1>3. GraphShape(graph)
  BY <1>1, GraphIsKahn DEF KahnGraph
<1>4. /\ q \in Seq(Node) /\ IsInjective(q)
      /\ Range(start) \subseteq Range(q) /\ Range(q) \subseteq C
      /\ \A n \in Range(q) : Successors(graph, n) \subseteq Range(q)
  BY <1>2, <1>3, TopologyExact DEF C
<1> HIDE DEF q
<1>5. C \subseteq Range(q)
  BY <1>2, <1>4
<1> QED BY <1>4, <1>5 DEF q, C

\* The affected closure, capped or not, lies downstream of its seed.
LEMMA ClosureDownstream ==
  ASSUME ShapeOK, IndexExact, NEW seed \in Node, NEW depth \in Nat
  PROVE  WithinReach(seed, Bounded(depth)) \subseteq Downstream(seed)
<1> DEFINE h == Capped(DepthLimit(Bounded(depth)))
           m == Cardinality(Node)
<1>1. DepthLimit(Bounded(depth)) \in Nat /\ m \in Nat
  BY BoundAssumption, FiniteAssumption, FS_CardinalityType DEF DepthLimit, Bounded
<1>2. PICK reach : /\ IsReach(graph, seed, TRUE, reach)
                   /\ \A hops : Within(seed, TRUE, hops) = reach[Capped(hops)]
  BY WithinRun
<1>3. WithinReach(seed, Bounded(depth)) = reach[h]
  BY <1>2 DEF WithinReach, Bounded
<1>4. Downstream(seed) = reach[m]
  BY <1>1, <1>2 DEF Downstream, Capped
<1>5. h \in 0..m /\ m \in 0..m /\ h <= m
  BY <1>1 DEF Capped
<1> HIDE DEF h
<1>6. reach[h] \subseteq reach[m]
  BY <1>2, <1>5, ReachMonotone
<1> QED BY <1>3, <1>4, <1>6

\* The recovery plan and the recovery set in one state.
LEMMA PlanExact == ShapeOK /\ IndexExact => RecoveryPlanExact
<1> SUFFICES ASSUME ShapeOK, IndexExact, NEW seed \in DOMAIN nodes_
             PROVE  LET plan == recovery_plan(graph, state, seed)
                    IN /\ IsInjective(plan)
                       /\ Range(plan) = Downstream(seed) \cap Ailing(graph, state)
                       /\ Range(recovery_set(graph, state, seed)) = Range(plan)
  BY DEF RecoveryPlanExact
<1> DEFINE q == topology_order(graph, <<seed>>)
           nodes == affected_closure(graph, seed, 0).nodes
           r == topology_order(graph, nodes)
           ailing == Ailing(graph, state)
<1>1. seed \in Node
  BY DEF ShapeOK, StructOK
<1>2. q \in Seq(Node) /\ IsInjective(q) /\ Range(q) = Downstream(seed)
  <2>1. <<seed>> \in Seq(Node) /\ IsInjective(<<seed>>) /\ Range(<<seed>>) = {seed}
    BY <1>1 DEF IsInjective, Range
  <2>2. seed \in Downstream(seed)
    BY <1>1, DownstreamLeast
  <2> QED BY <1>1, <2>1, <2>2, TopologyDownstream
<1>3. r \in Seq(Node) /\ Range(r) = Downstream(seed)
  <2>1. /\ nodes \in Seq(Node) /\ IsInjective(nodes) /\ seed \in Range(nodes)
        /\ Range(nodes) = WithinReach(seed, Bounded(0))
    BY ClosureNodes
  <2>2. Range(nodes) \subseteq Downstream(seed)
    BY <1>1, <2>1, ClosureDownstream
  <2> HIDE DEF nodes
  <2> QED BY <1>1, <2>1, <2>2, TopologyDownstream
<1>4. recovery_plan(graph, state, seed) = Keep(q, ailing) /\ recovery_set(graph, state, seed) = Keep(r, ailing)
  BY DEF recovery_plan, recovery_set
<1> HIDE DEF q, r, ailing
<1>5. IsInjective(Keep(q, ailing)) /\ Range(Keep(q, ailing)) = Range(q) \cap ailing
  BY <1>2, KeepProperties
<1>6. Range(Keep(r, ailing)) = Range(r) \cap ailing
  BY <1>3, KeepProperties
<1> QED BY <1>2, <1>3, <1>4, <1>5, <1>6 DEF ailing

(***************************************************************************)
(* For every graph recovery_plan names exactly the nodes downstream of the *)
(* seed that need recovery, each once, and recovery_set the same, although *)
(* the closure it starts from is cut at kDefaultMaxTraversalDepth.         *)
(***************************************************************************)
THEOREM RecoveryPlanSafe == Spec => []RecoveryPlanExact
<1>1. QueryInv => RecoveryPlanExact
  BY PlanExact DEF QueryInv
<1> QED BY <1>1, QueryInvariant, PTL

(***************************************************************************)
(* Of the non-READY nodes of the closure from which n can be reached one   *)
(* has no active producer among them.  A non-READY producer in the closure *)
(* would reach n too, so the node is in the frontier.                      *)
(***************************************************************************)
LEMMA FrontierCovers == ShapeOK /\ IndexExact => FrontierCoversRegion
<1> SUFFICES ASSUME ShapeOK, IndexExact, Acyclic(edges_), NEW seed \in DOMAIN nodes_,
                    NEW n \in WithinReach(seed, Bounded(0)), state[n] # "READY"
             PROVE  \E f \in Range(recompute_frontier(graph, state, seed)) : n \in Downstream(f)
  BY DEF FrontierCoversRegion
<1> DEFINE nodes == affected_closure(graph, seed, 0).nodes
           S == {a \in Range(nodes) : state[a] # "READY" /\ n \in Downstream(a)}
           front == {a \in Range(nodes) :
                       /\ state[a] # "READY"
                       /\ \A x \in graph.in[a] :
                            LET p == graph.edges[x].producer
                            IN Followed(graph, x) /\ p \in Range(nodes) \ {a} => state[p] = "READY"}
<1>1. nodes \in Seq(Node) /\ Range(nodes) = WithinReach(seed, Bounded(0))
  BY ClosureNodes
<1>2. recompute_frontier(graph, state, seed) = Keep(nodes, front)
  BY DEF recompute_frontier
<1>3. /\ graph.edges = edges_ /\ graph.out = out_edges_ /\ graph.in = in_edges_
  BY DEF graph
<1> HIDE DEF nodes, graph
<1>4. Range(nodes) \subseteq Node
  BY <1>1 DEF Range
<1>5. n \in S
  BY <1>1, <1>4, DownstreamLeast
<1>6. PICK f \in S : \A x \in DOMAIN edges_ :
        edges_[x].active /\ edges_[x].consumer = f => edges_[x].producer \notin S
  <2>1. S \in SUBSET Node /\ S # {}
    BY <1>4, <1>5
  <2> HIDE DEF S
  <2> QED BY <2>1 DEF Acyclic
<1>7. ASSUME NEW x \in in_edges_[f], Followed(graph, x), edges_[x].producer \in Range(nodes)
      PROVE  state[edges_[x].producer] = "READY"
  <2> DEFINE p == edges_[x].producer
  <2>1. f \in Node /\ p \in Node /\ n \in Downstream(f)
    BY <1>4, <1>6, <1>7
  <2>2. x \in DOMAIN edges_ /\ edges_[x].active /\ edges_[x].consumer = f
    BY <1>3, <1>7, <2>1 DEF Followed, IndexExact
  <2>3. f \in Successors(graph, p)
    BY <1>3, <2>1, <2>2 DEF Successors, Followed, IndexExact
  <2>4. f \in Downstream(p)
    BY <2>1, <2>3, DownstreamLeast
  <2> HIDE DEF p
  <2>5. Downstream(f) \subseteq Downstream(p)
    BY <2>1, <2>4, DownstreamLeast
  <2>6. p \notin S
    BY <1>6, <2>2 DEF p
  <2> QED BY <1>7, <2>1, <2>5, <2>6 DEF p
<1>8. f \in front
  BY <1>3, <1>6, <1>7
<1>9. Range(Keep(nodes, front)) = Range(nodes) \cap front
  <2> HIDE DEF front
  <2> QED BY <1>1, KeepProperties
<1> QED BY <1>2, <1>6, <1>8, <1>9

(***************************************************************************)
(* For every acyclic graph recompute_frontier covers the closure: every    *)
(* non-READY node of it lies downstream of a frontier node.                *)
(***************************************************************************)
THEOREM FrontierSafe == Spec => []FrontierCoversRegion
<1>1. QueryInv => FrontierCoversRegion
  BY FrontierCovers DEF QueryInv
<1> QED BY <1>1, QueryInvariant, PTL
=============================================================================
