------------------------ MODULE DependencyGraphProofs ------------------------
(***************************************************************************)
(* Invariants of the dependency graph for every set of nodes, edges, sets, *)
(* generations, sources, boots and epochs.                                 *)
(*                                                                         *)
(* The first part is about what a recomputation does to the readiness map, *)
(* for every graph.  Each loop of Readiness is a recursive function over   *)
(* its turns; a lemma shows that the function exists (LoopHasRun) and      *)
(* stays in a set that every turn preserves (UpTo), both of Iteration.     *)
(***************************************************************************)
EXTENDS DependencyGraph, Iteration, SequenceTheorems, FiniteSetTheorems

-----------------------------------------------------------------------------
(* What a recomputation may produce *)

ReadinessMap == [Node -> ReadinessState]

\* The readiness map after recompute_node of n alone.
Recomputed(g, st, n) == [st EXCEPT ![n] = recompute_node(g, st, n)]

\* recompute_node yields a readiness state.
LEMMA RecomputeNodeType ==
  ASSUME NEW g, NEW st \in ReadinessMap, NEW n \in Node
  PROVE  /\ recompute_node(g, st, n) \in ReadinessState
         /\ Recomputed(g, st, n) \in ReadinessMap
<1>1. recompute_node(g, st, n) \in ReadinessState
  <2>1. Derived(g.nodes[n], Verdicts(g, st, n)) \in ReadinessState
    BY DEF Derived, ReadinessState
  <2>2. st[n] \in ReadinessState
    BY DEF ReadinessMap
  <2> QED BY <2>1, <2>2 DEF recompute_node, ReadinessState
<1> QED BY <1>1 DEF Recomputed, ReadinessMap

\* The run of a recomputation pass.
LEMMA RecomputeRun ==
  ASSUME NEW g, NEW st \in ReadinessMap, NEW order \in Seq(Node)
  PROVE  \E pass \in [0..Len(order) -> ReadinessMap] :
           /\ pass[0] = st
           /\ \A i \in 1..Len(order) : pass[i] = Recomputed(g, pass[i - 1], order[i])
           /\ recompute_in_order(g, st, order) = pass[Len(order)]
<1> DEFINE m == Len(order)
           F == [p \in (1..m) \X ReadinessMap |-> Recomputed(g, p[2], order[p[1]])]
           body(f, i) == IF i = 0 THEN st
                         ELSE LET prev == f[i - 1]
                              IN [prev EXCEPT ![order[i]] = recompute_node(g, prev, order[i])]
           pass[i \in 0..Len(order)] ==
             IF i = 0 THEN st
             ELSE LET prev == pass[i - 1]
                  IN [prev EXCEPT ![order[i]] = recompute_node(g, prev, order[i])]
<1>1. m \in Nat /\ \A i \in 1..m : order[i] \in Node
  OBVIOUS
<1>2. F \in LoopStep(m, ReadinessMap)
  BY <1>1, RecomputeNodeType DEF LoopStep
<1>3. PICK f \in [0..m -> ReadinessMap] : IsRun(f, m, st, F)
  <2> HIDE DEF F, m, body, pass
  <2> QED BY <1>1, <1>2, LoopHasRun
<1>4. f = [i \in 0..m |-> body(f, i)]
  <2>1. ASSUME NEW i \in 0..m PROVE f[i] = body(f, i)
    <3>1. CASE i = 0
      BY <3>1, <1>3 DEF IsRun
    <3>2. CASE i # 0
      <4>1. i \in 1..m /\ i - 1 \in 0..m
        BY <3>2, <1>1
      <4>2. f[i] = Recomputed(g, f[i - 1], order[i])
        BY <4>1, <1>3 DEF IsRun
      <4> QED BY <4>2, <3>2 DEF Recomputed
    <3> QED BY <3>1, <3>2
  <2> HIDE DEF body
  <2> QED BY <2>1, <1>3
<1>5. pass = [i \in 0..Len(order) |-> body(pass, i)]
  BY <1>4, Zenon
<1>6. \A i \in 1..m : pass[i] = Recomputed(g, pass[i - 1], order[i])
  <2> TAKE i \in 1..m
  <2>1. i \in 0..Len(order) /\ i # 0
    BY <1>1
  <2> HIDE DEF pass
  <2>2. pass[i] = body(pass, i)
    <3> HIDE DEF body
    <3> QED BY <2>1, <1>5
  <2> QED BY <2>1, <2>2 DEF Recomputed
<1>7. pass[0] = st
  <2> HIDE DEF pass
  <2> QED BY <1>5, <1>1
<1> DEFINE T == {i \in 0..m : pass[i] \in ReadinessMap}
<1>8. \A i \in 0..m : i \in T
  <2> HIDE DEF pass, m
  <2>1. 0 \in T
    BY <1>1, <1>7
  <2>2. ASSUME NEW i \in 1..m, i - 1 \in T PROVE i \in T
    BY <1>6, <2>2, <1>1, RecomputeNodeType
  <2> HIDE DEF T
  <2> QED BY <1>1, <2>1, <2>2, UpTo
<1>9. pass \in [0..m -> ReadinessMap]
  <2>1. pass = [i \in 0..m |-> body(pass, i)]
    BY <1>5
  <2> HIDE DEF pass, m, body
  <2> QED BY <1>8, <2>1
<1>10. recompute_in_order(g, st, order) = pass[m]
  BY Zenon DEF recompute_in_order
<1> HIDE DEF pass
<1> QED BY <1>6, <1>7, <1>9, <1>10

(***************************************************************************)
(* A recomputation pass ends in X if its first turn (if there is one)      *)
(* leads into X and X is closed under recompute_node.                      *)
(***************************************************************************)
LEMMA RecomputeInOrderLeadsTo ==
  ASSUME NEW g, NEW st \in ReadinessMap, NEW order \in Seq(Node),
         NEW X \in SUBSET ReadinessMap,
         IF order = <<>> THEN st \in X ELSE Recomputed(g, st, order[1]) \in X,
         \A s \in X, n \in Node : Recomputed(g, s, n) \in X
  PROVE  recompute_in_order(g, st, order) \in X
<1> DEFINE m == Len(order)
<1>1. m \in Nat /\ \A i \in 1..m : order[i] \in Node
  OBVIOUS
<1>2. PICK pass \in [0..m -> ReadinessMap] :
        /\ pass[0] = st
        /\ \A i \in 1..m : pass[i] = Recomputed(g, pass[i - 1], order[i])
        /\ recompute_in_order(g, st, order) = pass[m]
  BY RecomputeRun
<1> DEFINE T == {i \in 0..m : i = 0 \/ pass[i] \in X}
<1>3. \A i \in 0..m : i \in T
  <2>1. 0 \in T
    BY <1>1
  <2>2. ASSUME NEW i \in 1..m, i - 1 \in T PROVE i \in T
    <3>1. CASE i = 1
      <4>1. order # <<>>
        OBVIOUS
      <4>2. pass[1] = Recomputed(g, st, order[1])
        BY <3>1, <1>2
      <4> QED BY <3>1, <4>1, <4>2
    <3>2. CASE i # 1
      <4>1. pass[i - 1] \in X
        BY <2>2, <3>2
      <4> QED BY <4>1, <1>1, <1>2
    <3> QED BY <3>1, <3>2
  <2> HIDE DEF T, m
  <2> QED BY <1>1, <2>1, <2>2, UpTo
<1>4. CASE order = <<>>
  BY <1>2, <1>4
<1>5. CASE order # <<>>
  <2>1. m # 0
    BY <1>5
  <2> QED BY <2>1, <1>1, <1>2, <1>3
<1> QED BY <1>4, <1>5

-----------------------------------------------------------------------------
(* The orders of a recomputation are sequences of nodes. *)

\* What the traversals rely on: index entries are edge ids, consumers nodes.
GraphShape(g) ==
  /\ DOMAIN g.nodes \subseteq Node
  /\ DOMAIN g.edges \subseteq EdgeId
  /\ g.out \in [Node -> Seq(EdgeId)]
  /\ \A x \in DOMAIN g.edges : g.edges[x].consumer \in Node

\* Queues of nodes that start with root.
QueueFrom(root) == {q \in Seq(Node) : q # <<>> /\ q[1] = root}

\* Appending a node keeps the queue one that starts at its root.
LEMMA AppendToQueue ==
  ASSUME NEW root, NEW q \in QueueFrom(root), NEW n \in Node
  PROVE  Append(q, n) \in QueueFrom(root)
<1>1. q \in Seq(Node) /\ q # <<>> /\ q[1] = root
  BY DEF QueueFrom
<1>2. Len(q) \in Nat /\ Len(q) >= 1
  BY <1>1
<1>3. Append(q, n) \in Seq(Node) /\ Append(q, n) # <<>> /\ Append(q, n)[1] = q[1]
  BY <1>1, <1>2
<1> QED BY <1>1, <1>3 DEF QueueFrom

\* One turn of the breadth-first loop keeps a queue that starts with root.
LEMMA EnqueueType ==
  ASSUME NEW g, GraphShape(g), NEW root \in Node, NEW queue \in QueueFrom(root),
         NEW cur \in Node
  PROVE  enqueue_consumers(g, queue, cur) \in QueueFrom(root)
<1> DEFINE entry == g.out[cur]
           m == Len(entry)
           X == QueueFrom(root)
           step(seen, j) == IF /\ Followed(g, entry[j])
                               /\ g.edges[entry[j]].consumer \notin Range(seen)
                            THEN Append(seen, g.edges[entry[j]].consumer)
                            ELSE seen
           F == [p \in (1..m) \X X |-> step(p[2], p[1])]
           body(f, j) == IF j = 0 THEN queue ELSE step(f[j - 1], j)
           scan[j \in 0..Len(entry)] ==
             IF j = 0 THEN queue
             ELSE LET seen == scan[j - 1]
                  IN IF /\ Followed(g, entry[j])
                        /\ g.edges[entry[j]].consumer \notin Range(seen)
                     THEN Append(seen, g.edges[entry[j]].consumer)
                     ELSE seen
<1>1. m \in Nat
  BY DEF GraphShape
<1>2. ASSUME NEW q \in X, NEW j PROVE step(q, j) \in X
  <2>1. CASE Followed(g, entry[j])
    <3>1. g.edges[entry[j]].consumer \in Node
      BY <2>1 DEF Followed, GraphShape
    <3> QED BY <3>1, AppendToQueue
  <2>2. CASE ~Followed(g, entry[j])
    BY <2>2
  <2> QED BY <2>1, <2>2
<1>3. F \in LoopStep(m, X)
  <2> HIDE DEF step, X, m
  <2> QED BY <1>2 DEF LoopStep
<1>4. PICK f \in [0..m -> X] : IsRun(f, m, queue, F)
  <2> HIDE DEF F, m, X, step, body, scan, entry
  <2>1. queue \in X
    BY DEF X
  <2> QED BY <1>1, <1>3, <2>1, LoopHasRun
<1>5. f = [j \in 0..m |-> body(f, j)]
  <2>1. ASSUME NEW j \in 0..m PROVE f[j] = body(f, j)
    <3>1. CASE j = 0
      BY <3>1, <1>4 DEF IsRun
    <3>2. CASE j # 0
      <4>1. j \in 1..m /\ j - 1 \in 0..m
        BY <3>2, <1>1
      <4>2. f[j] = step(f[j - 1], j)
        <5> HIDE DEF step, X, m
        <5> QED BY <4>1, <1>4 DEF IsRun
      <4> HIDE DEF step
      <4> QED BY <3>2, <4>2
    <3> QED BY <3>1, <3>2
  <2> HIDE DEF body, m, X
  <2> QED BY <2>1, <1>4
<1>6. scan = [j \in 0..Len(entry) |-> body(scan, j)]
  BY <1>5, Zenon
<1> DEFINE T == {j \in 0..m : scan[j] \in X}
<1>7. \A j \in 0..m : j \in T
  <2>1. 0 \in T
    <3>1. scan[0] = queue
      <4> HIDE DEF scan
      <4> QED BY <1>6, <1>1
    <3> HIDE DEF scan
    <3> QED BY <1>1, <3>1
  <2>2. ASSUME NEW j \in 1..m, j - 1 \in T PROVE j \in T
    <3>1. scan[j] = step(scan[j - 1], j)
      <4> HIDE DEF scan
      <4>1. scan[j] = body(scan, j)
        <5> HIDE DEF body
        <5> QED BY <1>6, <1>1
      <4> QED BY <4>1
    <3> HIDE DEF scan, step, X, m
    <3> QED BY <3>1, <2>2, <1>2, <1>1
  <2> HIDE DEF T, m
  <2> QED BY <1>1, <2>1, <2>2, UpTo
<1>8. scan[m] \in X
  <2> HIDE DEF scan, X, m
  <2> QED BY <1>7, <1>1
<1> QED BY <1>8, Zenon DEF enqueue_consumers

\* The order of recompute_closure is a sequence of nodes that starts with root.
LEMMA ClosureOrderType ==
  ASSUME NEW g, GraphShape(g), NEW root \in Node
  PROVE  closure_order(g, root) \in QueueFrom(root)
<1> DEFINE m == Cardinality(Node)
           X == QueueFrom(root)
           step(queue, k) == IF k <= Len(queue) THEN enqueue_consumers(g, queue, queue[k])
                             ELSE queue
           F == [p \in (1..m) \X X |-> step(p[2], p[1])]
           body(f, k) == IF k = 0 THEN <<root>> ELSE step(f[k - 1], k)
           turn[k \in 0..Cardinality(Node)] ==
             IF k = 0 THEN <<root>>
             ELSE LET queue == turn[k - 1]
                  IN IF k <= Len(queue) THEN enqueue_consumers(g, queue, queue[k])
                     ELSE queue
<1>1. m \in Nat
  BY FiniteAssumption, FS_CardinalityType
<1>2. ASSUME NEW q \in X, NEW k \in 1..m PROVE step(q, k) \in X
  <2>1. CASE k <= Len(q)
    <3>1. q[k] \in Node
      BY <2>1 DEF QueueFrom
    <3>2. enqueue_consumers(g, q, q[k]) \in QueueFrom(root)
      BY <3>1, EnqueueType
    <3> QED BY <2>1, <3>2
  <2>2. CASE ~(k <= Len(q))
    BY <2>2
  <2> QED BY <2>1, <2>2
<1>3. F \in LoopStep(m, X)
  <2> HIDE DEF step, X, m
  <2> QED BY <1>2 DEF LoopStep
<1>4. <<root>> \in X
  BY DEF QueueFrom
<1>5. PICK f \in [0..m -> X] : IsRun(f, m, <<root>>, F)
  <2> HIDE DEF F, m, X, step, body, turn
  <2> QED BY <1>1, <1>3, <1>4, LoopHasRun
<1>6. f = [k \in 0..m |-> body(f, k)]
  <2>1. ASSUME NEW k \in 0..m PROVE f[k] = body(f, k)
    <3>1. CASE k = 0
      BY <3>1, <1>5 DEF IsRun
    <3>2. CASE k # 0
      <4>1. k \in 1..m /\ k - 1 \in 0..m
        BY <3>2, <1>1
      <4>2. f[k] = step(f[k - 1], k)
        <5> HIDE DEF step, X, m
        <5> QED BY <4>1, <1>5 DEF IsRun
      <4> HIDE DEF step
      <4> QED BY <3>2, <4>2
    <3> QED BY <3>1, <3>2
  <2> HIDE DEF body, m, X
  <2> QED BY <2>1, <1>5
<1>7. turn = [k \in 0..Cardinality(Node) |-> body(turn, k)]
  BY <1>6, Zenon
<1> DEFINE T == {k \in 0..m : turn[k] \in X}
<1>8. \A k \in 0..m : k \in T
  <2>1. 0 \in T
    <3>1. turn[0] = <<root>>
      <4> HIDE DEF turn
      <4> QED BY <1>7, <1>1
    <3> HIDE DEF turn, X
    <3> QED BY <1>1, <1>4, <3>1
  <2>2. ASSUME NEW k \in 1..m, k - 1 \in T PROVE k \in T
    <3>1. turn[k] = step(turn[k - 1], k)
      <4> HIDE DEF turn
      <4>1. turn[k] = body(turn, k)
        <5> HIDE DEF body
        <5> QED BY <1>7, <1>1
      <4> QED BY <4>1
    <3> HIDE DEF turn, step, X, m
    <3> QED BY <3>1, <2>2, <1>2, <1>1
  <2> HIDE DEF T, m
  <2> QED BY <1>1, <2>1, <2>2, UpTo
<1>9. turn[m] \in X
  <2> HIDE DEF turn, X, m
  <2> QED BY <1>8, <1>1
<1> QED BY <1>9, Zenon DEF closure_order

\* Appending adds one element to the range.
LEMMA RangeAppend ==
  ASSUME NEW E, NEW q \in Seq(E), NEW x \in E
  PROVE  Range(Append(q, x)) = Range(q) \cup {x}
<1>1. DOMAIN Append(q, x) = (DOMAIN q) \cup {Len(q) + 1}
  OBVIOUS
<1>2. \A j \in DOMAIN q : Append(q, x)[j] = q[j]
  OBVIOUS
<1>3. Append(q, x)[Len(q) + 1] = x
  OBVIOUS
<1> QED BY <1>1, <1>2, <1>3 DEF Range

\* Appending a new element keeps a sequence free of repetitions.
LEMMA AppendDistinct ==
  ASSUME NEW E, NEW q \in Seq(E), NEW x \in E, IsInjective(q), x \notin Range(q)
  PROVE  IsInjective(Append(q, x))
<1>1. DOMAIN Append(q, x) = (DOMAIN q) \cup {Len(q) + 1}
  OBVIOUS
<1>2. \A j \in DOMAIN q : Append(q, x)[j] = q[j] /\ q[j] # x
  BY DEF Range
<1>3. Append(q, x)[Len(q) + 1] = x
  OBVIOUS
<1> QED BY <1>1, <1>2, <1>3 DEF IsInjective

\* One turn of the loop of Keep.
KeepOne(kept, x, S) == IF x \in S THEN Append(kept, x) ELSE kept

\* The run of the loop of Keep.
LEMMA KeepRun ==
  ASSUME NEW E, NEW s \in Seq(E), NEW S
  PROVE  \E keep \in [0..Len(s) -> Seq(E)] :
           /\ keep[0] = <<>>
           /\ \A i \in 1..Len(s) : keep[i] = KeepOne(keep[i - 1], s[i], S)
           /\ Keep(s, S) = keep[Len(s)]
<1> DEFINE m == Len(s)
           X == Seq(E)
           step(kept, i) == IF s[i] \in S THEN Append(kept, s[i]) ELSE kept
           F == [p \in (1..m) \X X |-> step(p[2], p[1])]
           body(f, i) == IF i = 0 THEN <<>> ELSE step(f[i - 1], i)
           keep[i \in 0..Len(s)] ==
             IF i = 0 THEN <<>>
             ELSE LET kept == keep[i - 1]
                  IN IF s[i] \in S THEN Append(kept, s[i]) ELSE kept
<1>1. m \in Nat
  OBVIOUS
<1>2. ASSUME NEW q \in X, NEW i \in 1..m PROVE step(q, i) \in X
  OBVIOUS
<1>3. F \in LoopStep(m, X)
  <2> HIDE DEF step, X, m
  <2> QED BY <1>2 DEF LoopStep
<1>4. <<>> \in X
  OBVIOUS
<1>5. PICK f \in [0..m -> X] : IsRun(f, m, <<>>, F)
  <2> HIDE DEF F, m, X, step, body, keep
  <2> QED BY <1>1, <1>3, <1>4, LoopHasRun
<1>6. f = [i \in 0..m |-> body(f, i)]
  <2>1. ASSUME NEW i \in 0..m PROVE f[i] = body(f, i)
    <3>1. CASE i = 0
      BY <3>1, <1>5 DEF IsRun
    <3>2. CASE i # 0
      <4>1. i \in 1..m /\ i - 1 \in 0..m
        BY <3>2, <1>1
      <4>2. f[i] = step(f[i - 1], i)
        <5> HIDE DEF step, X, m
        <5> QED BY <4>1, <1>5 DEF IsRun
      <4> HIDE DEF step
      <4> QED BY <3>2, <4>2
    <3> QED BY <3>1, <3>2
  <2> HIDE DEF body, m, X
  <2> QED BY <2>1, <1>5
<1>7. keep = [i \in 0..Len(s) |-> body(keep, i)]
  BY <1>6, Zenon
<1>8. keep[0] = <<>>
  <2> HIDE DEF keep
  <2> QED BY <1>7, <1>1
<1>9. \A i \in 1..m : keep[i] = step(keep[i - 1], i)
  <2> TAKE i \in 1..m
  <2> HIDE DEF keep
  <2>1. i \in 0..Len(s) /\ i # 0
    BY <1>1
  <2>2. keep[i] = body(keep, i)
    <3> HIDE DEF body
    <3> QED BY <2>1, <1>7
  <2> HIDE DEF step
  <2> QED BY <2>1, <2>2
<1> DEFINE T == {i \in 0..m : keep[i] \in X}
<1>10. \A i \in 0..m : i \in T
  <2> HIDE DEF keep, step, X, m
  <2>1. 0 \in T
    BY <1>1, <1>4, <1>8
  <2>2. ASSUME NEW i \in 1..m, i - 1 \in T PROVE i \in T
    BY <1>9, <2>2, <1>2, <1>1
  <2> HIDE DEF T
  <2> QED BY <1>1, <2>1, <2>2, UpTo
<1>11. keep \in [0..m -> X]
  <2>1. keep = [i \in 0..m |-> body(keep, i)]
    BY <1>7
  <2> HIDE DEF keep, X, m, body
  <2> QED BY <1>10, <2>1
<1>12. Keep(s, S) = keep[m]
  BY Zenon DEF Keep
<1>13. \A q, i : step(q, i) = KeepOne(q, s[i], S)
  BY DEF KeepOne
<1> HIDE DEF keep, step
<1>14. \A i \in 1..m : keep[i] = KeepOne(keep[i - 1], s[i], S)
  BY <1>9, <1>13
<1> QED BY <1>8, <1>11, <1>12, <1>14

(***************************************************************************)
(* Keep(s, S) is a sequence of elements of s that lie in S, and no such    *)
(* element is lost; it repeats none unless s does.                         *)
(***************************************************************************)
LEMMA KeepProperties ==
  ASSUME NEW E, NEW s \in Seq(E), NEW S
  PROVE  /\ Keep(s, S) \in Seq(E)
         /\ Range(Keep(s, S)) = Range(s) \cap S
         /\ IsInjective(s) => IsInjective(Keep(s, S))
<1> DEFINE m == Len(s)
           Prefix(i) == {s[j] : j \in 1..i}
<1>1. m \in Nat
  OBVIOUS
<1>2. PICK keep \in [0..m -> Seq(E)] :
        /\ keep[0] = <<>>
        /\ \A i \in 1..m : keep[i] = KeepOne(keep[i - 1], s[i], S)
        /\ Keep(s, S) = keep[m]
  BY KeepRun
<1> DEFINE T == {i \in 0..m : /\ Range(keep[i]) = Prefix(i) \cap S
                              /\ IsInjective(s) => IsInjective(keep[i])}
<1>3. \A i \in 0..m : i \in T
  <2>1. 0 \in T
    <3>1. Range(<<>>) = {} /\ Prefix(0) = {} /\ IsInjective(<<>>)
      BY DEF Range, IsInjective
    <3> QED BY <1>1, <1>2, <3>1
  <2>2. ASSUME NEW i \in 1..m, i - 1 \in T PROVE i \in T
    <3>1. i - 1 \in 0..m /\ i \in 0..m
      BY <1>1
    <3>2. keep[i - 1] \in Seq(E) /\ keep[i] = KeepOne(keep[i - 1], s[i], S) /\ s[i] \in E
      BY <1>2, <3>1
    <3>3. Prefix(i) = Prefix(i - 1) \cup {s[i]}
      <4>1. 1..i = (1..(i - 1)) \cup {i}
        BY <1>1
      <4> HIDE DEF m
      <4> QED BY <4>1
    <3>4. IsInjective(s) => s[i] \notin Prefix(i - 1)
      BY DEF IsInjective
    <3> HIDE DEF Prefix
    <3>5. CASE s[i] \in S
      <4>1. keep[i] = Append(keep[i - 1], s[i])
        BY <3>2, <3>5 DEF KeepOne
      <4>2. Range(keep[i]) = Range(keep[i - 1]) \cup {s[i]}
        BY <3>2, <4>1, RangeAppend
      <4>3. IsInjective(s) => IsInjective(keep[i])
        BY <2>2, <3>2, <3>4, <4>1, AppendDistinct
      <4> QED BY <2>2, <3>1, <3>3, <3>5, <4>2, <4>3
    <3>6. CASE s[i] \notin S
      BY <2>2, <3>1, <3>2, <3>3, <3>6 DEF KeepOne
    <3> QED BY <3>5, <3>6
  <2> HIDE DEF T, m
  <2> QED BY <1>1, <2>1, <2>2, UpTo
<1>4. Prefix(m) = Range(s)
  BY DEF Range
<1> HIDE DEF Prefix
<1>5. m \in T
  BY <1>1, <1>3
<1> QED BY <1>1, <1>2, <1>4, <1>5

\* The in-degrees and the queue of Kahn's algorithm.
Work(g) == [indeg : [DOMAIN g.nodes -> Int], queue : Seq(Node)]

\* One turn of the loop over the index entries: the entry x is released.
ReleaseOne(g, w, x) ==
  IF ~Followed(g, x) THEN w
  ELSE LET c == g.edges[x].consumer
           left == w.indeg[c] - 1
       IN [indeg |-> [w.indeg EXCEPT ![c] = left],
           queue |-> IF left = 0 THEN Append(w.queue, c) ELSE w.queue]

\* The run of the loop over the index entries of a node.
LEMMA ReleaseRun ==
  ASSUME NEW g, GraphShape(g), NEW work \in Work(g), NEW cur \in Node
  PROVE  \E scan \in [0..Len(g.out[cur]) -> Work(g)] :
           /\ scan[0] = work
           /\ \A j \in 1..Len(g.out[cur]) : scan[j] = ReleaseOne(g, scan[j - 1], g.out[cur][j])
           /\ release_consumers(g, work, cur) = scan[Len(g.out[cur])]
<1> DEFINE entry == g.out[cur]
           m == Len(entry)
           X == Work(g)
           step(w, j) ==
             IF ~Followed(g, entry[j]) THEN w
             ELSE LET c == g.edges[entry[j]].consumer
                      left == w.indeg[c] - 1
                  IN [indeg |-> [w.indeg EXCEPT ![c] = left],
                      queue |-> IF left = 0 THEN Append(w.queue, c) ELSE w.queue]
           F == [p \in (1..m) \X X |-> step(p[2], p[1])]
           body(f, j) == IF j = 0 THEN work ELSE step(f[j - 1], j)
           scan[j \in 0..Len(entry)] ==
             IF j = 0 THEN work
             ELSE LET w == scan[j - 1]
                  IN IF ~Followed(g, entry[j]) THEN w
                     ELSE LET c == g.edges[entry[j]].consumer
                              left == w.indeg[c] - 1
                          IN [indeg |-> [w.indeg EXCEPT ![c] = left],
                              queue |-> IF left = 0 THEN Append(w.queue, c) ELSE w.queue]
<1>1. m \in Nat
  BY DEF GraphShape
<1>2. ASSUME NEW w \in X, NEW j PROVE step(w, j) \in X
  <2>1. CASE Followed(g, entry[j])
    <3> DEFINE c == g.edges[entry[j]].consumer
               left == w.indeg[c] - 1
               indeg == [w.indeg EXCEPT ![c] = left]
               queue == IF left = 0 THEN Append(w.queue, c) ELSE w.queue
    <3>1. c \in Node
      BY <2>1 DEF Followed, GraphShape
    <3>2. indeg \in [DOMAIN g.nodes -> Int]
      <4>1. w.indeg \in [DOMAIN g.nodes -> Int]
        BY DEF Work
      <4>2. CASE c \in DOMAIN g.nodes
        <5>1. left \in Int
          BY <4>1, <4>2
        <5> QED BY <4>1, <5>1
      <4>3. CASE c \notin DOMAIN g.nodes
        BY <4>1, <4>3
      <4> QED BY <4>2, <4>3
    <3>3. queue \in Seq(Node)
      <4>1. w.queue \in Seq(Node)
        BY DEF Work
      <4> HIDE DEF c
      <4> QED BY <3>1, <4>1
    <3>4. step(w, j) = [indeg |-> indeg, queue |-> queue]
      BY <2>1
    <3> HIDE DEF indeg, queue, step
    <3> QED BY <3>2, <3>3, <3>4 DEF Work
  <2>2. CASE ~Followed(g, entry[j])
    BY <2>2
  <2> QED BY <2>1, <2>2
<1>3. F \in LoopStep(m, X)
  <2> HIDE DEF step, X, m
  <2> QED BY <1>2 DEF LoopStep
<1>4. PICK f \in [0..m -> X] : IsRun(f, m, work, F)
  <2>1. work \in X
    OBVIOUS
  <2> HIDE DEF F, m, X, step, body, scan, entry
  <2> QED BY <1>1, <1>3, <2>1, LoopHasRun
<1>5. f = [j \in 0..m |-> body(f, j)]
  <2>1. ASSUME NEW j \in 0..m PROVE f[j] = body(f, j)
    <3>1. CASE j = 0
      BY <3>1, <1>4 DEF IsRun
    <3>2. CASE j # 0
      <4>1. j \in 1..m /\ j - 1 \in 0..m
        BY <3>2, <1>1
      <4>2. f[j] = step(f[j - 1], j)
        <5> HIDE DEF step, X, m
        <5> QED BY <4>1, <1>4 DEF IsRun
      <4> HIDE DEF step
      <4> QED BY <3>2, <4>2
    <3> QED BY <3>1, <3>2
  <2> HIDE DEF body, m, X
  <2> QED BY <2>1, <1>4
<1>6. scan = [j \in 0..Len(entry) |-> body(scan, j)]
  BY <1>5, Zenon
<1>7. scan[0] = work
  <2> HIDE DEF scan
  <2>1. 0 \in 0..Len(entry)
    BY <1>1
  <2>2. scan[0] = body(scan, 0)
    <3> HIDE DEF body
    <3> QED BY <2>1, <1>6
  <2> HIDE DEF step
  <2> QED BY <2>2
<1>8. \A j \in 1..m : scan[j] = step(scan[j - 1], j)
  <2> TAKE j \in 1..m
  <2> HIDE DEF scan
  <2>1. j \in 0..Len(entry) /\ j # 0
    BY <1>1
  <2>2. scan[j] = body(scan, j)
    <3> HIDE DEF body
    <3> QED BY <2>1, <1>6
  <2> HIDE DEF step
  <2> QED BY <2>1, <2>2
<1> DEFINE T == {j \in 0..m : scan[j] \in X}
<1>9. \A j \in 0..m : j \in T
  <2> HIDE DEF scan, step, X, m
  <2>1. 0 \in T
    BY <1>1, <1>7 DEF X
  <2>2. ASSUME NEW j \in 1..m, j - 1 \in T PROVE j \in T
    BY <1>8, <2>2, <1>2, <1>1
  <2> HIDE DEF T
  <2> QED BY <1>1, <2>1, <2>2, UpTo
<1>10. scan \in [0..m -> X]
  <2>1. scan = [j \in 0..m |-> body(scan, j)]
    BY <1>6
  <2> HIDE DEF scan, X, m, body
  <2> QED BY <1>9, <2>1
<1>11. release_consumers(g, work, cur) = scan[m]
  BY Zenon DEF release_consumers
<1>12. \A w, j : step(w, j) = ReleaseOne(g, w, entry[j])
  BY DEF ReleaseOne
<1> HIDE DEF scan, step, X
<1>13. \A j \in 1..m : scan[j] = ReleaseOne(g, scan[j - 1], entry[j])
  BY <1>8, <1>12
<1> QED BY <1>7, <1>10, <1>11, <1>13 DEF X

\* Releasing the consumers of a node queues nodes only.
LEMMA ReleaseType ==
  ASSUME NEW g, GraphShape(g), NEW work \in Work(g), NEW cur \in Node
  PROVE  release_consumers(g, work, cur) \in Work(g)
<1>1. Len(g.out[cur]) \in Nat
  BY DEF GraphShape
<1>2. PICK scan \in [0..Len(g.out[cur]) -> Work(g)] :
        release_consumers(g, work, cur) = scan[Len(g.out[cur])]
  BY ReleaseRun
<1> QED BY <1>1, <1>2

\* The work Kahn's loop starts with, and one turn of the loop.
KahnStart(g, listing) ==
  [indeg |-> InDegree(g), queue |-> Keep(listing, {n \in DOMAIN InDegree(g) : InDegree(g)[n] = 0})]
KahnTurn(g, w, k) ==
  IF k <= Len(w.queue) THEN release_consumers(g, w, w.queue[k]) ELSE w

\* The run of Kahn's loop.
LEMMA KahnRun ==
  ASSUME NEW g, GraphShape(g), NEW listing \in Seq(Node)
  PROVE  \E turn \in [0..Cardinality(Node) -> Work(g)] :
           /\ turn[0] = KahnStart(g, listing)
           /\ \A k \in 1..Cardinality(Node) : turn[k] = KahnTurn(g, turn[k - 1], k)
           /\ kahn_queue(g, listing) = turn[Cardinality(Node)].queue
<1> DEFINE m == Cardinality(Node)
           X == Work(g)
           indeg == InDegree(g)
           sources == Keep(listing, {n \in DOMAIN indeg : indeg[n] = 0})
           x0 == [indeg |-> indeg, queue |-> sources]
           step(work, k) == IF k <= Len(work.queue)
                            THEN release_consumers(g, work, work.queue[k])
                            ELSE work
           F == [p \in (1..m) \X X |-> step(p[2], p[1])]
           body(f, k) == IF k = 0 THEN x0 ELSE step(f[k - 1], k)
           turn[k \in 0..Cardinality(Node)] ==
             IF k = 0 THEN [indeg |-> indeg, queue |-> sources]
             ELSE LET work == turn[k - 1]
                  IN IF k <= Len(work.queue) THEN release_consumers(g, work, work.queue[k])
                     ELSE work
<1>1. m \in Nat
  BY FiniteAssumption, FS_CardinalityType
<1>2. ASSUME NEW w \in X, NEW k \in 1..m PROVE step(w, k) \in X
  <2>1. CASE k <= Len(w.queue)
    <3>1. w.queue \in Seq(Node)
      BY DEF Work
    <3>2. w.queue[k] \in Node
      BY <2>1, <3>1
    <3>3. release_consumers(g, w, w.queue[k]) \in Work(g)
      BY <3>2, ReleaseType
    <3> QED BY <2>1, <3>3
  <2>2. CASE ~(k <= Len(w.queue))
    BY <2>2
  <2> QED BY <2>1, <2>2
<1>3. F \in LoopStep(m, X)
  <2> HIDE DEF step, X, m
  <2> QED BY <1>2 DEF LoopStep
<1>4. x0 \in X
  <2>1. indeg \in [DOMAIN g.nodes -> Int]
    <3> DEFINE E(n) == {e \in DOMAIN g.edges : g.edges[e].active /\ g.edges[e].consumer = n}
    <3>1. ASSUME NEW n PROVE Cardinality(E(n)) \in Nat
      <4>1. E(n) \subseteq EdgeId
        BY DEF GraphShape
      <4> HIDE DEF E
      <4>2. IsFiniteSet(E(n))
        BY <4>1, FiniteAssumption, FS_Subset
      <4> QED BY <4>2, FS_CardinalityType
    <3>2. indeg = [n \in DOMAIN g.nodes |-> Cardinality(E(n))]
      BY DEF InDegree
    <3> HIDE DEF E, indeg
    <3> QED BY <3>1, <3>2
  <2>2. sources \in Seq(Node)
    <3> HIDE DEF indeg
    <3> QED BY KeepProperties
  <2> HIDE DEF indeg, sources
  <2> QED BY <2>1, <2>2 DEF Work
<1>5. PICK f \in [0..m -> X] : IsRun(f, m, x0, F)
  <2> HIDE DEF F, m, X, step, body, turn, x0
  <2> QED BY <1>1, <1>3, <1>4, LoopHasRun
<1>6. f = [k \in 0..m |-> body(f, k)]
  <2>1. ASSUME NEW k \in 0..m PROVE f[k] = body(f, k)
    <3> HIDE DEF x0
    <3>1. CASE k = 0
      BY <3>1, <1>5 DEF IsRun
    <3>2. CASE k # 0
      <4>1. k \in 1..m /\ k - 1 \in 0..m
        BY <3>2, <1>1
      <4>2. f[k] = step(f[k - 1], k)
        <5> HIDE DEF step, X, m
        <5> QED BY <4>1, <1>5 DEF IsRun
      <4> HIDE DEF step
      <4> QED BY <3>2, <4>2
    <3> QED BY <3>1, <3>2
  <2> HIDE DEF body, m, X
  <2> QED BY <2>1, <1>5
<1>7. turn = [k \in 0..Cardinality(Node) |-> body(turn, k)]
  <2> HIDE DEF indeg, sources
  <2> QED BY <1>6, Zenon
<1>8. turn[0] = x0
  <2>1. 0 \in 0..Cardinality(Node)
    BY <1>1
  <2> HIDE DEF turn, x0
  <2>2. turn[0] = body(turn, 0)
    <3> HIDE DEF body
    <3> QED BY <2>1, <1>7
  <2> HIDE DEF step
  <2> QED BY <2>2
<1>9. \A k \in 1..m : turn[k] = step(turn[k - 1], k)
  <2> TAKE k \in 1..m
  <2> HIDE DEF turn
  <2>1. k \in 0..Cardinality(Node) /\ k # 0
    BY <1>1
  <2>2. turn[k] = body(turn, k)
    <3> HIDE DEF body
    <3> QED BY <2>1, <1>7
  <2> HIDE DEF step
  <2> QED BY <2>1, <2>2
<1> DEFINE T == {k \in 0..m : turn[k] \in X}
<1>10. \A k \in 0..m : k \in T
  <2> HIDE DEF turn, step, X, m, x0
  <2>1. 0 \in T
    BY <1>1, <1>4, <1>8
  <2>2. ASSUME NEW k \in 1..m, k - 1 \in T PROVE k \in T
    BY <1>9, <2>2, <1>2, <1>1
  <2> HIDE DEF T
  <2> QED BY <1>1, <2>1, <2>2, UpTo
<1>11. turn \in [0..m -> X]
  <2>1. turn = [k \in 0..m |-> body(turn, k)]
    BY <1>7
  <2> HIDE DEF turn, X, m, body
  <2> QED BY <1>10, <2>1
<1>12. kahn_queue(g, listing) = turn[Cardinality(Node)].queue
  BY Zenon DEF kahn_queue
<1>13. x0 = KahnStart(g, listing) /\ \A w, k : step(w, k) = KahnTurn(g, w, k)
  BY DEF KahnStart, KahnTurn
<1> HIDE DEF turn, step, x0, X
<1>14. \A k \in 1..m : turn[k] = KahnTurn(g, turn[k - 1], k)
  BY <1>9, <1>13
<1> QED BY <1>8, <1>11, <1>12, <1>13, <1>14 DEF X

\* Kahn's loop queues nodes only.
LEMMA KahnQueueType ==
  ASSUME NEW g, GraphShape(g), NEW listing \in Seq(Node)
  PROVE  kahn_queue(g, listing) \in Seq(Node)
<1>1. Cardinality(Node) \in Nat
  BY FiniteAssumption, FS_CardinalityType
<1>2. PICK turn \in [0..Cardinality(Node) -> Work(g)] :
        kahn_queue(g, listing) = turn[Cardinality(Node)].queue
  BY KahnRun
<1>3. turn[Cardinality(Node)] \in Work(g)
  BY <1>1, <1>2
<1> QED BY <1>2, <1>3 DEF Work

\* Neither do the nodes it never released, appended at the end.
LEMMA KahnOrderType ==
  ASSUME NEW g, GraphShape(g), NEW listing \in Seq(Node)
  PROVE  kahn_order(g, listing) \in Seq(Node)
<1> DEFINE queue == kahn_queue(g, listing)
           rest == Keep(listing, DOMAIN g.nodes \ Range(queue))
<1>1. queue \in Seq(Node)
  BY KahnQueueType
<1> HIDE DEF queue
<1>2. rest \in Seq(Node)
  BY KeepProperties
<1> HIDE DEF rest
<1>3. queue \o rest \in Seq(Node)
  BY <1>1, <1>2
<1> QED BY <1>3 DEF kahn_order, queue, rest

-----------------------------------------------------------------------------
(* The two recomputations, in the form the invariant proofs cite. *)

\* recompute_closure ends in X if recomputing the root leads into X.
LEMMA ClosureLeadsTo ==
  ASSUME NEW g, GraphShape(g), NEW st \in ReadinessMap, NEW root \in Node,
         NEW X \in SUBSET ReadinessMap,
         Recomputed(g, st, root) \in X,
         \A s \in X, n \in Node : Recomputed(g, s, n) \in X
  PROVE  recompute_closure(g, st, root) \in X
<1> DEFINE order == closure_order(g, root)
<1>1. order \in Seq(Node) /\ order # <<>> /\ order[1] = root
  BY ClosureOrderType DEF QueueFrom
<1>2. IF order = <<>> THEN st \in X ELSE Recomputed(g, st, order[1]) \in X
  BY <1>1
<1> HIDE DEF order
<1>3. recompute_in_order(g, st, order) \in X
  BY <1>1, <1>2, RecomputeInOrderLeadsTo
<1> QED BY <1>3 DEF recompute_closure, order

\* recompute_all stays in X.
LEMMA RecomputeAllLeadsTo ==
  ASSUME NEW g, GraphShape(g), NEW listing \in Seq(Node),
         NEW X \in SUBSET ReadinessMap, NEW st \in X,
         \A s \in X, n \in Node : Recomputed(g, s, n) \in X
  PROVE  recompute_all(g, st, listing) \in X
<1> DEFINE order == kahn_order(g, listing)
<1>1. order \in Seq(Node)
  BY KahnOrderType
<1> HIDE DEF order
<1>2. IF order = <<>> THEN st \in X ELSE Recomputed(g, st, order[1]) \in X
  BY <1>1
<1>3. recompute_in_order(g, st, order) \in X
  BY <1>1, <1>2, RecomputeInOrderLeadsTo
<1> QED BY <1>3 DEF recompute_all, order

-----------------------------------------------------------------------------
(* What a node may show, and why no recomputation breaks it. *)

\* n is UNKNOWN exactly while undeclared, and a gated node is not shown usable.
ShowsSound(g, st, n) ==
  /\ n \in DOMAIN g.nodes <=> st[n] # "UNKNOWN"
  /\ n \in DOMAIN g.nodes /\ Gated(g.nodes[n]) =>
       st[n] \in HeldState \cup {"REVALIDATION_REQUIRED"}

SoundMaps(g) == {s \in ReadinessMap : \A n \in Node : ShowsSound(g, s, n)}

\* Recomputing a declared node makes what it shows sound.
LEMMA RecomputedSound ==
  ASSUME NEW g, NEW st \in ReadinessMap, NEW root \in Node, root \in DOMAIN g.nodes,
         \A n \in Node \ {root} : ShowsSound(g, st, n)
  PROVE  Recomputed(g, st, root) \in SoundMaps(g)
<1> DEFINE new == recompute_node(g, st, root)
           s == Recomputed(g, st, root)
<1>1. s \in ReadinessMap
  BY RecomputeNodeType
<1>2. s[root] = new /\ \A n \in Node \ {root} : s[n] = st[n]
  BY DEF Recomputed, ReadinessMap
<1>3. new # "UNKNOWN" /\ (Gated(g.nodes[root]) => new \in HeldState \cup {"REVALIDATION_REQUIRED"})
  <2>1. Derived(g.nodes[root], Verdicts(g, st, root)) # "UNKNOWN"
    BY DEF Derived
  <2> QED BY <2>1 DEF recompute_node, HeldState
<1> HIDE DEF new, s
<1>4. \A n \in Node : ShowsSound(g, s, n)
  BY <1>2, <1>3 DEF ShowsSound
<1> QED BY <1>1, <1>4 DEF SoundMaps, s

\* Recomputation preserves soundness, whichever node it visits.
LEMMA SoundClosed ==
  ASSUME NEW g, NEW s \in SoundMaps(g), NEW n \in Node
  PROVE  Recomputed(g, s, n) \in SoundMaps(g)
<1>1. s \in ReadinessMap /\ \A x \in Node : ShowsSound(g, s, x)
  BY DEF SoundMaps
<1>2. CASE n \in DOMAIN g.nodes
  BY <1>1, <1>2, RecomputedSound
<1>3. CASE n \notin DOMAIN g.nodes
  <2>1. recompute_node(g, s, n) = s[n]
    BY <1>3 DEF recompute_node
  <2>2. Recomputed(g, s, n) = s
    BY <1>1, <2>1 DEF Recomputed, ReadinessMap
  <2> QED BY <2>2
<1> QED BY <1>2, <1>3

\* A mutation may leave only its root unsound before the recomputation.
LEMMA ClosureSound ==
  ASSUME NEW g, GraphShape(g), NEW st \in ReadinessMap, NEW root \in Node,
         root \in DOMAIN g.nodes,
         \A n \in Node \ {root} : ShowsSound(g, st, n)
  PROVE  recompute_closure(g, st, root) \in SoundMaps(g)
<1>1. SoundMaps(g) \in SUBSET ReadinessMap
  BY DEF SoundMaps
<1>2. Recomputed(g, st, root) \in SoundMaps(g)
  BY RecomputedSound
<1>3. \A s \in SoundMaps(g), n \in Node : Recomputed(g, s, n) \in SoundMaps(g)
  BY SoundClosed
<1> QED BY <1>1, <1>2, <1>3, ClosureLeadsTo

-----------------------------------------------------------------------------
(* The three ways a mutation commits. *)

\* The types of everything but the readiness map.
StructOK ==
  /\ epoch_ \in Epoch
  /\ DOMAIN sources_ \subseteq Source
  /\ sources_ \in [DOMAIN sources_ -> SourceRegistration]
  /\ DOMAIN nodes_ \subseteq Node
  /\ nodes_ \in [DOMAIN nodes_ -> NodeFacts]
  /\ DOMAIN edges_ \subseteq EdgeId
  /\ edges_ \in [DOMAIN edges_ -> Edge]
  /\ DOMAIN sets_ \subseteq SetId
  /\ sets_ \in [DOMAIN sets_ -> DependencySet]
  /\ out_edges_ \in [Node -> Seq(EdgeId)]
  /\ in_edges_ \in [Node -> SUBSET EdgeId]
  /\ adapter_ \in {<<>>} \cup {<<facts>> : facts \in Adapters}

ShapeOK == StructOK /\ state \in SoundMaps(graph)

\* The two halves of ShapeOK are the invariants TypeOK and GateHolds.
LEMMA ShapeMeaning == ShapeOK <=> TypeOK /\ GateHolds
<1>1. state \in SoundMaps(graph) <=>
        /\ state \in [Node -> ReadinessState]
        /\ \A n \in Node : n \in DOMAIN nodes_ <=> state[n] # "UNKNOWN"
        /\ \A n \in Node : n \in DOMAIN nodes_ /\ Gated(nodes_[n]) =>
                              state[n] \in HeldState \cup {"REVALIDATION_REQUIRED"}
  <2>1. graph.nodes = nodes_
    BY DEF graph
  <2> HIDE DEF graph
  <2> QED BY <2>1 DEF SoundMaps, ShowsSound, ReadinessMap
<1> QED BY <1>1 DEF ShapeOK, StructOK, TypeOK, GateHolds

\* Changing the facts of nodes and recomputing from a root.
LEMMA CommitNodesSound ==
  ASSUME ShapeOK,
         NEW nodes \in [DOMAIN nodes_ -> NodeFacts], NEW st \in ReadinessMap,
         NEW root \in DOMAIN nodes_,
         \A n \in Node \ {root} : st[n] = state[n],
         \A n \in DOMAIN nodes_ \ {root} : Gated(nodes[n]) => Gated(nodes_[n]),
         CommitNodes(nodes, st, root)
  PROVE  ShapeOK'
<1>1. state' = recompute_closure(graph', st, root)
  BY DEF CommitNodes
<1>2. graph'.nodes = nodes /\ graph'.edges = edges_ /\ graph'.out = out_edges_
  BY DEF CommitNodes, graph, structVars
<1>3. StructOK'
  BY DEF CommitNodes, StructOK, ShapeOK, authVars, structVars
<1>4. GraphShape(graph')
  <2> HIDE DEF graph
  <2> QED BY <1>2 DEF GraphShape, ShapeOK, StructOK, Edge
<1>5. \A n \in Node \ {root} : ShowsSound(graph', st, n)
  <2>1. graph.nodes = nodes_
    BY DEF graph
  <2> QED BY <1>2, <2>1 DEF ShapeOK, StructOK, SoundMaps, ShowsSound
<1>6. root \in Node /\ root \in DOMAIN graph'.nodes
  BY <1>2 DEF ShapeOK, StructOK
<1>7. recompute_closure(graph', st, root) \in SoundMaps(graph')
  BY <1>4, <1>5, <1>6, ClosureSound
<1> QED BY <1>1, <1>3, <1>7 DEF ShapeOK

\* A commit of edges or sets recomputes from the readiness map as it is.
LEMMA CommitStructureSound ==
  ASSUME ShapeOK, StructOK', nodes_' = nodes_,
         NEW root \in Node,
         state' = recompute_closure(graph', state, root)
  PROVE  ShapeOK'
<1>1. graph.nodes = nodes_ /\ graph'.nodes = nodes_ /\ graph'.edges = edges_'
      /\ graph'.out = out_edges_'
  BY DEF graph
<1>2. GraphShape(graph')
  BY <1>1 DEF GraphShape, StructOK, Edge
<1>3. state \in SoundMaps(graph')
  BY <1>1 DEF ShapeOK, SoundMaps, ShowsSound
<1>4. state \in ReadinessMap /\ SoundMaps(graph') \in SUBSET ReadinessMap
  BY <1>3 DEF SoundMaps
<1>5. \A s \in SoundMaps(graph'), n \in Node : Recomputed(graph', s, n) \in SoundMaps(graph')
  BY SoundClosed
<1>6. recompute_closure(graph', state, root) \in SoundMaps(graph')
  BY <1>2, <1>3, <1>4, <1>5, ClosureLeadsTo
<1> QED BY <1>6 DEF ShapeOK

-----------------------------------------------------------------------------
(* Every action preserves the types and the revalidation gate. *)

\* Storing a readiness state for one node keeps the map typed.
LEMMA StoreState ==
  ASSUME ShapeOK, NEW n \in DOMAIN nodes_, NEW s \in ReadinessState
  PROVE  /\ [state EXCEPT ![n] = s] \in ReadinessMap
         /\ \A m \in Node \ {n} : [state EXCEPT ![n] = s][m] = state[m]
BY DEF ShapeOK, StructOK, SoundMaps, ReadinessMap

\* register_source and declare_node.
LEMMA DeclareOpsSound ==
  ASSUME ShapeOK, NEW who \in Authority, DeclareOps(who)
  PROVE  ShapeOK'
<1>1. CASE register_source(who)
  <2>1. StructOK'
    BY <1>1 DEF register_source, ShapeOK, StructOK, structVars, Put, Authority,
                SourceRegistration
  <2>2. graph' = graph /\ state' = state
    BY <1>1 DEF register_source, graph, structVars
  <2> QED BY <2>1, <2>2 DEF ShapeOK
<1>2. ASSUME NEW d \in NodeDecls, declare_node(d, who) PROVE ShapeOK'
  <2> DEFINE facts == [kind |-> d.kind,
                       dynamic_evidence |-> ~d.static,
                       recovered_evidence |-> "UNKNOWN",
                       generation_history |-> <<>>,
                       current_generation |-> NoGeneration,
                       superseded_generations |-> {},
                       evidence |-> {},
                       ever_invalidated |-> FALSE,
                       origin |-> <<who.source, who.boot>>]
  <2>1. d \in NodeDecl
    BY <1>2, InputAssumption
  <2>2. facts \in NodeFacts /\ ~Gated(facts)
    BY <2>1 DEF NodeFacts, NodeDecl, Authority, Origin, DynamicEvidence, NoGeneration, Gated
  <2>3. nodes_' = Put(nodes_, d.id, facts) /\ state' = [state EXCEPT ![d.id] = "DECLARED"]
    BY <1>2 DEF declare_node
  <2> HIDE DEF facts
  <2>4. /\ DOMAIN nodes_' = DOMAIN nodes_ \cup {d.id}
        /\ nodes_'[d.id] = facts
        /\ \A n \in DOMAIN nodes_ \ {d.id} : nodes_'[n] = nodes_[n]
    BY <2>3 DEF Put
  <2>5. d.id \in Node
    BY <2>1 DEF NodeDecl
  <2>6. nodes_' \in [DOMAIN nodes_' -> NodeFacts]
    BY <2>2, <2>3, <2>4 DEF ShapeOK, StructOK, Put
  <2>7. StructOK'
    BY <1>2, <2>4, <2>5, <2>6 DEF ShapeOK, StructOK, declare_node, authVars, structVars
  <2>8. state' \in ReadinessMap
    BY <2>3 DEF ShapeOK, SoundMaps, ReadinessMap, ReadinessState
  <2>9. graph.nodes = nodes_ /\ graph'.nodes = nodes_'
    BY DEF graph
  <2>10. ASSUME NEW n \in Node PROVE ShowsSound(graph', state', n)
    <3>1. CASE n = d.id
      BY <3>1, <2>2, <2>3, <2>4, <2>9 DEF ShowsSound, ShapeOK, SoundMaps, ReadinessMap
    <3>2. CASE n # d.id
      BY <3>2, <2>3, <2>4, <2>9 DEF ShowsSound, ShapeOK, SoundMaps, ReadinessMap
    <3> QED BY <3>1, <3>2
  <2> QED BY <2>7, <2>8, <2>10 DEF ShapeOK, SoundMaps
<1> QED BY <1>1, <1>2 DEF DeclareOps

\* Both generation operations replace the facts of one node by these.
LEMMA WithGenerationType ==
  ASSUME NEW node \in NodeFacts, NEW superseded \in SUBSET Generation,
         NEW gen \in Generation, NEW who \in Authority
  PROVE  WithGeneration(node, superseded, gen, who) \in NodeFacts
<1>1. Append(node.generation_history, gen) \in Seq(Generation)
  BY DEF NodeFacts
<1>2. <<who.source, who.boot>> \in Origin
  BY DEF Authority, Origin
<1>3. node.superseded_generations \cup superseded \in SUBSET Generation
  BY DEF NodeFacts
<1> QED BY <1>1, <1>2, <1>3 DEF WithGeneration, NodeFacts, DynamicEvidence

\* publish_generation and supersede_generation.
LEMMA GenerationOpsSound ==
  ASSUME ShapeOK, NEW who \in Authority, GenerationOps(who)
  PROVE  ShapeOK'
<1>1. ASSUME NEW n \in DOMAIN nodes_, NEW superseded \in SUBSET Generation,
             NEW gen \in Generation,
             CommitNodes([nodes_ EXCEPT ![n] = WithGeneration(@, superseded, gen, who)],
                         [state EXCEPT ![n] = "PRESENT"], n)
      PROVE  ShapeOK'
  <2> DEFINE nodes == [nodes_ EXCEPT ![n] = WithGeneration(@, superseded, gen, who)]
             st == [state EXCEPT ![n] = "PRESENT"]
  <2>1. nodes_[n] \in NodeFacts
    BY DEF ShapeOK, StructOK
  <2>2. WithGeneration(nodes_[n], superseded, gen, who) \in NodeFacts
    BY <2>1, WithGenerationType
  <2>3. nodes \in [DOMAIN nodes_ -> NodeFacts]
        /\ \A m \in DOMAIN nodes_ \ {n} : nodes[m] = nodes_[m]
    BY <2>2 DEF ShapeOK, StructOK
  <2>4. "PRESENT" \in ReadinessState
    BY DEF ReadinessState
  <2>5. st \in ReadinessMap /\ \A m \in Node \ {n} : st[m] = state[m]
    BY <2>4, StoreState
  <2>6. CommitNodes(nodes, st, n)
    BY <1>1
  <2> HIDE DEF nodes, st
  <2> QED BY <2>3, <2>5, <2>6, CommitNodesSound
<1>2. ASSUME NEW n \in Node, NEW gen \in Generation, publish_generation(n, gen, who)
      PROVE  ShapeOK'
  <2> DEFINE prior == {nodes_[n].current_generation} \ {NoGeneration}
  <2>1. n \in DOMAIN nodes_
    BY <1>2 DEF publish_generation
  <2>2. nodes_[n] \in NodeFacts
    BY <2>1 DEF ShapeOK, StructOK
  <2>3. prior \in SUBSET Generation
    BY <2>2 DEF NodeFacts
  <2>4. CommitNodes([nodes_ EXCEPT ![n] = WithGeneration(@, prior, gen, who)],
                    [state EXCEPT ![n] = "PRESENT"], n)
    BY <1>2 DEF publish_generation
  <2> HIDE DEF prior
  <2> QED BY <2>1, <2>3, <2>4, <1>1
<1>3. ASSUME NEW n \in Node, NEW old_gen \in Generation, NEW new_gen \in Generation,
             supersede_generation(n, old_gen, new_gen, who)
      PROVE  ShapeOK'
  <2>1. n \in DOMAIN nodes_
    BY <1>3 DEF supersede_generation
  <2>2. CommitNodes([nodes_ EXCEPT ![n] = WithGeneration(@, {old_gen}, new_gen, who)],
                    [state EXCEPT ![n] = "PRESENT"], n)
    BY <1>3 DEF supersede_generation
  <2>3. {old_gen} \in SUBSET Generation
    OBVIOUS
  <2> QED BY <2>1, <2>2, <2>3, <1>1
<1> QED BY <1>2, <1>3 DEF GenerationOps

\* A commit that edits the facts of its root only, or of no node.
LEMMA CommitRootSound ==
  ASSUME ShapeOK, NEW n \in DOMAIN nodes_,
         NEW nodes \in [DOMAIN nodes_ -> NodeFacts],
         \A m \in DOMAIN nodes_ \ {n} : nodes[m] = nodes_[m],
         NEW s \in ReadinessState,
         CommitNodes(nodes, [state EXCEPT ![n] = s], n)
  PROVE  ShapeOK'
<1> DEFINE st == [state EXCEPT ![n] = s]
<1>1. st \in ReadinessMap /\ \A m \in Node \ {n} : st[m] = state[m]
  BY StoreState
<1>2. CommitNodes(nodes, st, n)
  OBVIOUS
<1> HIDE DEF st
<1> QED BY <1>1, <1>2, CommitNodesSound

\* Changing the facts of the root alone.
LEMMA CommitRootFactsSound ==
  ASSUME ShapeOK, NEW n \in DOMAIN nodes_,
         NEW nodes \in [DOMAIN nodes_ -> NodeFacts],
         \A m \in DOMAIN nodes_ \ {n} : nodes[m] = nodes_[m],
         CommitNodes(nodes, state, n)
  PROVE  ShapeOK'
<1>1. state \in ReadinessMap
  BY DEF ShapeOK, SoundMaps
<1> QED BY <1>1, CommitNodesSound

\* A publication of any readiness state.
LEMMA PublishReadinessSound ==
  ASSUME ShapeOK, NEW who \in Authority, NEW n \in Node, NEW s \in ReadinessState,
         publish_readiness(n, s, who)
  PROVE  ShapeOK'
<1> DEFINE nodes == [nodes_ EXCEPT ![n] = [@ EXCEPT !.ever_invalidated = FALSE,
                                                    !.recovered_evidence = "FRESH",
                                                    !.dynamic_evidence = TRUE]]
<1>0. nodes_ \in [DOMAIN nodes_ -> NodeFacts]
  BY DEF ShapeOK, StructOK
<1>1. n \in DOMAIN nodes_
  BY DEF publish_readiness
<1>2. CASE s = "READY"
  <2>1. CommitNodes(nodes, state, n)
    BY <1>2 DEF publish_readiness
  <2>2. nodes \in [DOMAIN nodes_ -> NodeFacts]
        /\ \A m \in DOMAIN nodes_ \ {n} : nodes[m] = nodes_[m]
    <3>1. [nodes_[n] EXCEPT !.ever_invalidated = FALSE,
                            !.recovered_evidence = "FRESH",
                            !.dynamic_evidence = TRUE] \in NodeFacts
      BY <1>0, <1>1 DEF NodeFacts, DynamicEvidence
    <3> QED BY <1>0, <3>1
  <2> HIDE DEF nodes
  <2> QED BY <1>1, <2>1, <2>2, CommitRootFactsSound
<1>3. CASE s # "READY"
  <2>1. CommitNodes(nodes_, [state EXCEPT ![n] = s], n)
    BY <1>3 DEF publish_readiness
  <2> QED BY <1>0, <1>1, <2>1, CommitRootSound
<1> QED BY <1>2, <1>3

\* Evidence, published readiness, retirement and the three marks.
LEMMA ReadinessOpsSound ==
  ASSUME ShapeOK, NEW who \in Authority, ReadinessOps(who)
  PROVE  ShapeOK'
<1>0. nodes_ \in [DOMAIN nodes_ -> NodeFacts]
  BY DEF ShapeOK, StructOK
<1>1. ASSUME NEW n \in Node, NEW patch \in EvidencePatches, set_node_evidence(n, patch, who)
      PROVE  ShapeOK'
  <2> DEFINE old == nodes_[n].evidence
             flags == ((old \cap EvidenceFlag) \ patch.set) \cup (patch.value \cap patch.set)
             caps == IF patch.caps = {} THEN old \cap Capability ELSE patch.caps
             nodes == [nodes_ EXCEPT ![n].evidence = flags \cup caps]
  <2>1. n \in DOMAIN nodes_ /\ CommitNodes(nodes, state, n)
    BY <1>1 DEF set_node_evidence
  <2>2. flags \cup caps \in SUBSET Evidence
    BY InputAssumption DEF EvidencePatch, Evidence
  <2> HIDE DEF flags, caps
  <2>3. nodes \in [DOMAIN nodes_ -> NodeFacts]
        /\ \A m \in DOMAIN nodes_ \ {n} : nodes[m] = nodes_[m]
    BY <1>0, <2>1, <2>2 DEF NodeFacts
  <2> HIDE DEF nodes
  <2> QED BY <2>1, <2>3, CommitRootFactsSound
<1>2. ASSUME NEW n \in Node, NEW s \in PublishableStates, publish_readiness(n, s, who)
      PROVE  ShapeOK'
  <2>1. s \in ReadinessState
    BY InputAssumption
  <2> QED BY <1>2, <2>1, PublishReadinessSound
<1>3. ASSUME NEW n \in Node, retire_node(n, who) PROVE ShapeOK'
  <2>1. n \in DOMAIN nodes_ /\ CommitNodes(nodes_, [state EXCEPT ![n] = "RETIRED"], n)
    BY <1>3 DEF retire_node
  <2>2. "RETIRED" \in ReadinessState
    BY DEF ReadinessState
  <2> QED BY <1>0, <2>1, <2>2, CommitRootSound
<1>4. ASSUME NEW n \in Node, mark_missing(n, who) PROVE ShapeOK'
  <2>1. n \in DOMAIN nodes_ /\ CommitNodes(nodes_, [state EXCEPT ![n] = "MISSING"], n)
    BY <1>4 DEF mark_missing
  <2>2. "MISSING" \in ReadinessState
    BY DEF ReadinessState
  <2> QED BY <1>0, <2>1, <2>2, CommitRootSound
<1>5. ASSUME NEW n \in Node, mark_stale(n, who) PROVE ShapeOK'
  <2> DEFINE nodes == [nodes_ EXCEPT ![n].recovered_evidence = "STALE"]
  <2>1. n \in DOMAIN nodes_ /\ CommitNodes(nodes, [state EXCEPT ![n] = "STALE"], n)
    BY <1>5 DEF mark_stale
  <2>2. "STALE" \in ReadinessState
    BY DEF ReadinessState
  <2>3. nodes \in [DOMAIN nodes_ -> NodeFacts]
        /\ \A m \in DOMAIN nodes_ \ {n} : nodes[m] = nodes_[m]
    BY <1>0, <2>1 DEF NodeFacts, DynamicEvidence
  <2> HIDE DEF nodes
  <2> QED BY <2>1, <2>2, <2>3, CommitRootSound
<1>6. ASSUME NEW n \in Node, mark_recovered(n, who) PROVE ShapeOK'
  <2> DEFINE dynamic == nodes_[n].dynamic_evidence
             recovered == IF dynamic THEN "REVALIDATION_REQUIRED" ELSE "FRESH"
             nodes == [nodes_ EXCEPT ![n] = [@ EXCEPT !.ever_invalidated = FALSE,
                                                      !.recovered_evidence = recovered]]
             s == IF dynamic THEN "REVALIDATION_REQUIRED" ELSE "PRESENT"
  <2>1. n \in DOMAIN nodes_ /\ CommitNodes(nodes, [state EXCEPT ![n] = s], n)
    BY <1>6 DEF mark_recovered
  <2>2. s \in ReadinessState
    BY DEF ReadinessState
  <2>3. nodes \in [DOMAIN nodes_ -> NodeFacts]
        /\ \A m \in DOMAIN nodes_ \ {n} : nodes[m] = nodes_[m]
    <3>1. recovered \in DynamicEvidence
      BY DEF DynamicEvidence
    <3> HIDE DEF recovered
    <3>2. [nodes_[n] EXCEPT !.ever_invalidated = FALSE,
                            !.recovered_evidence = recovered] \in NodeFacts
      BY <1>0, <2>1, <3>1 DEF NodeFacts
    <3> QED BY <1>0, <3>2
  <2> HIDE DEF nodes, s
  <2> QED BY <2>1, <2>2, <2>3, CommitRootSound
<1> QED BY <1>1, <1>2, <1>3, <1>4, <1>5, <1>6 DEF ReadinessOps

\* invalidate_node and invalidate_generation.
LEMMA InvalidationOpsSound ==
  ASSUME ShapeOK, NEW who \in Authority, InvalidationOps(who)
  PROVE  ShapeOK'
<1>0. nodes_ \in [DOMAIN nodes_ -> NodeFacts]
  BY DEF ShapeOK, StructOK
<1>1. ASSUME NEW n \in DOMAIN nodes_, NEW marked,
             CommitNodes(MarkInvalidated(marked), [state EXCEPT ![n] = "INVALIDATED"], n)
      PROVE  ShapeOK'
  <2> DEFINE nodes == MarkInvalidated(marked)
             st == [state EXCEPT ![n] = "INVALIDATED"]
  <2>1. nodes \in [DOMAIN nodes_ -> NodeFacts]
    BY <1>0 DEF MarkInvalidated, NodeFacts
  <2>2. \A m \in DOMAIN nodes_ : Gated(nodes[m]) => Gated(nodes_[m])
    BY <1>0 DEF MarkInvalidated, NodeFacts, Gated
  <2>3. "INVALIDATED" \in ReadinessState
    BY DEF ReadinessState
  <2>4. st \in ReadinessMap /\ \A m \in Node \ {n} : st[m] = state[m]
    BY <2>3, StoreState
  <2>5. CommitNodes(nodes, st, n)
    BY <1>1
  <2> HIDE DEF nodes, st
  <2> QED BY <2>1, <2>2, <2>4, <2>5, CommitNodesSound
<1>2. ASSUME NEW n \in Node, NEW policy \in Policies, invalidate_node(n, policy, who)
      PROVE  ShapeOK'
  BY <1>1, <1>2 DEF invalidate_node
<1>3. ASSUME NEW n \in Node, NEW gen \in Generation, NEW policy \in Policies,
             invalidate_generation(n, gen, policy, who)
      PROVE  ShapeOK'
  <2> DEFINE nodes == [nodes_ EXCEPT ![n].superseded_generations = @ \cup {gen},
                                     ![n].ever_invalidated = TRUE]
  <2>1. n \in DOMAIN nodes_
    BY <1>3 DEF invalidate_generation
  <2>2. CASE gen = nodes_[n].current_generation
    BY <1>1, <1>3, <2>1, <2>2 DEF invalidate_generation
  <2>3. CASE gen # nodes_[n].current_generation
    <3>1. CommitNodes(nodes, state, n)
      BY <1>3, <2>3 DEF invalidate_generation
    <3>2. nodes \in [DOMAIN nodes_ -> NodeFacts]
          /\ \A m \in DOMAIN nodes_ \ {n} : nodes[m] = nodes_[m]
      BY <1>0, <2>1 DEF NodeFacts
    <3> HIDE DEF nodes
    <3> QED BY <2>1, <3>1, <3>2, CommitRootFactsSound
  <2> QED BY <2>2, <2>3
<1> QED BY <1>2, <1>3 DEF InvalidationOps

\* EraseAll removes exactly one id from an index entry.
LEMMA EraseAllProperties ==
  ASSUME NEW E, NEW s \in Seq(E), NEW x
  PROVE  EraseAll(s, x) \in Seq(E) /\ Range(EraseAll(s, x)) = Range(s) \ {x}
<1>1. /\ Keep(s, Range(s) \ {x}) \in Seq(E)
      /\ Range(Keep(s, Range(s) \ {x})) = Range(s) \cap (Range(s) \ {x})
  BY KeepProperties
<1> QED BY <1>1 DEF EraseAll

\* The operations on edges.
LEMMA EdgeOpsSound ==
  ASSUME ShapeOK, NEW who \in Authority, EdgeOps(who)
  PROVE  ShapeOK'
<1>0. /\ DOMAIN edges_ \subseteq EdgeId /\ edges_ \in [DOMAIN edges_ -> Edge]
      /\ out_edges_ \in [Node -> Seq(EdgeId)] /\ in_edges_ \in [Node -> SUBSET EdgeId]
  BY DEF ShapeOK, StructOK
<1>1. ASSUME NEW edges, DOMAIN edges \subseteq EdgeId, edges \in [DOMAIN edges -> Edge],
             NEW out \in [Node -> Seq(EdgeId)], NEW in \in [Node -> SUBSET EdgeId],
             NEW root \in Node, CommitEdges(edges, out, in, root)
      PROVE  ShapeOK'
  <2>1. StructOK'
    BY <1>1 DEF CommitEdges, ShapeOK, StructOK, authVars
  <2>2. nodes_' = nodes_ /\ state' = recompute_closure(graph', state, root)
    BY <1>1 DEF CommitEdges
  <2> QED BY <2>1, <2>2, CommitStructureSound
<1>2. ASSUME NEW e \in EdgeCatalog, add_edge(e, who) PROVE ShapeOK'
  <2> DEFINE edges == Put(edges_, e.id, e)
             out == [out_edges_ EXCEPT ![e.producer] = Append(@, e.id)]
             in == [in_edges_ EXCEPT ![e.consumer] = @ \cup {e.id}]
  <2>1. e \in Edge /\ e.id \in EdgeId /\ e.producer \in Node /\ e.consumer \in Node
    BY InputAssumption DEF Edge
  <2>2. CommitEdges(edges, out, in, e.consumer)
    BY <1>2 DEF add_edge, edge_fits
  <2>3. DOMAIN edges \subseteq EdgeId /\ edges \in [DOMAIN edges -> Edge]
    BY <1>0, <2>1 DEF Put
  <2>4. out \in [Node -> Seq(EdgeId)]
    BY <1>0, <2>1
  <2>5. in \in [Node -> SUBSET EdgeId]
    BY <1>0, <2>1
  <2> HIDE DEF edges, out, in
  <2> QED BY <1>1, <2>1, <2>2, <2>3, <2>4, <2>5
<1>3. ASSUME NEW id \in EdgeId, remove_edge(id, who) PROVE ShapeOK'
  <2> DEFINE p == edges_[id].producer
             c == edges_[id].consumer
             edges == Drop(edges_, id)
             out == [out_edges_ EXCEPT ![p] = EraseAll(@, id)]
             in == [in_edges_ EXCEPT ![c] = @ \ {id}]
  <2>1. id \in DOMAIN edges_ /\ CommitEdges(edges, out, in, c)
    BY <1>3 DEF remove_edge
  <2>2. p \in Node /\ c \in Node
    BY <1>0, <2>1 DEF Edge
  <2>3. DOMAIN edges \subseteq EdgeId /\ edges \in [DOMAIN edges -> Edge]
    BY <1>0 DEF Drop
  <2>4. EraseAll(out_edges_[p], id) \in Seq(EdgeId)
    <3>1. out_edges_[p] \in Seq(EdgeId)
      BY <1>0, <2>2
    <3> QED BY <3>1, EraseAllProperties
  <2> HIDE DEF p, c
  <2>5. out \in [Node -> Seq(EdgeId)]
    BY <1>0, <2>4
  <2>6. in \in [Node -> SUBSET EdgeId]
    BY <1>0, <2>2
  <2> HIDE DEF edges, out, in
  <2> QED BY <1>1, <2>1, <2>2, <2>3, <2>5, <2>6
<1>4. ASSUME NEW id \in EdgeId, NEW active \in BOOLEAN, set_edge_active(id, active, who)
      PROVE  ShapeOK'
  <2> DEFINE e == edges_[id]
             edges == [edges_ EXCEPT ![id].active = active]
             out == [out_edges_ EXCEPT ![e.producer] =
                       IF active THEN Append(@, id) ELSE EraseAll(@, id)]
             in == [in_edges_ EXCEPT ![e.consumer] =
                       IF active THEN @ \cup {id} ELSE @ \ {id}]
  <2>1. id \in DOMAIN edges_
    BY <1>4 DEF set_edge_active
  <2>2. e.producer \in Node /\ e.consumer \in Node
    BY <1>0, <2>1 DEF Edge
  <2>3. CASE e.active = active
    <3>1. CommitEdges(edges_, out_edges_, in_edges_, e.consumer)
      BY <1>4, <2>3 DEF set_edge_active
    <3> HIDE DEF e
    <3> QED BY <1>0, <1>1, <2>2, <3>1
  <2>4. CASE e.active # active
    <3>1. CommitEdges(edges, out, in, e.consumer)
      BY <1>4, <2>4 DEF set_edge_active
    <3>2. DOMAIN edges \subseteq EdgeId /\ edges \in [DOMAIN edges -> Edge]
      <4>1. edges_ \in [DOMAIN edges_ -> Edge] /\ DOMAIN edges_ \subseteq EdgeId
        BY <1>0
      <4>2. [edges_[id] EXCEPT !.active = active] \in Edge
        BY <2>1, <4>1 DEF Edge
      <4> QED BY <2>1, <4>1, <4>2
    <3>3. EraseAll(out_edges_[e.producer], id) \in Seq(EdgeId)
          /\ Append(out_edges_[e.producer], id) \in Seq(EdgeId)
      <4>1. out_edges_[e.producer] \in Seq(EdgeId)
        BY <1>0, <2>2
      <4> HIDE DEF e
      <4> QED BY <4>1, EraseAllProperties
    <3> HIDE DEF e
    <3>4. out \in [Node -> Seq(EdgeId)]
      BY <1>0, <3>3
    <3>5. in \in [Node -> SUBSET EdgeId]
      BY <1>0, <2>2
    <3> HIDE DEF edges, out, in
    <3> QED BY <1>1, <2>2, <3>1, <3>2, <3>4, <3>5
  <2> QED BY <2>3, <2>4
<1> QED BY <1>2, <1>3, <1>4 DEF EdgeOps

\* The operations on dependency sets.
LEMMA SetOpsSound ==
  ASSUME ShapeOK, NEW who \in Authority, SetOps(who)
  PROVE  ShapeOK'
<1>0. DOMAIN sets_ \subseteq SetId /\ sets_ \in [DOMAIN sets_ -> DependencySet]
  BY DEF ShapeOK, StructOK
<1>1. ASSUME NEW sets, DOMAIN sets \subseteq SetId, sets \in [DOMAIN sets -> DependencySet],
             NEW root \in Node, CommitSets(sets, root)
      PROVE  ShapeOK'
  <2>1. StructOK'
    BY <1>1 DEF CommitSets, ShapeOK, StructOK, authVars
  <2>2. nodes_' = nodes_ /\ state' = recompute_closure(graph', state, root)
    BY <1>1 DEF CommitSets
  <2> QED BY <2>1, <2>2, CommitStructureSound
<1>2. ASSUME NEW s \in SetCatalog, add_dependency_set(s, who) PROVE ShapeOK'
  <2> DEFINE sets == Put(sets_, s.id, s)
  <2>1. s \in DependencySet /\ s.id \in SetId /\ s.owner \in Node
    BY InputAssumption DEF DependencySet
  <2>2. CommitSets(sets, s.owner)
    BY <1>2 DEF add_dependency_set
  <2>3. DOMAIN sets \subseteq SetId /\ sets \in [DOMAIN sets -> DependencySet]
    BY <1>0, <2>1 DEF Put
  <2> HIDE DEF sets
  <2> QED BY <1>1, <2>1, <2>2, <2>3
<1>3. ASSUME NEW id \in SetId, remove_dependency_set(id, who) PROVE ShapeOK'
  <2> DEFINE sets == Drop(sets_, id)
  <2>1. id \in DOMAIN sets_ /\ CommitSets(sets, sets_[id].owner)
    BY <1>3 DEF remove_dependency_set
  <2>2. sets_[id].owner \in Node
    BY <1>0, <2>1 DEF DependencySet
  <2>3. DOMAIN sets \subseteq SetId /\ sets \in [DOMAIN sets -> DependencySet]
    BY <1>0 DEF Drop
  <2> HIDE DEF sets
  <2> QED BY <1>1, <2>1, <2>2, <2>3
<1> QED BY <1>2, <1>3 DEF SetOps

\* An iteration order of the node map is a sequence of nodes.
LEMMA ListingIsSequence ==
  ASSUME ShapeOK, NEW listing \in Listings
  PROVE  listing \in Seq(Node)
<1>1. DOMAIN nodes_ \subseteq Node
  BY DEF ShapeOK, StructOK
<1>2. Cardinality(DOMAIN nodes_) \in Nat
  BY <1>1, FiniteAssumption, FS_Subset, FS_CardinalityType
<1>3. listing \in [1..Cardinality(DOMAIN nodes_) -> DOMAIN nodes_]
  BY DEF Listings, Bijection, Injection
<1> QED BY <1>1, <1>2, <1>3

\* Recomputing everything over a graph with the same nodes.
LEMMA RecomputeAllSound ==
  ASSUME ShapeOK, NEW listing \in Listings,
         NEW g, g.nodes = nodes_, g.edges = edges_, g.out = out_edges_
  PROVE  recompute_all(g, state, listing) \in SoundMaps(g)
<1>1. state \in SoundMaps(g) /\ SoundMaps(g) \in SUBSET ReadinessMap
  <2>1. graph.nodes = nodes_
    BY DEF graph
  <2> HIDE DEF graph
  <2> QED BY <2>1 DEF ShapeOK, SoundMaps, ShowsSound
<1>2. GraphShape(g)
  BY DEF GraphShape, ShapeOK, StructOK, Edge
<1>3. \A s \in SoundMaps(g), n \in Node : Recomputed(g, s, n) \in SoundMaps(g)
  BY SoundClosed
<1> QED BY <1>1, <1>2, <1>3, ListingIsSequence, RecomputeAllLeadsTo

\* Recomputation on request.
LEMMA RecomputeOpsSound ==
  ASSUME ShapeOK, RecomputeOps
  PROVE  ShapeOK'
<1>1. ASSUME NEW n \in Node, recompute_readiness(n) PROVE ShapeOK'
  <2>1. state' = Recomputed(graph, state, n)
    BY <1>1 DEF recompute_readiness, Recomputed
  <2>2. state' \in SoundMaps(graph)
    BY <2>1, SoundClosed DEF ShapeOK
  <2>3. StructOK' /\ graph' = graph
    BY <1>1 DEF recompute_readiness, ShapeOK, StructOK, authVars, structVars, graph
  <2> QED BY <2>2, <2>3 DEF ShapeOK
<1>2. CASE recompute_all_readiness
  <2>1. PICK listing \in Listings : state' = recompute_all(graph, state, listing)
    BY <1>2 DEF recompute_all_readiness
  <2>2. graph.nodes = nodes_ /\ graph.edges = edges_ /\ graph.out = out_edges_
    BY DEF graph
  <2>3. recompute_all(graph, state, listing) \in SoundMaps(graph)
    BY <2>2, RecomputeAllSound
  <2>4. StructOK' /\ graph' = graph
    BY <1>2 DEF recompute_all_readiness, ShapeOK, StructOK, authVars, structVars, graph
  <2> QED BY <2>1, <2>3, <2>4 DEF ShapeOK
<1> QED BY <1>1, <1>2 DEF RecomputeOps

\* Attaching an adapter, detaching it, and what it learns meanwhile.
LEMMA AdapterOpsSound ==
  ASSUME ShapeOK, AdapterOps
  PROVE  ShapeOK'
<1>1. ASSUME NEW adapter \in {<<>>} \cup {<<facts>> : facts \in Adapters}, set_adapter(adapter)
      PROVE  ShapeOK'
  <2>1. graph'.nodes = nodes_ /\ graph'.edges = edges_ /\ graph'.out = out_edges_
    BY <1>1 DEF set_adapter, structVars, graph
  <2>2. PICK listing \in Listings : state' = recompute_all(graph', state, listing)
    BY <1>1 DEF set_adapter
  <2>3. StructOK'
    BY <1>1 DEF set_adapter, ShapeOK, StructOK, structVars
  <2> HIDE DEF graph
  <2>4. recompute_all(graph', state, listing) \in SoundMaps(graph')
    BY <2>1, RecomputeAllSound
  <2> QED BY <2>2, <2>3, <2>4 DEF ShapeOK
<1>2. ASSUME NEW facts \in Adapters, adapter_reports(<<facts>>) PROVE ShapeOK'
  <2>1. graph'.nodes = graph.nodes /\ state' = state
    BY <1>2 DEF adapter_reports, structVars, graph
  <2>2. StructOK'
    BY <1>2 DEF adapter_reports, ShapeOK, StructOK, structVars
  <2> HIDE DEF graph
  <2> QED BY <2>1, <2>2 DEF ShapeOK, SoundMaps, ShowsSound
<1> QED BY <1>1, <1>2 DEF AdapterOps

\* The empty graph is in shape.
LEMMA InitSound == Init => ShapeOK
<1> SUFFICES ASSUME Init PROVE ShapeOK
  OBVIOUS
<1>1. StructOK
  BY AuthorityAssumption DEF Init, StructOK
<1>2. graph.nodes = <<>>
  BY DEF Init, graph
<1>3. state \in ReadinessMap
  BY DEF Init, ReadinessMap, ReadinessState
<1>4. \A n \in Node : ShowsSound(graph, state, n)
  BY <1>2 DEF Init, ShowsSound
<1> QED BY <1>1, <1>3, <1>4 DEF ShapeOK, SoundMaps

\* Every step keeps the graph in shape.
LEMMA NextSound == ShapeOK /\ [Next]_vars => ShapeOK'
<1> SUFFICES ASSUME ShapeOK, [Next]_vars PROVE ShapeOK'
  OBVIOUS
<1>1. CASE UNCHANGED vars
  <2>1. StructOK' /\ graph' = graph /\ state' = state
    BY <1>1 DEF ShapeOK, StructOK, vars, graph
  <2> QED BY <2>1 DEF ShapeOK
<1>2. ASSUME NEW new_epoch \in Epoch, advance_epoch(new_epoch) PROVE ShapeOK'
  <2>1. StructOK' /\ graph' = graph /\ state' = state
    BY <1>2 DEF ShapeOK, StructOK, advance_epoch, structVars, graph
  <2> QED BY <2>1 DEF ShapeOK
<1> QED BY <1>1, <1>2, DeclareOpsSound, GenerationOpsSound, ReadinessOpsSound, EdgeOpsSound,
           SetOpsSound, InvalidationOpsSound, RecomputeOpsSound, AdapterOpsSound DEF Next

(***************************************************************************)
(* Every reachable state is typed: whatever operations are applied in      *)
(* whatever order, a node shows UNKNOWN exactly while it is undeclared,    *)
(* and every container holds well-formed entries.                          *)
(***************************************************************************)
THEOREM TypeCorrect == Spec => []TypeOK
<1>1. Init => ShapeOK
  BY InitSound
<1>2. ShapeOK /\ [Next]_vars => ShapeOK'
  BY NextSound
<1>3. ShapeOK => TypeOK
  BY ShapeMeaning
<1> QED BY <1>1, <1>2, <1>3, PTL DEF Spec

(***************************************************************************)
(* The revalidation gate holds in every reachable state, for any graph and *)
(* any length of recomputation: dynamic evidence that mark_recovered asked *)
(* to revalidate is never shown as READY (or in any other usable state).   *)
(***************************************************************************)
THEOREM GateSafe == Spec => []GateHolds
<1>1. Init => ShapeOK
  BY InitSound
<1>2. ShapeOK /\ [Next]_vars => ShapeOK'
  BY NextSound
<1>3. ShapeOK => GateHolds
  BY ShapeMeaning
<1> QED BY <1>1, <1>2, <1>3, PTL DEF Spec

-----------------------------------------------------------------------------
(* Who may write generations, and what the history then guarantees. *)

\* The step leaves the generations and the author of n alone.
Kept(n) ==
  /\ n \in DOMAIN nodes_
  /\ nodes_'[n].generation_history = nodes_[n].generation_history
  /\ nodes_'[n].current_generation = nodes_[n].current_generation
  /\ nodes_'[n].origin = nodes_[n].origin

\* Every mutation carries an authority that the checks accept.
LEMMA MutationsAreAuthorized ==
  ASSUME NEW who \in Authority,
         \/ \E d \in NodeDecls : declare_node(d, who)
         \/ GenerationOps(who) \/ ReadinessOps(who) \/ EdgeOps(who)
         \/ SetOps(who) \/ InvalidationOps(who)
  PROVE  authority_ok(who)
<1>1. GenerationOps(who) => authority_ok(who)
  BY DEF GenerationOps, publish_generation, supersede_generation
<1>2. ReadinessOps(who) => authority_ok(who)
  BY DEF ReadinessOps, set_node_evidence, publish_readiness, retire_node, mark_missing,
         mark_stale, mark_recovered
<1>3. EdgeOps(who) => authority_ok(who)
  BY DEF EdgeOps, add_edge, remove_edge, set_edge_active
<1>4. SetOps(who) => authority_ok(who)
  BY DEF SetOps, add_dependency_set, remove_dependency_set
<1>5. InvalidationOps(who) => authority_ok(who)
  BY DEF InvalidationOps, invalidate_node, invalidate_generation
<1> QED BY <1>1, <1>2, <1>3, <1>4, <1>5 DEF declare_node

\* Readiness, evidence, edges, sets and invalidation leave the ledger alone.
LEMMA OthersKeepLedger ==
  ASSUME ShapeOK, NEW who \in Authority,
         ReadinessOps(who) \/ EdgeOps(who) \/ SetOps(who) \/ InvalidationOps(who)
  PROVE  \A n \in DOMAIN nodes_' : Kept(n)
<1>0. nodes_ \in [DOMAIN nodes_ -> NodeFacts]
  BY DEF ShapeOK, StructOK
<1>1. nodes_' = nodes_ => \A n \in DOMAIN nodes_' : Kept(n)
  BY DEF Kept
<1>2. CASE EdgeOps(who)
  <2>1. nodes_' = nodes_
    BY <1>2 DEF EdgeOps, add_edge, remove_edge, set_edge_active, CommitEdges
  <2> QED BY <1>1, <2>1
<1>3. CASE SetOps(who)
  <2>1. nodes_' = nodes_
    BY <1>3 DEF SetOps, add_dependency_set, remove_dependency_set, CommitSets
  <2> QED BY <1>1, <2>1
<1>4. CASE ReadinessOps(who)
  <2>1. ASSUME NEW n \in Node, NEW patch \in EvidencePatches, set_node_evidence(n, patch, who)
        PROVE  \A m \in DOMAIN nodes_' : Kept(m)
    <3>1. \E ev : nodes_' = [nodes_ EXCEPT ![n].evidence = ev]
      BY <2>1 DEF set_node_evidence, CommitNodes
    <3> QED BY <1>0, <3>1 DEF Kept, NodeFacts
  <2>2. ASSUME NEW n \in Node, NEW s \in PublishableStates, publish_readiness(n, s, who)
        PROVE  \A m \in DOMAIN nodes_' : Kept(m)
    <3>1. CASE s = "READY"
      <4>1. nodes_' = [nodes_ EXCEPT ![n] = [@ EXCEPT !.ever_invalidated = FALSE,
                                                      !.recovered_evidence = "FRESH",
                                                      !.dynamic_evidence = TRUE]]
        BY <2>2, <3>1 DEF publish_readiness, CommitNodes
      <4> QED BY <1>0, <4>1 DEF Kept, NodeFacts
    <3>2. CASE s # "READY"
      BY <1>1, <2>2, <3>2 DEF publish_readiness, CommitNodes
    <3> QED BY <3>1, <3>2
  <2>3. ASSUME NEW n \in Node, retire_node(n, who) \/ mark_missing(n, who)
        PROVE  \A m \in DOMAIN nodes_' : Kept(m)
    BY <1>1, <2>3 DEF retire_node, mark_missing, CommitNodes
  <2>4. ASSUME NEW n \in Node, mark_stale(n, who)
        PROVE  \A m \in DOMAIN nodes_' : Kept(m)
    <3>1. nodes_' = [nodes_ EXCEPT ![n].recovered_evidence = "STALE"]
      BY <2>4 DEF mark_stale, CommitNodes
    <3> QED BY <1>0, <3>1 DEF Kept, NodeFacts
  <2>5. ASSUME NEW n \in Node, mark_recovered(n, who)
        PROVE  \A m \in DOMAIN nodes_' : Kept(m)
    <3>1. \E r : nodes_' = [nodes_ EXCEPT ![n] = [@ EXCEPT !.ever_invalidated = FALSE,
                                                           !.recovered_evidence = r]]
      BY <2>5 DEF mark_recovered, CommitNodes
    <3> QED BY <1>0, <3>1 DEF Kept, NodeFacts
  <2> QED BY <1>4, <2>1, <2>2, <2>3, <2>4, <2>5 DEF ReadinessOps
<1>5. CASE InvalidationOps(who)
  <2>1. ASSUME NEW marked, nodes_' = MarkInvalidated(marked)
        PROVE  \A m \in DOMAIN nodes_' : Kept(m)
    BY <1>0, <2>1 DEF MarkInvalidated, Kept, NodeFacts
  <2>2. ASSUME NEW n \in Node, NEW policy \in Policies, invalidate_node(n, policy, who)
        PROVE  \A m \in DOMAIN nodes_' : Kept(m)
    BY <2>1, <2>2 DEF invalidate_node, CommitNodes
  <2>3. ASSUME NEW n \in Node, NEW gen \in Generation, NEW policy \in Policies,
               invalidate_generation(n, gen, policy, who)
        PROVE  \A m \in DOMAIN nodes_' : Kept(m)
    <3>1. CASE gen = nodes_[n].current_generation
      BY <2>1, <2>3, <3>1 DEF invalidate_generation, CommitNodes
    <3>2. CASE gen # nodes_[n].current_generation
      <4>1. nodes_' = [nodes_ EXCEPT ![n].superseded_generations = @ \cup {gen},
                                     ![n].ever_invalidated = TRUE]
        BY <2>3, <3>2 DEF invalidate_generation, CommitNodes
      <4> QED BY <1>0, <4>1 DEF Kept, NodeFacts
    <3> QED BY <3>1, <3>2
  <2> QED BY <1>5, <2>2, <2>3 DEF InvalidationOps
<1> QED BY <1>2, <1>3, <1>4, <1>5

\* A generation operation appends one generation to one node, in its name.
LEMMA GenerationOpsAppend ==
  ASSUME ShapeOK, NEW who \in Authority, GenerationOps(who)
  PROVE  \E n \in DOMAIN nodes_, superseded \in SUBSET Generation, gen \in Generation :
           /\ nodes_' = [nodes_ EXCEPT ![n] = WithGeneration(@, superseded, gen, who)]
           /\ \/ gen > nodes_[n].current_generation
              \/ \E old \in Range(nodes_[n].generation_history) : gen > old
<1>1. ASSUME NEW n \in Node, NEW gen \in Generation, publish_generation(n, gen, who)
      PROVE  n \in DOMAIN nodes_ /\ gen > nodes_[n].current_generation
             /\ \E superseded \in SUBSET Generation :
                  nodes_' = [nodes_ EXCEPT ![n] = WithGeneration(@, superseded, gen, who)]
  <2> DEFINE prior == {nodes_[n].current_generation} \ {NoGeneration}
  <2>1. n \in DOMAIN nodes_ /\ gen > nodes_[n].current_generation
    BY <1>1 DEF publish_generation
  <2>2. prior \in SUBSET Generation
    BY <2>1 DEF ShapeOK, StructOK, NodeFacts
  <2>3. nodes_' = [nodes_ EXCEPT ![n] = WithGeneration(@, prior, gen, who)]
    BY <1>1 DEF publish_generation, CommitNodes
  <2> HIDE DEF prior
  <2> QED BY <2>1, <2>2, <2>3
<1>2. ASSUME NEW n \in Node, NEW old_gen \in Generation, NEW new_gen \in Generation,
             supersede_generation(n, old_gen, new_gen, who)
      PROVE  /\ n \in DOMAIN nodes_ /\ {old_gen} \in SUBSET Generation
             /\ old_gen \in Range(nodes_[n].generation_history) /\ new_gen > old_gen
             /\ nodes_' = [nodes_ EXCEPT ![n] = WithGeneration(@, {old_gen}, new_gen, who)]
  BY <1>2 DEF supersede_generation, CommitNodes
<1>3. CASE \E n \in Node, gen \in Generation : publish_generation(n, gen, who)
  BY <1>1, <1>3
<1>4. CASE \E n \in Node, old_gen, new_gen \in Generation :
             supersede_generation(n, old_gen, new_gen, who)
  <2>1. PICK n \in Node, old_gen \in Generation, new_gen \in Generation :
          supersede_generation(n, old_gen, new_gen, who)
    BY <1>4
  <2>2. /\ n \in DOMAIN nodes_ /\ {old_gen} \in SUBSET Generation
        /\ old_gen \in Range(nodes_[n].generation_history) /\ new_gen > old_gen
        /\ nodes_' = [nodes_ EXCEPT ![n] = WithGeneration(@, {old_gen}, new_gen, who)]
    BY <1>2, <2>1
  <2> QED BY <2>2
<1> QED BY <1>3, <1>4 DEF GenerationOps

-----------------------------------------------------------------------------
(* The generation ledger *)

\* The ledger of one node.
LedgerOK(facts) ==
  LET h == facts.generation_history
  IN /\ facts.current_generation = IF h = <<>> THEN NoGeneration ELSE h[Len(h)]
     /\ \A i \in 2..Len(h) : h[i] > h[1]

\* Appending a generation above the current or a recorded one keeps it.
LEMMA LedgerAppend ==
  ASSUME NEW node \in NodeFacts, LedgerOK(node),
         NEW superseded, NEW gen \in Generation, NEW who,
         \/ gen > node.current_generation
         \/ \E old \in Range(node.generation_history) : gen > old
  PROVE  LedgerOK(WithGeneration(node, superseded, gen, who))
<1> DEFINE h == node.generation_history
           k == Append(h, gen)
           new == WithGeneration(node, superseded, gen, who)
<1>1. h \in Seq(Generation) /\ k \in Seq(Generation) /\ Len(k) = Len(h) + 1
      /\ k[Len(k)] = gen /\ k # <<>> /\ \A i \in 1..Len(h) : k[i] = h[i]
  BY DEF NodeFacts
<1>2. new.generation_history = k /\ new.current_generation = gen
  BY DEF WithGeneration, NodeFacts
<1>3. \A i \in 1..Len(h) : h[i] \in Nat /\ h[i] >= h[1]
  <2>1. \A i \in 1..Len(h) : h[i] \in Nat
    <3> HIDE DEF h, k
    <3>1. \A i \in 1..Len(h) : h[i] \in Generation
      BY <1>1
    <3> QED BY <3>1, GenerationAssumption
  <2>2. \A i \in 2..Len(h) : h[i] > h[1]
    BY DEF LedgerOK
  <2> HIDE DEF h
  <2> QED BY <1>1, <2>1, <2>2
<1>4. gen \in Nat
  BY GenerationAssumption
<1>5. h # <<>> => gen > h[1]
  <2> SUFFICES ASSUME h # <<>> PROVE gen > h[1]
    OBVIOUS
  <2>1. Len(h) \in 1..Len(h) /\ 1 \in 1..Len(h)
    BY <1>1
  <2>2. CASE gen > node.current_generation
    <3>1. node.current_generation = h[Len(h)]
      BY DEF LedgerOK
    <3> HIDE DEF h
    <3>2. gen > h[Len(h)] /\ h[Len(h)] >= h[1] /\ h[Len(h)] \in Nat /\ h[1] \in Nat
      BY <1>3, <2>1, <2>2, <3>1
    <3> QED BY <1>4, <3>2
  <2>3. CASE \E old \in Range(h) : gen > old
    <3>1. PICK i \in 1..Len(h) : gen > h[i]
      BY <1>1, <2>3 DEF Range
    <3> HIDE DEF h
    <3>2. h[i] >= h[1] /\ h[i] \in Nat /\ h[1] \in Nat
      BY <1>3, <2>1
    <3> QED BY <1>4, <3>1, <3>2
  <2> QED BY <2>2, <2>3
<1>6. \A i \in 2..Len(k) : k[i] > k[1]
  <2> SUFFICES ASSUME NEW i \in 2..Len(k) PROVE k[i] > k[1]
    OBVIOUS
  <2> HIDE DEF h, k
  <2>1. Len(h) \in Nat /\ Len(h) >= 1 /\ h # <<>> /\ k[1] = h[1]
    BY <1>1
  <2>2. CASE i = Len(k)
    BY <1>1, <1>5, <2>1, <2>2
  <2>3. CASE i # Len(k)
    <3>1. i \in 2..Len(h)
      BY <1>1, <2>1, <2>3
    <3>2. h[i] > h[1]
      BY <3>1 DEF LedgerOK, h
    <3> QED BY <1>1, <2>1, <3>1, <3>2
  <2> QED BY <2>2, <2>3
<1> HIDE DEF h, k, new
<1>7. LedgerOK(new)
  BY <1>1, <1>2, <1>6 DEF LedgerOK
<1> QED BY <1>7 DEF new

\* Every step keeps the ledger.
LEMMA LedgerStep == ShapeOK /\ GenerationLedger /\ [Next]_vars => GenerationLedger'
<1> SUFFICES ASSUME ShapeOK, GenerationLedger, [Next]_vars PROVE GenerationLedger'
  OBVIOUS
<1>0. nodes_ \in [DOMAIN nodes_ -> NodeFacts] /\ \A n \in DOMAIN nodes_ : LedgerOK(nodes_[n])
  BY DEF ShapeOK, StructOK, GenerationLedger, LedgerOK
<1>1. SUFFICES \A n \in DOMAIN nodes_' : LedgerOK(nodes_'[n])
  BY DEF GenerationLedger, LedgerOK
<1>2. (\A n \in DOMAIN nodes_' : Kept(n)) => \A n \in DOMAIN nodes_' : LedgerOK(nodes_'[n])
  BY <1>0 DEF Kept, LedgerOK
<1>3. nodes_' = nodes_ => \A n \in DOMAIN nodes_' : LedgerOK(nodes_'[n])
  BY <1>0
<1>4. ASSUME NEW who \in Authority, GenerationOps(who)
      PROVE  \A n \in DOMAIN nodes_' : LedgerOK(nodes_'[n])
  <2>1. PICK n \in DOMAIN nodes_, superseded \in SUBSET Generation, gen \in Generation :
          /\ nodes_' = [nodes_ EXCEPT ![n] = WithGeneration(@, superseded, gen, who)]
          /\ \/ gen > nodes_[n].current_generation
             \/ \E old \in Range(nodes_[n].generation_history) : gen > old
    BY <1>4, GenerationOpsAppend
  <2>2. nodes_[n] \in NodeFacts /\ LedgerOK(nodes_[n])
    BY <1>0
  <2>3. LedgerOK(WithGeneration(nodes_[n], superseded, gen, who))
    BY <2>1, <2>2, LedgerAppend
  <2> QED BY <1>0, <2>1, <2>3
<1>5. ASSUME NEW who \in Authority, NEW d \in NodeDecls, declare_node(d, who)
      PROVE  \A n \in DOMAIN nodes_' : LedgerOK(nodes_'[n])
  <2>1. \E facts : /\ nodes_' = Put(nodes_, d.id, facts)
                   /\ facts.generation_history = <<>>
                   /\ facts.current_generation = NoGeneration
    BY <1>5 DEF declare_node
  <2>2. PICK facts : /\ nodes_' = Put(nodes_, d.id, facts)
                     /\ facts.generation_history = <<>>
                     /\ facts.current_generation = NoGeneration
    BY <2>1
  <2>3. LedgerOK(facts)
    BY <2>2 DEF LedgerOK
  <2> QED BY <1>0, <2>2, <2>3 DEF Put
<1>6. ASSUME NEW who \in Authority, register_source(who) PROVE nodes_' = nodes_
  BY <1>6 DEF register_source
<1>7. ASSUME NEW e \in Epoch, advance_epoch(e) PROVE nodes_' = nodes_
  BY <1>7 DEF advance_epoch
<1>8. RecomputeOps \/ AdapterOps \/ UNCHANGED vars => nodes_' = nodes_
  BY DEF RecomputeOps, recompute_readiness, recompute_all_readiness,
         AdapterOps, set_adapter, adapter_reports, vars
<1> QED BY <1>2, <1>3, <1>4, <1>5, <1>6, <1>7, <1>8, OthersKeepLedger DEF Next, DeclareOps

(***************************************************************************)
(* The generation ledger holds in every reachable state: the current       *)
(* generation is the newest history entry and never falls back to the      *)
(* first generation published, however publish_generation and              *)
(* supersede_generation are mixed.                                         *)
(***************************************************************************)
THEOREM LedgerSafe == Spec => []GenerationLedger
<1>1. Init => ShapeOK /\ GenerationLedger
  BY InitSound DEF Init, GenerationLedger
<1>2. ShapeOK /\ [Next]_vars => ShapeOK'
  BY NextSound
<1>3. ShapeOK /\ GenerationLedger /\ [Next]_vars => GenerationLedger'
  BY LedgerStep
<1> QED BY <1>1, <1>2, <1>3, PTL DEF Spec

-----------------------------------------------------------------------------
(* Authority *)

\* Every step is one that the current authority may take.
LEMMA StepIsAuthorized == ShapeOK /\ [Next]_vars => AuthorizedStep
<1> SUFFICES ASSUME ShapeOK, [Next]_vars PROVE AuthorizedStep
  OBVIOUS
<1>0. nodes_ \in [DOMAIN nodes_ -> NodeFacts]
  BY DEF ShapeOK, StructOK
<1>1. <<nodes_, edges_, sets_>>' = <<nodes_, edges_, sets_>> => AuthorizedStep
  BY DEF AuthorizedStep
<1>2. ASSUME NEW who \in Authority, authority_ok(who),
             \A n \in DOMAIN nodes_' :
               Kept(n) \/ nodes_'[n].origin = <<who.source, who.boot>>
      PROVE  AuthorizedStep
  <2>1. /\ who.source \in DOMAIN sources_
        /\ who.boot = sources_[who.source].boot
        /\ sources_[who.source].epoch = epoch_
    BY <1>2 DEF authority_ok
  <2> QED BY <1>2, <2>1 DEF AuthorizedStep, Kept
<1>3. ASSUME NEW who \in Authority,
             ReadinessOps(who) \/ EdgeOps(who) \/ SetOps(who) \/ InvalidationOps(who)
      PROVE  AuthorizedStep
  <2>1. authority_ok(who)
    BY <1>3, MutationsAreAuthorized
  <2>2. \A n \in DOMAIN nodes_' : Kept(n)
    BY <1>3, OthersKeepLedger
  <2> QED BY <1>2, <2>1, <2>2
<1>4. ASSUME NEW who \in Authority, GenerationOps(who) PROVE AuthorizedStep
  <2>1. authority_ok(who)
    BY <1>4, MutationsAreAuthorized
  <2>2. PICK n \in DOMAIN nodes_, superseded \in SUBSET Generation, gen \in Generation :
          nodes_' = [nodes_ EXCEPT ![n] = WithGeneration(@, superseded, gen, who)]
    BY <1>4, GenerationOpsAppend
  <2>3. WithGeneration(nodes_[n], superseded, gen, who).origin = <<who.source, who.boot>>
    BY <1>0 DEF WithGeneration, NodeFacts
  <2>4. nodes_'[n].origin = <<who.source, who.boot>>
    BY <2>2, <2>3
  <2>5. DOMAIN nodes_' = DOMAIN nodes_ /\ \A m \in DOMAIN nodes_ \ {n} : nodes_'[m] = nodes_[m]
    BY <1>0, <2>2
  <2>6. \A m \in DOMAIN nodes_' : Kept(m) \/ nodes_'[m].origin = <<who.source, who.boot>>
    BY <2>4, <2>5 DEF Kept
  <2> QED BY <1>2, <2>1, <2>6
<1>5. ASSUME NEW who \in Authority, NEW d \in NodeDecls, declare_node(d, who)
      PROVE  AuthorizedStep
  <2>1. authority_ok(who)
    BY <1>5, MutationsAreAuthorized
  <2>2. \E facts : /\ nodes_' = Put(nodes_, d.id, facts)
                   /\ facts.origin = <<who.source, who.boot>>
    BY <1>5 DEF declare_node
  <2>3. \A n \in DOMAIN nodes_' : Kept(n) \/ nodes_'[n].origin = <<who.source, who.boot>>
    BY <2>2 DEF Put, Kept
  <2> QED BY <1>2, <2>1, <2>3
<1>6. ASSUME NEW who \in Authority, register_source(who) PROVE AuthorizedStep
  BY <1>1, <1>6 DEF register_source, structVars
<1>7. ASSUME NEW e \in Epoch, advance_epoch(e) PROVE AuthorizedStep
  BY <1>1, <1>7 DEF advance_epoch, structVars
<1>8. CASE RecomputeOps \/ AdapterOps \/ UNCHANGED vars
  BY <1>1, <1>8 DEF RecomputeOps, recompute_readiness, recompute_all_readiness,
                    AdapterOps, set_adapter, adapter_reports, vars, structVars
<1> QED BY <1>3, <1>4, <1>5, <1>6, <1>7, <1>8 DEF Next, DeclareOps

(***************************************************************************)
(* No behaviour lets a stale epoch or a replaced boot mutate the graph,    *)
(* for any number of sources, boots and epochs.                            *)
(***************************************************************************)
THEOREM AuthoritySafe == Spec => OnlyCurrentAuthorityMutates
<1>1. Init => ShapeOK
  BY InitSound
<1>2. ShapeOK /\ [Next]_vars => ShapeOK'
  BY NextSound
<1>3. ShapeOK /\ [Next]_vars => [AuthorizedStep]_vars
  BY StepIsAuthorized
<1> QED BY <1>1, <1>2, <1>3, PTL DEF Spec, OnlyCurrentAuthorityMutates

-----------------------------------------------------------------------------
(* The adjacency index and the edge map agree, and the cycle search that    *)
(* walks the index is therefore complete.                                   *)

\* The parts of IndexExact.
OutExact ==
  \A n \in Node : \A x \in Range(out_edges_[n]) :
    x \in DOMAIN edges_ /\ edges_[x].producer = n
InExact ==
  \A n \in Node : \A x \in in_edges_[n] :
    x \in DOMAIN edges_ /\ edges_[x].consumer = n
EdgesIndexed ==
  \A x \in DOMAIN edges_ :
    /\ edges_[x].producer \in DOMAIN nodes_ /\ edges_[x].consumer \in DOMAIN nodes_
    /\ edges_[x].active => /\ x \in Range(out_edges_[edges_[x].producer])
                           /\ x \in in_edges_[edges_[x].consumer]

\* A step that leaves edges and indexes alone and forgets no node.
LEMMA IndexUnchanged ==
  ASSUME IndexExact, DOMAIN nodes_ \subseteq DOMAIN nodes_',
         edges_' = edges_, out_edges_' = out_edges_, in_edges_' = in_edges_
  PROVE  IndexExact'
BY DEF IndexExact

\* A new edge is filed under both its endpoints.
LEMMA IndexAddEdge ==
  ASSUME ShapeOK, IndexExact, NEW e \in EdgeCatalog, NEW who \in Authority, add_edge(e, who)
  PROVE  IndexExact'
<1>1. /\ edges_' = Put(edges_, e.id, e)
      /\ out_edges_' = [out_edges_ EXCEPT ![e.producer] = Append(@, e.id)]
      /\ in_edges_' = [in_edges_ EXCEPT ![e.consumer] = @ \cup {e.id}]
      /\ nodes_' = nodes_
      /\ e.id \notin DOMAIN edges_
      /\ e.producer \in DOMAIN nodes_ /\ e.consumer \in DOMAIN nodes_
  BY DEF add_edge, edge_fits, CommitEdges
<1>2. e \in Edge /\ e.id \in EdgeId /\ e.producer \in Node /\ e.consumer \in Node
  BY InputAssumption DEF Edge
<1>3. /\ out_edges_ \in [Node -> Seq(EdgeId)] /\ in_edges_ \in [Node -> SUBSET EdgeId]
  BY DEF ShapeOK, StructOK
<1>4. /\ DOMAIN edges_' = DOMAIN edges_ \cup {e.id} /\ edges_'[e.id] = e
      /\ \A x \in DOMAIN edges_ : x # e.id /\ edges_'[x] = edges_[x]
  BY <1>1 DEF Put
<1>5. /\ Range(out_edges_'[e.producer]) = Range(out_edges_[e.producer]) \cup {e.id}
      /\ \A n \in Node \ {e.producer} : out_edges_'[n] = out_edges_[n]
  <2>1. out_edges_[e.producer] \in Seq(EdgeId)
    BY <1>2, <1>3
  <2>2. Range(Append(out_edges_[e.producer], e.id)) = Range(out_edges_[e.producer]) \cup {e.id}
    BY <1>2, <2>1, RangeAppend
  <2> QED BY <1>1, <1>2, <1>3, <2>2
<1>6. /\ in_edges_'[e.consumer] = in_edges_[e.consumer] \cup {e.id}
      /\ \A n \in Node \ {e.consumer} : in_edges_'[n] = in_edges_[n]
  BY <1>1, <1>2, <1>3
<1>7. OutExact'
  BY <1>4, <1>5 DEF IndexExact, OutExact
<1>8. InExact'
  BY <1>4, <1>6 DEF IndexExact, InExact
<1>9. EdgesIndexed'
  <2> SUFFICES ASSUME NEW x \in DOMAIN edges_'
               PROVE  /\ edges_'[x].producer \in DOMAIN nodes_
                      /\ edges_'[x].consumer \in DOMAIN nodes_
                      /\ edges_'[x].active => /\ x \in Range(out_edges_'[edges_'[x].producer])
                                              /\ x \in in_edges_'[edges_'[x].consumer]
    BY <1>1 DEF EdgesIndexed
  <2>1. CASE x = e.id
    BY <1>1, <1>4, <1>5, <1>6, <2>1
  <2>2. CASE x # e.id
    <3>1. x \in DOMAIN edges_ /\ edges_'[x] = edges_[x]
      BY <1>4, <2>2
    <3>2. edges_[x].producer \in Node /\ edges_[x].consumer \in Node
      BY <3>1 DEF ShapeOK, StructOK, Edge
    <3> QED BY <1>5, <1>6, <3>1, <3>2 DEF IndexExact
  <2> QED BY <2>1, <2>2
<1> QED BY <1>7, <1>8, <1>9 DEF IndexExact, OutExact, InExact, EdgesIndexed

\* A removed edge leaves both index lists.
LEMMA IndexRemoveEdge ==
  ASSUME ShapeOK, IndexExact, NEW id \in EdgeId, NEW who \in Authority, remove_edge(id, who)
  PROVE  IndexExact'
<1> DEFINE p == edges_[id].producer
           c == edges_[id].consumer
<1>1. /\ edges_' = Drop(edges_, id)
      /\ out_edges_' = [out_edges_ EXCEPT ![p] = EraseAll(@, id)]
      /\ in_edges_' = [in_edges_ EXCEPT ![c] = @ \ {id}]
      /\ nodes_' = nodes_
      /\ id \in DOMAIN edges_
  BY DEF remove_edge, CommitEdges
<1>2. p \in Node /\ c \in Node
  BY <1>1 DEF ShapeOK, StructOK, Edge
<1>3. out_edges_ \in [Node -> Seq(EdgeId)] /\ in_edges_ \in [Node -> SUBSET EdgeId]
  BY DEF ShapeOK, StructOK
<1>4. DOMAIN edges_' = DOMAIN edges_ \ {id} /\ \A x \in DOMAIN edges_' : edges_'[x] = edges_[x]
  BY <1>1 DEF Drop
<1>5. /\ Range(out_edges_'[p]) = Range(out_edges_[p]) \ {id}
      /\ \A n \in Node \ {p} : out_edges_'[n] = out_edges_[n]
  <2>1. out_edges_[p] \in Seq(EdgeId)
    BY <1>2, <1>3
  <2>2. Range(EraseAll(out_edges_[p], id)) = Range(out_edges_[p]) \ {id}
    BY <2>1, EraseAllProperties
  <2> HIDE DEF p, c
  <2> QED BY <1>1, <1>2, <1>3, <2>2
<1>6. /\ in_edges_'[c] = in_edges_[c] \ {id}
      /\ \A n \in Node \ {c} : in_edges_'[n] = in_edges_[n]
  <2> HIDE DEF p, c
  <2> QED BY <1>1, <1>2, <1>3
<1>7. OutExact'
  BY <1>4, <1>5 DEF IndexExact, OutExact
<1>8. InExact'
  BY <1>4, <1>6 DEF IndexExact, InExact
<1>9. EdgesIndexed'
  <2> SUFFICES ASSUME NEW x \in DOMAIN edges_'
               PROVE  /\ edges_'[x].producer \in DOMAIN nodes_
                      /\ edges_'[x].consumer \in DOMAIN nodes_
                      /\ edges_'[x].active => /\ x \in Range(out_edges_'[edges_'[x].producer])
                                              /\ x \in in_edges_'[edges_'[x].consumer]
    BY <1>1 DEF EdgesIndexed
  <2>1. x \in DOMAIN edges_ /\ edges_'[x] = edges_[x] /\ x # id
    BY <1>4
  <2>2. edges_[x].producer \in Node /\ edges_[x].consumer \in Node
    BY <2>1 DEF ShapeOK, StructOK, Edge
  <2> HIDE DEF p, c
  <2> QED BY <1>5, <1>6, <2>1, <2>2 DEF IndexExact
<1> QED BY <1>7, <1>8, <1>9 DEF IndexExact, OutExact, InExact, EdgesIndexed

\* Deactivation unfiles an edge, activation files it again.
LEMMA IndexSetEdgeActive ==
  ASSUME ShapeOK, IndexExact, NEW id \in EdgeId, NEW active \in BOOLEAN,
         NEW who \in Authority, set_edge_active(id, active, who)
  PROVE  IndexExact'
<1> DEFINE p == edges_[id].producer
           c == edges_[id].consumer
<1>0. id \in DOMAIN edges_
  BY DEF set_edge_active
<1>1. CASE edges_[id].active = active
  BY <1>1, IndexUnchanged DEF set_edge_active, CommitEdges
<1>2. CASE edges_[id].active # active
  <2>1. /\ edges_' = [edges_ EXCEPT ![id].active = active]
        /\ out_edges_' = [out_edges_ EXCEPT ![p] =
                            IF active THEN Append(@, id) ELSE EraseAll(@, id)]
        /\ in_edges_' = [in_edges_ EXCEPT ![c] = IF active THEN @ \cup {id} ELSE @ \ {id}]
        /\ nodes_' = nodes_
    BY <1>2 DEF set_edge_active, CommitEdges
  <2>2. p \in Node /\ c \in Node
    BY <1>0 DEF ShapeOK, StructOK, Edge
  <2>3. out_edges_ \in [Node -> Seq(EdgeId)] /\ in_edges_ \in [Node -> SUBSET EdgeId]
    BY DEF ShapeOK, StructOK
  <2>4. /\ DOMAIN edges_' = DOMAIN edges_
        /\ \A x \in DOMAIN edges_ : /\ edges_'[x].producer = edges_[x].producer
                                    /\ edges_'[x].consumer = edges_[x].consumer
                                    /\ x # id => edges_'[x].active = edges_[x].active
        /\ edges_'[id].active = active
    BY <1>0, <2>1 DEF ShapeOK, StructOK, Edge
  <2>5. /\ Range(out_edges_'[p]) = IF active THEN Range(out_edges_[p]) \cup {id}
                                   ELSE Range(out_edges_[p]) \ {id}
        /\ \A n \in Node \ {p} : out_edges_'[n] = out_edges_[n]
    <3>1. out_edges_[p] \in Seq(EdgeId)
      BY <2>2, <2>3
    <3>2. Range(Append(out_edges_[p], id)) = Range(out_edges_[p]) \cup {id}
      BY <3>1, RangeAppend
    <3>3. Range(EraseAll(out_edges_[p], id)) = Range(out_edges_[p]) \ {id}
      BY <3>1, EraseAllProperties
    <3> HIDE DEF p, c
    <3> QED BY <2>1, <2>2, <2>3, <3>2, <3>3
  <2>6. /\ in_edges_'[c] = IF active THEN in_edges_[c] \cup {id} ELSE in_edges_[c] \ {id}
        /\ \A n \in Node \ {c} : in_edges_'[n] = in_edges_[n]
    <3> HIDE DEF p, c
    <3> QED BY <2>1, <2>2, <2>3
  <2>7. OutExact'
    BY <1>0, <2>4, <2>5 DEF IndexExact, OutExact
  <2>8. InExact'
    BY <1>0, <2>4, <2>6 DEF IndexExact, InExact
  <2>9. EdgesIndexed'
    <3> SUFFICES ASSUME NEW x \in DOMAIN edges_'
                 PROVE  /\ edges_'[x].producer \in DOMAIN nodes_
                        /\ edges_'[x].consumer \in DOMAIN nodes_
                        /\ edges_'[x].active =>
                             /\ x \in Range(out_edges_'[edges_'[x].producer])
                             /\ x \in in_edges_'[edges_'[x].consumer]
      BY <2>1 DEF EdgesIndexed
    <3>1. edges_[x].producer \in Node /\ edges_[x].consumer \in Node
      BY <2>4 DEF ShapeOK, StructOK, Edge
    <3>2. CASE x = id
      BY <1>0, <2>4, <2>5, <2>6, <3>2 DEF IndexExact
    <3>3. CASE x # id
      BY <2>4, <2>5, <2>6, <3>1, <3>3 DEF IndexExact
    <3> QED BY <3>2, <3>3
  <2> QED BY <2>7, <2>8, <2>9 DEF IndexExact, OutExact, InExact, EdgesIndexed
<1> QED BY <1>1, <1>2

\* Nodes are never forgotten, and only edge operations touch the index.
LEMMA OthersKeepIndex ==
  ASSUME ShapeOK, [Next]_vars, \A who \in Authority : ~EdgeOps(who)
  PROVE  /\ DOMAIN nodes_ \subseteq DOMAIN nodes_'
         /\ edges_' = edges_ /\ out_edges_' = out_edges_ /\ in_edges_' = in_edges_
<1> DEFINE Goal == /\ DOMAIN nodes_ \subseteq DOMAIN nodes_'
                   /\ edges_' = edges_ /\ out_edges_' = out_edges_ /\ in_edges_' = in_edges_
<1>0. nodes_ \in [DOMAIN nodes_ -> NodeFacts]
  BY DEF ShapeOK, StructOK
<1>1. ASSUME NEW nodes, DOMAIN nodes = DOMAIN nodes_, NEW st, NEW root,
             CommitNodes(nodes, st, root)
      PROVE  Goal
  BY <1>1 DEF CommitNodes, structVars
<1>2. ASSUME NEW who \in Authority, DeclareOps(who) PROVE Goal
  BY <1>2 DEF DeclareOps, register_source, declare_node, structVars, Put
<1>3. ASSUME NEW who \in Authority, GenerationOps(who) PROVE Goal
  <2>1. ASSUME NEW n \in Node, NEW gen \in Generation, publish_generation(n, gen, who)
        PROVE  Goal
    BY <1>0, <2>1 DEF publish_generation, CommitNodes, structVars
  <2>2. ASSUME NEW n \in Node, NEW old_gen \in Generation, NEW new_gen \in Generation,
               supersede_generation(n, old_gen, new_gen, who)
        PROVE  Goal
    BY <1>0, <2>2 DEF supersede_generation, CommitNodes, structVars
  <2> QED BY <1>3, <2>1, <2>2 DEF GenerationOps
<1>4. ASSUME NEW who \in Authority, ReadinessOps(who) PROVE Goal
  <2>1. ASSUME NEW n \in Node, NEW patch \in EvidencePatches, set_node_evidence(n, patch, who)
        PROVE  Goal
    BY <1>0, <2>1 DEF set_node_evidence, CommitNodes, structVars
  <2>2. ASSUME NEW n \in Node, NEW s \in PublishableStates, publish_readiness(n, s, who)
        PROVE  Goal
    BY <1>0, <2>2 DEF publish_readiness, CommitNodes, structVars
  <2>3. ASSUME NEW n \in Node, retire_node(n, who) \/ mark_missing(n, who) \/ mark_stale(n, who)
        PROVE  Goal
    BY <1>0, <2>3 DEF retire_node, mark_missing, mark_stale, CommitNodes, structVars
  <2>4. ASSUME NEW n \in Node, mark_recovered(n, who) PROVE Goal
    BY <1>0, <2>4 DEF mark_recovered, CommitNodes, structVars
  <2> QED BY <1>4, <2>1, <2>2, <2>3, <2>4 DEF ReadinessOps
<1>5. ASSUME NEW who \in Authority, InvalidationOps(who) PROVE Goal
  <2>1. ASSUME NEW marked PROVE DOMAIN MarkInvalidated(marked) = DOMAIN nodes_
    BY DEF MarkInvalidated
  <2>2. ASSUME NEW n \in Node, NEW policy \in Policies, invalidate_node(n, policy, who)
        PROVE  Goal
    BY <1>1, <2>1, <2>2 DEF invalidate_node
  <2>3. ASSUME NEW n \in Node, NEW gen \in Generation, NEW policy \in Policies,
               invalidate_generation(n, gen, policy, who)
        PROVE  Goal
    BY <1>0, <2>1, <2>3 DEF invalidate_generation, CommitNodes, structVars
  <2> QED BY <1>5, <2>2, <2>3 DEF InvalidationOps
<1>6. ASSUME NEW who \in Authority, SetOps(who) PROVE Goal
  BY <1>6 DEF SetOps, add_dependency_set, remove_dependency_set, CommitSets
<1>7. ASSUME NEW e \in Epoch, advance_epoch(e) PROVE Goal
  BY <1>7 DEF advance_epoch, structVars
<1>8. CASE RecomputeOps \/ AdapterOps \/ UNCHANGED vars
  BY <1>8 DEF RecomputeOps, recompute_readiness, recompute_all_readiness,
              AdapterOps, set_adapter, adapter_reports, vars, structVars
<1> QED BY <1>2, <1>3, <1>4, <1>5, <1>6, <1>7, <1>8 DEF Next

\* Every step keeps the index exact.
LEMMA IndexStep == ShapeOK /\ IndexExact /\ [Next]_vars => IndexExact'
<1> SUFFICES ASSUME ShapeOK, IndexExact, [Next]_vars PROVE IndexExact'
  OBVIOUS
<1>1. ASSUME NEW who \in Authority, EdgeOps(who) PROVE IndexExact'
  BY <1>1, IndexAddEdge, IndexRemoveEdge, IndexSetEdgeActive DEF EdgeOps
<1>2. CASE \A who \in Authority : ~EdgeOps(who)
  BY <1>2, OthersKeepIndex, IndexUnchanged
<1> QED BY <1>1, <1>2

(***************************************************************************)
(* The index is exact in every reachable state, for every graph: no entry  *)
(* dangles after any mix of add_edge, remove_edge and set_edge_active, and *)
(* no active edge is missing from a traversal.                             *)
(***************************************************************************)
THEOREM IndexSafe == Spec => []IndexExact
<1>1. Init => ShapeOK /\ IndexExact
  <2>1. Range(<<>>) = {}
    BY DEF Range
  <2> QED BY InitSound, <2>1 DEF Init, IndexExact
<1>2. ShapeOK /\ [Next]_vars => ShapeOK'
  BY NextSound
<1>3. ShapeOK /\ IndexExact /\ [Next]_vars => IndexExact'
  BY IndexStep
<1> QED BY <1>1, <1>2, <1>3, PTL DEF Spec

-----------------------------------------------------------------------------
(* The cycle search *)

\* Removing or deactivating edges closes no cycle.
LEMMA AcyclicMonotone ==
  ASSUME NEW old, NEW new, Acyclic(old),
         \A x \in DOMAIN new : new[x].active =>
           /\ x \in DOMAIN old /\ old[x].active
           /\ new[x].producer = old[x].producer /\ new[x].consumer = old[x].consumer
  PROVE  Acyclic(new)
<1> SUFFICES ASSUME NEW S \in SUBSET Node, S # {}
             PROVE  \E n \in S : \A x \in DOMAIN new :
                      new[x].active /\ new[x].consumer = n => new[x].producer \notin S
  BY DEF Acyclic
<1>1. PICK n \in S : \A x \in DOMAIN old :
        old[x].active /\ old[x].consumer = n => old[x].producer \notin S
  BY DEF Acyclic
<1> QED BY <1>1

\* The visited set holds its start and is closed under index entries.
LEMMA VisitedClosed ==
  ASSUME NEW g, NEW consumer \in Node
  PROVE  /\ consumer \in Visited(g, consumer)
         /\ \A m \in Visited(g, consumer), n \in Node :
              n \in Successors(g, m) => n \in Visited(g, consumer)
BY DEF Visited

(***************************************************************************)
(* add_edge keeps an acyclic graph acyclic.  Every set S of nodes keeps a  *)
(* node without producer in S: one of S outside the visited set if there   *)
(* is one (the new edge enters the visited set and no active edge leaves   *)
(* it), any least one otherwise (the new producer was not visited).        *)
(***************************************************************************)
LEMMA AddEdgeKeepsAcyclic ==
  ASSUME ShapeOK, IndexExact, Acyclic(edges_),
         NEW e \in EdgeCatalog, NEW who \in Authority, add_edge(e, who)
  PROVE  Acyclic(edges_')
<1> DEFINE V == Visited(graph, e.consumer)
<1>1. e \in Edge /\ e.producer \in Node /\ e.consumer \in Node
  BY InputAssumption DEF Edge
<1>2. e.producer \notin V /\ e.consumer \in V
  BY <1>1, VisitedClosed DEF add_edge, edge_fits, would_create_cycle
<1>3. /\ DOMAIN edges_' = DOMAIN edges_ \cup {e.id} /\ edges_'[e.id] = e
      /\ \A x \in DOMAIN edges_ : edges_'[x] = edges_[x]
  BY DEF add_edge, edge_fits, CommitEdges, Put
<1>4. ASSUME NEW x \in DOMAIN edges_, edges_[x].active, edges_[x].producer \in V
      PROVE  edges_[x].consumer \in V
  <2>1. edges_[x].producer \in Node /\ edges_[x].consumer \in Node
    BY DEF ShapeOK, StructOK, Edge
  <2>2. x \in Range(out_edges_[edges_[x].producer])
    BY <1>4 DEF IndexExact
  <2>3. edges_[x].consumer \in Successors(graph, edges_[x].producer)
    BY <1>4, <2>2 DEF Successors, Followed, graph
  <2> HIDE DEF graph
  <2> QED BY <1>1, <1>4, <2>1, <2>3, VisitedClosed
<1> HIDE DEF V
<1> SUFFICES ASSUME NEW S \in SUBSET Node, S # {}
             PROVE  \E n \in S : \A x \in DOMAIN edges_' :
                      edges_'[x].active /\ edges_'[x].consumer = n => edges_'[x].producer \notin S
  BY DEF Acyclic
<1>5. CASE S \ V = {}
  <2>1. PICK n \in S : \A x \in DOMAIN edges_ :
          edges_[x].active /\ edges_[x].consumer = n => edges_[x].producer \notin S
    BY DEF Acyclic
  <2>2. e.producer \notin S
    BY <1>2, <1>5
  <2> QED BY <1>3, <2>1, <2>2
<1>6. CASE S \ V # {}
  <2>1. PICK n \in S \ V : \A x \in DOMAIN edges_ :
          edges_[x].active /\ edges_[x].consumer = n => edges_[x].producer \notin S \ V
    <3>1. S \ V \in SUBSET Node
      OBVIOUS
    <3> QED BY <1>6, <3>1 DEF Acyclic
  <2>2. \A x \in DOMAIN edges_ :
          edges_[x].active /\ edges_[x].consumer = n => edges_[x].producer \notin V
    BY <1>4, <2>1
  <2>3. e.consumer # n
    BY <1>2, <2>1
  <2> QED BY <1>3, <2>1, <2>2, <2>3
<1> QED BY <1>5, <1>6

\* Every step that closes a cycle is a reactivation.
LEMMA CycleStep == ShapeOK /\ IndexExact /\ [Next]_vars => ClosesCycleByReactivation
<1> SUFFICES ASSUME ShapeOK, IndexExact, [Next]_vars, Acyclic(edges_), ~Acyclic(edges_')
             PROVE  \E x \in DOMAIN edges_ \cap DOMAIN edges_' :
                      ~edges_[x].active /\ edges_'[x].active
  BY DEF ClosesCycleByReactivation
<1>0. edges_ \in [DOMAIN edges_ -> Edge]
  BY DEF ShapeOK, StructOK
<1>1. PICK who \in Authority : EdgeOps(who)
  BY OthersKeepIndex
<1>2. ASSUME NEW e \in EdgeCatalog, add_edge(e, who) PROVE FALSE
  BY <1>2, AddEdgeKeepsAcyclic
<1>3. ASSUME NEW id \in EdgeId, remove_edge(id, who) PROVE FALSE
  <2>1. edges_' = Drop(edges_, id)
    BY <1>3 DEF remove_edge, CommitEdges
  <2>2. \A x \in DOMAIN edges_' : x \in DOMAIN edges_ /\ edges_'[x] = edges_[x]
    BY <2>1 DEF Drop
  <2> QED BY <2>2, AcyclicMonotone
<1>4. ASSUME NEW id \in EdgeId, NEW active \in BOOLEAN, set_edge_active(id, active, who)
      PROVE  \E x \in DOMAIN edges_ \cap DOMAIN edges_' :
               ~edges_[x].active /\ edges_'[x].active
  <2>1. id \in DOMAIN edges_ /\ edges_[id].active # active
        /\ edges_' = [edges_ EXCEPT ![id].active = active]
    BY <1>4 DEF set_edge_active, CommitEdges
  <2>2. /\ DOMAIN edges_' = DOMAIN edges_
        /\ \A x \in DOMAIN edges_ : /\ edges_'[x].producer = edges_[x].producer
                                    /\ edges_'[x].consumer = edges_[x].consumer
                                    /\ x # id => edges_'[x].active = edges_[x].active
        /\ edges_'[id].active = active /\ edges_[id].active \in BOOLEAN
    BY <1>0, <2>1 DEF Edge
  <2>3. CASE active
    BY <2>1, <2>2, <2>3
  <2>4. CASE ~active
    <3>1. \A x \in DOMAIN edges_' : edges_'[x].active =>
            /\ x \in DOMAIN edges_ /\ edges_[x].active
            /\ edges_'[x].producer = edges_[x].producer
            /\ edges_'[x].consumer = edges_[x].consumer
      BY <2>2, <2>4
    <3> QED BY <3>1, AcyclicMonotone
  <2> QED BY <2>3, <2>4
<1> QED BY <1>1, <1>2, <1>3, <1>4 DEF EdgeOps

(***************************************************************************)
(* For every graph, the only operation that can close a cycle is the       *)
(* reactivation of an edge: the search of add_edge is sound although it    *)
(* follows the index instead of the edge map.                              *)
(***************************************************************************)
THEOREM CycleSafe == Spec => OnlyReactivationClosesCycle
<1>1. Init => ShapeOK /\ IndexExact
  <2>1. Range(<<>>) = {}
    BY DEF Range
  <2> QED BY InitSound, <2>1 DEF Init, IndexExact
<1>2. ShapeOK /\ [Next]_vars => ShapeOK'
  BY NextSound
<1>3. ShapeOK /\ IndexExact /\ [Next]_vars => IndexExact'
  BY IndexStep
<1>4. ShapeOK /\ IndexExact /\ [Next]_vars => [ClosesCycleByReactivation]_vars
  BY CycleStep
<1> QED BY <1>1, <1>2, <1>3, <1>4, PTL DEF Spec, OnlyReactivationClosesCycle
=============================================================================
