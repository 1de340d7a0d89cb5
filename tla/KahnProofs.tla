----------------------------- MODULE KahnProofs -----------------------------
(***************************************************************************)
(* Kahn's algorithm, as recompute_all_locked and the loader run it over    *)
(* the adjacency index: on every graph with an exact index it queues every *)
(* node whose producers it queued, and when no edge is indexed twice it    *)
(* queues producers first.  Hence it reaches every node of an acyclic      *)
(* graph, and one pass in its order settles such a graph.                  *)
(***************************************************************************)
EXTENDS DependencyGraphProofs

\* The active edges into n, whose number is its in-degree.
Inbound(g, n) == {x \in DOMAIN g.edges : g.edges[x].active /\ g.edges[x].consumer = n}

\* What the algorithm relies on: the outbound index is exact.
KahnGraph(g) ==
  /\ GraphShape(g)
  /\ \A n \in Node : \A x \in Range(g.out[n]) : x \in DOMAIN g.edges /\ g.edges[x].producer = n
  /\ \A x \in DOMAIN g.edges : g.edges[x].active =>
       /\ g.edges[x].producer \in DOMAIN g.nodes /\ g.edges[x].consumer \in DOMAIN g.nodes
       /\ x \in Range(g.out[g.edges[x].producer])

Once(g) == \A n \in Node : IsInjective(g.out[n])

ProducersFirst(g, q) ==
  \A i \in DOMAIN q : \A x \in Inbound(g, q[i]) : \E j \in 1..(i - 1) : q[j] = g.edges[x].producer

(***************************************************************************)
(* The loop invariant, E being the index entries released so far.  An      *)
(* entry that the index holds twice is counted down twice, so the count is *)
(* the number of unreleased edges only if there is none.                   *)
(***************************************************************************)
KahnOK(g, w, E) ==
  /\ IsInjective(w.queue)
  /\ Range(w.queue) = {n \in DOMAIN g.nodes : w.indeg[n] <= 0}
  /\ \A n \in DOMAIN g.nodes : w.indeg[n] <= Cardinality(Inbound(g, n) \ E)
  /\ \A x \in E : x \in DOMAIN g.edges /\ g.edges[x].producer \in Range(w.queue)
  /\ Once(g) => \A n \in DOMAIN g.nodes : w.indeg[n] >= Cardinality(Inbound(g, n) \ E)
  /\ Once(g) => ProducersFirst(g, w.queue)

\* A sequence has as many places as it is long.
LEMMA CountUpTo == \A k \in Nat : Cardinality(1..k) = k
BY FS_Interval

\* Unreleased inbound edges can be counted.
LEMMA InboundFinite ==
  ASSUME NEW g, GraphShape(g), NEW n, NEW E
  PROVE  IsFiniteSet(Inbound(g, n) \ E) /\ Cardinality(Inbound(g, n) \ E) \in Nat
<1>1. Inbound(g, n) \ E \subseteq EdgeId
  BY DEF Inbound, GraphShape
<1> QED BY <1>1, FiniteAssumption, FS_Subset, FS_CardinalityType

\* Queues only grow.
Extends(new, old) == Len(new) >= Len(old) /\ \A i \in 1..Len(old) : new[i] = old[i]

\* Growing twice is growing.
LEMMA ExtendsTransitive ==
  ASSUME NEW E, NEW a \in Seq(E), NEW b \in Seq(E), NEW c \in Seq(E),
         Extends(c, b), Extends(b, a)
  PROVE  Extends(c, a)
<1>1. Len(a) \in Nat /\ Len(b) \in Nat /\ Len(c) \in Nat
  OBVIOUS
<1>2. \A i \in 1..Len(a) : i \in 1..Len(b)
  BY <1>1 DEF Extends
<1>3. Len(c) >= Len(a)
  BY <1>1 DEF Extends
<1> QED BY <1>2, <1>3 DEF Extends

\* Appending c, all of whose producers are queued, keeps producers first.
LEMMA ProducersFirstAppend ==
  ASSUME NEW g, NEW q \in Seq(Node), NEW c \in Node, ProducersFirst(g, q),
         \A x \in Inbound(g, c) : g.edges[x].producer \in Range(q)
  PROVE  ProducersFirst(g, Append(q, c))
<1> DEFINE a == Append(q, c)
<1>1. /\ Len(q) \in Nat /\ DOMAIN q = 1..Len(q) /\ DOMAIN a = 1..(Len(q) + 1)
      /\ a[Len(q) + 1] = c /\ \A i \in 1..Len(q) : a[i] = q[i]
  OBVIOUS
<1> HIDE DEF a
<1>2. ASSUME NEW i \in DOMAIN a, NEW x \in Inbound(g, a[i])
      PROVE  \E j \in 1..(i - 1) : a[j] = g.edges[x].producer
  <2>1. CASE i = Len(q) + 1
    <3>1. PICK j \in DOMAIN q : q[j] = g.edges[x].producer
      BY <1>1, <1>2, <2>1 DEF Range
    <3> QED BY <1>1, <2>1, <3>1
  <2>2. CASE i # Len(q) + 1
    <3>1. i \in DOMAIN q /\ a[i] = q[i]
      BY <1>1, <2>2
    <3>2. PICK j \in 1..(i - 1) : q[j] = g.edges[x].producer
      BY <1>2, <3>1 DEF ProducersFirst
    <3>3. j \in 1..Len(q)
      BY <1>1, <3>1
    <3> QED BY <1>1, <3>2, <3>3
  <2> QED BY <2>1, <2>2
<1> QED BY <1>2 DEF ProducersFirst, a

\* Releasing one entry of a queued node.
LEMMA ReleaseOneKeeps ==
  ASSUME NEW g, KahnGraph(g), NEW w \in Work(g), NEW E, KahnOK(g, w, E),
         NEW x \in DOMAIN g.edges, g.edges[x].producer \in Range(w.queue),
         Once(g) => x \notin E
  PROVE  /\ KahnOK(g, ReleaseOne(g, w, x), E \cup {x})
         /\ Extends(ReleaseOne(g, w, x).queue, w.queue)
<1> DEFINE D == E \cup {x}
           c == g.edges[x].consumer
           v == ReleaseOne(g, w, x)
<1>0. /\ w.queue \in Seq(Node) /\ w.indeg \in [DOMAIN g.nodes -> Int]
      /\ GraphShape(g) /\ DOMAIN g.nodes \subseteq Node
  BY DEF Work, KahnGraph, GraphShape
<1>1. \A n : n # c => Inbound(g, n) \ D = Inbound(g, n) \ E
  BY DEF Inbound
<1>2. CASE ~g.edges[x].active
  <2>1. v = w
    BY <1>2 DEF ReleaseOne, Followed
  <2>2. \A n : Inbound(g, n) \ D = Inbound(g, n) \ E
    BY <1>2 DEF Inbound
  <2>3. KahnOK(g, w, D)
    BY <2>2 DEF KahnOK
  <2>4. Extends(w.queue, w.queue)
    BY <1>0 DEF Extends
  <2> QED BY <2>1, <2>3, <2>4
<1>3. CASE g.edges[x].active
  <2> DEFINE left == w.indeg[c] - 1
  <2>1. c \in DOMAIN g.nodes /\ c \in Node /\ x \in Inbound(g, c)
    BY <1>0, <1>3 DEF KahnGraph, Inbound
  <2>2. /\ v.indeg = [w.indeg EXCEPT ![c] = left]
        /\ v.queue = IF left = 0 THEN Append(w.queue, c) ELSE w.queue
    BY <1>3 DEF ReleaseOne, Followed
  <2>3. /\ v.indeg[c] = left /\ left \in Int /\ w.indeg[c] \in Int
        /\ \A n \in DOMAIN g.nodes \ {c} : v.indeg[n] = w.indeg[n]
    BY <1>0, <2>1, <2>2
  <2> DEFINE old == Inbound(g, c) \ E
             new == Inbound(g, c) \ D
  <2>4. /\ IsFiniteSet(old) /\ Cardinality(old) \in Nat /\ Cardinality(new) \in Nat
        /\ IsFiniteSet(new)
    BY <1>0, InboundFinite
  <2>5. Cardinality(old) - 1 <= Cardinality(new) /\ (Once(g) => Cardinality(new) = Cardinality(old) - 1)
    <3>1. CASE x \in E
      <4>1. new = old
        BY <3>1
      <4> HIDE DEF old, new
      <4> QED BY <2>4, <3>1, <4>1
    <3>2. CASE x \notin E
      <4>1. x \in old /\ new = old \ {x}
        BY <2>1, <3>2
      <4> HIDE DEF old, new
      <4>2. Cardinality(new) = Cardinality(old) - 1
        BY <2>4, <4>1, FS_RemoveElement
      <4> QED BY <2>4, <4>2
    <3> QED BY <3>1, <3>2
  <2> HIDE DEF v, left
  <2>6. \A n \in DOMAIN g.nodes : v.indeg[n] <= Cardinality(Inbound(g, n) \ D)
    <3>1. w.indeg[c] <= Cardinality(old)
      BY <2>1 DEF KahnOK
    <3>2. v.indeg[c] <= Cardinality(new)
      <4> HIDE DEF old, new
      <4> QED BY <2>3, <2>4, <2>5, <3>1 DEF left
    <3> QED BY <1>1, <2>3, <3>2 DEF KahnOK
  <2>7. ASSUME Once(g)
        PROVE  \A n \in DOMAIN g.nodes : v.indeg[n] >= Cardinality(Inbound(g, n) \ D)
    <3>1. w.indeg[c] >= Cardinality(old)
      BY <2>1, <2>7 DEF KahnOK
    <3>2. v.indeg[c] >= Cardinality(new)
      <4> HIDE DEF old, new
      <4> QED BY <2>3, <2>4, <2>5, <2>7, <3>1 DEF left
    <3> QED BY <1>1, <2>3, <2>7, <3>2 DEF KahnOK
  <2>8. CASE left = 0
    <3>1. v.queue = Append(w.queue, c)
      BY <2>2, <2>8
    <3>2. c \notin Range(w.queue)
      BY <2>3, <2>8 DEF KahnOK, left
    <3>3. IsInjective(v.queue) /\ Range(v.queue) = Range(w.queue) \cup {c}
      BY <1>0, <2>1, <3>1, <3>2, AppendDistinct, RangeAppend DEF KahnOK
    <3>4. Range(v.queue) = {n \in DOMAIN g.nodes : v.indeg[n] <= 0}
      BY <2>1, <2>3, <2>8, <3>3 DEF KahnOK
    <3>5. \A y \in D : y \in DOMAIN g.edges /\ g.edges[y].producer \in Range(v.queue)
      BY <3>3 DEF KahnOK
    <3>6. ASSUME Once(g) PROVE ProducersFirst(g, v.queue)
      <4>1. Cardinality(new) = 0
        <5> HIDE DEF new
        <5>1. new = Inbound(g, c) \ D
          BY DEF new
        <5>2. 0 >= Cardinality(new)
          BY <2>1, <2>3, <2>7, <2>8, <3>6, <5>1
        <5> QED BY <2>4, <5>2
      <4>2. new = {}
        <5> HIDE DEF new
        <5> QED BY <2>4, <4>1, FS_EmptySet
      <4>3. \A y \in Inbound(g, c) : g.edges[y].producer \in Range(w.queue)
        BY <4>2 DEF KahnOK
      <4>4. ProducersFirst(g, w.queue)
        BY <3>6 DEF KahnOK
      <4> HIDE DEF new, c
      <4> QED BY <1>0, <2>1, <3>1, <4>3, <4>4, ProducersFirstAppend
    <3>7. Extends(v.queue, w.queue)
      BY <1>0, <2>1, <3>1 DEF Extends
    <3>8. KahnOK(g, v, D)
      BY <2>6, <2>7, <3>3, <3>4, <3>5, <3>6 DEF KahnOK
    <3> QED BY <3>7, <3>8 DEF v
  <2>9. CASE left # 0
    <3>1. v.queue = w.queue
      BY <2>2, <2>9
    <3>2. Range(v.queue) = {n \in DOMAIN g.nodes : v.indeg[n] <= 0}
      <4>1. v.indeg[c] <= 0 <=> w.indeg[c] <= 0
        BY <2>3, <2>9 DEF left
      <4> QED BY <2>3, <3>1, <4>1 DEF KahnOK
    <3>3. Extends(v.queue, w.queue)
      BY <1>0, <3>1 DEF Extends
    <3>4. KahnOK(g, v, D)
      BY <2>6, <2>7, <3>1, <3>2 DEF KahnOK
    <3> QED BY <3>3, <3>4 DEF v
  <2> QED BY <2>8, <2>9
<1> QED BY <1>2, <1>3

\* The entries of the first k nodes of the queue.
Released(g, q, k) == UNION {Range(g.out[q[i]]) : i \in {j \in DOMAIN q : j <= k}}

\* What the first k nodes release does not depend on how the queue goes on.
LEMMA ReleasedPrefix ==
  ASSUME NEW g, NEW old \in Seq(Node), NEW new \in Seq(Node), Extends(new, old),
         NEW k \in Nat, k <= Len(old)
  PROVE  Released(g, new, k) = Released(g, old, k)
<1>1. {j \in DOMAIN new : j <= k} = {j \in DOMAIN old : j <= k}
  BY DEF Extends
<1>2. \A i \in {j \in DOMAIN old : j <= k} : new[i] = old[i]
  BY DEF Extends
<1> QED BY <1>1, <1>2 DEF Released

\* Releasing the consumers of the k-th node of the queue.
LEMMA ReleaseKeeps ==
  ASSUME NEW g, KahnGraph(g), NEW w \in Work(g), NEW k \in Nat \ {0}, k <= Len(w.queue),
         KahnOK(g, w, Released(g, w.queue, k - 1))
  PROVE  LET v == release_consumers(g, w, w.queue[k])
         IN KahnOK(g, v, Released(g, v.queue, k))
<1> DEFINE cur == w.queue[k]
           entry == g.out[cur]
           m == Len(entry)
           E == Released(g, w.queue, k - 1)
           Done(j) == E \cup {entry[i] : i \in 1..j}
<1>1. /\ GraphShape(g) /\ w.queue \in Seq(Node) /\ k \in DOMAIN w.queue
      /\ cur \in Node /\ cur \in Range(w.queue) /\ IsInjective(w.queue)
  BY DEF KahnGraph, Work, KahnOK, Range
<1>2. entry \in Seq(EdgeId) /\ m \in Nat
  BY <1>1 DEF GraphShape
<1>3. \A j \in 1..m : entry[j] \in DOMAIN g.edges /\ g.edges[entry[j]].producer = cur
  <2> HIDE DEF cur
  <2>1. \A j \in 1..m : entry[j] \in Range(entry)
    BY <1>2 DEF Range
  <2> QED BY <1>1, <2>1 DEF KahnGraph
<1>4. PICK scan \in [0..m -> Work(g)] :
        /\ scan[0] = w
        /\ \A j \in 1..m : scan[j] = ReleaseOne(g, scan[j - 1], entry[j])
        /\ release_consumers(g, w, cur) = scan[m]
  <2> HIDE DEF cur
  <2> QED BY <1>1, ReleaseRun
<1>5. \A y \in E : g.edges[y].producer # cur
  <2>1. ASSUME NEW i \in DOMAIN w.queue, i <= k - 1, NEW y \in Range(g.out[w.queue[i]])
        PROVE  g.edges[y].producer # cur
    <3>1. w.queue[i] \in Node /\ w.queue[i] # cur
      BY <1>1, <2>1 DEF IsInjective
    <3>2. g.edges[y].producer = w.queue[i]
      BY <2>1, <3>1 DEF KahnGraph
    <3> QED BY <3>1, <3>2
  <2> QED BY <2>1 DEF Released
<1>6. \A j \in 1..m : Once(g) => entry[j] \notin Done(j - 1)
  <2> SUFFICES ASSUME NEW j \in 1..m, Once(g), entry[j] \in Done(j - 1) PROVE FALSE
    OBVIOUS
  <2>1. IsInjective(entry)
    BY <1>1 DEF Once
  <2>2. entry[j] \notin E
    BY <1>3, <1>5
  <2>3. PICK i \in 1..(j - 1) : entry[j] = entry[i]
    <3> HIDE DEF E
    <3> QED BY <2>2
  <2> HIDE DEF entry
  <2> QED BY <1>2, <2>1, <2>3 DEF IsInjective
<1> DEFINE T == {j \in 0..m : KahnOK(g, scan[j], Done(j)) /\ Extends(scan[j].queue, w.queue)}
<1>7. \A j \in 0..m : j \in T
  <2>1. 0 \in T
    <3>1. Done(0) = E
      OBVIOUS
    <3>2. Extends(w.queue, w.queue)
      BY <1>1 DEF Extends
    <3> HIDE DEF Done, E
    <3> QED BY <1>2, <1>4, <3>1, <3>2 DEF E
  <2>2. ASSUME NEW j \in 1..m, j - 1 \in T PROVE j \in T
    <3>1. j \in 0..m /\ j - 1 \in 0..m
      BY <1>2
    <3>2. /\ scan[j - 1] \in Work(g) /\ scan[j] \in Work(g)
          /\ scan[j] = ReleaseOne(g, scan[j - 1], entry[j])
      BY <1>4, <3>1
    <3>3. Done(j) = Done(j - 1) \cup {entry[j]}
      <4>1. 1..j = (1..(j - 1)) \cup {j}
        OBVIOUS
      <4> HIDE DEF E, entry, m
      <4> QED BY <4>1
    <3> HIDE DEF Done
    <3>4. KahnOK(g, scan[j - 1], Done(j - 1)) /\ Extends(scan[j - 1].queue, w.queue)
      BY <2>2
    <3>5. scan[j - 1].queue \in Seq(Node) /\ scan[j].queue \in Seq(Node)
      BY <3>2 DEF Work
    <3>6. cur \in Range(scan[j - 1].queue)
      <4>1. k \in 1..Len(w.queue) /\ k \in DOMAIN scan[j - 1].queue /\ scan[j - 1].queue[k] = cur
        BY <1>1, <3>4, <3>5 DEF Extends
      <4> QED BY <4>1 DEF Range
    <3>7. entry[j] \in DOMAIN g.edges /\ g.edges[entry[j]].producer \in Range(scan[j - 1].queue)
      BY <1>3, <3>6
    <3> HIDE DEF entry, T
    <3>8. KahnOK(g, scan[j], Done(j)) /\ Extends(scan[j].queue, scan[j - 1].queue)
      <4>1. Once(g) => entry[j] \notin Done(j - 1)
        BY <1>6
      <4>2. /\ KahnOK(g, ReleaseOne(g, scan[j - 1], entry[j]), Done(j - 1) \cup {entry[j]})
            /\ Extends(ReleaseOne(g, scan[j - 1], entry[j]).queue, scan[j - 1].queue)
        BY <3>2, <3>4, <3>7, <4>1, ReleaseOneKeeps
      <4> QED BY <3>2, <3>3, <4>2
    <3>9. Extends(scan[j].queue, w.queue)
      BY <1>1, <3>4, <3>5, <3>8, ExtendsTransitive
    <3> QED BY <3>1, <3>8, <3>9 DEF T
  <2> HIDE DEF T, m
  <2> QED BY <1>2, <2>1, <2>2, UpTo
<1> DEFINE v == scan[m]
<1>8. v \in Work(g) /\ v.queue \in Seq(Node) /\ KahnOK(g, v, Done(m)) /\ Extends(v.queue, w.queue)
  <2>1. m \in 0..m
    BY <1>2
  <2>2. v \in Work(g)
    BY <1>4, <2>1
  <2>3. v.queue \in Seq(Node)
    BY <2>2 DEF Work
  <2>4. m \in T
    BY <1>7, <2>1
  <2> QED BY <2>2, <2>3, <2>4
<1>9. Done(m) = Released(g, v.queue, k)
  <2>1. Released(g, v.queue, k) = Released(g, w.queue, k)
    <3> HIDE DEF v
    <3> QED BY <1>1, <1>8, ReleasedPrefix
  <2>2. {entry[i] : i \in 1..m} = Range(entry)
    BY <1>2 DEF Range
  <2>3. {j \in DOMAIN w.queue : j <= k} = {j \in DOMAIN w.queue : j <= k - 1} \cup {k}
    BY <1>1
  <2>4. Released(g, w.queue, k) = E \cup Range(g.out[w.queue[k]])
    BY <2>3 DEF Released
  <2> HIDE DEF E, v
  <2> QED BY <2>1, <2>2, <2>4
<1> HIDE DEF Done
<1> QED BY <1>4, <1>8, <1>9

\* The work Kahn's loop starts with.
LEMMA KahnStartOK ==
  ASSUME NEW g, KahnGraph(g), NEW listing \in Seq(Node),
         IsInjective(listing), Range(listing) = DOMAIN g.nodes
  PROVE  KahnOK(g, KahnStart(g, listing), {})
<1> DEFINE w == KahnStart(g, listing)
           zero == {n \in DOMAIN InDegree(g) : InDegree(g)[n] = 0}
<1>1. GraphShape(g)
  BY DEF KahnGraph
<1>2. /\ w.indeg = [n \in DOMAIN g.nodes |-> Cardinality(Inbound(g, n))]
      /\ w.queue = Keep(listing, zero)
  BY DEF KahnStart, InDegree, Inbound
<1>3. \A n : Inbound(g, n) \ {} = Inbound(g, n) /\ Cardinality(Inbound(g, n)) \in Nat
  <2> TAKE n
  <2>1. Inbound(g, n) \ {} = Inbound(g, n)
    OBVIOUS
  <2>2. Cardinality(Inbound(g, n) \ {}) \in Nat
    BY <1>1, InboundFinite
  <2> QED BY <2>1, <2>2
<1>4. zero = {n \in DOMAIN g.nodes : w.indeg[n] = 0}
  BY <1>2 DEF KahnStart
<1> HIDE DEF zero
<1>5. w.queue \in Seq(Node) /\ IsInjective(w.queue) /\ Range(w.queue) = zero
  <2>1. zero \subseteq Range(listing)
    BY <1>4
  <2>2. /\ Keep(listing, zero) \in Seq(Node) /\ IsInjective(Keep(listing, zero))
        /\ Range(Keep(listing, zero)) = Range(listing) \cap zero
    BY KeepProperties
  <2> QED BY <1>2, <2>1, <2>2
<1> HIDE DEF w
<1>6. Range(w.queue) = {n \in DOMAIN g.nodes : w.indeg[n] <= 0}
  <2>1. \A n \in DOMAIN g.nodes : w.indeg[n] \in Nat
    BY <1>2, <1>3
  <2>2. \A n \in DOMAIN g.nodes : w.indeg[n] = 0 <=> w.indeg[n] <= 0
    BY <2>1
  <2> QED BY <1>4, <1>5, <2>2
<1>7. ProducersFirst(g, w.queue)
  <2> SUFFICES ASSUME NEW i \in DOMAIN w.queue PROVE Inbound(g, w.queue[i]) = {}
    BY DEF ProducersFirst
  <2>1. w.queue[i] \in zero
    BY <1>5 DEF Range
  <2>2. Cardinality(Inbound(g, w.queue[i])) = 0
    BY <1>2, <1>4, <2>1
  <2> QED BY <1>1, <1>3, <2>2, InboundFinite, FS_EmptySet
<1>8. KahnOK(g, w, {})
  BY <1>2, <1>3, <1>5, <1>6, <1>7 DEF KahnOK
<1> QED BY <1>8 DEF w

(***************************************************************************)
(* What the queue of Kahn's algorithm holds at the end: distinct nodes,    *)
(* every node whose active producers are all in it and, when no edge is    *)
(* indexed twice, producers before consumers.                              *)
(***************************************************************************)
LEMMA KahnQueueProperties ==
  ASSUME NEW g, KahnGraph(g), NEW listing \in Seq(Node),
         IsInjective(listing), Range(listing) = DOMAIN g.nodes
  PROVE  LET q == kahn_queue(g, listing)
         IN /\ q \in Seq(Node) /\ IsInjective(q) /\ Range(q) \subseteq DOMAIN g.nodes
            /\ \A n \in DOMAIN g.nodes :
                 (\A x \in Inbound(g, n) : g.edges[x].producer \in Range(q)) => n \in Range(q)
            /\ Once(g) => ProducersFirst(g, q)
<1> DEFINE m == Cardinality(Node)
<1>1. m \in Nat /\ GraphShape(g)
  BY FiniteAssumption, FS_CardinalityType DEF KahnGraph
<1>2. PICK turn \in [0..m -> Work(g)] :
        /\ turn[0] = KahnStart(g, listing)
        /\ \A k \in 1..m : turn[k] = KahnTurn(g, turn[k - 1], k)
        /\ kahn_queue(g, listing) = turn[m].queue
  BY <1>1, KahnRun
<1> DEFINE T == {k \in 0..m : KahnOK(g, turn[k], Released(g, turn[k].queue, k))}
<1>3. \A k \in 0..m : k \in T
  <2>1. 0 \in T
    <3>1. turn[0].queue \in Seq(Node)
      <4>1. turn[0] \in Work(g)
        BY <1>1, <1>2
      <4> QED BY <4>1 DEF Work
    <3>2. {j \in DOMAIN turn[0].queue : j <= 0} = {}
      BY <3>1
    <3>3. Released(g, turn[0].queue, 0) = {}
      BY <3>2 DEF Released
    <3>4. KahnOK(g, turn[0], {})
      <4>1. KahnOK(g, KahnStart(g, listing), {})
        BY KahnStartOK
      <4> QED BY <1>2, <4>1
    <3>5. KahnOK(g, turn[0], Released(g, turn[0].queue, 0))
      BY ONLY <3>3, <3>4
    <3>6. 0 \in 0..m
      BY <1>1
    <3> QED BY <3>5, <3>6
  <2>2. ASSUME NEW k \in 1..m, k - 1 \in T PROVE k \in T
    <3> DEFINE w == turn[k - 1]
    <3>1. w \in Work(g) /\ w.queue \in Seq(Node) /\ turn[k] = KahnTurn(g, w, k) /\ k \in 0..m
      <4>1. k \in 0..m /\ k - 1 \in 0..m
        BY <1>1
      <4>2. w \in Work(g)
        BY <1>2, <4>1
      <4>3. w.queue \in Seq(Node)
        BY <4>2 DEF Work
      <4> QED BY <1>2, <4>1, <4>2, <4>3
    <3>2. KahnOK(g, w, Released(g, w.queue, k - 1))
      BY <2>2
    <3>3. CASE k <= Len(w.queue)
      <4>1. turn[k] = release_consumers(g, w, w.queue[k])
        BY <3>1, <3>3 DEF KahnTurn
      <4> HIDE DEF w
      <4>2. KahnOK(g, turn[k], Released(g, turn[k].queue, k))
        BY <3>1, <3>2, <3>3, <4>1, ReleaseKeeps
      <4> QED BY <3>1, <4>2
    <3>4. CASE ~(k <= Len(w.queue))
      <4>1. turn[k] = w
        BY <3>1, <3>4 DEF KahnTurn
      <4>2. {j \in DOMAIN w.queue : j <= k} = {j \in DOMAIN w.queue : j <= k - 1}
        BY <3>1, <3>4
      <4>3. Released(g, w.queue, k) = Released(g, w.queue, k - 1)
        BY <4>2 DEF Released
      <4> HIDE DEF w
      <4> QED BY <3>1, <3>2, <4>1, <4>3
    <3> QED BY <3>3, <3>4
  <2> HIDE DEF T, m
  <2> QED BY <1>1, <2>1, <2>2, UpTo
<1> DEFINE w == turn[m]
           q == w.queue
           E == Released(g, q, m)
<1>4. w \in Work(g) /\ q \in Seq(Node) /\ KahnOK(g, w, E)
  BY <1>1, <1>2, <1>3 DEF Work
<1> HIDE DEF w
<1>5. Len(q) <= m
  <2>1. q \in Injection(1..Len(q), Node)
    BY <1>4 DEF KahnOK, Injection
  <2>2. Cardinality(1..Len(q)) <= Cardinality(Node)
    BY <2>1, FiniteAssumption, FS_Injection
  <2>3. Cardinality(1..Len(q)) = Len(q)
    <3>1. Len(q) \in Nat
      BY <1>4
    <3> QED BY <3>1, CountUpTo
  <2> QED BY <2>2, <2>3
<1>6. ASSUME NEW n \in DOMAIN g.nodes,
             \A x \in Inbound(g, n) : g.edges[x].producer \in Range(q)
      PROVE  n \in Range(q)
  <2>1. ASSUME NEW x \in Inbound(g, n) PROVE x \in E
    <3>1. PICK i \in DOMAIN q : q[i] = g.edges[x].producer
      BY <1>6 DEF Range
    <3>2. x \in Range(g.out[q[i]])
      BY <3>1 DEF KahnGraph, Inbound
    <3>3. i \in {j \in DOMAIN q : j <= m}
      BY <1>1, <1>4, <1>5
    <3> QED BY <3>2, <3>3 DEF Released
  <2>2. Inbound(g, n) \ E = {}
    BY <2>1
  <2> HIDE DEF E, q
  <2>3. w.indeg[n] <= 0
    <3>1. w.indeg[n] <= Cardinality(Inbound(g, n) \ E)
      BY <1>4 DEF KahnOK
    <3> QED BY <2>2, <3>1, FS_EmptySet
  <2> QED BY <1>4, <2>3 DEF KahnOK, q
<1>7. kahn_queue(g, listing) = q
  BY <1>2 DEF w
<1>8. IsInjective(q) /\ Range(q) \subseteq DOMAIN g.nodes /\ (Once(g) => ProducersFirst(g, q))
  BY <1>4 DEF KahnOK
<1> HIDE DEF q
<1> QED BY <1>4, <1>6, <1>7, <1>8

(***************************************************************************)
(* Kahn's algorithm reaches every node of an acyclic graph, and when no    *)
(* edge is indexed twice of no other.                                      *)
(***************************************************************************)
LEMMA KahnExact ==
  ASSUME NEW g, KahnGraph(g), NEW listing \in Seq(Node),
         IsInjective(listing), Range(listing) = DOMAIN g.nodes
  PROVE  LET q == kahn_queue(g, listing)
         IN /\ Acyclic(g.edges) => Range(q) = DOMAIN g.nodes
            /\ Once(g) /\ Range(q) = DOMAIN g.nodes => Acyclic(g.edges)
<1> DEFINE q == kahn_queue(g, listing)
<1>1. /\ q \in Seq(Node) /\ IsInjective(q) /\ Range(q) \subseteq DOMAIN g.nodes
      /\ \A n \in DOMAIN g.nodes :
           (\A x \in Inbound(g, n) : g.edges[x].producer \in Range(q)) => n \in Range(q)
      /\ Once(g) => ProducersFirst(g, q)
  BY KahnQueueProperties
<1> HIDE DEF q
<1>2. DOMAIN g.nodes \subseteq Node
  BY DEF KahnGraph, GraphShape
<1>3. ASSUME Acyclic(g.edges) PROVE Range(q) = DOMAIN g.nodes
  <2> DEFINE S == DOMAIN g.nodes \ Range(q)
  <2> SUFFICES ASSUME S # {} PROVE FALSE
    BY <1>1
  <2>1. PICK n \in S : \A x \in DOMAIN g.edges :
          g.edges[x].active /\ g.edges[x].consumer = n => g.edges[x].producer \notin S
    <3>1. S \in SUBSET Node
      BY <1>2
    <3> QED BY <1>3, <3>1 DEF Acyclic
  <2>2. \A x \in Inbound(g, n) : g.edges[x].producer \in Range(q)
    BY <2>1 DEF Inbound, KahnGraph
  <2> QED BY <1>1, <2>2
<1>4. ASSUME Once(g), Range(q) = DOMAIN g.nodes PROVE Acyclic(g.edges)
  <2> SUFFICES ASSUME NEW S \in SUBSET Node, S # {}
               PROVE  \E n \in S : \A x \in DOMAIN g.edges :
                        g.edges[x].active /\ g.edges[x].consumer = n => g.edges[x].producer \notin S
    BY DEF Acyclic
  <2>1. CASE ~(S \subseteq DOMAIN g.nodes)
    BY <2>1 DEF KahnGraph
  <2>2. CASE S \subseteq DOMAIN g.nodes
    <3> DEFINE I == {i \in DOMAIN q : q[i] \in S}
    <3>1. I # {} /\ I \subseteq Nat
      BY <1>1, <1>4, <2>2 DEF Range
    <3>2. PICK i \in I : \A j \in I : i <= j
      <4> HIDE DEF I
      <4> QED BY <3>1, LeastNatural
    <3>3. ASSUME NEW x \in DOMAIN g.edges, g.edges[x].active, g.edges[x].consumer = q[i]
          PROVE  g.edges[x].producer \notin S
      <4>1. x \in Inbound(g, q[i])
        BY <3>3 DEF Inbound
      <4>2. PICK j \in 1..(i - 1) : q[j] = g.edges[x].producer
        BY <1>1, <1>4, <3>2, <4>1 DEF ProducersFirst
      <4>3. j \in DOMAIN q /\ ~(i <= j)
        BY <1>1, <3>2
      <4> QED BY <3>2, <4>2, <4>3
    <3> QED BY <3>2, <3>3
  <2> QED BY <2>1, <2>2
<1> QED BY <1>3, <1>4 DEF q

-----------------------------------------------------------------------------
(* The graph and the listings the program runs the algorithm with. *)

\* An iteration order over a finite set lists each element once.
LEMMA ListingProperties ==
  ASSUME NEW S, IsFiniteSet(S), NEW listing \in Bijection(1..Cardinality(S), S)
  PROVE  listing \in Seq(S) /\ IsInjective(listing) /\ Range(listing) = S
<1>1. Cardinality(S) \in Nat
  BY FS_CardinalityType
<1>2. /\ listing \in [1..Cardinality(S) -> S] /\ IsInjective(listing)
      /\ \A t \in S : \E i \in 1..Cardinality(S) : listing[i] = t
  BY DEF Bijection, Injection, Surjection
<1>3. Range(listing) = S
  BY <1>2 DEF Range
<1> QED BY <1>1, <1>2, <1>3

\* Every listing of the nodes has each of them once.
LEMMA NodeListing ==
  ASSUME ShapeOK, NEW listing \in Listings
  PROVE  listing \in Seq(Node) /\ IsInjective(listing) /\ Range(listing) = DOMAIN nodes_
<1>1. DOMAIN nodes_ \subseteq Node
  BY DEF ShapeOK, StructOK
<1>2. IsFiniteSet(DOMAIN nodes_)
  BY <1>1, FiniteAssumption, FS_Subset
<1>3. IsInjective(listing) /\ Range(listing) = DOMAIN nodes_
  BY <1>2, ListingProperties DEF Listings
<1> QED BY <1>3, ListingIsSequence

\* An exact index is what Kahn's algorithm needs.
LEMMA GraphIsKahn ==
  ASSUME ShapeOK, IndexExact,
         NEW g, g.nodes = nodes_, g.edges = edges_, g.out = out_edges_
  PROVE  KahnGraph(g)
<1>1. GraphShape(g)
  BY DEF GraphShape, ShapeOK, StructOK, Edge
<1> QED BY <1>1 DEF KahnGraph, IndexExact

-----------------------------------------------------------------------------
(* One pass in Kahn's order settles the graph. *)

\* An edge looks at the state of its producer only.
LEMMA EvalEdgeLocal ==
  ASSUME NEW g, NEW st, NEW other, NEW e, st[e.producer] = other[e.producer]
  PROVE  eval_edge(g, st, e) = eval_edge(g, other, e)
BY DEF eval_edge

\* What eval_set makes of the verdicts on the live members.
SetVerdict(g, s, live, verdict) ==
  LET failed == {i \in live : verdict[i].blocked}
      soft == {i \in live \ failed :
                  verdict[i].degraded /\ ~required(g.edges[s.members[i]])}
      ok == live \ (failed \cup soft)
      stale == \E i \in ok : verdict[i].stale
      satisfied == CASE s.op = "ALL_OF" -> ok = live
                     [] s.op = "ANY_OF" -> ok # {}
                     [] s.op = "AT_LEAST_N" -> Cardinality(ok) >= s.at_least_n
                     [] s.op = "OPTIONAL_GROUP" -> TRUE
  IN [blocked  |-> ~satisfied,
      degraded |-> satisfied /\ (\/ soft # {}
                                 \/ stale
                                 \/ s.op = "OPTIONAL_GROUP" /\ failed # {}),
      stale    |-> stale]

LiveMembers(g, s) ==
  {i \in DOMAIN s.members : s.members[i] \in DOMAIN g.edges /\ g.edges[s.members[i]].active}

\* The verdict on a set reads only the states of its live members' producers.
LEMMA EvalSetLocal ==
  ASSUME NEW g, NEW st, NEW other, NEW s,
         \A i \in LiveMembers(g, s) :
           st[g.edges[s.members[i]].producer] = other[g.edges[s.members[i]].producer]
  PROVE  eval_set(g, st, s) = eval_set(g, other, s)
<1> DEFINE live == LiveMembers(g, s)
           v == [i \in live |-> eval_edge(g, st, g.edges[s.members[i]])]
           w == [i \in live |-> eval_edge(g, other, g.edges[s.members[i]])]
<1>1. eval_set(g, st, s) = SetVerdict(g, s, live, v)
  BY DEF eval_set, SetVerdict, LiveMembers
<1>2. eval_set(g, other, s) = SetVerdict(g, s, live, w)
  BY DEF eval_set, SetVerdict, LiveMembers
<1>3. v = w
  <2> HIDE DEF live
  <2>1. \A i \in live : eval_edge(g, st, g.edges[s.members[i]]) =
                        eval_edge(g, other, g.edges[s.members[i]])
    BY EvalEdgeLocal DEF live
  <2> QED BY <2>1
<1> HIDE DEF v, w, live
<1> QED BY <1>1, <1>2, <1>3

\* What the verdicts on n rely on: its indexed edges and the active edges that
\* its sets name lead to it.
OwnEdges(g) ==
  /\ \A n \in Node : \A x \in g.in[n] : x \in DOMAIN g.edges /\ g.edges[x].consumer = n
  /\ \A k \in DOMAIN g.sets : \A x \in Range(g.sets[k].members) :
       x \in DOMAIN g.edges /\ g.edges[x].active => g.edges[x].consumer = g.sets[k].owner

\* The verdicts on a node read only the states of its own producers.
LEMMA VerdictsLocal ==
  ASSUME NEW g, OwnEdges(g), NEW n \in Node, NEW st, NEW other,
         \A x \in Inbound(g, n) : st[g.edges[x].producer] = other[g.edges[x].producer]
  PROVE  Verdicts(g, st, n) = Verdicts(g, other, n)
<1>1. ASSUME NEW e \in FreeEdges(g, n) PROVE eval_edge(g, st, e) = eval_edge(g, other, e)
  <2>1. PICK x \in g.in[n] : x \in DOMAIN g.edges /\ g.edges[x].active /\ e = g.edges[x]
    BY DEF FreeEdges
  <2>2. x \in Inbound(g, n)
    BY <2>1 DEF OwnEdges, Inbound
  <2> QED BY <2>1, <2>2, EvalEdgeLocal
<1>2. ASSUME NEW s \in OwnedSets(g, n) PROVE eval_set(g, st, s) = eval_set(g, other, s)
  <2>1. PICK k \in DOMAIN g.sets : g.sets[k].owner = n /\ s = g.sets[k]
    BY DEF OwnedSets
  <2>2. ASSUME NEW i \in LiveMembers(g, s)
        PROVE  st[g.edges[s.members[i]].producer] = other[g.edges[s.members[i]].producer]
    <3>1. /\ s.members[i] \in Range(s.members)
          /\ s.members[i] \in DOMAIN g.edges /\ g.edges[s.members[i]].active
      BY DEF LiveMembers, Range
    <3>2. s.members[i] \in Inbound(g, n)
      BY <2>1, <3>1 DEF OwnEdges, Inbound
    <3> QED BY <3>2
  <2> QED BY <2>2, EvalSetLocal
<1>3. /\ {eval_set(g, st, s) : s \in OwnedSets(g, n)} = {eval_set(g, other, s) : s \in OwnedSets(g, n)}
      /\ {eval_edge(g, st, e) : e \in FreeEdges(g, n)} = {eval_edge(g, other, e) : e \in FreeEdges(g, n)}
  BY <1>1, <1>2
<1> QED BY <1>3 DEF Verdicts

\* Recomputing n again from the states its verdicts came from changes nothing.
LEMMA RecomputeAgain ==
  ASSUME NEW g, OwnEdges(g), NEW n \in Node, n \in DOMAIN g.nodes, NEW before, NEW after,
         after[n] = recompute_node(g, before, n),
         \A x \in Inbound(g, n) : before[g.edges[x].producer] = after[g.edges[x].producer]
  PROVE  after[n] = recompute_node(g, after, n)
<1>1. Verdicts(g, before, n) = Verdicts(g, after, n)
  BY VerdictsLocal
<1>2. CASE before[n] \in HeldState
  BY <1>2 DEF recompute_node
<1>3. CASE before[n] \notin HeldState
  <2>1. Derived(g.nodes[n], Verdicts(g, before, n)) \notin HeldState
    BY DEF Derived, HeldState
  <2>2. "REVALIDATION_REQUIRED" \notin HeldState
    BY DEF HeldState
  <2> QED BY <1>1, <1>3, <2>1, <2>2 DEF recompute_node
<1> QED BY <1>2, <1>3

\* On an acyclic graph the order is the queue: nothing is left over.
LEMMA AcyclicOrder ==
  ASSUME NEW g, KahnGraph(g), NEW listing \in Seq(Node),
         IsInjective(listing), Range(listing) = DOMAIN g.nodes, Acyclic(g.edges)
  PROVE  /\ kahn_order(g, listing) = kahn_queue(g, listing)
         /\ Range(kahn_queue(g, listing)) = DOMAIN g.nodes
<1> DEFINE q == kahn_queue(g, listing)
           rest == Keep(listing, DOMAIN g.nodes \ Range(q))
<1>1. Range(q) = DOMAIN g.nodes
  BY KahnExact
<1>2. q \in Seq(Node)
  BY KahnQueueType DEF KahnGraph
<1> HIDE DEF q
<1>3. rest \in Seq(Node) /\ Range(rest) = {}
  <2>1. Keep(listing, {}) \in Seq(Node) /\ Range(Keep(listing, {})) = Range(listing) \cap {}
    BY KeepProperties
  <2>2. DOMAIN g.nodes \ Range(q) = {}
    BY <1>1
  <2> QED BY <2>1, <2>2
<1> HIDE DEF rest
<1>4. rest = <<>>
  <2>1. Len(rest) \in Nat /\ DOMAIN rest = 1..Len(rest)
    BY <1>3
  <2>2. \A i \in DOMAIN rest : FALSE
    BY <1>3 DEF Range
  <2>3. ASSUME Len(rest) # 0 PROVE 1 \in DOMAIN rest
    BY <2>1, <2>3
  <2>4. Len(rest) = 0
    BY <2>2, <2>3
  <2> QED BY <1>3, <2>4
<1>5. q \o rest = q
  BY <1>2, <1>4
<1> QED BY <1>1, <1>5 DEF kahn_order, q, rest

(***************************************************************************)
(* A pass over the nodes in which producers come first.  The i-th node is  *)
(* recomputed in turn i from the final states of its producers, and no     *)
(* later turn touches it.                                                  *)
(***************************************************************************)
LEMMA PassSettles ==
  ASSUME NEW g, OwnEdges(g), NEW st \in ReadinessMap, NEW q \in Seq(Node),
         IsInjective(q), ProducersFirst(g, q), Range(q) \subseteq DOMAIN g.nodes
  PROVE  LET final == recompute_in_order(g, st, q)
         IN \A i \in DOMAIN q : final[q[i]] = recompute_node(g, final, q[i])
<1> DEFINE m == Len(q)
<1>1. m \in Nat /\ DOMAIN q = 1..m /\ \A i \in 1..m : q[i] \in Node
  OBVIOUS
<1> HIDE DEF m
<1>2. PICK pass \in [0..m -> ReadinessMap] :
        /\ pass[0] = st
        /\ \A i \in 1..m : pass[i] = Recomputed(g, pass[i - 1], q[i])
        /\ recompute_in_order(g, st, q) = pass[m]
  BY RecomputeRun DEF m
<1>3. \A i \in 0..m : pass[i] \in [Node -> ReadinessState]
  BY <1>2 DEF ReadinessMap
<1>4. ASSUME NEW i \in 1..m
      PROVE  /\ pass[i][q[i]] = recompute_node(g, pass[i - 1], q[i])
             /\ \A n \in Node \ {q[i]} : pass[i][n] = pass[i - 1][n]
  <2>1. i - 1 \in 0..m
    BY <1>1
  <2>2. pass[i] = [pass[i - 1] EXCEPT ![q[i]] = recompute_node(g, pass[i - 1], q[i])]
    BY <1>2 DEF Recomputed
  <2> QED BY <1>1, <1>3, <2>1, <2>2
<1>5. ASSUME NEW j \in 1..m
      PROVE  \A i \in 0..m : i >= j => pass[i][q[j]] = pass[j][q[j]]
  <2> DEFINE T == {i \in 0..m : i >= j => pass[i][q[j]] = pass[j][q[j]]}
  <2>1. 0 \in T
    BY <1>1
  <2>2. ASSUME NEW i \in 1..m, i - 1 \in T PROVE i \in T
    <3>1. CASE i <= j
      BY <1>1, <3>1
    <3>2. CASE i > j
      <4>1. i - 1 >= j /\ i # j
        BY <1>1, <3>2
      <4>2. q[i] # q[j]
        BY <1>1, <4>1 DEF IsInjective
      <4>3. pass[i][q[j]] = pass[i - 1][q[j]]
        BY <1>1, <1>4, <4>2
      <4>4. pass[i - 1][q[j]] = pass[j][q[j]]
        BY <2>2, <4>1
      <4> QED BY <1>1, <4>3, <4>4
    <3> QED BY <1>1, <3>1, <3>2
  <2>3. \A i \in 0..m : i \in T
    <3> HIDE DEF T
    <3> QED BY <1>1, <2>1, <2>2, UpTo
  <2> QED BY <2>3
<1>6. ASSUME NEW i \in 1..m PROVE pass[m][q[i]] = recompute_node(g, pass[m], q[i])
  <2>1. m \in 0..m /\ m >= i /\ i - 1 \in 0..m /\ i \in DOMAIN q
    BY <1>1
  <2>2. pass[m][q[i]] = recompute_node(g, pass[i - 1], q[i])
    BY <1>4, <1>5, <2>1
  <2>3. ASSUME NEW x \in Inbound(g, q[i])
        PROVE  pass[i - 1][g.edges[x].producer] = pass[m][g.edges[x].producer]
    <3>1. PICK j \in 1..(i - 1) : q[j] = g.edges[x].producer
      BY <2>1 DEF ProducersFirst
    <3>2. j \in 1..m /\ i - 1 >= j /\ m >= j
      BY <1>1
    <3> QED BY <1>5, <2>1, <3>1, <3>2
  <2>4. q[i] \in Node /\ q[i] \in DOMAIN g.nodes
    BY <1>1 DEF Range
  <2> DEFINE before == pass[i - 1]
             after == pass[m]
             n == q[i]
  <2>5. /\ n \in Node /\ n \in DOMAIN g.nodes
        /\ after[n] = recompute_node(g, before, n)
        /\ \A x \in Inbound(g, n) : before[g.edges[x].producer] = after[g.edges[x].producer]
    BY <2>2, <2>3, <2>4
  <2> HIDE DEF before, after, n
  <2>6. after[n] = recompute_node(g, after, n)
    BY <2>5, RecomputeAgain
  <2> QED BY <2>6 DEF before, after, n
<1> QED BY <1>1, <1>2, <1>6

\* recompute_all settles every node of an acyclic graph indexed once.
LEMMA RecomputeAllSettlesGraph ==
  ASSUME NEW g, KahnGraph(g), OwnEdges(g), Once(g), Acyclic(g.edges),
         NEW st \in ReadinessMap, NEW listing \in Seq(Node),
         IsInjective(listing), Range(listing) = DOMAIN g.nodes
  PROVE  LET final == recompute_all(g, st, listing)
         IN \A n \in DOMAIN g.nodes : final[n] = recompute_node(g, final, n)
<1> DEFINE q == kahn_queue(g, listing)
<1>1. q \in Seq(Node) /\ IsInjective(q) /\ ProducersFirst(g, q)
  BY KahnQueueProperties
<1>2. Range(q) = DOMAIN g.nodes /\ recompute_all(g, st, listing) = recompute_in_order(g, st, q)
  BY AcyclicOrder DEF recompute_all
<1> HIDE DEF q
<1>3. \A i \in DOMAIN q : LET final == recompute_in_order(g, st, q)
                          IN final[q[i]] = recompute_node(g, final, q[i])
  BY <1>1, <1>2, PassSettles
<1> QED BY <1>2, <1>3 DEF Range

-----------------------------------------------------------------------------
(* Attaching an adapter *)

\* Only set_adapter and adapter_reports change who answers.
LEMMA OthersKeepAdapter ==
  ASSUME [Next]_vars, ~AdapterOps
  PROVE  adapter_' = adapter_
<1>1. ASSUME NEW who \in Authority, DeclareOps(who) PROVE adapter_' = adapter_
  BY <1>1 DEF DeclareOps, register_source, declare_node, authVars
<1>2. ASSUME NEW who \in Authority, GenerationOps(who) PROVE adapter_' = adapter_
  BY <1>2 DEF GenerationOps, publish_generation, supersede_generation, CommitNodes, authVars
<1>3. ASSUME NEW who \in Authority, ReadinessOps(who) PROVE adapter_' = adapter_
  BY <1>3 DEF ReadinessOps, set_node_evidence, publish_readiness, retire_node, mark_missing,
              mark_stale, mark_recovered, CommitNodes, authVars
<1>4. ASSUME NEW who \in Authority, EdgeOps(who) PROVE adapter_' = adapter_
  BY <1>4 DEF EdgeOps, add_edge, remove_edge, set_edge_active, CommitEdges, authVars
<1>5. ASSUME NEW who \in Authority, SetOps(who) PROVE adapter_' = adapter_
  BY <1>5 DEF SetOps, add_dependency_set, remove_dependency_set, CommitSets, authVars
<1>6. ASSUME NEW who \in Authority, InvalidationOps(who) PROVE adapter_' = adapter_
  BY <1>6 DEF InvalidationOps, invalidate_node, invalidate_generation, CommitNodes, authVars
<1>7. ASSUME NEW e \in Epoch, advance_epoch(e) PROVE adapter_' = adapter_
  BY <1>7 DEF advance_epoch
<1>8. CASE RecomputeOps \/ UNCHANGED vars
  BY <1>8 DEF RecomputeOps, recompute_readiness, recompute_all_readiness, authVars, vars
<1> QED BY <1>1, <1>2, <1>3, <1>4, <1>5, <1>6, <1>7, <1>8 DEF Next

\* A change of adapter that attaches or detaches one is a set_adapter.
LEMMA AttachesBySetAdapter ==
  ASSUME [Next]_vars, Attaches
  PROVE  \E adapter : set_adapter(adapter)
<1>1. AdapterOps
  BY OthersKeepAdapter DEF Attaches
<1>2. ASSUME NEW facts \in Adapters, adapter_reports(<<facts>>) PROVE FALSE
  BY <1>2 DEF adapter_reports, Attaches
<1> QED BY <1>1, <1>2 DEF AdapterOps

\* A full recomputation leaves the graph settled.
LEMMA RecomputedAllIsSettled ==
  ASSUME ShapeOK, IndexExact, Acyclic(edges_), IndexedOnce, SetsNameOwnEdges,
         UNCHANGED <<nodes_, structVars>>,
         NEW listing \in Listings, state' = recompute_all(graph', state, listing)
  PROVE  Settled'
<1>1. /\ graph'.nodes = nodes_ /\ graph'.edges = edges_ /\ graph'.sets = sets_
      /\ graph'.out = out_edges_ /\ graph'.in = in_edges_
      /\ nodes_' = nodes_
  BY DEF graph, structVars
<1> DEFINE g == graph'
<1>2. KahnGraph(g)
  <2> HIDE DEF graph, g
  <2> QED BY <1>1, GraphIsKahn DEF g
<1>3. OwnEdges(g)
  BY <1>1 DEF OwnEdges, IndexExact, SetsNameOwnEdges
<1>4. Once(g) /\ Acyclic(g.edges)
  BY <1>1 DEF Once, IndexedOnce
<1>5. /\ listing \in Seq(Node) /\ IsInjective(listing) /\ Range(listing) = DOMAIN g.nodes
      /\ state \in ReadinessMap
  BY <1>1, NodeListing DEF ShapeOK, SoundMaps
<1> HIDE DEF graph
<1>6. \A n \in DOMAIN g.nodes : state'[n] = recompute_node(g, state', n)
  <2> HIDE DEF g
  <2> QED BY <1>2, <1>3, <1>4, <1>5, RecomputeAllSettlesGraph DEF g
<1> QED BY <1>1, <1>6 DEF Settled

\* Every step that recomputes everything leaves the graph settled.
LEMMA SettlesStep ==
  ASSUME ShapeOK, IndexExact, [Next]_vars, Acyclic(edges_), IndexedOnce, SetsNameOwnEdges,
         Attaches \/ recompute_all_readiness
  PROVE  Settled'
<1>1. CASE Attaches
  <2>1. PICK adapter : set_adapter(adapter)
    BY <1>1, AttachesBySetAdapter
  <2>2. /\ UNCHANGED <<nodes_, structVars>>
        /\ \E listing \in Listings : state' = recompute_all(graph', state, listing)
    BY <2>1 DEF set_adapter
  <2> QED BY <2>2, RecomputedAllIsSettled
<1>2. CASE recompute_all_readiness
  <2>1. UNCHANGED <<nodes_, structVars>> /\ graph' = graph
    BY <1>2 DEF recompute_all_readiness, graph, authVars, structVars
  <2>2. \E listing \in Listings : state' = recompute_all(graph', state, listing)
    BY <1>2, <2>1 DEF recompute_all_readiness
  <2> QED BY <2>1, <2>2, RecomputedAllIsSettled
<1> QED BY <1>1, <1>2

(***************************************************************************)
(* One call of recompute_all_readiness, or of set_adapter, settles every   *)
(* acyclic graph of any size and depth, from any readiness map and in any  *)
(* iteration order, unless an edge is indexed twice or a set names an edge *)
(* of another node.                                                        *)
(***************************************************************************)
THEOREM RecomputeAllSafe == Spec => RecomputeAllSettles
<1>1. Init => ShapeOK /\ IndexExact
  <2>1. Range(<<>>) = {}
    BY DEF Range
  <2> QED BY InitSound, <2>1 DEF Init, IndexExact
<1>2. ShapeOK /\ IndexExact /\ [Next]_vars => (ShapeOK /\ IndexExact)'
  BY NextSound, IndexStep
<1>3. ShapeOK /\ IndexExact /\ [Next]_vars =>
        [~Settled' /\ Acyclic(edges_) /\ IndexedOnce /\ SetsNameOwnEdges =>
           ~(Attaches \/ recompute_all_readiness)]_vars
  BY SettlesStep
<1> QED BY <1>1, <1>2, <1>3, PTL DEF Spec, RecomputeAllSettles
=============================================================================
