------------------------------- MODULE Queries -------------------------------
(***************************************************************************)
(* The read-only questions a client puts to the graph: who depends on a    *)
(* node and what it depends on, whether the graph is acyclic               *)
(* (src/graph/recovery.cpp), and why a node is not ready                   *)
(* (Graph::blockers and Graph::explain, src/graph/readiness.cpp, which     *)
(* evaluate the edges and sets again, apart from the recomputation).       *)
(*                                                                         *)
(* A list of blockers is modelled by the edges it names; the wording, the  *)
(* required actions and the history notes of an explanation are left out.  *)
(***************************************************************************)
EXTENDS Recovery

\* The visited set of a search: the least set closed under `next` around n.
SearchFrom(next, n) ==
  {m \in Node : \A C \in SUBSET Node : (n \in C /\ \A c \in C : next[c] \subseteq C) => m \in C}

\* The start is marked visited before the search, so it is never listed.
dependents(g, n, transitive) ==
  LET next == [m \in Node |-> Successors(g, m)]
  IN (IF transitive THEN SearchFrom(next, n) ELSE next[n]) \ {n}

\* Mutant: the search for prerequisites stops after the first level.
prerequisites_nearby(g, n, transitive) ==
  {g.edges[x].producer : x \in {y \in g.in[n] : Followed(g, y)}} \ {n}

prerequisites(g, n, transitive) ==
  LET next == [m \in Node |-> {g.edges[x].producer : x \in {y \in g.in[m] : Followed(g, y)}}]
  IN (IF transitive THEN SearchFrom(next, n) ELSE next[n]) \ {n}

\* Graph::acyclic: the same counting as recompute_all_locked.
acyclic(g, listing) == Range(kahn_queue(g, listing)) = DOMAIN g.nodes

-----------------------------------------------------------------------------
(* Blockers *)

\* A required edge contributes a blocker per predicate that fails.  Blockers
\* of optional edges are dropped from every answer.
Blocks(g, st, x) ==
  LET verdict == eval_edge(g, st, g.edges[x])
  IN required(g.edges[x]) /\ (verdict.blocked \/ verdict.stale)

Named(g, members) == {x \in Range(members) : Followed(g, x)}

\* What both answers take from the sets: the members of the unsatisfied ones.
OfSets(g, st, n) ==
  UNION {Named(g, s.members) : s \in {t \in OwnedSets(g, n) : eval_set(g, st, t).blocked}}

\* Mutant: members of a set are reported on their own account too.
blockers_of_every_edge(g, st, n) ==
  {x \in OfSets(g, st, n) \cup {y \in g.in[n] : Followed(g, y)} : Blocks(g, st, x)}

\* Edges named by any set of the node, active or not, count as its members.
blockers(g, st, n) ==
  LET members == UNION {Range(s.members) : s \in {g.sets[k] : k \in
                          {j \in DOMAIN g.sets : g.sets[j].owner = n}}}
      free == {x \in g.in[n] \ members : Followed(g, x)}
  IN {x \in OfSets(g, st, n) \cup free : Blocks(g, st, x)}

\* Here only the members of active sets are left to the sets.
explain(g, st, n) ==
  LET free == {e.id : e \in FreeEdges(g, n)}
  IN {x \in OfSets(g, st, n) \cup free : Blocks(g, st, x)}

-----------------------------------------------------------------------------
(* Properties that hold *)

(***************************************************************************)
(* dependents and prerequisites, which walk two separately maintained      *)
(* indexes, are inverse to each other, direct and transitive, also on the  *)
(* cycles that a reactivated edge closes and across removed, deactivated   *)
(* and doubly indexed edges.                                               *)
(***************************************************************************)
PrerequisitesInvertDependents ==
  \A n, m \in DOMAIN nodes_, transitive \in BOOLEAN :
    m \in dependents(graph, n, transitive) <=> n \in prerequisites(graph, m, transitive)

(***************************************************************************)
(* Graph::acyclic ("verifies the whole graph is acyclic") never reports a  *)
(* cycle where there is none, and where no edge is indexed twice it never  *)
(* misses one.  The proviso is needed: an edge added inactive and then     *)
(* activated is indexed twice and decrements its consumer's count twice,   *)
(* which can release a node of a cycle.                                    *)
(***************************************************************************)
AcyclicQueryExact ==
  \A listing \in Listings :
    /\ Acyclic(edges_) => acyclic(graph, listing)
    /\ IndexedOnce /\ acyclic(graph, listing) => Acyclic(edges_)

\* The set lacks satisfied members, and no required member of it is at fault:
\* it has no active member, too few, or only optional ones that fail.
ShortOfMembers(n) ==
  \E s \in OwnedSets(graph, n) :
    /\ eval_set(graph, state, s).blocked
    /\ \A x \in Named(graph, s.members) : ~Blocks(graph, state, x)

\* A gate is kept back by staleness alone, which an optional edge may carry.
StaleGate(n) ==
  is_gate_kind(nodes_[n].kind) /\ \A v \in Verdicts(graph, state, n) : ~v.blocked

(***************************************************************************)
(* An explanation names the culprits.  In a settled graph explain lists an *)
(* edge for every BLOCKED node, unless an unsatisfied set of the node has  *)
(* no failing required member to name or the node is a stale gate, and     *)
(* lists nothing for a READY node; blockers lists no more than explain,    *)
(* and less only for a node that owns an inactive set.                     *)
(***************************************************************************)
ExplanationsNameCulprits ==
  Settled => \A n \in DOMAIN nodes_ :
    LET culprits == explain(graph, state, n)
    IN /\ state[n] = "BLOCKED" => culprits # {} \/ ShortOfMembers(n) \/ StaleGate(n)
       /\ state[n] = "READY" => culprits = {}
       /\ blockers(graph, state, n) \subseteq culprits
       /\ culprits # blockers(graph, state, n) =>
            \E k \in DOMAIN sets_ : sets_[k].owner = n /\ ~sets_[k].active
=============================================================================
