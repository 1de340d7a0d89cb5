------------------------------- MODULE Claims -------------------------------
(***************************************************************************)
(* What the repository's documentation, comments and tests say of the      *)
(* graph and its code does not do.  Each claim is checked by a run that    *)
(* ends in a counterexample.                                               *)
(***************************************************************************)
EXTENDS DependencyGraph

(***************************************************************************)
(* README: descendants never become READY while a required ancestor is     *)
(* invalid; graph_core.cpp: dependents are recomputed in upstream-first    *)
(* order.  recompute_closure_locked visits them breadth first, so a        *)
(* consumer also reached by a shorter path is evaluated before its         *)
(* producer.                                                               *)
(***************************************************************************)
NoReadyBelowInvalid ==
  \A x \in DOMAIN edges_ :
    edges_[x].active /\ required(edges_[x]) /\ state[edges_[x].consumer] = "READY" =>
      state[edges_[x].producer] \notin {"INVALIDATED", "BLOCKED", "MISSING", "STALE"}

(***************************************************************************)
(* README: only republishing current evidence restores READY once a node   *)
(* is REVALIDATION_REQUIRED.  mark_stale overwrites the recovered evidence *)
(* with STALE, which opens the gate, and its own recomputation then        *)
(* derives READY.                                                          *)
(***************************************************************************)
OnlyRepublishingRestoresReady ==
  [][\A n \in DOMAIN nodes_ :
       state[n] = "REVALIDATION_REQUIRED" /\ state'[n] = "READY" =>
         nodes_'[n].recovered_evidence = "FRESH"]_vars
=============================================================================
