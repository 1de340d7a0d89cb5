------------------------------- MODULE MCBase -------------------------------
(***************************************************************************)
(* What the model-checked instances share: node names and a hard READY     *)
(* edge from which the catalogs are made.                                  *)
(***************************************************************************)
EXTENDS Claims, Queries

CONSTANTS na, nb, nc, nd

Link(id, p, q) ==
  [id |-> id, kind |-> "REQUIRES", producer |-> p, consumer |-> q,
   generation_kind |-> "NONE", generations |-> {}, required_readiness |-> "READY",
   needs |-> {}, is_required |-> TRUE, active |-> TRUE]

Pinned(e, gen) == [e EXCEPT !.generation_kind = "EXACT", !.generations = {gen}]

Declared(kinds, static) ==
  {[id |-> n, kind |-> kinds[n], static |-> static] : n \in DOMAIN kinds}

Recursive == [mode |-> "RECURSIVE", max_depth |-> 0, propagate_through_optional |-> FALSE]
=============================================================================
