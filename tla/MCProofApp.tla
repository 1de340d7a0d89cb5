----------------------------- MODULE MCProofApp -----------------------------
(***************************************************************************)
(* The multiprocess proof with the nodes, edges and sources it uses.       *)
(***************************************************************************)
EXTENDS ProofApp

Decls == {[id |-> 1, kind |-> "MODEL", static |-> FALSE],
          [id |-> 2, kind |-> "ARTIFACT", static |-> FALSE],
          [id |-> 3, kind |-> "WORKLOAD_PHASE", static |-> FALSE]}
Edges == {edge_1, edge_2, edge_5, edge_6}
=============================================================================
