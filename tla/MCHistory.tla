------------------------------ MODULE MCHistory ------------------------------
(***************************************************************************)
(* One node that publishes one generation after the other.                 *)
(***************************************************************************)
EXTENDS Persistence

CONSTANT na

Nodes == {na}
Decls == {[id |-> na, kind |-> "MODEL", static |-> FALSE]}
Generations == 1..19

HistoryNext ==
  \E who \in Authority :
    \/ DeclareOps(who)
    \/ \E n \in DOMAIN nodes_ : publish_generation(n, nodes_[n].current_generation + 1, who)

HistorySpec == Init /\ [][HistoryNext]_vars
=============================================================================
