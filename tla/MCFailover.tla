----------------------------- MODULE MCFailover -----------------------------
(***************************************************************************)
(* One node, two boots of its source, two epochs: saves, epoch advances,   *)
(* deaths and restarts in every order.                                     *)
(***************************************************************************)
EXTENDS Coordinator

CONSTANT na

Nodes == {na}
Decls == {[id |-> na, kind |-> "MODEL", static |-> FALSE]}
OnePolicy == {[mode |-> "DIRECT", max_depth |-> 0, propagate_through_optional |-> FALSE]}
=============================================================================
