----------------------------- MODULE MCAuthority -----------------------------
(***************************************************************************)
(* Two sources with two boots each over three epochs and two nodes:        *)
(* registrations, restarts and epoch advances against publications that    *)
(* may carry any (source, boot, epoch) tuple, current or stale.            *)
(***************************************************************************)
EXTENDS MCBase

Nodes == {na, nb}
Decls == Declared([n \in Nodes |-> "MODEL"], FALSE)
Edges == {Link("ab", na, nb)}

AuthorityNext ==
  \/ \E who \in Authority :
       \/ DeclareOps(who)
       \/ \E n \in Node, gen \in Generation : publish_generation(n, gen, who)
       \/ \E e \in EdgeCatalog : add_edge(e, who)
  \/ \E new_epoch \in Epoch : advance_epoch(new_epoch)

AuthoritySpec == Init /\ [][AuthorityNext]_vars
=============================================================================
