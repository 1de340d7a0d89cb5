----------------------------- MODULE MCFraming -----------------------------
(***************************************************************************)
(* Two frames of different lengths, one of them empty, and one over the    *)
(* cap; one cell of the stream may be damaged.                             *)
(***************************************************************************)
EXTENDS Framing

FrameCatalog ==
  {[type |-> 1, body |-> <<>>], [type |-> 3, body |-> <<7, 1>>], [type |-> 9, body |-> <<1, 1, 1>>]}
=============================================================================
