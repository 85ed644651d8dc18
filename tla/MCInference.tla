----------------------------- MODULE MCInference -----------------------------
(***************************************************************************)
(* Instances of Inference: models of two nodes, or of two and one with a   *)
(* custom name, with small dimensions in place of 640 pixels and 25200     *)
(* boxes of 85 attributes.                                                 *)
(***************************************************************************)
EXTENDS Inference

\* Images: with one anchor of YOLOX and with 21, one that is not square, two of
\* them at once, and shapes of too few dimensions.
Images == {<<1, 3, 8, 8>>, <<1, 3, 32, 32>>, <<1, 3, 8, 4>>, <<2, 3, 8, 8>>, <<3>>, <<>>}

\* Outputs: boxes with attributes, boxes with too few, fewer boxes than anchors,
\* attributes of boxes, neither, and shapes of too few dimensions.
Outputs == {<<1, 9, 7>>, <<1, 9, 4>>, <<1, 4, 3>>, <<1, 7, 9>>, <<1, 7, 7>>, <<1, 9>>, <<>>}

\* What a node of another name looks like.
Others == {<<1, 3, 8, 8>>, <<1, 9, 7>>, <<1, 7, 9>>, <<1, 7, 7>>}

ShapesOf(name) ==
  CASE name = "images" -> Images [] name = "output" -> Outputs [] OTHER -> Others

SmallNodes ==
  UNION {{[name |-> name, dims |-> d] : d \in ShapesOf(name)} : name \in Names}

SmallModels ==
  {m \in UNION {[1 .. k -> SmallNodes] : k \in 2 .. 3} :
     /\ \A n, k \in DOMAIN m : (m[n].name = m[k].name /\ m[n].name # "custom") => n = k
     /\ Len(m) = 3 => m[3].name = "custom"}
=============================================================================
