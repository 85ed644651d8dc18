------------------------------ MODULE MCDecode ------------------------------
(***************************************************************************)
(* Instances of Decode: models with too few attributes, or with none, one  *)
(* or two classes, of which the first and one later row have scores. The   *)
(* YOLOX models are for images of 16 pixels (five anchors) and of 24       *)
(* pixels (ten, more than it has rows).                                    *)
(***************************************************************************)
EXTENDS Decode

Net(yolo_type, size, attributes) ==
  [yolo_type |-> yolo_type, size |-> size, boxes |-> attributes + 1, attributes |-> attributes]

SmallNets ==
  {Net(1, 8, 4), Net(1, 8, 5), Net(1, 8, 6), Net(2, 8, 3), Net(2, 8, 4), Net(2, 8, 6),
   Net(3, 8, 4), Net(3, 16, 6), Net(3, 24, 6)}

\* The row n.boxes - 3 is the last one that YOLOX visits with five anchors.
SmallOutputs(n) ==
  LET scores == [4 .. n.attributes - 1 -> 0 .. 2]
      zero   == [a \in 4 .. n.attributes - 1 |-> 0]
  IN  {[r \in 0 .. n.boxes - 1 |->
          CASE r = 0 -> first [] r = n.boxes - 3 -> last [] OTHER -> zero] :
         first, last \in scores}
=============================================================================
