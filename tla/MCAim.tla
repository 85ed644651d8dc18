-------------------------------- MODULE MCAim --------------------------------
(***************************************************************************)
(* An instance of Aim: boxes whose centres lie around one, two and three   *)
(* pieces of 127 pixels from the crosshair or beyond the reach, and a      *)
(* larger one that it may be on; along x a full control, along y a         *)
(* proportional one.                                                       *)
(***************************************************************************)
EXTENDS Aim

SmallBoxes ==
  {[x |-> d - 10, y |-> e - 20, width |-> 20, height |-> 40] :
     d \in {-382, -128, 0, 254, 300}, e \in {-128, 0, 127, 254}}

LargeBoxes ==
  {[x |-> -60, y |-> e, width |-> 200, height |-> 200] : e \in {-180, -50, 10}}

SomeBoxes == SmallBoxes \union LargeBoxes

SomeScales == {[x |-> 5, up |-> 5, down |-> 10], [x |-> 10, up |-> 10, down |-> 5]}

SomeGains ==
  [a \in Axes |->
     IF a = "x" THEN {[kp |-> 10, ki |-> 1, kd |-> 1], [kp |-> 3, ki |-> 2, kd |-> 0]}
     ELSE {[kp |-> 10, ki |-> 0, kd |-> 0]}]
=============================================================================
