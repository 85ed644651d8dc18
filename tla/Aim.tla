--------------------------------- MODULE Aim ---------------------------------
(***************************************************************************)
(* The lock object from its creation to its release: initLock creates the  *)
(* mouse and the control; action finds where the box it has chosen lies    *)
(* from the crosshair, has the control (PID) turn that into a move, limits *)
(* it and hands it to the mouse, which passes it on in one or more orders; *)
(* the automatic trigger may fire when the crosshair is in scope           *)
(* (lock_functional.cpp, control_pid.cpp, mouse_ghub.cpp,                  *)
(* mouse_sendinput.cpp).                                                   *)
(*                                                                         *)
(* Places and moves are whole pixels, gains and scales are tenths; the     *)
(* code's fractions of pixels are cut off at once and not only in the end. *)
(* Places are counted from the crosshair, to the right and downwards.      *)
(***************************************************************************)
EXTENDS Integers

CONSTANTS
  Manners,    \* mousec_type: 0 GHUB, 1 EasyKeyMouse, 2 SendInput
  Boxes,      \* the boxes that are chosen: their upper left corner and size
  Positions,  \* the values of aim_position, in tenths of the height
  Scales,     \* the scales of the scope the UI sets: in x, up and down, in tenths
  Reach,      \* half of aim_range
  Gains,      \* for each axis, the gains the UI sets, in tenths
  MaxPixels   \* the values of max_pixel that the UI sets

Axes == {"x", "y"}

ASSUME AimAssumption ==
  /\ Manners \subseteq Nat
  /\ Boxes \subseteq [x : Int, y : Int, width : Nat, height : Nat]
  /\ Positions \subseteq Nat
  /\ Scales \subseteq [x : Nat, up : Nat, down : Nat]
  /\ Reach \in Nat
  /\ Gains \in [Axes -> SUBSET [kp : Nat, ki : Nat, kd : Nat]]
  /\ MaxPixels \subseteq Nat

VARIABLES
  manner,   \* Info.mousec_type
  pc,       \* the worker's next step
  m_mouse, control,  \* what the members point to, if they were set
  ghub_handle,       \* the member of IGHUB, while there is one
  pid,      \* the integral and the last deviation of each axis
  box,      \* the box that was chosen
  in_scope, \* what inScopeX and inScopeY give for it together
  asked,    \* history: the move that the mouse was asked for last
  left,     \* the arguments of the current call of move
  sent,     \* history: the sum of the orders for this move
  fault     \* "none", or how the process dies

objects == <<m_mouse, control, ghub_handle>>
target  == <<box, in_scope>>
move    == <<asked, left, sent>>
vars    == <<manner, pc, m_mouse, control, ghub_handle, pid, box, in_scope, asked, left, sent, fault>>

Abs(n)  == IF n < 0 THEN -n ELSE n
Sign(n) == CASE n < 0 -> -1 [] n = 0 -> 0 [] n > 0 -> 1

\* The product with a gain, without its fraction.
Tenths(k, n) == Sign(n) * ((k * Abs(n)) \div 10)

Nowhere == [a \in Axes |-> 0]
NoBox   == [x |-> 0, y |-> 0, width |-> 0, height |-> 0]

Init ==
  /\ manner \in Manners
  /\ pc = "create_mouse"
  /\ m_mouse = "unset" /\ control = "unset" /\ ghub_handle = "unset"
  /\ pid = [a \in Axes |-> [I |-> 0, last_deviation |-> 0]]
  /\ box = NoBox /\ in_scope = FALSE
  /\ asked = Nowhere /\ left = Nowhere /\ sent = Nowhere
  /\ fault = "none"

-----------------------------------------------------------------------------
(* initLock and Release.                                                   *)

Mouse == CASE manner = 0 -> "GHUB" [] manner = 2 -> "SendInput" [] OTHER -> "null"

\* The constructor of IGHUB does not set ghub_handle: the number that is there
\* may be, by chance, that of a handle the process has for something else.
Strays == IF Mouse = "GHUB" THEN {"no handle", "foreign"} ELSE {"unset"}

\* Mutated form: without a mouse its initialisation is skipped over.
CreateMouse_GoesOn ==
  /\ pc = "create_mouse"
  /\ m_mouse' = Mouse
  /\ ghub_handle' \in Strays
  /\ pc' = IF Mouse = "null" THEN "create_control" ELSE "init_mouse"
  /\ UNCHANGED <<manner, control, pid, target, move, fault>>

CreateMouse ==
  /\ pc = "create_mouse"
  /\ m_mouse' = Mouse
  /\ ghub_handle' \in Strays
  /\ pc' = IF Mouse = "null" THEN "failed" ELSE "init_mouse"
  /\ UNCHANGED <<manner, control, pid, target, move, fault>>

\* IGHUB::init asks for the driver up to three times and takes the second and
\* the third failure for success.  A driver that was opened is known to a copy of
\* ghub_handle only.  SendInput needs no preparation.
InitMouse ==
  /\ pc = "init_mouse"
  /\ \E opened \in [1 .. 3 -> BOOLEAN] :
       pc' = IF m_mouse = "GHUB" /\ ~opened[1] /\ opened[2] /\ opened[3]
             THEN "failed" ELSE "create_control"
  /\ UNCHANGED <<manner, objects, pid, target, move, fault>>

\* Mutated form: the control is kept in a local of initLock.
CreateControl_Shadowed ==
  /\ pc = "create_control"
  /\ pc' = "idle"
  /\ UNCHANGED <<manner, objects, pid, target, move, fault>>

\* Every control_model gives a PID, and its init nothing but success.
CreateControl ==
  /\ pc = "create_control"
  /\ control' = "PID"
  /\ pc' = "idle"
  /\ UNCHANGED <<manner, m_mouse, ghub_handle, pid, target, move, fault>>

\* word leaves its loop and releases what initLock has made.
LeaveLoop ==
  /\ pc = "idle"
  /\ pc' = "closing"
  /\ UNCHANGED <<manner, objects, pid, target, move, fault>>

\* IGHUB::close gives back whatever handle the number in ghub_handle is.
ClosesStray == m_mouse = "GHUB" /\ ghub_handle = "foreign"

\* The mouse is closed, then the control is released: neither is tested.  What
\* was never set points anywhere.
Release ==
  /\ pc \in {"closing", "failed"} /\ fault = "none"
  /\ \/ m_mouse = "null" /\ fault' = "null" /\ UNCHANGED <<pc, objects>>
     \/ ClosesStray /\ fault' = "handle" /\ UNCHANGED <<pc, objects>>
     \/ /\ m_mouse # "null" /\ ~ClosesStray
        /\ control = "unset"
        /\ fault' = "unset"
        /\ UNCHANGED <<pc, objects>>
     \/ /\ m_mouse # "null" /\ ~ClosesStray
        /\ control # "unset"
        /\ m_mouse' = "unset" /\ control' = "unset" /\ ghub_handle' = "unset"
        /\ pc' = "released"
        /\ UNCHANGED fault
  /\ UNCHANGED <<manner, pid, target, move>>

-----------------------------------------------------------------------------
(* action, from the distance of the target on.                             *)

\* Mutated form: the integral as textbooks have it.
Integral_Textbook(I, ki, deviation) == I + Tenths(ki, deviation)

Integral(I, ki, deviation) == Tenths(ki, I + deviation)

\* control_x and control_y: the new state of an axis, and the move.  The target
\* amount is always zero.
Controlled(old, g, input) ==
  [I |-> Integral(old.I, g.ki, input), last_deviation |-> input]
Control(old, g, input) ==
  Tenths(g.kp, input) + Integral(old.I, g.ki, input)
    + Tenths(g.kd, input - old.last_deviation)

\* A limit of the UI for either direction.
MaxMovePixel(input, max) == IF Abs(input) > max THEN Sign(input) * max ELSE input

\* Where action aims at in a box: its centre, or aim_position of its height above
\* the lower edge.
Centre(b, position) ==
  [x |-> b.x + b.width \div 2,
   y |-> IF position = 0 THEN b.y + b.height \div 2
         ELSE b.y + b.height - Tenths(position, b.height)]

\* Mutated form: the lower edge is taken for the height.
InScope_Height(b, distance, scale) ==
  /\ 20 * Abs(distance["x"]) < scale.x * b.width
  /\ distance["y"] > 0 => 10 * distance["y"] < scale.up * (distance["y"] - b.y)
  /\ distance["y"] < 0 => 10 * distance["y"] > scale.down * (distance["y"] - b.height)

\* inScopeX and inScopeY: the crosshair is near enough, sideways for half of the
\* width, above and below for what there is of the box.
InScope(b, distance, scale) ==
  /\ 20 * Abs(distance["x"]) < scale.x * b.width
  /\ distance["y"] > 0 => 10 * distance["y"] < scale.up * (distance["y"] - b.y)
  /\ distance["y"] < 0 => 10 * distance["y"] > scale.down * (distance["y"] - (b.y + b.height))

\* The gains of both axes, each as the UI has set it.
GainPairs == [x : Gains["x"], y : Gains["y"]]

\* A target out of reach leaves the control as it is; the others do not, be the
\* aim key down or not.  max_pixel is read once per axis.
Target ==
  /\ pc = "idle" /\ fault = "none"
  /\ \E b \in Boxes, position \in Positions, scale \in Scales, g \in GainPairs,
        max \in [Axes -> MaxPixels] :
       LET distance == Centre(b, position) IN
       /\ \A a \in Axes : Abs(distance[a]) <= Reach
       /\ pid' = [a \in Axes |-> Controlled(pid[a], g[a], distance[a])]
       /\ \/ /\ box' = b
             /\ in_scope' = InScope(b, distance, scale)
             /\ asked' = [a \in Axes |->
                            MaxMovePixel(Control(pid[a], g[a], distance[a]), max[a])]
             /\ left' = asked' /\ sent' = Nowhere
             /\ pc' = "move"
          \/ UNCHANGED <<pc, target, move>>
  /\ UNCHANGED <<manner, objects, fault>>

\* What fits into a byte of an order.
Limit == 127
Char(n) == ((n + 128) % 256) - 128
Far(n) == Abs(n) > Limit

Send(x, y) == sent' = [sent EXCEPT !["x"] = @ + x, !["y"] = @ + y]

\* ISendInput::move takes it as it is; Windows may refuse it, which nobody asks.
MoveBySendInput ==
  /\ pc = "move" /\ m_mouse = "SendInput"
  /\ pc' = "moved"
  /\ Send(left["x"], left["y"]) \/ UNCHANGED sent
  /\ UNCHANGED <<manner, objects, pid, target, asked, left, fault>>

\* Mutated form: the part along y is taken for sent when that along x is.
MoveByGhub_DropsY ==
  /\ pc = "move" /\ m_mouse = "GHUB" /\ fault = "none"
  /\ LET x == left["x"]  y == left["y"] IN
     \/ Far(x) /\ Send(Sign(x) * Limit, 0)
        /\ left' = [left EXCEPT !["x"] = x - Sign(x) * Limit, !["y"] = 0] /\ UNCHANGED <<pc, fault>>
     \/ ~Far(x) /\ Send(x, Char(y)) /\ pc' = "moved" /\ UNCHANGED <<left, fault>>
  /\ UNCHANGED <<manner, objects, pid, target, asked>>

\* Mutated form: the slip is made the other way round, abs(y) for abs(x).
MoveByGhub_FarY ==
  /\ pc = "move" /\ m_mouse = "GHUB" /\ fault = "none"
  /\ LET x == left["x"]  y == left["y"] IN
     \/ /\ Far(y) /\ x # 0
        /\ Send(Sign(x) * Limit, Sign(y) * Limit)
        /\ left' = [left EXCEPT !["x"] = x - Sign(x) * Limit, !["y"] = y - Sign(y) * Limit]
        /\ UNCHANGED <<pc, fault>>
     \/ Far(y) /\ x = 0 /\ fault' = "division" /\ UNCHANGED <<pc, left, sent>>
     \/ ~Far(y) /\ Send(Char(x), y) /\ pc' = "moved" /\ UNCHANGED <<left, fault>>
  /\ UNCHANGED <<manner, objects, pid, target, asked>>

\* One call of IGHUB::move.  Its orders go to the device that ghub_handle happens
\* to be, which does not know them unless it is the driver.  As long as x is far,
\* both parts are sent in pieces of 127 pixels, y also when it is near: its sign
\* divides by zero when nothing is left of it.  When only y is far, it is sent as
\* it fits into a byte.
MoveByGhub ==
  /\ pc = "move" /\ m_mouse = "GHUB" /\ fault = "none"
  /\ LET x == left["x"]  y == left["y"] IN
     \/ /\ Far(x) /\ y # 0
        /\ Send(Sign(x) * Limit, Sign(y) * Limit)
        /\ left' = [left EXCEPT !["x"] = x - Sign(x) * Limit, !["y"] = y - Sign(y) * Limit]
        /\ UNCHANGED <<pc, fault>>
     \/ /\ Far(x) /\ y = 0
        /\ Send(Sign(x) * Limit, 0)
        /\ fault' = "division"
        /\ UNCHANGED <<pc, left>>
     \/ /\ ~Far(x) /\ Far(y)
        /\ Send(x, Char(y))
        /\ left' = Nowhere
        /\ UNCHANGED <<pc, fault>>
     \/ /\ ~Far(x) /\ ~Far(y)
        /\ Send(x, y)
        /\ pc' = "moved"
        /\ UNCHANGED <<left, fault>>
  /\ UNCHANGED <<manner, objects, pid, target, asked>>

\* action returns.
Return ==
  /\ pc = "moved"
  /\ pc' = "idle"
  /\ box' = NoBox /\ in_scope' = FALSE
  /\ asked' = Nowhere /\ left' = Nowhere /\ sent' = Nowhere
  /\ UNCHANGED <<manner, objects, pid, fault>>

Next ==
  \/ CreateMouse \/ InitMouse \/ CreateControl
  \/ Target \/ Return \/ MoveBySendInput \/ MoveByGhub
  \/ LeaveLoop \/ Release

Spec == Init /\ [][Next]_vars

-----------------------------------------------------------------------------
(* Properties.                                                             *)

TypeOK ==
  /\ manner \in Manners
  /\ pc \in {"create_mouse", "init_mouse", "create_control", "idle", "move", "moved", "closing",
            "failed", "released"}
  /\ m_mouse \in {"unset", "null", "GHUB", "SendInput"}
  /\ control \in {"unset", "PID"}
  /\ ghub_handle \in {"unset", "no handle", "foreign"}
  /\ pc \in {"idle", "move", "moved", "closing"} => control = "PID" /\ m_mouse \in {"GHUB", "SendInput"}
  /\ pid \in [Axes -> [I : Int, last_deviation : Int]]
  /\ box \in Boxes \union {NoBox} /\ in_scope \in BOOLEAN
  /\ asked \in [Axes -> Int] /\ left \in [Axes -> Int] /\ sent \in [Axes -> Int]
  /\ fault \in {"none", "null", "unset", "handle", "division"}

\* How many pieces of 127 pixels a way takes.
Pieces(n) == IF Abs(n) <= Limit THEN 1 ELSE (Abs(n) + Limit - 1) \div Limit

\* The orders of GHUB add up to the move that was asked for, however they are
\* cut to pieces and although y runs past its aim and back on the way, unless y
\* takes more pieces than x.
OrdersAddUp ==
  (pc = "moved" /\ m_mouse = "GHUB" /\ Pieces(asked["y"]) <= Pieces(asked["x"])) => sent = asked

\* On the way of those orders the crosshair never runs past its aim along x.
\* Along y it may, again and again, but it is never farther from its aim than it
\* was at first or than a piece is long.
StaysNear ==
  (pc \in {"move", "moved"} /\ m_mouse = "GHUB" /\ Pieces(asked["y"]) <= Pieces(asked["x"])) =>
    LET ahead(a) == Abs(asked[a] - sent[a]) IN
    /\ ahead("x") + Abs(sent["x"]) = Abs(asked["x"])
    /\ ahead("y") <= Abs(asked["y"]) \/ ahead("y") <= Limit

\* A move dies of a division by zero only when y is a whole number of pieces
\* that are used up before x is.  A lock object can be released unless its
\* initialisation failed, or its mouse is GHUB, whose release may close a handle
\* of others however well it was initialised; SendInput is released safely always.
FaultsAreKnown ==
  /\ fault = "division" =>
       /\ asked["y"] % Limit = 0
       /\ Pieces(asked["y"]) < Pieces(asked["x"])
  /\ fault = "null" => pc = "failed" /\ m_mouse = "null"
  /\ fault = "unset" => pc = "failed" /\ m_mouse = "GHUB" /\ ghub_handle = "no handle"
  /\ fault = "handle" => pc \in {"closing", "failed"} /\ ClosesStray

\* The trigger fires only with the crosshair on the box, wherever in the box the
\* UI has it aim and as long as its scales do not go beyond the box.
InScopeIsOnBox ==
  /\ \A position \in Positions : position <= 10
  /\ \A scale \in Scales : scale.x <= 10 /\ scale.up <= 10 /\ scale.down <= 10
  => (in_scope => /\ box.x <= 0 /\ 0 <= box.x + box.width
                  /\ box.y <= 0 /\ 0 <= box.y + box.height)

\* Gains of less than one keep the integral within what a deviation at the edge
\* of the reach adds up to, whatever targets come and go and however often the
\* UI changes the gains: it is never reset.
IntegralIsBounded ==
  \A a \in Axes, top \in 0 .. 9 :
    (\A g \in Gains[a] : g.ki <= top) => (10 - top) * Abs(pid[a].I) <= top * Reach

\* What Release needs.
Releasable == m_mouse # "null" /\ control # "unset"

LifePhase ==
  IF fault # "none" THEN "aborted"
  ELSE CASE pc \in {"create_mouse", "init_mouse", "create_control"} -> "preparing"
         [] pc \in {"move", "moved"}                    -> "usable"
         [] pc = "idle" /\ Releasable                   -> "usable"
         [] pc \in {"closing", "failed"} /\ Releasable  -> "closing"
         [] pc \in {"idle", "closing", "failed"} /\ ~Releasable -> "defunct"
         [] pc = "released"                             -> "absent"

Life == INSTANCE Component
  WITH phase <- LifePhase, AfterFailure <- {"defunct"},
       Deaths <- {"usable"} \union (IF 0 \in Manners THEN {"closing"} ELSE {})

\* The lock object lives as its user expects (Actuator!Lock), which has no other
\* choice than to release it: a failed preparation always leaves it defunct, what
\* is used was prepared, and what was prepared has the members its release needs,
\* of which only those of GHUB may do harm.
KeepsLife == Life!Spec
=============================================================================
