------------------------------ MODULE AimProofs ------------------------------
(***************************************************************************)
(* Proofs about Aim, for any boxes, gains, scales and limits.              *)
(***************************************************************************)
EXTENDS Aim, TLAPS

\* A control is reached only with a mouse, and a handle belongs to GHUB.  An
\* initialisation fails without a mouse, or with a GHUB that is not ready.
MouseFits ==
  /\ pc \in {"init_mouse", "create_control"} => m_mouse \in {"GHUB", "SendInput"}
  /\ pc = "failed" => m_mouse \in {"null", "GHUB"}
  /\ pc # "create_mouse" /\ m_mouse = "GHUB" =>
       ghub_handle \in {"no handle", "foreign"} /\ 0 \in Manners
  /\ fault = "division" => pc = "move" /\ m_mouse = "GHUB"

\* The way that GHUB has still to go along both axes: it is short of what was
\* sent, y is no whole number of pieces unless it was from the beginning, and
\* then it has come as far as x.
OnItsWay ==
  (pc = "move" /\ m_mouse = "GHUB" /\ left # Nowhere) =>
    /\ (left["y"] - asked["y"]) % Limit = 0
    /\ asked["y"] % Limit = 0 =>
         Abs(asked["y"]) - Abs(left["y"]) = Abs(asked["x"]) - Abs(left["x"])

\* Unless y takes more pieces than x, nothing gets lost.
AddsUp ==
  (pc \in {"move", "moved"} /\ m_mouse = "GHUB" /\ Pieces(asked["y"]) <= Pieces(asked["x"])) =>
    /\ pc = "move" /\ fault = "none" =>
         /\ \A a \in Axes : sent[a] + left[a] = asked[a]
         /\ Far(left["y"]) => Pieces(left["y"]) <= Pieces(left["x"])
    /\ pc = "moved" => sent = asked

AimInv == TypeOK /\ MouseFits /\ OnItsWay /\ AddsUp /\ FaultsAreKnown

-----------------------------------------------------------------------------
(* Numbers.                                                                *)

LEMMA SignType == \A n \in Int : Sign(n) \in {-1, 0, 1} /\ Sign(n) \in Int /\ Abs(n) \in Nat
BY DEF Sign, Abs

LEMMA TenthsType == \A k \in Nat, n \in Int : Tenths(k, n) \in Int
<1> SUFFICES ASSUME NEW k \in Nat, NEW n \in Int PROVE Tenths(k, n) \in Int
  OBVIOUS
<1>1. k * Abs(n) \in Nat
  BY SignType
<1>2. (k * Abs(n)) \div 10 \in Int
  BY <1>1
<1>3. QED
  BY <1>2, SignType DEF Tenths

\* One piece of a far way.
LEMMA OnePiece ==
  ASSUME NEW n \in Int, Far(n)
  PROVE  /\ n - Sign(n) * Limit \in Int
         /\ Abs(n - Sign(n) * Limit) = Abs(n) - Limit
         /\ Pieces(n - Sign(n) * Limit) = Pieces(n) - 1
         /\ Pieces(n) >= 2
BY DEF Sign, Abs, Limit, Pieces, Far

\* One piece of any way but none.
LEMMA OnePieceNear ==
  ASSUME NEW n \in Int, n # 0
  PROVE  /\ n - Sign(n) * Limit \in Int
         /\ (n - (n - Sign(n) * Limit)) % Limit = 0
         /\ ~Far(n) => ~Far(n - Sign(n) * Limit)
         /\ n % Limit = 0 => Abs(n - Sign(n) * Limit) = Abs(n) - Limit
BY DEF Sign, Abs, Limit, Far

\* A way of whole pieces that is used up before the other.
LEMMA UsedUp ==
  ASSUME NEW n \in Int, NEW k \in Int, NEW l \in Int, Far(l),
         n % Limit = 0, Abs(n) = Abs(k) - Abs(l)
  PROVE  Pieces(n) < Pieces(k)
BY DEF Abs, Limit, Pieces, Far

-----------------------------------------------------------------------------
(* The steps.                                                              *)

LEMMA AimInit ==
  Init => AimInv
<1> SUFFICES ASSUME Init PROVE AimInv
  OBVIOUS
<1>1. Nowhere \in [Axes -> Int]
  BY DEF Nowhere
<1>2. [a \in Axes |-> [I |-> 0, last_deviation |-> 0]] \in [Axes -> [I : Int, last_deviation : Int]]
  OBVIOUS
<1>3. TypeOK
  BY <1>1, <1>2 DEF Init, TypeOK
<1>4. QED
  BY <1>3 DEF Init, AimInv, MouseFits, OnItsWay, AddsUp, FaultsAreKnown

\* Steps that neither move nor end a move.
LEMMA NoMove ==
  ASSUME AimInv, UNCHANGED <<pid, target, move>>, TypeOK', MouseFits',
         pc \notin {"move", "moved"}, pc' \notin {"move", "moved"},
         fault = "none",
         \/ fault' = "none"
         \/ fault' \in {"null", "unset", "handle"} /\ FaultsAreKnown'
  PROVE  AimInv'
BY DEF AimInv, OnItsWay, AddsUp, FaultsAreKnown, MouseFits, TypeOK, target, move

Setup == CreateMouse \/ InitMouse \/ CreateControl

LEMMA SetupStep ==
  ASSUME AimInv, Setup
  PROVE  AimInv'
<1> USE DEF Setup, CreateMouse, InitMouse, CreateControl
<1>0. TypeOK /\ MouseFits /\ FaultsAreKnown
  BY DEF AimInv
<1>1. /\ UNCHANGED <<manner, pid, target, move, fault>>
      /\ pc \in {"create_mouse", "init_mouse", "create_control"}
      /\ pc' \in {"failed", "init_mouse", "create_control", "idle"}
      /\ m_mouse' \in {"null", "GHUB", "SendInput", m_mouse}
      /\ control' \in {control, "PID"}
      /\ ghub_handle' \in {"unset", "no handle", "foreign", ghub_handle}
      /\ pc' = "failed" => m_mouse' \in {"null", "GHUB"}
      /\ m_mouse' = "GHUB" => ghub_handle' \in {"no handle", "foreign"} /\ 0 \in Manners
      /\ pc' = "idle" => control' = "PID" /\ m_mouse' \in {"GHUB", "SendInput"}
      /\ pc' \in {"init_mouse", "create_control"} => m_mouse' \in {"GHUB", "SendInput"}
  <2>1. CASE CreateMouse
    BY <1>0, <2>1 DEF MouseFits, Mouse, Strays, TypeOK
  <2>2. CASE InitMouse \/ CreateControl
    BY <1>0, <2>2 DEF MouseFits, objects
  <2>3. QED
    BY <2>1, <2>2
<1>2. TypeOK' /\ MouseFits'
  <2>1. TypeOK'
    <3>1. /\ m_mouse' \in {"unset", "null", "GHUB", "SendInput"}
          /\ control' \in {"unset", "PID"}
          /\ ghub_handle' \in {"unset", "no handle", "foreign"}
      BY <1>0, <1>1 DEF TypeOK
    <3>2. UNCHANGED <<manner, pid, box, in_scope, asked, left, sent, fault>>
      BY <1>1 DEF target, move
    <3>3. QED
      BY <1>0, <1>1, <3>1, <3>2 DEF TypeOK
  <2>2. MouseFits'
    BY <1>0, <1>1 DEF MouseFits
  <2>3. QED
    BY <2>1, <2>2
<1>3. fault = "none"
  BY <1>0, <1>1 DEF TypeOK, MouseFits, FaultsAreKnown
<1>4. UNCHANGED <<pid, target, move>> /\ fault' = "none"
  BY <1>1, <1>3
<1>5. pc \notin {"move", "moved"} /\ pc' \notin {"move", "moved"}
  BY <1>1
<1>6. QED
  BY <1>2, <1>3, <1>4, <1>5, NoMove

LEMMA ReleaseStep ==
  ASSUME AimInv, Release
  PROVE  AimInv'
<1>0. TypeOK /\ MouseFits
  BY DEF AimInv
<1>1. /\ UNCHANGED <<manner, pid, target, move>>
      /\ pc \in {"closing", "failed"} /\ fault = "none"
      /\ \/ /\ UNCHANGED <<pc, objects>> /\ fault' \in {"null", "unset", "handle"}
            /\ FaultsAreKnown'
         \/ /\ m_mouse' = "unset" /\ control' = "unset" /\ ghub_handle' = "unset"
            /\ pc' = "released" /\ fault' = "none"
  BY <1>0 DEF Release, ClosesStray, TypeOK, MouseFits, FaultsAreKnown, objects
<1>2. TypeOK' /\ MouseFits'
  BY <1>0, <1>1 DEF TypeOK, MouseFits, objects, target, move
<1>3. UNCHANGED <<pid, target, move>> /\ fault = "none"
  BY <1>1
<1>4. pc \notin {"move", "moved"} /\ pc' \notin {"move", "moved"}
  BY <1>1
<1>5. fault' = "none" \/ (fault' \in {"null", "unset", "handle"} /\ FaultsAreKnown')
  BY <1>1
<1>6. QED
  BY <1>2, <1>3, <1>4, <1>5, NoMove

LEMMA LeaveLoopStep ==
  ASSUME AimInv, LeaveLoop
  PROVE  AimInv'
<1>0. TypeOK /\ MouseFits /\ FaultsAreKnown
  BY DEF AimInv
<1>1. TypeOK' /\ MouseFits'
  BY <1>0 DEF LeaveLoop, TypeOK, MouseFits, objects, target, move
<1>2. fault = "none"
  BY <1>0 DEF LeaveLoop, TypeOK, MouseFits, FaultsAreKnown
<1>3. QED
  BY <1>1, <1>2, NoMove DEF LeaveLoop

\* The state of the control and the move are whole numbers.
LEMMA ControlType ==
  ASSUME NEW old \in [I : Int, last_deviation : Int],
         NEW g \in [kp : Nat, ki : Nat, kd : Nat], NEW input \in Int, NEW max \in Nat
  PROVE  /\ Controlled(old, g, input) \in [I : Int, last_deviation : Int]
         /\ MaxMovePixel(Control(old, g, input), max) \in Int
<1>1. Integral(old.I, g.ki, input) \in Int
  BY TenthsType DEF Integral
<1>2. Tenths(g.kp, input) \in Int /\ Tenths(g.kd, input - old.last_deviation) \in Int
  BY TenthsType
<1>3. Control(old, g, input) \in Int
  BY <1>1, <1>2 DEF Control
<1>4. \A n \in Int : MaxMovePixel(n, max) \in Int
  BY DEF MaxMovePixel, Sign, Abs
<1>5. QED
  BY <1>1, <1>3, <1>4 DEF Controlled

LEMMA CentreType ==
  ASSUME NEW b \in Boxes, NEW position \in Positions
  PROVE  Centre(b, position).x \in Int /\ Centre(b, position).y \in Int
<1>1. b.x \in Int /\ b.y \in Int /\ b.width \in Nat /\ b.height \in Nat /\ position \in Nat
  BY AimAssumption
<1>2. Tenths(position, b.height) \in Int
  BY <1>1, TenthsType
<1>3. QED
  BY <1>1, <1>2 DEF Centre

LEMMA TargetStep ==
  ASSUME AimInv, Target
  PROVE  AimInv'
<1>0. TypeOK /\ MouseFits /\ FaultsAreKnown
  BY DEF AimInv
<1>1. /\ UNCHANGED <<manner, objects, fault>> /\ pc = "idle" /\ fault = "none"
  BY DEF Target
<1>2. PICK b \in Boxes, position \in Positions, scale \in Scales, g \in GainPairs,
           max \in [Axes -> MaxPixels] :
        LET distance == Centre(b, position) IN
        /\ pid' = [a \in Axes |-> Controlled(pid[a], g[a], distance[a])]
        /\ \/ /\ box' = b
              /\ in_scope' = InScope(b, distance, scale)
              /\ asked' = [a \in Axes |->
                             MaxMovePixel(Control(pid[a], g[a], distance[a]), max[a])]
              /\ left' = asked' /\ sent' = Nowhere
              /\ pc' = "move"
           \/ UNCHANGED <<pc, target, move>>
  BY DEF Target
<1> DEFINE distance == Centre(b, position)
<1>3. \A a \in Axes : /\ Controlled(pid[a], g[a], distance[a]) \in [I : Int, last_deviation : Int]
                      /\ MaxMovePixel(Control(pid[a], g[a], distance[a]), max[a]) \in Int
  <2>1. ASSUME NEW a \in Axes
        PROVE  /\ g[a] \in [kp : Nat, ki : Nat, kd : Nat] /\ max[a] \in Nat
               /\ pid[a] \in [I : Int, last_deviation : Int]
    BY <1>0, <2>1, AimAssumption DEF GainPairs, Axes, TypeOK
  <2>2. \A a \in Axes : distance[a] \in Int
    BY CentreType DEF Axes, Centre
  <2> HIDE DEF distance
  <2>3. QED
    BY <2>1, <2>2, ControlType
<1>4. pid' \in [Axes -> [I : Int, last_deviation : Int]]
  BY <1>2, <1>3
<1>5. CASE UNCHANGED <<pc, target, move>>
  BY <1>0, <1>1, <1>4, <1>5 DEF AimInv, TypeOK, MouseFits, OnItsWay, AddsUp, FaultsAreKnown,
     objects, target, move
<1>6. CASE /\ box' = b /\ in_scope' = InScope(b, distance, scale)
           /\ asked' = [a \in Axes |-> MaxMovePixel(Control(pid[a], g[a], distance[a]), max[a])]
           /\ left' = asked' /\ sent' = Nowhere
           /\ pc' = "move"
  <2>1. asked' \in [Axes -> Int] /\ sent' \in [Axes -> Int] /\ \A a \in Axes : sent'[a] = 0
    BY <1>3, <1>6 DEF Nowhere
  <2>2. in_scope' \in BOOLEAN
    BY <1>6 DEF InScope
  <2>3. TypeOK'
    BY <1>0, <1>1, <1>4, <1>6, <2>1, <2>2 DEF TypeOK, objects
  <2>4. asked'["x"] \in Int /\ asked'["y"] \in Int /\ asked'["y"] - asked'["y"] = 0
    BY <2>1 DEF Axes
  <2>5. OnItsWay'
    BY <1>6, <2>4, SignType DEF OnItsWay, Limit
  <2>6. AddsUp'
    BY <1>6, <2>1 DEF AddsUp
  <2>7. QED
    BY <1>0, <1>1, <1>6, <2>3, <2>5, <2>6 DEF AimInv, MouseFits, FaultsAreKnown, objects, TypeOK
<1>7. QED
  BY <1>2, <1>5, <1>6

LEMMA MoveBySendInputStep ==
  ASSUME AimInv, MoveBySendInput
  PROVE  AimInv'
<1>0. TypeOK /\ MouseFits /\ FaultsAreKnown
  BY DEF AimInv
<1>1. /\ UNCHANGED <<manner, objects, pid, target, asked, left, fault>>
      /\ pc = "move" /\ m_mouse = "SendInput" /\ pc' = "moved"
  BY DEF MoveBySendInput
<1>2. sent' \in [Axes -> Int]
  <2>1. sent \in [Axes -> Int] /\ left["x"] \in Int /\ left["y"] \in Int
    BY <1>0 DEF TypeOK, Axes
  <2>2. QED
    BY <2>1 DEF MoveBySendInput, Send, Axes
<1>3. TypeOK'
  BY <1>0, <1>1, <1>2 DEF TypeOK, objects, target
<1>4. fault = "none"
  BY <1>0, <1>1 DEF TypeOK, MouseFits, FaultsAreKnown
<1>5. QED
  BY <1>0, <1>1, <1>3, <1>4 DEF AimInv, MouseFits, OnItsWay, AddsUp, FaultsAreKnown, objects

LEMMA MoveByGhubStep ==
  ASSUME AimInv, MoveByGhub
  PROVE  AimInv'
<1> DEFINE x == left["x"]
           y == left["y"]
<1>0. TypeOK /\ MouseFits /\ FaultsAreKnown /\ OnItsWay /\ AddsUp
  BY DEF AimInv
<1>1. /\ UNCHANGED <<manner, objects, pid, target, asked>>
      /\ pc = "move" /\ m_mouse = "GHUB" /\ fault = "none"
  BY DEF MoveByGhub
<1>2. /\ x \in Int /\ y \in Int /\ sent["x"] \in Int /\ sent["y"] \in Int
      /\ asked["x"] \in Int /\ asked["y"] \in Int
  BY <1>0 DEF TypeOK, Axes
<1>3. Char(y) \in Int /\ Sign(x) * Limit \in Int /\ Sign(y) * Limit \in Int
  BY <1>2, SignType DEF Char, Limit
<1>4. ASSUME NEW p \in Int, NEW q \in Int, Send(p, q)
      PROVE  sent' \in [Axes -> Int] /\ sent'["x"] = sent["x"] + p /\ sent'["y"] = sent["y"] + q
  <2>1. sent \in [Axes -> Int]
    BY <1>0 DEF TypeOK
  <2>2. QED
    BY <1>2, <1>4, <2>1 DEF Send, Axes
<1>5. CASE /\ Far(x) /\ y # 0
           /\ Send(Sign(x) * Limit, Sign(y) * Limit)
           /\ left' = [left EXCEPT !["x"] = x - Sign(x) * Limit, !["y"] = y - Sign(y) * Limit]
           /\ UNCHANGED <<pc, fault>>
  <2>1. /\ x - Sign(x) * Limit \in Int
        /\ Abs(x - Sign(x) * Limit) = Abs(x) - Limit
        /\ Pieces(x - Sign(x) * Limit) = Pieces(x) - 1
        /\ Pieces(x) >= 2
    BY <1>2, <1>5, OnePiece
  <2>2. /\ y - Sign(y) * Limit \in Int
        /\ (y - (y - Sign(y) * Limit)) % Limit = 0
        /\ ~Far(y) => ~Far(y - Sign(y) * Limit)
        /\ y % Limit = 0 => Abs(y - Sign(y) * Limit) = Abs(y) - Limit
    BY <1>2, <1>5, OnePieceNear
  <2>3. /\ left' \in [Axes -> Int]
        /\ left'["x"] = x - Sign(x) * Limit
        /\ left'["y"] = y - Sign(y) * Limit
    BY <1>0, <1>5, <2>1, <2>2 DEF TypeOK, Axes
  <2>4. TypeOK'
    BY <1>0, <1>1, <1>3, <1>4, <1>5, <2>3 DEF TypeOK, objects, target
  <2>5. left # Nowhere
    BY <1>5 DEF Nowhere, Far, Abs, Limit, Axes
  <2>6. OnItsWay'
    <3> HIDE DEF x, y
    <3>1. (y - asked["y"]) % Limit = 0
      BY <1>0, <1>1, <2>5 DEF OnItsWay, y
    <3>2. (left'["y"] - asked["y"]) % Limit = 0
      BY <1>2, <1>3, <2>2, <2>3, <3>1 DEF Limit
    <3>3. ASSUME asked["y"] % Limit = 0
          PROVE  Abs(asked["y"]) - Abs(left'["y"]) = Abs(asked["x"]) - Abs(left'["x"])
      <4>1. y % Limit = 0
        BY <1>2, <3>1, <3>3 DEF Limit
      <4>2. Abs(asked["y"]) - Abs(y) = Abs(asked["x"]) - Abs(x)
        BY <1>0, <1>1, <2>5, <3>3 DEF OnItsWay, x, y
      <4>3. Abs(left'["y"]) = Abs(y) - Limit /\ Abs(left'["x"]) = Abs(x) - Limit
        BY <2>1, <2>2, <2>3, <4>1
      <4>4. QED
        BY <1>2, <4>2, <4>3, SignType DEF Limit
    <3>4. QED
      BY <1>1, <3>2, <3>3 DEF OnItsWay
  <2>7. AddsUp'
    <3>1. sent'["x"] = sent["x"] + Sign(x) * Limit /\ sent'["y"] = sent["y"] + Sign(y) * Limit
      BY <1>3, <1>4, <1>5
    <3> SUFFICES ASSUME Pieces(asked["y"]) <= Pieces(asked["x"])
                 PROVE  /\ \A a \in Axes : sent'[a] + left'[a] = asked[a]
                        /\ Far(left'["y"]) => Pieces(left'["y"]) <= Pieces(left'["x"])
      BY <1>1, <1>5 DEF AddsUp
    <3>2. /\ \A a \in Axes : sent[a] + left[a] = asked[a]
          /\ Far(y) => Pieces(y) <= Pieces(x)
      BY <1>0, <1>1 DEF AddsUp
    <3>3. sent["x"] + x = asked["x"] /\ sent["y"] + y = asked["y"]
      BY <3>2 DEF Axes
    <3> HIDE DEF x, y
    <3>4. sent'["x"] + left'["x"] = asked["x"] /\ sent'["y"] + left'["y"] = asked["y"]
      BY <1>2, <1>3, <2>3, <3>1, <3>3
    <3>5. ASSUME Far(left'["y"]) PROVE Pieces(left'["y"]) <= Pieces(left'["x"])
      <4>1. Far(y)
        BY <2>2, <2>3, <3>5
      <4>2. Pieces(left'["y"]) = Pieces(y) - 1
        BY <1>2, <2>3, <4>1, OnePiece
      <4>3. Pieces(x) \in Int /\ Pieces(y) \in Int
        BY <1>2, SignType DEF Pieces, Limit
      <4>4. QED
        BY <2>1, <2>3, <3>2, <4>1, <4>2, <4>3
    <3>6. QED
      BY <3>4, <3>5 DEF Axes
  <2>8. QED
    BY <1>0, <1>1, <1>5, <2>4, <2>6, <2>7 DEF AimInv, MouseFits, FaultsAreKnown, objects
<1>6. CASE /\ Far(x) /\ y = 0
           /\ Send(Sign(x) * Limit, 0)
           /\ fault' = "division"
           /\ UNCHANGED <<pc, left>>
  <2>1. TypeOK'
    <3>1. sent' \in [Axes -> Int]
      BY <1>3, <1>4, <1>6
    <3>2. QED
      BY <1>0, <1>1, <1>6, <3>1 DEF TypeOK, objects, target
  <2>2. left # Nowhere
    BY <1>6 DEF Nowhere, Far, Abs, Limit, Axes
  <2>3. OnItsWay'
    BY <1>0, <1>1, <1>6 DEF OnItsWay, objects
  <2>4. AddsUp'
    BY <1>1, <1>6 DEF AddsUp
  <2>5. asked["y"] % Limit = 0 /\ Abs(asked["y"]) = Abs(asked["x"]) - Abs(x)
    <3>1. /\ (y - asked["y"]) % Limit = 0
          /\ asked["y"] % Limit = 0 => Abs(asked["y"]) - Abs(y) = Abs(asked["x"]) - Abs(x)
      BY <1>0, <1>1, <2>2 DEF OnItsWay
    <3> HIDE DEF x, y
    <3>2. (0 - asked["y"]) % Limit = 0
      BY <1>6, <3>1
    <3>3. asked["y"] % Limit = 0
      BY <1>2, <3>2 DEF Limit
    <3>4. Abs(y) = 0
      BY <1>6 DEF Abs
    <3>5. Abs(asked["y"]) \in Nat
      BY <1>2, SignType
    <3>6. QED
      BY <3>1, <3>3, <3>4, <3>5
  <2>6. Pieces(asked["y"]) < Pieces(asked["x"])
    BY <1>2, <1>6, <2>5, UsedUp
  <2>7. FaultsAreKnown'
    BY <1>1, <1>6, <2>5, <2>6 DEF FaultsAreKnown
  <2>8. QED
    BY <1>1, <1>6, <2>1, <2>3, <2>4, <2>7 DEF AimInv, MouseFits, objects
<1>7. CASE /\ ~Far(x) /\ Far(y)
           /\ Send(x, Char(y))
           /\ left' = Nowhere
           /\ UNCHANGED <<pc, fault>>
  <2>1. left' \in [Axes -> Int]
    BY <1>7 DEF Nowhere
  <2>2. TypeOK'
    BY <1>0, <1>1, <1>2, <1>3, <1>4, <1>7, <2>1 DEF TypeOK, objects, target
  <2>3. Pieces(x) = 1 /\ Pieces(y) >= 2
    <3> HIDE DEF x, y
    <3>1. Pieces(x) = 1
      BY <1>2, <1>7 DEF Pieces, Far, Abs, Limit
    <3>2. QED
      BY <1>2, <1>7, <3>1, OnePiece
  <2>4. AddsUp'
    <3>1. ASSUME Pieces(asked["y"]) <= Pieces(asked["x"]) PROVE FALSE
      <4>1. Pieces(y) <= Pieces(x)
        BY <1>0, <1>1, <1>7, <3>1 DEF AddsUp
      <4>2. Pieces(y) \in Int
        BY <1>2, SignType DEF Pieces, Limit
      <4>3. QED
        BY <2>3, <4>1, <4>2
    <3>2. QED
      BY <1>1, <3>1 DEF AddsUp
  <2>5. QED
    BY <1>0, <1>1, <1>7, <2>2, <2>4 DEF AimInv, MouseFits, OnItsWay, FaultsAreKnown, objects
<1>8. CASE /\ ~Far(x) /\ ~Far(y)
           /\ Send(x, y)
           /\ pc' = "moved"
           /\ UNCHANGED <<left, fault>>
  <2>1. sent' \in [Axes -> Int] /\ sent'["x"] = sent["x"] + x /\ sent'["y"] = sent["y"] + y
    BY <1>2, <1>4, <1>8
  <2>2. TypeOK'
    BY <1>0, <1>1, <1>8, <2>1 DEF TypeOK, objects, target
  <2>3. AddsUp'
    <3>1. ASSUME Pieces(asked["y"]) <= Pieces(asked["x"]) PROVE sent' = asked
      <4>1. sent["x"] + x = asked["x"] /\ sent["y"] + y = asked["y"]
        BY <1>0, <1>1, <3>1 DEF AddsUp, Axes
      <4>2. sent'["x"] = asked["x"] /\ sent'["y"] = asked["y"]
        BY <2>1, <4>1
      <4>3. asked \in [Axes -> Int]
        BY <1>0 DEF TypeOK
      <4>4. QED
        BY <2>1, <4>2, <4>3 DEF Axes
    <3>2. QED
      BY <1>1, <1>8, <3>1 DEF AddsUp
  <2>4. QED
    BY <1>0, <1>1, <1>8, <2>2, <2>3 DEF AimInv, MouseFits, OnItsWay, FaultsAreKnown, objects
<1>9. QED
  BY <1>5, <1>6, <1>7, <1>8 DEF MoveByGhub

LEMMA ReturnStep ==
  ASSUME AimInv, Return
  PROVE  AimInv'
<1>0. TypeOK /\ MouseFits /\ FaultsAreKnown
  BY DEF AimInv
<1> Nowhere \in [Axes -> Int]
  BY DEF Nowhere
<1>1. TypeOK'
  BY <1>0 DEF TypeOK, Return, objects
<1>2. fault = "none"
  BY <1>0 DEF Return, TypeOK, MouseFits, FaultsAreKnown
<1>3. QED
  BY <1>1, <1>2 DEF AimInv, Return, MouseFits, OnItsWay, AddsUp, FaultsAreKnown, objects

LEMMA AimNext ==
  AimInv /\ [Next]_vars => AimInv'
<1> SUFFICES ASSUME AimInv, [Next]_vars PROVE AimInv'
  OBVIOUS
<1>1. CASE Setup
  BY <1>1, SetupStep
<1>2. CASE Release
  BY <1>2, ReleaseStep
<1>3. CASE Target
  BY <1>3, TargetStep
<1>4. CASE MoveBySendInput
  BY <1>4, MoveBySendInputStep
<1>5. CASE MoveByGhub
  BY <1>5, MoveByGhubStep
<1>6. CASE Return
  BY <1>6, ReturnStep
<1>7. CASE UNCHANGED vars
  <2>1. TypeOK' /\ MouseFits' /\ FaultsAreKnown'
    BY <1>7 DEF vars, AimInv, TypeOK, MouseFits, FaultsAreKnown, ClosesStray
  <2>2. OnItsWay' /\ AddsUp'
    BY <1>7 DEF vars, AimInv, OnItsWay, AddsUp
  <2>3. QED
    BY <2>1, <2>2 DEF AimInv
<1>8. CASE LeaveLoop
  BY <1>8, LeaveLoopStep
<1>9. QED
  BY <1>1, <1>2, <1>3, <1>4, <1>5, <1>6, <1>7, <1>8 DEF Next, Setup

\* The invariant of the lock object holds in every behaviour, whatever boxes are
\* seen and whatever the UI sets.
THEOREM AimInvariant == Spec => []AimInv
BY AimInit, AimNext, PTL DEF Spec

\* The members that the worker uses were set before, and the control works on
\* numbers.
THEOREM AimTypeCorrect == Spec => []TypeOK
<1>1. AimInv => TypeOK
  BY DEF AimInv
<1>2. QED
  BY <1>1, AimInvariant, PTL

\* IGHUB::move divides by zero, and the release of a lock object goes wrong,
\* only where FaultsAreKnown says: after a failed initialisation, or at the handle
\* of a GHUB, whose members were all set but that one.
THEOREM OnlyKnownAimFaults == Spec => []FaultsAreKnown
<1>1. AimInv => FaultsAreKnown
  BY DEF AimInv
<1>2. QED
  BY <1>1, AimInvariant, PTL

\* The orders of IGHUB::move add up to its arguments unless y takes more pieces
\* than x.
THEOREM OrdersDoAddUp == Spec => []OrdersAddUp
<1>1. AimInv => OrdersAddUp
  BY DEF AimInv, AddsUp, OrdersAddUp
<1>2. QED
  BY <1>1, AimInvariant, PTL

-----------------------------------------------------------------------------
(* The scope.                                                              *)

\* Less than half of the width, and a scaled part of it.
LEMMA InWidth ==
  ASSUME NEW x \in Int, NEW w \in Nat, NEW s \in 0 .. 10,
         20 * Abs(x + w \div 2) < s * w
  PROVE  x <= 0 /\ 0 <= x + w
<1>1. s * w <= 10 * w
  BY SMTT(30)
<1>2. 20 * Abs(x + w \div 2) < 10 * w
  BY <1>1, SignType
<1>3. QED
  BY <1>2 DEF Abs

\* Where it aims is between the upper and the lower edge.
LEMMA TenthsWithin ==
  ASSUME NEW k \in 0 .. 10, NEW n \in Nat
  PROVE  Tenths(k, n) \in Int /\ 0 <= Tenths(k, n) /\ Tenths(k, n) <= n
<1>1. k * n \in Nat /\ k * n <= 10 * n
  BY SMTT(30)
<1>2. (k * n) \div 10 \in Nat /\ (k * n) \div 10 <= n
  BY <1>1
<1>3. CASE n = 0
  BY <1>3 DEF Tenths, Sign, Abs
<1>4. CASE n > 0
  <2>1. Sign(n) = 1 /\ Abs(n) = n
    BY <1>4 DEF Sign, Abs
  <2>2. Tenths(k, n) = (k * n) \div 10
    BY <1>2, <2>1 DEF Tenths
  <2>3. QED
    BY <1>2, <2>2
<1>5. QED
  BY <1>3, <1>4

\* A scaled distance to an edge, for an edge on the far side of the crosshair.
LEMMA BeyondEdge ==
  ASSUME NEW d \in Int, NEW e \in Int, NEW s \in 0 .. 10
  PROVE  /\ d > 0 /\ 10 * d < s * (d - e) => e <= 0
         /\ d < 0 /\ 10 * d > s * (d - e) => e >= 0
<1>1. d - e >= 0 => s * (d - e) <= 10 * (d - e)
  BY SMTT(30)
<1>2. d - e <= 0 => s * (d - e) >= 10 * (d - e)
  BY SMTT(30)
<1>3. (d - e >= 0 => s * (d - e) >= 0) /\ (d - e <= 0 => s * (d - e) <= 0)
  BY SMTT(30)
<1>4. s * (d - e) \in Int
  OBVIOUS
<1>5. QED
  BY <1>1, <1>2, <1>3, <1>4

LEMMA ScopeOnBox ==
  ASSUME NEW b \in Boxes, NEW position \in Positions, NEW scale \in Scales,
         position <= 10, scale.x <= 10, scale.up <= 10, scale.down <= 10,
         InScope(b, Centre(b, position), scale)
  PROVE  /\ b.x <= 0 /\ 0 <= b.x + b.width
         /\ b.y <= 0 /\ 0 <= b.y + b.height
<1> DEFINE dx == b.x + b.width \div 2
           dy == Centre(b, position).y
<1>1. /\ b.x \in Int /\ b.y \in Int /\ b.width \in Nat /\ b.height \in Nat
      /\ position \in 0 .. 10
      /\ scale.x \in 0 .. 10 /\ scale.up \in 0 .. 10 /\ scale.down \in 0 .. 10
  BY AimAssumption
<1>2. /\ 20 * Abs(dx) < scale.x * b.width
      /\ dy > 0 => 10 * dy < scale.up * (dy - b.y)
      /\ dy < 0 => 10 * dy > scale.down * (dy - (b.y + b.height))
  BY DEF InScope, Centre
<1>3. b.x <= 0 /\ 0 <= b.x + b.width
  BY <1>1, <1>2, InWidth
<1>4. dy \in Int /\ b.y <= dy /\ dy <= b.y + b.height
  <2>1. /\ Tenths(position, b.height) \in Int
        /\ 0 <= Tenths(position, b.height) /\ Tenths(position, b.height) <= b.height
    BY <1>1, TenthsWithin
  <2>2. b.height \div 2 \in Nat /\ b.height \div 2 <= b.height
    BY <1>1
  <2>3. QED
    BY <1>1, <2>1, <2>2 DEF Centre
<1> HIDE DEF dy
<1>5. b.y + b.height \in Int
  BY <1>1
<1>6. dy > 0 => b.y <= 0
  BY <1>1, <1>2, <1>4, BeyondEdge
<1>7. dy < 0 => b.y + b.height >= 0
  BY <1>1, <1>2, <1>4, <1>5, BeyondEdge
<1>8. QED
  BY <1>1, <1>3, <1>4, <1>5, <1>6, <1>7

LEMMA ScopeInit == Init => InScopeIsOnBox
BY DEF Init, InScopeIsOnBox

LEMMA ScopeNext == InScopeIsOnBox /\ [Next]_vars => InScopeIsOnBox'
<1> SUFFICES ASSUME InScopeIsOnBox, [Next]_vars,
                    \A position \in Positions : position <= 10,
                    \A scale \in Scales : scale.x <= 10 /\ scale.up <= 10 /\ scale.down <= 10
             PROVE  in_scope' => /\ box'.x <= 0 /\ 0 <= box'.x + box'.width
                                 /\ box'.y <= 0 /\ 0 <= box'.y + box'.height
  BY DEF InScopeIsOnBox
<1>1. CASE UNCHANGED target
  BY <1>1 DEF target, InScopeIsOnBox
<1>2. CASE Return
  BY <1>2 DEF Return
<1>3. CASE Target
  <2>1. PICK b \in Boxes, position \in Positions, scale \in Scales :
          \/ box' = b /\ in_scope' = InScope(b, Centre(b, position), scale)
          \/ UNCHANGED target
    BY <1>3 DEF Target
  <2>2. QED
    BY <1>1, <2>1, ScopeOnBox
<1>4. QED
  BY <1>1, <1>2, <1>3 DEF Next, vars, target, CreateMouse, InitMouse, CreateControl, LeaveLoop, Release,
     MoveBySendInput, MoveByGhub

\* The crosshair is on the box when inScopeX and inScopeY let the trigger fire.
THEOREM ScopeIsOnBox == Spec => []InScopeIsOnBox
BY ScopeInit, ScopeNext, PTL DEF Spec

-----------------------------------------------------------------------------
(* The integral.                                                           *)

\* One step of an integral whose gain is below one.
LEMMA IntegralStep ==
  ASSUME NEW top \in 0 .. 9, NEW k \in Nat, k <= top, NEW I \in Int, NEW d \in Int,
         Abs(d) <= Reach, (10 - top) * Abs(I) <= top * Reach
  PROVE  (10 - top) * Abs(Integral(I, k, d)) <= top * Reach
<1> DEFINE n == Abs(I + d)
           q == (k * n) \div 10
<1>1. Reach \in Nat /\ I + d \in Int /\ n \in Nat /\ Abs(I) \in Nat
  BY AimAssumption, SignType
<1>2. n <= Abs(I) + Reach
  BY <1>1 DEF Abs
<1>3. Abs(Integral(I, k, d)) = q \/ Abs(Integral(I, k, d)) = 0
  <2>1. k * n \in Nat
    BY <1>1
  <2>2. q \in Nat
    BY <2>1
  <2>3. Integral(I, k, d) = Sign(I + d) * q
    BY DEF Integral, Tenths
  <2>4. Sign(I + d) \in {-1, 0, 1}
    BY <1>1, SignType
  <2> HIDE DEF q, n
  <2>5. QED
    BY <2>2, <2>3, <2>4 DEF Abs
<1> HIDE DEF n
<1>4. k * n \in Nat /\ k * n <= top * n
  BY <1>1, SMTT(30)
<1>5. q \in Nat /\ 10 * q <= k * n
  BY <1>4
<1> HIDE DEF q
<1>6. 10 * q <= top * n
  BY <1>1, <1>4, <1>5
<1>7. (10 - top) * q <= top * Reach
  BY <1>1, <1>2, <1>5, <1>6, SMTT(60)
<1>8. 0 <= top * Reach
  BY <1>1, SMTT(30)
<1>9. QED
  BY <1>3, <1>5, <1>7, <1>8

LEMMA IntegralInit == Init => IntegralIsBounded
<1> SUFFICES ASSUME Init, NEW a \in Axes, NEW top \in 0 .. 9
             PROVE  (10 - top) * Abs(pid[a].I) <= top * Reach
  BY DEF IntegralIsBounded
<1>1. Abs(pid[a].I) = 0
  BY DEF Init, Abs
<1>2. QED
  BY <1>1, AimAssumption, SMTT(30)

LEMMA IntegralNext ==
  TypeOK /\ IntegralIsBounded /\ [Next]_vars => IntegralIsBounded'
<1> SUFFICES ASSUME TypeOK, IntegralIsBounded, [Next]_vars PROVE IntegralIsBounded'
  OBVIOUS
<1>1. CASE UNCHANGED pid
  BY <1>1 DEF IntegralIsBounded
<1>2. CASE Target
  <2> SUFFICES ASSUME NEW a \in Axes, NEW top \in 0 .. 9, \A g \in Gains[a] : g.ki <= top
               PROVE  (10 - top) * Abs(pid'[a].I) <= top * Reach
    BY DEF IntegralIsBounded
  <2>1. PICK b \in Boxes, position \in Positions, g \in GainPairs :
          /\ \A c \in Axes : Abs(Centre(b, position)[c]) <= Reach
          /\ pid' = [c \in Axes |-> Controlled(pid[c], g[c], Centre(b, position)[c])]
    BY <1>2 DEF Target
  <2> DEFINE d == Centre(b, position)[a]
  <2>2. d \in Int /\ Abs(d) <= Reach
    BY <2>1, CentreType DEF Axes, Centre
  <2>3. g[a] \in Gains[a] /\ g[a].ki \in Nat /\ g[a].ki <= top
    BY AimAssumption DEF GainPairs, Axes
  <2>4. pid[a].I \in Int /\ (10 - top) * Abs(pid[a].I) <= top * Reach
    BY DEF TypeOK, IntegralIsBounded
  <2>5. pid'[a].I = Integral(pid[a].I, g[a].ki, d)
    BY <2>1 DEF Controlled
  <2> HIDE DEF d
  <2>6. QED
    BY <2>2, <2>3, <2>4, <2>5, IntegralStep
<1>3. QED
  BY <1>1, <1>2 DEF Next, vars, CreateMouse, InitMouse, CreateControl, LeaveLoop, Release, Return,
     MoveBySendInput, MoveByGhub

\* The integral of the control never grows beyond what a target at the edge of
\* the reach would bring it to in the end.
THEOREM IntegralStaysBounded == Spec => []IntegralIsBounded
BY IntegralInit, IntegralNext, AimTypeCorrect, PTL DEF Spec

-----------------------------------------------------------------------------
(* The way of the crosshair.                                               *)

\* As long as GHUB has pieces to send, what is left along x continues what was
\* sent, and what is left along y is short.
PiecesAreNear ==
  (pc = "move" /\ fault = "none" /\ m_mouse = "GHUB" /\ Pieces(asked["y"]) <= Pieces(asked["x"])) =>
    /\ Abs(left["x"]) + Abs(sent["x"]) = Abs(asked["x"])
    /\ Abs(left["y"]) <= Abs(asked["y"]) \/ Abs(left["y"]) <= Limit

NearInv == PiecesAreNear /\ StaysNear

\* One piece more of a far way that is gone in one direction.
LEMMA OnePieceOn ==
  ASSUME NEW s \in Int, NEW n \in Int, Far(n), Abs(n) + Abs(s) = Abs(s + n)
  PROVE  Abs(n - Sign(n) * Limit) + Abs(s + Sign(n) * Limit) = Abs(s + n)
BY DEF Sign, Abs, Limit, Far

\* One piece of any way but none leaves it as short as it was, or near.
LEMMA OnePieceOff ==
  ASSUME NEW n \in Int, NEW k \in Nat, n # 0, Abs(n) <= k \/ Abs(n) <= Limit
  PROVE  Abs(n - Sign(n) * Limit) <= k \/ Abs(n - Sign(n) * Limit) <= Limit
BY DEF Sign, Abs, Limit

\* What is left is how far the crosshair is from its aim.
LEMMA LeftIsAhead ==
  ASSUME TypeOK', AddsUp', PiecesAreNear', pc' = "move", fault' = "none"
  PROVE  StaysNear'
<1> SUFFICES ASSUME m_mouse' = "GHUB", Pieces(asked'["y"]) <= Pieces(asked'["x"])
             PROVE  /\ Abs(asked'["x"] - sent'["x"]) + Abs(sent'["x"]) = Abs(asked'["x"])
                    /\ \/ Abs(asked'["y"] - sent'["y"]) <= Abs(asked'["y"])
                       \/ Abs(asked'["y"] - sent'["y"]) <= Limit
  BY DEF StaysNear
<1>1. sent'["x"] + left'["x"] = asked'["x"] /\ sent'["y"] + left'["y"] = asked'["y"]
  BY DEF AddsUp, Axes
<1>2. \A a \in Axes : asked'[a] \in Int /\ left'[a] \in Int /\ sent'[a] \in Int
  BY DEF TypeOK
<1>3. asked'["x"] - sent'["x"] = left'["x"] /\ asked'["y"] - sent'["y"] = left'["y"]
  BY <1>1, <1>2 DEF Axes
<1>4. QED
  BY <1>3 DEF PiecesAreNear

\* What has arrived is at its aim.
LEMMA ArrivedIsNear ==
  ASSUME TypeOK', AddsUp', pc' = "moved"
  PROVE  NearInv'
<1> SUFFICES ASSUME m_mouse' = "GHUB", Pieces(asked'["y"]) <= Pieces(asked'["x"])
             PROVE  /\ Abs(asked'["x"] - sent'["x"]) + Abs(sent'["x"]) = Abs(asked'["x"])
                    /\ Abs(asked'["y"] - sent'["y"]) <= Limit
  BY DEF NearInv, PiecesAreNear, StaysNear
<1>1. sent' = asked'
  BY DEF AddsUp
<1>2. asked'["x"] \in Int /\ asked'["y"] \in Int
  BY DEF TypeOK, Axes
<1>3. Abs(asked'["x"] - sent'["x"]) = 0 /\ Abs(asked'["y"] - sent'["y"]) = 0 /\ 0 <= Limit
  BY <1>1, <1>2 DEF Abs, Limit
<1>4. QED
  BY <1>1, <1>2, <1>3, SignType

LEMMA NearTarget ==
  ASSUME AimInv, AimInv', NearInv, Target
  PROVE  NearInv'
<1>1. CASE UNCHANGED <<pc, objects, target, move, fault>>
  BY <1>1 DEF NearInv, PiecesAreNear, StaysNear, objects, move
<1>2. CASE left' = asked' /\ sent' = Nowhere /\ pc' = "move"
  <2>1. asked'["x"] \in Int /\ asked'["y"] \in Int
    BY DEF AimInv, TypeOK, Axes
  <2>2. /\ Abs(left'["x"]) + Abs(sent'["x"]) = Abs(asked'["x"])
        /\ Abs(left'["y"]) <= Abs(asked'["y"])
    <3>1. Abs(sent'["x"]) = 0
      BY <1>2 DEF Nowhere, Axes, Abs
    <3>2. QED
      BY <1>2, <2>1, <3>1, SignType
  <2>3. PiecesAreNear'
    BY <2>2 DEF PiecesAreNear
  <2>4. fault' = "none"
    BY DEF Target
  <2>5. StaysNear'
    BY <1>2, <2>3, <2>4, LeftIsAhead DEF AimInv
  <2>6. QED
    BY <2>3, <2>5 DEF NearInv
<1>3. QED
  BY <1>1, <1>2 DEF Target

LEMMA NearMove ==
  ASSUME AimInv, AimInv', NearInv, MoveByGhub
  PROVE  NearInv'
<1> DEFINE x == left["x"]
           y == left["y"]
<1>1. /\ UNCHANGED <<m_mouse, asked>>
      /\ pc = "move" /\ m_mouse = "GHUB" /\ fault = "none"
  BY DEF MoveByGhub, objects
<1>2. /\ x \in Int /\ y \in Int /\ sent["x"] \in Int /\ sent["y"] \in Int
      /\ asked["x"] \in Int /\ asked["y"] \in Int
  BY DEF AimInv, TypeOK, Axes
<1>3. CASE pc' = "moved"
  BY <1>3, ArrivedIsNear DEF AimInv
<1>4. CASE ~(Pieces(asked["y"]) <= Pieces(asked["x"]))
  BY <1>1, <1>4 DEF NearInv, PiecesAreNear, StaysNear
<1>5. CASE /\ Far(x)
           /\ pc' = pc
           /\ sent'["x"] = sent["x"] + Sign(x) * Limit
           /\ Pieces(asked["y"]) <= Pieces(asked["x"])
           /\ \/ /\ y # 0
                 /\ left'["x"] = x - Sign(x) * Limit /\ left'["y"] = y - Sign(y) * Limit
                 /\ UNCHANGED fault
              \/ /\ y = 0
                 /\ sent'["y"] = sent["y"]
                 /\ fault' = "division"
  <2>1. /\ Abs(x) + Abs(sent["x"]) = Abs(asked["x"])
        /\ Abs(y) <= Abs(asked["y"]) \/ Abs(y) <= Limit
    BY <1>1, <1>5 DEF NearInv, PiecesAreNear
  <2>2. sent["x"] + x = asked["x"] /\ sent["y"] + y = asked["y"]
    BY <1>1, <1>5 DEF AimInv, AddsUp, Axes
  <2> HIDE DEF x, y
  <2>3. Abs(x - Sign(x) * Limit) + Abs(sent'["x"]) = Abs(asked["x"])
    BY <1>2, <1>5, <2>1, <2>2, OnePieceOn
  <2>4. CASE /\ y # 0
             /\ left'["x"] = x - Sign(x) * Limit /\ left'["y"] = y - Sign(y) * Limit
             /\ UNCHANGED fault
    <3>1. Abs(left'["y"]) <= Abs(asked["y"]) \/ Abs(left'["y"]) <= Limit
      BY <1>2, <2>1, <2>4, OnePieceOff, SignType
    <3>2. PiecesAreNear'
      BY <1>1, <2>3, <2>4, <3>1 DEF PiecesAreNear
    <3>3. StaysNear'
      BY <1>1, <1>5, <2>4, <3>2, LeftIsAhead DEF AimInv
    <3>4. QED
      BY <3>2, <3>3 DEF NearInv
  <2>5. CASE y = 0 /\ sent'["y"] = sent["y"] /\ fault' = "division"
    <3>1. Sign(x) * Limit \in Int
      BY <1>2, SignType DEF Limit
    <3>2. asked["x"] - sent'["x"] = x - Sign(x) * Limit
      BY <1>2, <1>5, <2>2, <3>1
    <3>3. Abs(asked["y"] - sent'["y"]) = 0 /\ 0 <= Limit
      BY <1>2, <2>2, <2>5 DEF Abs, Limit
    <3>4. StaysNear'
      BY <1>1, <2>3, <3>2, <3>3 DEF StaysNear
    <3>5. QED
      BY <2>5, <3>4 DEF NearInv, PiecesAreNear
  <2>6. QED
    BY <1>5, <2>4, <2>5
<1>6. CASE ~Far(x) /\ Far(y) /\ Pieces(asked["y"]) <= Pieces(asked["x"])
  <2>1. Pieces(y) <= Pieces(x)
    BY <1>1, <1>6 DEF AimInv, AddsUp
  <2> HIDE DEF x, y
  <2>2. Pieces(x) = 1
    BY <1>2, <1>6 DEF Pieces, Far, Abs, Limit
  <2>3. Pieces(y) >= 2 /\ Pieces(y) \in Int
    BY <1>2, <1>6, OnePiece, SignType DEF Pieces, Limit
  <2>4. QED
    BY <2>1, <2>2, <2>3
<1>7. ASSUME NEW p \in Int, NEW q \in Int, Send(p, q)
      PROVE  sent'["x"] = sent["x"] + p /\ sent'["y"] = sent["y"] + q
  BY <1>2, <1>7 DEF Send, AimInv, TypeOK, Axes
<1>8. Sign(x) * Limit \in Int /\ Sign(y) * Limit \in Int
  BY <1>2, SignType DEF Limit
<1>9. Far(x) /\ pc' = pc =>
        /\ sent'["x"] = sent["x"] + Sign(x) * Limit
        /\ \/ /\ y # 0
              /\ left'["x"] = x - Sign(x) * Limit /\ left'["y"] = y - Sign(y) * Limit
              /\ UNCHANGED fault
           \/ /\ y = 0
              /\ sent'["y"] = sent["y"]
              /\ fault' = "division"
  <2>1. CASE /\ y # 0 /\ Send(Sign(x) * Limit, Sign(y) * Limit)
             /\ left' = [left EXCEPT !["x"] = x - Sign(x) * Limit, !["y"] = y - Sign(y) * Limit]
             /\ UNCHANGED fault
    BY <1>7, <1>8, <2>1 DEF AimInv, TypeOK, Axes
  <2>2. CASE y = 0 /\ Send(Sign(x) * Limit, 0) /\ fault' = "division"
    <3>1. sent'["x"] = sent["x"] + Sign(x) * Limit /\ sent'["y"] = sent["y"] + 0
      BY <1>7, <1>8, <2>2
    <3>2. QED
      BY <1>2, <2>2, <3>1
  <2>3. QED
    BY <2>1, <2>2 DEF MoveByGhub
<1>10. pc' = pc \/ pc' = "moved"
  BY DEF MoveByGhub
<1>11. Far(x) \/ Far(y) \/ pc' = "moved"
  BY DEF MoveByGhub
<1>12. QED
  BY <1>3, <1>4, <1>5, <1>6, <1>9, <1>10, <1>11

LEMMA NearNext ==
  AimInv /\ AimInv' /\ NearInv /\ [Next]_vars => NearInv'
<1> SUFFICES ASSUME AimInv, AimInv', NearInv, [Next]_vars PROVE NearInv'
  OBVIOUS
<1>1. CASE Setup \/ LeaveLoop \/ Release \/ Return
  <2>1. pc' \notin {"move", "moved"}
    BY <1>1 DEF Setup, CreateMouse, InitMouse, CreateControl, LeaveLoop, Release, Return
  <2>2. QED
    BY <2>1 DEF NearInv, PiecesAreNear, StaysNear
<1>2. CASE Target
  BY <1>2, NearTarget
<1>3. CASE MoveBySendInput
  <2>1. m_mouse' # "GHUB"
    BY <1>3 DEF MoveBySendInput, objects
  <2>2. QED
    BY <2>1 DEF NearInv, PiecesAreNear, StaysNear
<1>4. CASE MoveByGhub
  BY <1>4, NearMove
<1>5. CASE UNCHANGED vars
  BY <1>5 DEF vars, NearInv, PiecesAreNear, StaysNear
<1>6. QED
  BY <1>1, <1>2, <1>3, <1>4, <1>5 DEF Next, Setup

\* IGHUB::move never takes the crosshair past its aim along x, nor farther from it
\* along y than it was or than a piece is long, for any move whose y takes no more
\* pieces than its x.
THEOREM CrosshairStaysNear == Spec => []StaysNear
<1>1. Init => NearInv
  BY DEF Init, NearInv, PiecesAreNear, StaysNear
<1>2. NearInv => StaysNear
  BY DEF NearInv
<1>3. QED
  BY <1>1, <1>2, NearNext, AimInvariant, PTL DEF Spec

-----------------------------------------------------------------------------
(* The life of the lock object.                                            *)

\* There is no control before the last step of the preparation succeeded.
ControlComesLast ==
  pc \in {"create_mouse", "init_mouse", "create_control", "failed"} => control = "unset"

LEMMA ControlInvariant == Spec => []ControlComesLast
<1>1. Init => ControlComesLast
  BY DEF Init, ControlComesLast
<1>2. ControlComesLast /\ [Next]_vars => ControlComesLast'
  <2> SUFFICES ASSUME ControlComesLast, [Next]_vars PROVE ControlComesLast'
    OBVIOUS
  <2> USE DEF ControlComesLast, objects
  <2>1. CASE Setup \/ Release
    BY <2>1 DEF Setup, CreateMouse, InitMouse, CreateControl, Release
  <2>2. CASE Target \/ Return \/ MoveBySendInput \/ MoveByGhub \/ LeaveLoop
    BY <2>2 DEF Target, Return, MoveBySendInput, MoveByGhub, LeaveLoop
  <2>3. CASE UNCHANGED vars
    BY <2>3 DEF vars
  <2>4. QED
    BY <2>1, <2>2, <2>3 DEF Next, Setup
<1>3. QED
  BY <1>1, <1>2, PTL DEF Spec

\* A failed preparation leaves the lock object defunct, one that succeeded lets it
\* be used and then released with all its members set, except for the handle of
\* GHUB, of which the process may die: what Actuator relies on, for any manner of
\* moving.
THEOREM LockLifeIsKept == Spec => KeepsLife
<1>1. Init => Life!Init
  BY DEF Init, Life!Init, LifePhase
<1>2. AimInv /\ ControlComesLast /\ [Next]_vars => [Life!Next]_LifePhase
  <2> SUFFICES ASSUME AimInv, ControlComesLast, [Next]_vars PROVE [Life!Next]_LifePhase
    OBVIOUS
  <2> USE DEF AimInv, TypeOK, MouseFits, FaultsAreKnown, ControlComesLast, LifePhase, Releasable,
              ClosesStray, objects, Life!Next, Life!Prepare, Life!Fail, Life!Close, Life!Release,
              Life!Crash, Life!Die
  <2>1. CASE Setup
    BY <2>1 DEF Setup, CreateMouse, Mouse, InitMouse, CreateControl
  <2>2. CASE Release
    BY <2>2 DEF Release
  <2>3. CASE Target
    BY <2>3 DEF Target
  <2>4. CASE Return
    BY <2>4 DEF Return
  <2>5. CASE MoveBySendInput
    BY <2>5 DEF MoveBySendInput
  <2>6. CASE MoveByGhub
    BY <2>6 DEF MoveByGhub
  <2>7. CASE UNCHANGED vars
    BY <2>7 DEF vars
  <2>8. CASE LeaveLoop
    BY <2>8 DEF LeaveLoop
  <2>9. QED
    BY <2>1, <2>2, <2>3, <2>4, <2>5, <2>6, <2>7, <2>8 DEF Next, Setup
<1>3. QED
  BY <1>1, <1>2, AimInvariant, ControlInvariant, PTL DEF Spec, KeepsLife, Life!Spec
=============================================================================
