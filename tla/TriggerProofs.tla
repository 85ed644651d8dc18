---------------------------- MODULE TriggerProofs ----------------------------
(***************************************************************************)
(* Proofs about Trigger, for any keys, delays, random times and models.    *)
(***************************************************************************)
EXTENDS Trigger, TLAPS

\* The inductive invariant.  The time since a click is known to the program by
\* the age of the clock it stamps, except between the click and the stamp.
AgesInStep ==
  \A c \in Clocks : since_click[c] >= age[c] \/ (pc = "stamp" /\ clock = c)

\* The clock goes on while the button is about to be pressed.
ClickIsDue == pc = "click" => \E d \in Delays : age[clock] >= d

TriggerInv == TypeOK /\ AgesInStep /\ ClickIsDue

-----------------------------------------------------------------------------
(* Types.                                                                  *)

LEMMA OlderType ==
  ASSUME NEW a \in Ages
  PROVE  Older(a) \in Ages /\ Older(a) >= a
BY TriggerAssumption DEF Ages, Older

\* Growing older keeps the order of two ages.
LEMMA OlderMonotone ==
  ASSUME NEW a \in Ages, NEW b \in Ages, a >= b
  PROVE  Older(a) >= Older(b)
BY TriggerAssumption DEF Ages, Older

LEMMA MonitorType ==
  ASSUME TypeOK, NEW key, NEW seen, Monitor(key, seen)
  PROVE  down' \in [Keys -> BOOLEAN] /\ latched' \in [Keys -> BOOLEAN]
BY Zenon DEF TypeOK, Monitor

\* Steps of the environment.
LEMMA TypeEnvironment ==
  ASSUME TypeOK, Tick \/ User \/ Ui \/ Screen
  PROVE  TypeOK'
<1>1. CASE Tick
  <2>1. UNCHANGED <<settings, keys, ui, scene, worker>>
    BY <1>1 DEF Tick
  <2>2. age' \in [Clocks -> Ages] /\ since_click' \in [Clocks -> Ages]
    BY <1>1, OlderType DEF Tick, TypeOK
  <2>3. QED
    BY <2>1, <2>2 DEF TypeOK, settings, keys, ui, worker
<1>2. CASE User
  <2>1. UNCHANGED <<settings, ui, scene, worker, time>>
    BY <1>2 DEF User
  <2>2. down' \in [Keys -> BOOLEAN] /\ latched' \in [Keys -> BOOLEAN]
    BY <1>2, Zenon DEF User, Press, LetGo, TypeOK
  <2>3. QED
    BY <2>1, <2>2 DEF TypeOK, settings, ui, worker, time
<1>3. CASE Ui
  <2>1. UNCHANGED <<keys, scene, worker, time>>
    BY <1>3 DEF Ui
  <2>2. auto_trigger' \in BOOLEAN /\ auto_model' \in Models
    BY <1>3, Zenon DEF Ui, ChooseKeys, SwitchTrigger, ChooseModel, ui, TypeOK
  <2>3. aim_key' \in AimKeys /\ auto_key' \in AutoKeys
    BY <1>3 DEF Ui, ChooseKeys, SwitchTrigger, ChooseModel, settings, TypeOK
  <2>4. QED
    BY <2>1, <2>2, <2>3 DEF TypeOK, keys, worker, time
<1>4. CASE Screen
  BY <1>4 DEF Screen, TypeOK, settings, keys, ui, worker, time
<1>5. QED
  BY <1>1, <1>2, <1>3, <1>4

\* Steps of the worker that ask for keys or not, and leave the times alone.
LEMMA TypeWorkerMoves ==
  ASSUME TypeOK, UNCHANGED <<settings, ui, scene, time>>,
         UNCHANGED keys \/ \E key, seen : Monitor(key, seen),
         pc' \in Steps, in_scope' \in BOOLEAN, clock' \in Clocks,
         pc' \in {"click", "stamp"} => in_scope'
  PROVE  TypeOK'
<1>1. down' \in [Keys -> BOOLEAN] /\ latched' \in [Keys -> BOOLEAN]
  BY MonitorType, Zenon DEF TypeOK, keys
<1>2. QED
  BY <1>1 DEF TypeOK, settings, ui, time

LEMMA TypeWorker ==
  ASSUME TypeOK, Worker
  PROVE  TypeOK'
<1>1. CASE SampleAimKey
  <2>1. UNCHANGED <<settings, ui, scene, since_click, in_scope, clock>> /\ pc' = "choose"
    BY <1>1 DEF SampleAimKey, GoTo
  <2>2. down' \in [Keys -> BOOLEAN] /\ latched' \in [Keys -> BOOLEAN]
    BY <1>1, MonitorType DEF SampleAimKey
  <2>3. age' \in [Clocks -> Ages]
    <3>1. 0 \in Ages
      BY TriggerAssumption DEF Ages
    <3>2. QED
      BY <1>1, <3>1 DEF SampleAimKey, TypeOK
  <2>4. QED
    BY <2>1, <2>2, <2>3 DEF TypeOK, settings, ui, Steps
<1>2. CASE ChooseTarget
  <2>1. in_scope' \in BOOLEAN
    BY <1>2, Zenon DEF ChooseTarget, Return
  <2>2. QED
    BY <1>2, <2>1, TypeWorkerMoves DEF ChooseTarget, Return, TypeOK, Steps, Clocks
<1>3. CASE Dispatch
  BY <1>3, TypeWorkerMoves DEF Dispatch, GoTo, TypeOK, Steps
<1>4. CASE OnlyMove
  BY <1>4, TypeWorkerMoves DEF OnlyMove, Return, Steps, Clocks
<1>5. CASE AutoTrigger
  <2>1. UNCHANGED keys \/ \E key, seen : Monitor(key, seen)
    BY <1>5 DEF AutoTrigger, WhileAiming
  <2>2. Return \/ \E c \in Clocks : TriggerBy(c)
    BY <1>5 DEF AutoTrigger, WhileAiming, Clocks
  <2>3. pc' \in Steps \ {"click", "stamp"} /\ in_scope' \in BOOLEAN /\ clock' \in Clocks
    BY <2>2 DEF Return, TriggerBy, TypeOK, Steps, Clocks
  <2>4. QED
    BY <1>5, <2>1, <2>3, TypeWorkerMoves DEF AutoTrigger
<1>6. CASE TestTrigger
  BY <1>6, TypeWorkerMoves DEF TestTrigger, GoTo, Return, TypeOK, Steps, Clocks
<1>7. CASE Click
  <2>1. UNCHANGED <<settings, ui, scene, age, in_scope, clock>> /\ pc' = "stamp" /\ in_scope
    BY <1>7 DEF Click, GoTo, TypeOK
  <2>2. down' \in [Keys -> BOOLEAN] /\ latched' \in [Keys -> BOOLEAN]
    BY <1>7, MonitorType DEF Click
  <2>3. since_click' \in [Clocks -> Ages]
    <3>1. 0 \in Ages
      BY TriggerAssumption DEF Ages
    <3>2. QED
      BY <1>7, <3>1 DEF Click, TypeOK
  <2>4. QED
    BY <2>1, <2>2, <2>3 DEF TypeOK, settings, ui, Steps
<1>8. CASE Stamp
  <2>1. UNCHANGED <<settings, keys, ui, scene, since_click>> /\ Return
    BY <1>8 DEF Stamp
  <2>2. age' \in [Clocks -> Ages]
    <3>1. 0 \in Ages
      BY TriggerAssumption DEF Ages
    <3>2. QED
      BY <1>8, <3>1 DEF Stamp, TypeOK
  <2>3. QED
    BY <2>1, <2>2 DEF TypeOK, Return, settings, keys, ui, Steps, Clocks
<1>9. QED
  BY <1>1, <1>2, <1>3, <1>4, <1>5, <1>6, <1>7, <1>8 DEF Worker

LEMMA TypeInit ==
  ASSUME Init
  PROVE  TypeOK
<1>1. 0 \in Ages /\ Horizon \in Ages
  BY TriggerAssumption DEF Ages
<1>2. QED
  BY <1>1 DEF Init, TypeOK, Scenes, Steps, Clocks

LEMMA TypeStep ==
  ASSUME TypeOK, [Next]_vars
  PROVE  TypeOK'
<1>1. CASE UNCHANGED vars
  BY <1>1 DEF vars, TypeOK
<1>2. QED
  BY <1>1, TypeEnvironment, TypeWorker DEF Next

-----------------------------------------------------------------------------
(* Times.                                                                  *)

LEMMA AgesStep ==
  ASSUME TriggerInv, [Next]_vars
  PROVE  AgesInStep'
<1>0. /\ age \in [Clocks -> Ages] /\ since_click \in [Clocks -> Ages]
      /\ clock \in Clocks /\ "sleep_start" \in Clocks /\ 0 \in Ages /\ Ages \subseteq Nat
  BY TriggerAssumption DEF TriggerInv, TypeOK, Clocks, Ages
<1>nat. \A c \in Clocks : age[c] \in Nat /\ since_click[c] \in Nat
  <2> TAKE c \in Clocks
  <2>1. age[c] \in Ages /\ since_click[c] \in Ages
    BY <1>0
  <2>2. QED
    BY <1>0, <2>1
<1>1. CASE Tick
  <2>1. UNCHANGED <<pc, clock>>
    BY <1>1 DEF Tick, worker
  <2>2. \A c \in Clocks : age'[c] = Older(age[c]) /\ since_click'[c] = Older(since_click[c])
    BY <1>1 DEF Tick
  <2>3. QED
    BY <1>0, <2>1, <2>2, OlderMonotone DEF TriggerInv, AgesInStep
<1>2. CASE UNCHANGED <<pc, clock, age, since_click>>
  BY <1>2 DEF TriggerInv, AgesInStep
<1>3. CASE SampleAimKey
  <2>1. pc = "sample" /\ since_click' = since_click
    BY <1>3 DEF SampleAimKey
  <2>2. CASE UNCHANGED age
    BY <2>1, <2>2 DEF TriggerInv, AgesInStep
  <2>3. CASE age' = [age EXCEPT !["sleep_start"] = 0]
    <3>1. age'["sleep_start"] = 0 /\ \A c \in Clocks : age'[c] = age[c] \/ age'[c] = 0
      BY <1>0, <2>3
    <3>2. \A c \in Clocks : since_click[c] >= age[c] /\ since_click[c] >= 0
      BY <1>nat, <2>1 DEF TriggerInv, AgesInStep
    <3>3. QED
      BY <2>1, <2>3, <3>1, <3>2 DEF AgesInStep
  <2>4. QED
    BY <1>3, <2>2, <2>3 DEF SampleAimKey
<1>4. CASE ChooseTarget \/ Dispatch \/ OnlyMove \/ AutoTrigger \/ TestTrigger
  <2>1. pc # "stamp" /\ UNCHANGED <<age, since_click>>
    BY <1>4 DEF ChooseTarget, Dispatch, OnlyMove, AutoTrigger, TestTrigger, time
  <2>2. QED
    BY <2>1 DEF TriggerInv, AgesInStep
<1>5. CASE Click
  <2>1. pc = "click" /\ pc' = "stamp" /\ UNCHANGED <<clock, age>>
    BY <1>5 DEF Click, GoTo
  <2>2. \A c \in Clocks : c # clock => since_click'[c] = since_click[c]
    BY <1>0, <1>5 DEF Click
  <2>3. QED
    BY <2>1, <2>2 DEF TriggerInv, AgesInStep
<1>6. CASE Stamp
  <2>1. pc = "stamp" /\ UNCHANGED since_click
    BY <1>6 DEF Stamp
  <2>2. age'[clock] = 0 /\ \A c \in Clocks : c # clock => age'[c] = age[c]
    BY <1>0, <1>6 DEF Stamp
  <2>3. \A c \in Clocks : since_click[c] >= 0
    BY <1>nat
  <2>4. QED
    BY <2>1, <2>2, <2>3 DEF TriggerInv, AgesInStep
<1>7. QED
  BY <1>1, <1>2, <1>3, <1>4, <1>5, <1>6
  DEF Next, Worker, User, Ui, Screen, worker, time, vars

LEMMA DueStep ==
  ASSUME TriggerInv, [Next]_vars
  PROVE  ClickIsDue'
<1>0. age \in [Clocks -> Ages] /\ clock \in Clocks /\ Ages \subseteq Nat
  BY TriggerAssumption DEF TriggerInv, TypeOK, Ages
<1>1. CASE Tick
  <2>1. UNCHANGED <<pc, clock>> /\ age'[clock] = Older(age[clock])
    BY <1>0, <1>1 DEF Tick, worker
  <2>2. age'[clock] >= age[clock] /\ age'[clock] \in Nat /\ age[clock] \in Nat
    BY <1>0, <2>1, OlderType
  <2>3. QED
    BY <2>1, <2>2, TriggerAssumption DEF TriggerInv, ClickIsDue
<1>2. CASE UNCHANGED <<pc, clock, age>>
  BY <1>2 DEF TriggerInv, ClickIsDue
<1>3. CASE TestTrigger
  <2>1. UNCHANGED age
    BY <1>3 DEF TestTrigger, time
  <2>2. CASE CooledDown(clock) /\ clock' = clock
    <3>1. PICK d \in Delays, j \in Jitters : age[clock] >= d + j
      BY <2>2 DEF CooledDown
    <3>2. d \in Nat /\ j \in Nat
      BY TriggerAssumption
    <3>3. age[clock] \in Ages
      BY <1>0
    <3>4. age[clock] \in Nat
      BY <1>0, <3>3
    <3>5. age[clock] >= d
      BY <3>1, <3>2, <3>4
    <3>6. QED
      BY <2>1, <2>2, <3>5 DEF ClickIsDue
  <2>3. CASE Return
    BY <2>3 DEF Return, ClickIsDue
  <2>4. QED
    BY <1>3, <2>2, <2>3 DEF TestTrigger, GoTo
<1>4. CASE Worker /\ ~TestTrigger
  <2>1. pc' # "click"
    BY <1>4 DEF Worker, SampleAimKey, ChooseTarget, Dispatch, OnlyMove, AutoTrigger, WhileAiming,
       TriggerBy, Click, Stamp, GoTo, Return
  <2>2. QED
    BY <2>1 DEF ClickIsDue
<1>5. QED
  BY <1>1, <1>2, <1>3, <1>4 DEF Next, User, Ui, Screen, worker, time, vars

LEMMA TriggerInductive == Spec => []TriggerInv
<1>1. Init => TriggerInv
  <2> SUFFICES ASSUME Init PROVE TriggerInv
    OBVIOUS
  <2>1. TypeOK
    BY TypeInit
  <2>2. AgesInStep
    BY TriggerAssumption DEF Init, AgesInStep, Clocks
  <2>3. ClickIsDue
    BY DEF Init, ClickIsDue
  <2>4. QED
    BY <2>1, <2>2, <2>3 DEF TriggerInv
<1>2. TriggerInv /\ [Next]_vars => TriggerInv'
  BY TypeStep, AgesStep, DueStep DEF TriggerInv
<1>3. QED
  BY <1>1, <1>2, PTL DEF Spec

\* Every state has its type; in particular a click is only on its way at a
\* target that is in scope.
THEOREM TriggerTypeCorrect == Spec => []TypeOK
<1>1. TriggerInv => TypeOK
  BY DEF TriggerInv
<1>2. QED
  BY <1>1, TriggerInductive, PTL

\* Two clicks by the same clock are the shortest delay apart at least, for any
\* settings and however the UI changes them.
THEOREM ClicksHaveSpace == Spec => []ClicksAreSpaced
<1>1. TriggerInv => ClicksAreSpaced
  <2> SUFFICES ASSUME TriggerInv, pc = "click"
               PROVE  \E d \in Delays : since_click[clock] >= d
    BY DEF ClicksAreSpaced
  <2>1. clock \in Clocks /\ age[clock] \in Nat /\ since_click[clock] \in Nat
    BY TriggerAssumption DEF TriggerInv, TypeOK, Ages
  <2>2. since_click[clock] >= age[clock]
    BY <2>1 DEF TriggerInv, AgesInStep
  <2>3. PICK d \in Delays : age[clock] >= d
    BY DEF TriggerInv, ClickIsDue
  <2>4. QED
    BY <2>1, <2>2, <2>3, TriggerAssumption
<1>2. QED
  BY <1>1, TriggerInductive, PTL

=============================================================================
