------------------------------- MODULE Trigger -------------------------------
(***************************************************************************)
(* What Functional::action does once per frame with the target it chose:   *)
(* the automatic trigger with its two cool-down clocks, and the keys as    *)
(* GetAsyncKeyState reports them.                                          *)
(*                                                                         *)
(* A clock is modelled by its age: the time since it was stamped.  The     *)
(* settings that the UI writes to struct Data are read where they are      *)
(* needed: the two keys and the model are variables that the UI changes at *)
(* any time, the delay and keep_move may have any of their values at every *)
(* read.  To read the name of a key and to ask for that key is one step.   *)
(* Time passes between any two steps and the user moves keys at any time.  *)
(***************************************************************************)
EXTENDS Integers

CONSTANTS
  AimKeys,  \* the values the UI writes to aim_key
  AutoKeys, \* the values the UI writes to auto_key; the defaults are one key
  Delays,   \* the values the UI writes to delay_base
  Jitters,  \* the random times that delay_delay gives
  Models,   \* the values the UI writes to auto_model
  Horizon   \* bound: ages stop here, as no cool-down is longer

ASSUME TriggerAssumption ==
  /\ Horizon \in Nat
  /\ Delays \subseteq Nat
  /\ Jitters \subseteq Nat
  /\ \A d \in Delays, j \in Jitters : d + j <= Horizon
  /\ Models \subseteq Int

Keys == AimKeys \union AutoKeys

\* The two static clocks of lock_functional.cpp.
Clocks == {"auto_start", "sleep_start"}

VARIABLES
  aim_key, auto_key,  \* Data
  down,          \* the keys that are down
  latched,       \* keys pressed since GetAsyncKeyState was last asked of them
  auto_trigger,  \* Signal
  auto_model,    \* Data
  scene,         \* what a frame shows: no target, a target, one in scope
  pc,            \* the worker's next step
  in_scope,      \* local of action: the target is in scope
  clock,         \* the clock that the trigger in progress goes by
  age,           \* time since each clock was stamped
  since_click    \* history: time since the last click by each clock

settings == <<aim_key, auto_key>>
keys     == <<down, latched>>
ui       == <<auto_trigger, auto_model>>
time     == <<age, since_click>>
worker   == <<pc, in_scope, clock>>
vars     == <<aim_key, auto_key, down, latched, auto_trigger, auto_model, scene,
              pc, in_scope, clock, age, since_click>>

Scenes == {"empty", "target", "in_scope"}
Steps  == {"sample", "choose", "dispatch", "move", "switch", "trigger", "click", "stamp"}
Ages   == 0 .. Horizon

\* A click is only on its way at a target that is in scope.
TypeOK ==
  /\ aim_key \in AimKeys /\ auto_key \in AutoKeys
  /\ down \in [Keys -> BOOLEAN]
  /\ latched \in [Keys -> BOOLEAN]
  /\ auto_trigger \in BOOLEAN
  /\ auto_model \in Models
  /\ scene \in Scenes
  /\ pc \in Steps
  /\ in_scope \in BOOLEAN
  /\ pc \in {"click", "stamp"} => in_scope
  /\ clock \in Clocks
  /\ age \in [Clocks -> Ages]
  /\ since_click \in [Clocks -> Ages]

\* The clocks are stamped when the program is loaded.  Nothing was clicked
\* before, which is as good as long ago.
Init ==
  /\ aim_key \in AimKeys /\ auto_key \in AutoKeys
  /\ down = [k \in Keys |-> FALSE]
  /\ latched = [k \in Keys |-> FALSE]
  /\ auto_trigger \in BOOLEAN
  /\ auto_model \in Models
  /\ scene = "empty"
  /\ pc = "sample"
  /\ in_scope = FALSE
  /\ clock = "auto_start"
  /\ age = [c \in Clocks |-> 0]
  /\ since_click = [c \in Clocks |-> Horizon]

-----------------------------------------------------------------------------
(* Time, the user, the UI process and the screen.                          *)

Older(a) == IF a < Horizon THEN a + 1 ELSE a

Tick ==
  /\ age' = [c \in Clocks |-> Older(age[c])]
  /\ since_click' = [c \in Clocks |-> Older(since_click[c])]
  /\ UNCHANGED <<settings, keys, ui, scene, worker>>

\* A press is remembered until somebody asks: another process may be first.
Press(k) ==
  /\ ~down[k]
  /\ down' = [down EXCEPT ![k] = TRUE]
  /\ latched' = [latched EXCEPT ![k] = TRUE] \/ UNCHANGED latched

LetGo(k) ==
  /\ down[k]
  /\ down' = [down EXCEPT ![k] = FALSE]
  /\ UNCHANGED latched

\* A key that no setting names now may be named later.
User ==
  /\ \E k \in Keys : Press(k) \/ LetGo(k)
  /\ UNCHANGED <<settings, ui, scene, worker, time>>

ChooseKeys ==
  /\ \/ aim_key' \in AimKeys /\ UNCHANGED auto_key
     \/ auto_key' \in AutoKeys /\ UNCHANGED aim_key
  /\ UNCHANGED ui

SwitchTrigger ==
  /\ auto_trigger' = ~auto_trigger
  /\ UNCHANGED <<settings, auto_model>>

ChooseModel ==
  /\ auto_model' \in Models
  /\ UNCHANGED <<settings, auto_trigger>>

Ui ==
  /\ ChooseKeys \/ SwitchTrigger \/ ChooseModel
  /\ UNCHANGED <<keys, scene, worker, time>>

\* A picture is taken and decoded before action is called.
Screen ==
  /\ pc = "sample"
  /\ scene' \in Scenes
  /\ UNCHANGED <<settings, keys, ui, worker, time>>

-----------------------------------------------------------------------------
(* The worker.                                                             *)

\* IMouse::monitor, the same in all three mice: whether GetAsyncKeyState gives
\* anything but zero, be it for the key or for the press it remembers.
Monitor(key, seen) ==
  /\ seen = (down[key] \/ latched[key])
  /\ latched' = [latched EXCEPT ![key] = FALSE]
  /\ UNCHANGED down

GoTo(step) == pc' = step /\ UNCHANGED <<in_scope, clock>>

\* Action returns, and its locals are gone.
Return == pc' = "sample" /\ in_scope' = FALSE /\ clock' = "auto_start"

\* As long as the aim key is up, the delay does not begin.
SampleAimKey ==
  /\ pc = "sample"
  /\ \E seen \in BOOLEAN :
       /\ Monitor(aim_key, seen)
       /\ \/ seen /\ UNCHANGED age
          \/ ~seen /\ age' = [age EXCEPT !["sleep_start"] = 0]
  /\ GoTo("choose")
  /\ UNCHANGED <<settings, ui, scene, since_click>>

\* No candidates, none of a wanted class, or the target is too far away: action
\* returns.  Otherwise its geometry is fixed for the rest of the action.
ChooseTarget ==
  /\ pc = "choose"
  /\ \/ scene = "empty" /\ Return
     \/ /\ scene # "empty"
        /\ in_scope' = (scene = "in_scope")
        /\ pc' = "dispatch"
        /\ UNCHANGED clock
  /\ UNCHANGED <<settings, keys, ui, scene, time>>

Dispatch ==
  /\ pc = "dispatch"
  /\ GoTo(IF auto_trigger THEN "switch" ELSE "move")
  /\ UNCHANGED <<settings, keys, ui, scene, time>>

\* onlyMcove: it moves the mouse or not, and nothing of that is kept.  With
\* keep_move it does not ask for the key.
OnlyMove ==
  /\ pc = "move"
  /\ UNCHANGED keys \/ \E seen \in BOOLEAN : Monitor(aim_key, seen)
  /\ Return
  /\ UNCHANGED <<settings, ui, scene, time>>

TriggerBy(c) == pc' = "trigger" /\ clock' = c /\ UNCHANGED in_scope

\* Moving (0) and delayed (2) trigger need the aim key, the guard (1) does not.
WhileAiming(c) ==
  \E seen \in BOOLEAN :
    /\ Monitor(aim_key, seen)
    /\ \/ seen /\ TriggerBy(c)
       \/ ~seen /\ Return

\* The switch over auto_model; other models do nothing.
AutoTrigger ==
  /\ pc = "switch"
  /\ \/ auto_model = 0 /\ WhileAiming("auto_start")
     \/ auto_model = 1 /\ TriggerBy("auto_start") /\ UNCHANGED keys
     \/ auto_model = 2 /\ WhileAiming("sleep_start")
     \/ auto_model \notin 0 .. 2 /\ Return /\ UNCHANGED keys
  /\ UNCHANGED <<settings, ui, scene, time>>

\* coolDownTime: the clock is old enough for some value of the settings.
CooledDown(c) == \E d \in Delays, j \in Jitters : age[c] >= d + j
Cooling(c)    == \E d \in Delays, j \in Jitters : age[c] < d + j

\* Mutated form: the scope of the target is not looked at.
TestTrigger_AnyTarget ==
  /\ pc = "trigger"
  /\ \/ CooledDown(clock) /\ GoTo("click")
     \/ Cooling(clock) /\ Return
  /\ UNCHANGED <<settings, keys, ui, scene, time>>

\* Mutated form: the clock is stamped at every target in scope.
TestTrigger_StampsAlways ==
  /\ pc = "trigger"
  /\ \/ in_scope /\ CooledDown(clock) /\ GoTo("click")
     \/ in_scope /\ Cooling(clock) /\ GoTo("stamp")
     \/ ~in_scope /\ Return
  /\ UNCHANGED <<settings, keys, ui, scene, time>>

\* In scope and cooled down, in either order of the tests.
TestTrigger ==
  /\ pc = "trigger"
  /\ \/ in_scope /\ CooledDown(clock) /\ GoTo("click")
     \/ (~in_scope \/ Cooling(clock)) /\ Return
  /\ UNCHANGED <<settings, keys, ui, scene, time>>

\* The cool-down is used up whether or not the key is pressed.
Click ==
  /\ pc = "click"
  /\ \E seen \in BOOLEAN :
       /\ Monitor(auto_key, seen)
       /\ \/ seen /\ since_click' = [since_click EXCEPT ![clock] = 0]
          \/ ~seen /\ UNCHANGED since_click
  /\ GoTo("stamp")
  /\ UNCHANGED <<settings, ui, scene, age>>

\* Mutated form: both kinds of trigger stamp the same clock.
Stamp_AutoStart ==
  /\ pc = "stamp"
  /\ age' = [age EXCEPT !["auto_start"] = 0]
  /\ Return
  /\ UNCHANGED <<settings, keys, ui, scene, since_click>>

Stamp ==
  /\ pc = "stamp"
  /\ age' = [age EXCEPT ![clock] = 0]
  /\ Return
  /\ UNCHANGED <<settings, keys, ui, scene, since_click>>

Worker ==
  \/ SampleAimKey \/ ChooseTarget \/ Dispatch \/ OnlyMove
  \/ AutoTrigger \/ TestTrigger \/ Click \/ Stamp

Next == Tick \/ User \/ Ui \/ Screen \/ Worker

\* The worker's thread is scheduled and time goes on.  Nothing is assumed of
\* the user, the UI and the screen.
Spec == Init /\ [][Next]_vars /\ WF_vars(Worker) /\ WF_vars(Tick)
-----------------------------------------------------------------------------
(* Properties.                                                             *)

\* Between two clicks that go by the same clock lies the shortest delay that the
\* UI sets at least, however the models alternate in between and although the
\* clock is stamped only after the click (executeTrigger and autoTrigger).
ClicksAreSpaced == pc = "click" => \E d \in Delays : since_click[clock] >= d

\* With both keys held at a target that stays in scope, clicks go on for ever,
\* whichever of the three models is set and however often it changes: no model
\* restarts the cool-down of another, and a cool-down that was used up without
\* a press comes round again.  The UI has settled for two keys by then; that
\* frames keep coming is in the fairness of the worker.
Ready ==
  /\ down[aim_key] /\ down[auto_key]
  /\ auto_trigger /\ auto_model \in 0 .. 2
  /\ scene = "in_scope"
KeysAreSettled == <>[][FALSE]_settings
HeldKeysClick ==
  (KeysAreSettled /\ <>[]Ready) => []<>(\E c \in Clocks : since_click[c] = 0)
=============================================================================
