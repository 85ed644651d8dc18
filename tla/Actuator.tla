------------------------------ MODULE Actuator ------------------------------
(***************************************************************************)
(* The supervisor of sf-trt.cpp and the worker thread of Actuator.cpp.     *)
(*                                                                         *)
(* The supervisor (the thread of main) polls two flags that the UI process *)
(* writes in shared memory and starts, stops and joins the worker.  The    *)
(* worker creates a detector, an inference framework, a screen grabber and *)
(* a lock object one after the other, runs the capture loop and releases   *)
(* them.  The UI is the environment: it writes flags and settings at any   *)
(* time and promises nothing.                                              *)
(*                                                                         *)
(* A use of a pointer that does not point to a live, initialised object is *)
(* undefined behaviour.  The model records it in fault and ends there, as  *)
(* it does when an exception leaves the thread function.                   *)
(***************************************************************************)
EXTENDS Integers

CONSTANTS
  CanFail,       \* what may fail in this instance, see the actions that name it
  UiFrameTypes,  \* the values the UI writes to s_info.frame_type
  UiMousecTypes  \* the values the UI writes to s_info.mousec_type

\* Besides steps that fail: "fit" is a model that is accepted although its
\* dimensions are not those its reader goes by, and "toggle" is a UI that turns
\* category_filter on while the lock looks for a target.
ASSUME CanFailAssumption ==
  CanFail \subseteq {"logger", "model", "fit", "capture", "mouse", "infer", "move", "toggle"}

ASSUME InfoAssumption ==
  /\ UiFrameTypes \subseteq Int
  /\ UiMousecTypes \subseteq Int

\* The four objects the worker owns, in the order it creates them.
Objects == {"yolo", "frame", "dx", "lock"}

\* What a pointer of the Actuator may hold.  "wild" is an indeterminate value
\* that is not null: the constructor initialises none of the four.  "broken"
\* is an object that exists but whose Release uses a null or indeterminate
\* member.
PointerStates == {"null", "wild", "live", "broken", "freed"}

SupervisorSteps ==
  {"map", "defaults", "poll_start", "clear_start", "start", "poll_exit",
   "clear_exit", "exit", "join", "key_end", "key_home", "returned"}

\* The worker is in initializeResources, in the capture loop or in Release.
InitSteps    == {"log", "yolo", "frame", "parse_trt", "parse_dml", "dialog", "dialog_dml", "dx", "lock"}
LoopSteps    == {"loop", "capture", "detect", "action", "draw"}
ReleaseSteps == {"rel_frame", "rel_lock", "rel_dx", "rel_yolo"}

WorkerSteps  == {"none", "done"} \union InitSteps \union LoopSteps \union ReleaseSteps

\* What createMouse makes of an index.
Mice == {"none", "GHUB", "SendInput"}

\* A fault is what the pointer held that was used, memory that is gone ("dangling"),
\* a read beyond a vector or an output ("bounds"), the close of a handle that is
\* somebody else's ("handle"), a division by zero or an uncaught exception.
Faults == {"none", "terminate", "null", "wild", "broken", "freed", "dangling", "bounds",
           "handle", "division"}

VARIABLES
  ai_start_signal,  \* Signal: start the worker
  dll_exit_signal,  \* Signal: stop the worker
  frame_type,       \* Info
  mousec_type,      \* Info
  ui_ready,         \* the UI has attached to the shared memory and set it up
  main,             \* the supervisor's next step
  worker,           \* the worker's next step, "none" if there is no thread
  joinable,         \* actuatorThreadHandle.joinable()
  m_exit_signal,
  m_logger,         \* m_logger is set, its name is registered with spdlog
  m_mouse,          \* the kind of mouse that the lock created last has, if it has one
  ptr,              \* m_yolo, m_frame, m_dx and m_lock
  fault             \* the undefined behaviour met, "none" if there was none

shared == <<ai_start_signal, dll_exit_signal, frame_type, mousec_type, ui_ready>>
thread == <<joinable, m_exit_signal>>
owned  == <<m_logger, m_mouse, ptr, fault>>
vars   == <<ai_start_signal, dll_exit_signal, frame_type, mousec_type, ui_ready,
            main, worker, joinable, m_exit_signal, m_logger, m_mouse, ptr, fault>>

TypeOK ==
  /\ ai_start_signal \in BOOLEAN
  /\ dll_exit_signal \in BOOLEAN
  /\ frame_type \in UiFrameTypes \union {0, 1}
  /\ mousec_type \in UiMousecTypes \union {0, 2}
  /\ ui_ready \in BOOLEAN
  /\ main \in SupervisorSteps
  /\ worker \in WorkerSteps
  /\ joinable \in BOOLEAN
  /\ m_exit_signal \in BOOLEAN
  /\ m_logger \in BOOLEAN
  /\ m_mouse \in Mice
  /\ ptr \in [Objects -> PointerStates]
  /\ fault \in Faults

\* The mapping is backed by zeroed pages, so every flag and index is 0 until
\* somebody writes it; the Actuator's pointers hold whatever the stack held.
Init ==
  /\ ai_start_signal = FALSE
  /\ dll_exit_signal = FALSE
  /\ frame_type = 0
  /\ mousec_type = 0
  /\ ui_ready = FALSE
  /\ main = "map"
  /\ worker = "none"
  /\ joinable = FALSE
  /\ m_exit_signal = FALSE
  /\ m_logger = FALSE
  /\ m_mouse = "none"
  /\ ptr \in [Objects -> {"null", "wild"}]
  /\ fault = "none"

-----------------------------------------------------------------------------
(* The UI process.                                                         *)

UiAttach ==
  /\ ui_ready' = TRUE
  /\ UNCHANGED <<ai_start_signal, dll_exit_signal, frame_type, mousec_type>>

UiRequestStart ==
  /\ ui_ready
  /\ ai_start_signal' = TRUE
  /\ UNCHANGED <<dll_exit_signal, frame_type, mousec_type, ui_ready>>

UiRequestExit ==
  /\ ui_ready
  /\ dll_exit_signal' = TRUE
  /\ UNCHANGED <<ai_start_signal, frame_type, mousec_type, ui_ready>>

UiConfigure ==
  /\ ui_ready
  /\ \/ frame_type' \in UiFrameTypes /\ UNCHANGED mousec_type
     \/ mousec_type' \in UiMousecTypes /\ UNCHANGED frame_type
  /\ UNCHANGED <<ai_start_signal, dll_exit_signal, ui_ready>>

Ui ==
  /\ UiAttach \/ UiRequestStart \/ UiRequestExit \/ UiConfigure
  /\ UNCHANGED <<main, worker, thread, owned>>

-----------------------------------------------------------------------------
(* The supervisor.                                                         *)

At(step) == main = step /\ fault = "none"

\* initmem: the mapping is created, or opened if the UI created it before.
MapMemory ==
  /\ At("map")
  /\ main' \in {"defaults", "returned"}
  /\ UNCHANGED <<shared, worker, thread, owned>>

\* Mutated form: the default mouse is the one createMouse does not know.
WriteDefaults_EasyKey ==
  /\ At("defaults")
  /\ frame_type' = 1
  /\ mousec_type' = 1
  /\ dll_exit_signal' = FALSE
  /\ ai_start_signal' = TRUE
  /\ main' = "poll_start"
  /\ UNCHANGED <<ui_ready, worker, thread, owned>>

\* test writes every setting, whether or not the UI has set it.  No worker
\* exists yet, so that the assignments are one step: what the UI writes in
\* between is either overwritten or comes after.
WriteDefaults ==
  /\ At("defaults")
  /\ frame_type' = 1
  /\ mousec_type' = 2
  /\ dll_exit_signal' = FALSE
  /\ ai_start_signal' = TRUE
  /\ main' = "poll_start"
  /\ UNCHANGED <<ui_ready, worker, thread, owned>>

PollStart ==
  /\ At("poll_start")
  /\ main' = IF ai_start_signal THEN "clear_start" ELSE "poll_exit"
  /\ UNCHANGED <<shared, worker, thread, owned>>

ClearStart ==
  /\ At("clear_start")
  /\ ai_start_signal' = FALSE
  /\ main' = "start"
  /\ UNCHANGED <<dll_exit_signal, frame_type, mousec_type, ui_ready, worker, thread, owned>>

\* Mutated form: start does not ask whether there is a thread already.
Start_Unguarded ==
  /\ At("start")
  /\ m_exit_signal' = FALSE
  /\ joinable' = TRUE
  /\ worker' = "log"
  /\ main' = "poll_exit"
  /\ UNCHANGED <<shared, owned>>

\* Actuator::start: nothing happens while the handle is joinable, whether its
\* thread still runs or not.  Nobody else reads m_exit_signal in between.
Start ==
  /\ At("start")
  /\ \/ /\ ~joinable
        /\ m_exit_signal' = FALSE
        /\ joinable' = TRUE
        /\ worker' = "log"
     \/ joinable /\ UNCHANGED <<thread, worker>>
  /\ main' = "poll_exit"
  /\ UNCHANGED <<shared, owned>>

PollExit ==
  /\ At("poll_exit")
  /\ main' = IF dll_exit_signal THEN "clear_exit" ELSE "key_end"
  /\ UNCHANGED <<shared, worker, thread, owned>>

\* Mutated form: consuming the exit request drops a start request, too.
ClearExit_Both ==
  /\ At("clear_exit")
  /\ dll_exit_signal' = FALSE
  /\ ai_start_signal' = FALSE
  /\ main' = "exit"
  /\ UNCHANGED <<frame_type, mousec_type, ui_ready, worker, thread, owned>>

ClearExit ==
  /\ At("clear_exit")
  /\ dll_exit_signal' = FALSE
  /\ main' = "exit"
  /\ UNCHANGED <<ai_start_signal, frame_type, mousec_type, ui_ready, worker, thread, owned>>

\* Actuator::exit
Exit ==
  /\ At("exit")
  /\ m_exit_signal' = TRUE
  /\ main' = "join"
  /\ UNCHANGED <<shared, worker, joinable, owned>>

\* Mutated form: the thread is detached, nobody waits for it.
Join_Detach ==
  /\ At("join")
  /\ joinable' = FALSE
  /\ main' = "key_end"
  /\ UNCHANGED <<shared, worker, m_exit_signal, owned>>

\* Actuator::join blocks until the thread function has returned.
Join ==
  /\ At("join")
  /\ \/ joinable /\ worker = "done" /\ joinable' = FALSE /\ worker' = "none"
     \/ ~joinable /\ UNCHANGED <<joinable, worker>>
  /\ main' = "key_end"
  /\ UNCHANGED <<shared, m_exit_signal, owned>>

\* The End and Home keys of the keyboard request what the UI can request.
PollEndKey ==
  /\ At("key_end")
  /\ dll_exit_signal' = TRUE \/ UNCHANGED dll_exit_signal
  /\ main' = "key_home"
  /\ UNCHANGED <<ai_start_signal, frame_type, mousec_type, ui_ready, worker, thread, owned>>

PollHomeKey ==
  /\ At("key_home")
  /\ ai_start_signal' = TRUE \/ UNCHANGED ai_start_signal
  /\ main' = "poll_start"
  /\ UNCHANGED <<dll_exit_signal, frame_type, mousec_type, ui_ready, worker, thread, owned>>

Supervisor ==
  \/ MapMemory \/ WriteDefaults
  \/ PollStart \/ ClearStart \/ Start
  \/ PollExit \/ ClearExit \/ Exit \/ Join
  \/ PollEndKey \/ PollHomeKey

-----------------------------------------------------------------------------
(* The worker: Actuator::word.                                             *)

Runs(step) == worker = step /\ fault = "none"

GoTo(step) == worker' = step

\* A worker step that leaves memory alone.
Moves(step) == GoTo(step) /\ UNCHANGED owned

\* ptr[object] gets a new value and the worker goes on with step.
Put(object, value, step) ==
  /\ ptr' = [ptr EXCEPT ![object] = value]
  /\ GoTo(step)
  /\ UNCHANGED <<m_logger, fault>>

Assign(object, value, step) == Put(object, value, step) /\ UNCHANGED m_mouse

\* The process does not get beyond this step of the worker.
Aborts(what) == fault' = what /\ UNCHANGED <<worker, m_logger, m_mouse, ptr>>

\* The worker goes on with step if the objects it calls methods of are live.
Calls(objects, step) ==
  \/ (\A o \in objects : ptr[o] = "live") /\ Moves(step)
  \/ \E o \in objects :
       /\ ptr[o] # "live"
       /\ Aborts(ptr[o])

\* setSpdlog throws if the file cannot be opened or if the logger's name is
\* registered already; nothing catches it and the process terminates.
CreateLogger ==
  \/ ~m_logger /\ m_logger' = TRUE /\ GoTo("yolo") /\ UNCHANGED <<m_mouse, ptr, fault>>
  \/ (m_logger \/ "logger" \in CanFail) /\ Aborts("terminate")

\* Mutated form: the logger is set up by every run.
SetLogger_Always == Runs("log") /\ CreateLogger

\* initializeResources sets the logger up once in the life of the process.
SetLogger ==
  /\ Runs("log")
  /\ \/ m_logger /\ Moves("yolo")
     \/ ~m_logger /\ CreateLogger

\* setYoloConfigObject: every index gives some detector.
SetYolo ==
  /\ Runs("yolo")
  /\ Assign("yolo", "live", "frame")

\* setDetectFrameworkObject up to createFrameObject: 0 is TensorRT, all other
\* indices are DirectML.
SetFrame ==
  /\ Runs("frame")
  /\ Assign("frame", "live", IF frame_type = 0 THEN "parse_trt" ELSE "parse_dml")

\* ITensorRt::AnalyticalModel.  An error opens a modal box and parsing goes on
\* after it was dismissed, by giving up or by a second way to read the model.
\* A framework that gave up early has no engine, which its Release uses.  The
\* second way may write to a buffer table that was never sized.
ParseTrt ==
  /\ Runs("parse_trt")
  /\ \/ Moves("dx")
     \/ "model" \in CanFail /\ Moves("dialog")
     \/ "model" \in CanFail /\ \E f \in {"live", "broken"} : Assign("frame", f, "rel_frame")
     \/ "model" \in CanFail /\ Aborts("wild")

\* The user dismisses the box of markError, whenever it pleases.  ITensorRt goes
\* on to parse, IDML has given up.
DismissDialog ==
  \/ Runs("dialog") /\ Moves("parse_trt")
  \/ Runs("dialog_dml") /\ Moves("rel_frame")

\* IDML::AnalyticalModel: all its members are null until they are created and
\* its Release skips null ones.  Some errors open a modal box.  It subscripts the
\* dimensions of a node when there are any, whether or not there are enough.
ParseDml ==
  /\ Runs("parse_dml")
  /\ \/ Moves("dx")
     \/ "model" \in CanFail /\ (Moves("rel_frame") \/ Moves("dialog_dml"))
     \/ "fit" \in CanFail /\ Aborts("bounds")

\* setDXGICpatureObject.  It asks the detector for the size of its pictures, which
\* are two of the dimensions the framework has noted, if it noted as many.
SetDxgi ==
  /\ Runs("dx")
  /\ \/ Assign("dx", "live", "lock")
     \/ "capture" \in CanFail /\ Assign("dx", "live", "rel_frame")
     \/ "fit" \in CanFail /\ Aborts("bounds")

\* setLockLogicObject with Functional::initLock.  createMouse knows SendInput,
\* which is also what unknown indices give, and GHUB; it gives no object for
\* EasyKeyMouse.  When initLock gives up, the lock has no mouse or no control.
CreatedMouse ==
  CASE mousec_type = 0            -> "GHUB"
    [] mousec_type = 1            -> "none"
    [] mousec_type \notin {0, 1} -> "SendInput"

MouseMayFail == CreatedMouse = "GHUB" /\ "mouse" \in CanFail

\* Mutated form: the result of setLockLogicObject is not looked at.
SetLock_Unchecked ==
  /\ Runs("lock")
  /\ m_mouse' = CreatedMouse
  /\ \/ CreatedMouse # "none" /\ Put("lock", "live", "loop")
     \/ (CreatedMouse = "none" \/ MouseMayFail) /\ Put("lock", "broken", "loop")

SetLock ==
  /\ Runs("lock")
  /\ m_mouse' = CreatedMouse
  /\ \/ CreatedMouse # "none" /\ Put("lock", "live", "loop")
     \/ (CreatedMouse = "none" \/ MouseMayFail) /\ Put("lock", "broken", "rel_frame")

\* Mutated form: the flag was read before the loop and is never read again.
CheckExit_Hoisted ==
  /\ Runs("loop")
  /\ Moves("capture")

\* m_exit_signal is a plain bool that both threads access.  The loop makes
\* virtual calls in every turn, so that the build reads it anew every time.
CheckExit ==
  /\ Runs("loop")
  /\ Moves(IF m_exit_signal THEN "rel_frame" ELSE "capture")

\* GetBitmapToMat: without a new picture the loop starts over.
Capture ==
  /\ Runs("capture")
  /\ \/ Calls({"dx"}, "detect")
     \/ Calls({"dx"}, "loop")

\* An object that the worker calls a method of dies of something of its own.
Dies(object, what) == ptr[object] = "live" /\ Aborts(what)

\* The framework calls the detector to decode its output.  DirectML decodes
\* through a null pointer when its first run fails, and runs on the picture of
\* the frame before, which is gone, when it gets no tensor for this one; see
\* Inference.  A model that does not fit is read beyond its tensors; see Decode.
Detect ==
  /\ Runs("detect")
  /\ \/ Calls({"frame", "yolo"}, "action")
     \/ "infer" \in CanFail /\ (Dies("frame", "null") \/ Dies("frame", "dangling"))
     \/ "fit" \in CanFail /\ Dies("frame", "bounds")

\* GHUB divides by zero on some long moves; see Aim.  A class filter that is
\* turned on between the scan of the boxes and the choice among them makes the
\* table of boxes shorter than that of their distances; see TargetSelection.
Action ==
  /\ Runs("action")
  /\ \/ Calls({"lock"}, "draw")
     \/ "move" \in CanFail /\ m_mouse = "GHUB" /\ Dies("lock", "division")
     \/ "toggle" \in CanFail /\ Dies("lock", "bounds")

DrawBox ==
  /\ Runs("draw")
  /\ Moves("loop")

\* What the worker has to give back: objects that exist.
Held == {o \in Objects : ptr[o] \in {"live", "broken"}}

\* Actuator::Release: every pointer that is not null is released, none is
\* reset to null.
ReleaseObject(object, here, next) ==
  /\ Runs(here)
  /\ \/ ptr[object] = "null" /\ Moves(next)
     \/ ptr[object] = "live" /\ Assign(object, "freed", next)
     \/ ptr[object] \in {"wild", "broken", "freed"} /\ Aborts(ptr[object])

\* The lock closes its mouse before anything else, and GHUB's close gives back a
\* handle that nothing ever set: it is null or no handle at all, which does no
\* harm, or happens to be one of the process's own; see Aim.
ReleaseLock(here, next) ==
  \/ ReleaseObject("lock", here, next)
  \/ Runs(here) /\ "lock" \in Held /\ m_mouse = "GHUB" /\ Aborts("handle")

\* Mutated form: Release forgets the grabber.
Release_KeepsDx ==
  \/ ReleaseObject("frame", "rel_frame", "rel_lock")
  \/ ReleaseLock("rel_lock", "rel_yolo")
  \/ ReleaseObject("yolo", "rel_yolo", "done")

Release ==
  \/ ReleaseObject("frame", "rel_frame", "rel_lock")
  \/ ReleaseLock("rel_lock", "rel_dx")
  \/ ReleaseObject("dx", "rel_dx", "rel_yolo")
  \/ ReleaseObject("yolo", "rel_yolo", "done")

WorkerProgress ==
  /\ \/ SetLogger \/ SetYolo \/ SetFrame \/ ParseTrt \/ ParseDml \/ SetDxgi \/ SetLock
     \/ CheckExit \/ Capture \/ Detect \/ Action \/ DrawBox
     \/ Release
  /\ UNCHANGED <<shared, main, thread>>

Dismiss ==
  /\ DismissDialog
  /\ UNCHANGED <<shared, main, thread>>

Next == Ui \/ Supervisor \/ WorkerProgress \/ Dismiss

\* Both threads are scheduled.  Nothing is assumed of the UI, of the keys or
\* of the user in front of a dialog.
Fairness ==
  /\ WF_vars(Supervisor)
  /\ WF_vars(WorkerProgress)

Spec == Init /\ [][Next]_vars /\ Fairness
-----------------------------------------------------------------------------
(* Properties.                                                             *)

\* There is a thread exactly while its handle is joinable.
HandleMatchesThread == joinable <=> worker # "none"

\* The inductive invariant of Actuator.  At every step of the worker, whichever
\* steps failed before: what initializeResources has created by then is live,
\* what it has not created yet or Release has released is not held, so that
\* Actuator::Release leaves nothing behind that a later start would overwrite.
Created(object, steps) == worker \in steps => ptr[object] = "live"
NotHeld(object, steps) == worker \in steps => object \notin Held

Between == {"none", "done", "log", "yolo"}
Parsing == {"parse_trt", "parse_dml", "dialog", "dialog_dml"}

Ownership ==
  /\ HandleMatchesThread
  /\ Created("yolo", {"frame", "dx", "lock"} \union Parsing \union LoopSteps \union ReleaseSteps)
  /\ Created("frame", {"dx", "lock"} \union Parsing \union LoopSteps)
  /\ Created("dx", {"lock"} \union LoopSteps)
  /\ Created("lock", LoopSteps)
  /\ NotHeld("yolo", Between)
  /\ NotHeld("frame", Between \union {"frame", "rel_lock", "rel_dx", "rel_yolo"})
  /\ NotHeld("dx", Between \union {"frame", "dx", "rel_yolo"} \union Parsing)
  /\ NotHeld("lock", Between \union {"frame", "dx", "lock", "rel_dx", "rel_yolo"} \union Parsing)

\* No undefined behaviour and no escaped exception, through any number of starts
\* and stops and with the UI raising requests and writing frame_type and
\* mousec_type at any time.  It holds of instances without any of the ways to
\* fail: in particular the model fits its reader, category_filter is not turned
\* on during an action, and the UI chooses neither GHUB, whose release may close
\* any handle, nor EasyKeyMouse.
NoFault == fault = "none"

\* The capture loop (the while of Actuator::word) runs with all four objects
\* created and initialised by this very run of the thread, whichever
\* initialisation steps failed in this run or in earlier ones.
LoopOwnsLiveObjects ==
  (worker \in LoopSteps /\ fault = "none") => \A o \in Objects : ptr[o] = "live"

\* A request to stop is not forgotten while the thread it was made for runs:
\* only Actuator::start resets m_exit_signal, and it must not come in between
\* exit and the end of the thread.
StopNotForgotten ==
  [][(m_exit_signal /\ worker \notin {"none", "done"}) => m_exit_signal']_vars

\* The process cannot go on: it met undefined behaviour, or it waits for the
\* user to dismiss a dialog.
Excused == fault # "none" \/ worker \in {"dialog", "dialog_dml"}

\* When the exit flag is up while there is a thread, the thread ends and is
\* joined (sf-trt.cpp: the exit branch of the polling loop).
ExitHonoured == (dll_exit_signal /\ joinable) ~> (~joinable \/ Excused)

\* A start request leads to a new thread when it is up after the supervisor
\* has begun to handle an exit request, or while there is no thread: a
\* restart is not lost in the join.
Stopping == main \in {"clear_exit", "exit", "join"}
RestartHonoured ==
  (ai_start_signal /\ (Stopping \/ (~joinable /\ main \notin {"map", "defaults", "returned"})))
     ~> (worker = "log" \/ Excused)

\* The Actuator keeps the promise of Service.
Phase ==
  CASE fault # "none"                            -> "aborted"
    [] fault = "none" /\ worker = "none"          -> "idle"
    [] fault = "none" /\ worker \in InitSteps    -> "acquiring"
    [] fault = "none" /\ worker \in LoopSteps    -> "serving"
    [] fault = "none" /\ worker \in ReleaseSteps -> "draining"
    [] fault = "none" /\ worker = "done"          -> "ended"

SomethingMayFail == CanFail # {} \/ {0, 1} \cap UiMousecTypes # {}

Promise == INSTANCE Service
  WITH Resources <- Objects, MayAbort <- SomethingMayFail,
       phase <- Phase, held <- Held, stop <- m_exit_signal

\* Every start acquires the four objects, none of them while an earlier one is
\* still held; serving ends only on request; whatever was acquired is given
\* back before the thread ends, and it does end.  The process aborts only in
\* instances in which something may fail.
KeepsPromise == Promise!Spec

\* The ways in which the process dies, and no other of those that this module
\* and the ones it refers to know of, however often the worker was started before
\* and whichever steps failed.  The logger kills it only before it was ever set
\* up; the preparation of TensorRT only by a table that it has not made, that of
\* DirectML only by dimensions that are missing; Release only at the lock and the
\* grabber, when they were never created or belong to an earlier run, at what a
\* failed initialisation has left behind, and at the stray handle of GHUB; never
\* at the detector.
AbortsAreKnown ==
  /\ fault = "terminate" => worker = "log" /\ ~m_logger
  /\ fault \in {"null", "dangling"} => worker = "detect"
  /\ fault = "bounds" => worker \in {"parse_dml", "dx", "detect", "action"}
  /\ fault = "division" => worker = "action" /\ m_mouse = "GHUB"
  /\ fault = "handle" => worker = "rel_lock" /\ m_mouse = "GHUB"
  /\ fault = "wild" => worker \in {"parse_trt", "rel_lock", "rel_dx"}
  /\ fault = "freed" => worker \in {"rel_lock", "rel_dx"}
  /\ fault = "broken" => \/ worker = "rel_frame"
                         \/ worker = "rel_lock" /\ m_mouse # "SendInput"

\* The phase of an object's life in the sense of Component, and where the worker
\* uses the object.
UsedAt(object) ==
  CASE object = "yolo"  -> {"dx", "rel_yolo"}
    [] object = "frame" -> {"parse_trt", "parse_dml", "detect", "rel_frame"}
    [] object = "dx"    -> {"capture", "rel_dx"}
    [] object = "lock"  -> {"action", "rel_lock"}

Life(object) ==
  IF fault # "none" /\ worker \in UsedAt(object) THEN "aborted"
  ELSE IF worker \in LoopSteps THEN "usable"
  ELSE IF ptr[object] = "broken" THEN "defunct"
  ELSE IF ptr[object] # "live" THEN "absent"
  ELSE IF worker \in ReleaseSteps THEN "closing"
  ELSE IF object = "frame" /\ worker \in Parsing THEN "preparing"
  ELSE "usable"

May(step, what) == IF step \in CanFail THEN what ELSE {}

Yolo == INSTANCE Component
  WITH phase <- Life("yolo"), AfterFailure <- {}, Deaths <- May("fit", {"usable"})

Frame == INSTANCE Component
  WITH phase <- Life("frame"),
       AfterFailure <- May("model", {"closing", "defunct"}),
       Deaths <- May("model", {"preparing"}) \union May("infer", {"usable"})
                   \union May("fit", {"preparing", "usable"})

\* Release touches these two also when this run has not created them.
DiesAbsent == IF SomethingMayFail THEN {"absent"} ELSE {}

Dx == INSTANCE Component
  WITH phase <- Life("dx"), AfterFailure <- May("capture", {"closing"}), Deaths <- DiesAbsent

Lock == INSTANCE Component
  WITH phase <- Life("lock"), AfterFailure <- {"defunct"},
       Deaths <- DiesAbsent \union May("move", {"usable"}) \union May("toggle", {"usable"})
                   \union (IF 0 \in UiMousecTypes THEN {"closing"} ELSE {})

\* The worker uses each object as Component has it: in the loop only what was
\* prepared, and every object that was created is closed and released once
\* before the next one of its kind is created.  The framework and the detector
\* are never released without being there, and only a lock may die of the release
\* of what was initialised well.
KeepsLives == Yolo!Spec /\ Frame!Spec /\ Dx!Spec /\ Lock!Spec

-----------------------------------------------------------------------------
(* What comments of the source say, and the code does not do.              *)

\* Actuator.cpp:284 releases the resources after a failed initialisation, too,
\* and its null tests are to skip the objects that were never created.
ReleaseSkipsUncreated == fault # "wild"

\* lock_functional.cpp:292-294 reports a mouse that cannot be created as an
\* error of the initialisation, after which the objects are released.
MissingMouseIsAnError == fault # "broken"

\* sf-trt.h:65: when ai_start_signal is up, the AI thread is started.
StartSignalStartsThread ==
  (ai_start_signal /\ main \notin {"map", "defaults", "returned"})
     ~> (worker \notin {"none", "done"} \/ fault # "none")
=============================================================================
