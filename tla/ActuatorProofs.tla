--------------------------- MODULE ActuatorProofs ---------------------------
(***************************************************************************)
(* Proofs about Actuator, for all values of its constants: any subset of   *)
(* the steps named in CanFail may fail and the UI may write any index.     *)
(***************************************************************************)
EXTENDS Actuator, TLAPS

\* The two abbreviations of the worker's steps are expanded everywhere.
USE DEF Put, Aborts

\* The worker's steps keep its program counter and what it owns well typed.
LEMMA WorkerStepTypes ==
  ASSUME TypeOK, WorkerProgress
  PROVE  /\ worker' \in WorkerSteps
         /\ m_logger' \in BOOLEAN
         /\ m_mouse' \in Mice
         /\ ptr' \in [Objects -> PointerStates]
         /\ fault' \in Faults
<1> USE DEF TypeOK, WorkerSteps, InitSteps, LoopSteps, ReleaseSteps, Faults, owned, Runs, GoTo, Moves
<1>1. CASE SetLogger
  BY <1>1 DEF SetLogger, CreateLogger
<1>2. CASE SetYolo
  BY <1>2 DEF SetYolo, Assign, Objects, PointerStates
<1>3. CASE SetFrame
  BY <1>3 DEF SetFrame, Assign, Objects, PointerStates
<1>4. CASE ParseTrt
  BY <1>4 DEF ParseTrt, Assign, Objects, PointerStates
<1>5. CASE ParseDml
  BY <1>5 DEF ParseDml
<1>6. CASE SetDxgi
  BY <1>6 DEF SetDxgi, Assign, Objects, PointerStates
<1>7. CASE SetLock
  BY <1>7 DEF SetLock, CreatedMouse, Mice, Objects, PointerStates
<1>8. CASE CheckExit \/ DrawBox
  BY <1>8 DEF CheckExit, DrawBox
<1>9. CASE Capture \/ Detect \/ Action
  BY <1>9 DEF Capture, Detect, Action, Dies, Calls, Objects, PointerStates
<1>10. CASE Release
  BY <1>10 DEF Release, ReleaseLock, ReleaseObject, Assign, Objects, PointerStates
<1>11. QED
  BY <1>1, <1>2, <1>3, <1>4, <1>5, <1>6, <1>7, <1>8, <1>9, <1>10 DEF WorkerProgress

\* Every state reached has the type the code gives it.
THEOREM TypeCorrect == Spec => []TypeOK
<1>1. Init => TypeOK
  <2> SUFFICES ASSUME Init PROVE TypeOK
    OBVIOUS
  <2>1. ptr \in [Objects -> PointerStates]
    BY DEF Init, PointerStates
  <2>2. QED
    BY <2>1 DEF Init, TypeOK, SupervisorSteps, WorkerSteps, Mice, Faults
<1>2. TypeOK /\ [Next]_vars => TypeOK'
  <2> SUFFICES ASSUME TypeOK, [Next]_vars PROVE TypeOK'
    OBVIOUS
  <2>1. CASE Ui
    BY <2>1 DEF TypeOK, Ui, UiAttach, UiRequestStart, UiRequestExit, UiConfigure, thread, owned
  <2>2. CASE Supervisor
    <3> USE DEF TypeOK, SupervisorSteps, WorkerSteps, InitSteps, shared, thread, owned
    <3>1. CASE MapMemory
      BY <3>1 DEF MapMemory
    <3>2. CASE WriteDefaults
      BY <3>2 DEF WriteDefaults
    <3>3. CASE PollStart
      BY <3>3 DEF PollStart
    <3>4. CASE ClearStart
      BY <3>4 DEF ClearStart
    <3>5. CASE Start
      BY <3>5 DEF Start
    <3>6. CASE PollExit
      BY <3>6 DEF PollExit
    <3>7. CASE ClearExit
      BY <3>7 DEF ClearExit
    <3>8. CASE Exit
      BY <3>8 DEF Exit
    <3>9. CASE Join
      BY <3>9 DEF Join
    <3>10. CASE PollEndKey
      <4>1. dll_exit_signal' \in BOOLEAN
        BY <3>10, Zenon DEF PollEndKey
      <4>2. QED
        BY <3>10, <4>1 DEF PollEndKey
    <3>11. CASE PollHomeKey
      <4>1. ai_start_signal' \in BOOLEAN
        BY <3>11, Zenon DEF PollHomeKey
      <4>2. QED
        BY <3>11, <4>1 DEF PollHomeKey
    <3>12. QED
      BY <2>2, <3>1, <3>2, <3>3, <3>4, <3>5, <3>6, <3>7, <3>8, <3>9, <3>10, <3>11 DEF Supervisor
  <2>3. CASE WorkerProgress
    <3>1. /\ worker' \in WorkerSteps /\ m_logger' \in BOOLEAN /\ m_mouse' \in Mice
          /\ ptr' \in [Objects -> PointerStates] /\ fault' \in Faults
      BY <2>3, WorkerStepTypes
    <3>2. QED
      BY <2>3, <3>1 DEF TypeOK, WorkerProgress, shared, thread
  <2>4. CASE Dismiss
    BY <2>4 DEF TypeOK, Dismiss, DismissDialog, Runs, Moves, GoTo, shared, thread, owned,
                WorkerSteps, InitSteps, ReleaseSteps
  <2>5. CASE UNCHANGED vars
    BY <2>5 DEF TypeOK, vars
  <2>6. QED
    BY <2>1, <2>2, <2>3, <2>4, <2>5 DEF Next
<1>3. QED
  BY <1>1, <1>2, PTL DEF Spec

-----------------------------------------------------------------------------

\* Steps that touch neither the worker's position nor what it owns, nor the
\* handle, keep the invariant.
LEMMA OwnershipStutter ==
  ASSUME Ownership, UNCHANGED <<worker, joinable, ptr>>
  PROVE  Ownership'
BY DEF Ownership, HandleMatchesThread, Created, NotHeld, Held

\* Starting and joining move the worker between positions at which nothing is
\* held.
LEMMA OwnershipSupervisor ==
  ASSUME Ownership, Supervisor
  PROVE  Ownership'
<1>1. CASE Start
  BY <1>1 DEF Start, thread, owned, Ownership, HandleMatchesThread, Created, NotHeld, Held,
              Between, Parsing, LoopSteps, ReleaseSteps
<1>2. CASE Join
  BY <1>2 DEF Join, thread, owned, Ownership, HandleMatchesThread, Created, NotHeld, Held,
              Between, Parsing, LoopSteps, ReleaseSteps
<1>3. CASE ~Start /\ ~Join
  <2>1. UNCHANGED <<worker, joinable, ptr>>
    BY <1>3 DEF Supervisor, MapMemory, WriteDefaults, PollStart, ClearStart, PollExit,
                ClearExit, Exit, PollEndKey, PollHomeKey, thread, owned
  <2>2. QED
    BY <2>1, OwnershipStutter
<1>4. QED
  BY <1>1, <1>2, <1>3

\* The worker's own steps: creating an object makes it live, a failed step goes
\* to Release, and Release goes through the objects one by one.
LEMMA OwnershipWorker ==
  ASSUME TypeOK, Ownership, WorkerProgress
  PROVE  Ownership'
<1> USE DEF Ownership, HandleMatchesThread, Created, NotHeld, Held, Between, Parsing,
            LoopSteps, ReleaseSteps, WorkerProgress, thread, owned, Runs, GoTo, Moves
<1>1. CASE SetLogger
  BY <1>1 DEF SetLogger, CreateLogger
<1>2. CASE SetYolo
  BY <1>2 DEF SetYolo, Assign, TypeOK, Objects
<1>3. CASE SetFrame
  BY <1>3 DEF SetFrame, Assign, TypeOK, Objects
<1>4. CASE ParseTrt
  BY <1>4 DEF ParseTrt, Assign, TypeOK, Objects
<1>5. CASE ParseDml
  BY <1>5 DEF ParseDml
<1>6. CASE SetDxgi
  BY <1>6 DEF SetDxgi, Assign, TypeOK, Objects
<1>7. CASE SetLock
  BY <1>7 DEF SetLock, TypeOK, Objects
<1>8. CASE CheckExit \/ DrawBox
  BY <1>8 DEF CheckExit, DrawBox
<1>9. CASE Capture \/ Detect \/ Action
  BY <1>9 DEF Capture, Detect, Action, Dies, Calls
<1>10. CASE Release
  BY <1>10 DEF Release, ReleaseLock, ReleaseObject, Assign, TypeOK, Objects
<1>11. QED
  BY <1>1, <1>2, <1>3, <1>4, <1>5, <1>6, <1>7, <1>8, <1>9, <1>10

\* What is created is live, what is not is not held, at every step of every run
\* of the worker, whichever initialisation steps fail and however often the
\* worker is started and stopped.
THEOREM OwnershipInvariant == Spec => []Ownership
<1>1. Init => Ownership
  BY DEF Init, Ownership, HandleMatchesThread, Created, NotHeld, Held, Between, Parsing,
         LoopSteps, ReleaseSteps
<1>2. TypeOK /\ Ownership /\ [Next]_vars => Ownership'
  <2> SUFFICES ASSUME TypeOK, Ownership, [Next]_vars PROVE Ownership'
    OBVIOUS
  <2>1. CASE Ui \/ UNCHANGED vars
    BY <2>1, OwnershipStutter DEF Ui, thread, owned, vars
  <2>2. CASE Supervisor
    BY <2>2, OwnershipSupervisor
  <2>3. CASE WorkerProgress
    BY <2>3, OwnershipWorker
  <2>4. CASE Dismiss
    BY <2>4 DEF Dismiss, DismissDialog, Runs, Moves, GoTo, thread, owned, Ownership,
                HandleMatchesThread, Created, NotHeld, Held, Between, Parsing, LoopSteps, ReleaseSteps
  <2>5. QED
    BY <2>1, <2>2, <2>3, <2>4 DEF Next
<1>3. QED
  BY <1>1, <1>2, TypeCorrect, PTL DEF Spec

\* The capture loop never calls a method of an object that is not there.
THEOREM LoopIsSafe == Spec => []LoopOwnsLiveObjects
<1>1. Ownership => LoopOwnsLiveObjects
  BY DEF Ownership, Created, LoopOwnsLiveObjects, Objects
<1>2. QED
  BY <1>1, OwnershipInvariant, PTL

\* Only a start resets m_exit_signal, and only when there is no thread.
THEOREM StopIsRemembered == Spec => StopNotForgotten
<1>1. Ownership /\ [Next]_vars
        => [(m_exit_signal /\ worker \notin {"none", "done"}) => m_exit_signal']_vars
  <2> SUFFICES ASSUME Ownership, [Next]_vars, m_exit_signal, worker # "none"
               PROVE  m_exit_signal'
    BY Zenon DEF vars
  <2>1. CASE Supervisor
    <3>1. CASE Start
      BY <3>1, Zenon DEF Start, thread, Ownership, HandleMatchesThread
    <3>2. CASE ~Start
      BY <2>1, <3>2, Zenon DEF Supervisor, MapMemory, WriteDefaults, PollStart, ClearStart, PollExit,
                ClearExit, Exit, Join, PollEndKey, PollHomeKey, thread
    <3>3. QED
      BY <3>1, <3>2
  <2>2. CASE ~Supervisor
    BY <2>2, Zenon DEF Next, Ui, WorkerProgress, Dismiss, thread, vars
  <2>3. QED
    BY <2>1, <2>2
<1>2. QED
  BY <1>1, OwnershipInvariant, PTL DEF Spec, StopNotForgotten

-----------------------------------------------------------------------------

\* While nothing can fail and the UI chooses only mice that can be created and
\* released safely, Release finds all four objects.  The index that the zeroed
\* memory begins with is GHUB's, so that the defaults must come before a worker.
NoDefaultsYet == main \in {"map", "defaults", "returned"}

Healthy ==
  /\ NoFault
  /\ mousec_type # 1
  /\ mousec_type = 0 => NoDefaultsYet
  /\ NoDefaultsYet => worker = "none"
  /\ m_mouse # "GHUB"
  /\ worker # "dialog_dml"
  /\ Created("frame", {"rel_frame"})
  /\ Created("lock", {"rel_frame", "rel_lock"})
  /\ Created("dx", {"rel_frame", "rel_lock", "rel_dx"})

HealthyUnlessFailing == ~SomethingMayFail => Healthy

\* The worker's steps keep Healthy.
LEMMA HealthyWorker ==
  ASSUME TypeOK, Ownership, Healthy, ~SomethingMayFail, WorkerProgress
  PROVE  Healthy'
<1> USE DEF Healthy, NoDefaultsYet, NoFault, SomethingMayFail, Created, LoopSteps,
            WorkerProgress, shared, owned, Runs, GoTo, Moves
<1>1. CASE SetLogger
  BY <1>1 DEF SetLogger, CreateLogger
<1>2. CASE SetYolo
  BY <1>2 DEF SetYolo, Assign
<1>3. CASE SetFrame
  BY <1>3 DEF SetFrame, Assign
<1>4. CASE ParseTrt \/ ParseDml
  BY <1>4 DEF ParseTrt, ParseDml
<1>5. CASE SetDxgi
  BY <1>5 DEF SetDxgi, Assign
<1>6. CASE SetLock
  <2>1. CreatedMouse = "SendInput"
    BY <1>6 DEF SetLock, CreatedMouse
  <2>2. QED
    BY <1>6, <2>1 DEF SetLock, MouseMayFail
<1>7. CASE CheckExit
  BY <1>7 DEF CheckExit, Ownership
<1>8. CASE Capture \/ Detect \/ Action
  BY <1>8 DEF Capture, Detect, Action, Dies, Calls, Ownership
<1>9. CASE DrawBox
  BY <1>9 DEF DrawBox
<1>10. CASE Release
  BY <1>10 DEF Release, ReleaseLock, ReleaseObject, Assign, Ownership, ReleaseSteps, TypeOK, Objects
<1>11. QED
  BY <1>1, <1>2, <1>3, <1>4, <1>5, <1>6, <1>7, <1>8, <1>9, <1>10

\* The UI and the supervisor never set a mouse that cannot be created or released,
\* unless the UI chooses it.
LEMMA HealthyEnvironment ==
  ASSUME Healthy, ~SomethingMayFail, Ui \/ Supervisor
  PROVE  Healthy'
<1> USE DEF Healthy, NoDefaultsYet, NoFault, SomethingMayFail, Created, shared, thread, owned, At
<1>1. CASE Ui
  BY <1>1 DEF Ui, UiAttach, UiRequestStart, UiRequestExit, UiConfigure
<1>2. CASE Start
  BY <1>2 DEF Start
<1>3. CASE Join
  BY <1>3 DEF Join
<1>4. CASE WriteDefaults
  BY <1>4 DEF WriteDefaults
<1>5. CASE Supervisor /\ ~Start /\ ~Join /\ ~WriteDefaults
  BY <1>5 DEF Supervisor, MapMemory, PollStart, ClearStart, PollExit,
              ClearExit, Exit, PollEndKey, PollHomeKey
<1>6. QED
  BY <1>1, <1>2, <1>3, <1>4, <1>5

LEMMA HealthyInvariant == Spec => []HealthyUnlessFailing
<1>1. Init => HealthyUnlessFailing
  BY DEF Init, HealthyUnlessFailing, Healthy, NoDefaultsYet, NoFault, Created
<1>2. TypeOK /\ Ownership /\ HealthyUnlessFailing /\ [Next]_vars => HealthyUnlessFailing'
  <2> SUFFICES ASSUME TypeOK, Ownership, Healthy, ~SomethingMayFail, [Next]_vars
               PROVE  Healthy'
    BY DEF HealthyUnlessFailing, SomethingMayFail
  <2>1. CASE Ui \/ Supervisor
    BY <2>1, HealthyEnvironment
  <2>2. CASE WorkerProgress
    BY <2>2, HealthyWorker
  <2>3. CASE Dismiss
    BY <2>3 DEF Dismiss, DismissDialog, Runs, Moves, GoTo, shared, owned, Healthy,
                NoDefaultsYet, NoFault, Created
  <2>4. CASE UNCHANGED vars
    BY <2>4 DEF vars, Healthy, NoDefaultsYet, NoFault, Created
  <2>5. QED
    BY <2>1, <2>2, <2>3, <2>4 DEF Next
<1>3. QED
  BY <1>1, <1>2, TypeCorrect, OwnershipInvariant, PTL DEF Spec

\* With a model that fits, no failing step, no class filter turned on during an
\* action and no other mouse than SendInput, no sequence of starts, stops,
\* settings and keys leads to undefined behaviour or to an uncaught exception.
THEOREM SafeWhenNothingFails ==
  ASSUME CanFail = {}, UiMousecTypes \cap {0, 1} = {}
  PROVE  Spec => []NoFault
<1>1. HealthyUnlessFailing => NoFault
  BY DEF HealthyUnlessFailing, Healthy, SomethingMayFail
<1>2. QED
  BY <1>1, HealthyInvariant, PTL

-----------------------------------------------------------------------------

\* A step that keeps the worker's position, its objects, the stop request and
\* the absence of a fault is a stutter of the service.
LEMMA PromiseStutter ==
  ASSUME UNCHANGED <<worker, ptr, fault, m_exit_signal>>
  PROVE  UNCHANGED Promise!vars
BY DEF Promise!vars, Phase, Held

\* Each step of the supervisor is a request, a launch, a reaping or a stutter.
LEMMA PromiseSupervisor ==
  ASSUME TypeOK, Ownership, Supervisor
  PROVE  [Promise!Next]_(Promise!vars)
<1> USE DEF thread, owned, At
<1>1. CASE Start
  <2>1. CASE ~joinable
    <3>0. worker = "none" /\ fault = "none"
      BY <1>1, <2>1, Zenon DEF Start, Ownership, HandleMatchesThread
    <3>1. Phase = "idle" /\ Phase' = "acquiring"
      BY <1>1, <2>1, <3>0 DEF Start, Phase, InitSteps, LoopSteps, ReleaseSteps
    <3>2. Held = {} /\ Held' = {}
      BY <1>1, <2>1 DEF Start, Held, Objects, Ownership, HandleMatchesThread, NotHeld, Between
    <3>3. m_exit_signal' = FALSE
      BY <1>1, <2>1, Zenon DEF Start
    <3>4. Promise!Launch
      BY <3>1, <3>2, <3>3 DEF Promise!Launch
    <3>5. QED
      BY <3>4 DEF Promise!Next
  <2>2. CASE joinable
    BY <1>1, <2>2, PromiseStutter DEF Start
  <2>3. QED
    BY <2>1, <2>2
<1>2. CASE Join
  <2>1. CASE joinable
    <3>1. Phase = "ended" /\ Phase' = "idle"
      BY <1>2, <2>1 DEF Join, Phase, InitSteps, LoopSteps, ReleaseSteps
    <3>2. Held' = Held /\ m_exit_signal' = m_exit_signal
      BY <1>2 DEF Join, Held
    <3>3. Promise!Reap
      BY <3>1, <3>2 DEF Promise!Reap
    <3>4. QED
      BY <3>3 DEF Promise!Next
  <2>2. CASE ~joinable
    BY <1>2, <2>2, PromiseStutter DEF Join
  <2>3. QED
    BY <2>1, <2>2
<1>3. CASE Exit
  <2>1. Phase # "aborted" /\ Phase' = Phase /\ Held' = Held
    BY <1>3 DEF Exit, Phase, Held, TypeOK, WorkerSteps
  <2>2. m_exit_signal' = TRUE
    BY <1>3 DEF Exit
  <2>3. Promise!Request
    BY <2>1, <2>2 DEF Promise!Request
  <2>4. QED
    BY <2>3 DEF Promise!Next
<1>4. CASE ~Start /\ ~Join /\ ~Exit
  <2>1. UNCHANGED <<worker, ptr, fault, m_exit_signal>>
    BY <1>4 DEF Supervisor, MapMemory, WriteDefaults, PollStart, ClearStart, PollExit,
                ClearExit, PollEndKey, PollHomeKey
  <2>2. QED
    BY <2>1, PromiseStutter
<1>5. QED
  BY <1>1, <1>2, <1>3, <1>4

\* A fault is an abortion, which only an instance that may fail allows.
LEMMA PromiseAbort ==
  ASSUME SomethingMayFail, fault = "none", fault' # "none", worker \in WorkerSteps,
         UNCHANGED <<ptr, m_exit_signal>>
  PROVE  Promise!Next
<1>1. Phase # "aborted" /\ Phase' = "aborted" /\ Held' = Held
  BY DEF Phase, Held, WorkerSteps
<1>2. Promise!Abort
  BY <1>1 DEF Promise!Abort
<1>3. QED
  BY <1>2 DEF Promise!Next

\* A creation that succeeds acquires the object; the last one starts serving.
LEMMA PromiseAcquire ==
  ASSUME TypeOK, NEW object \in Objects, object \notin Held, NEW step,
         fault = "none", worker \in InitSteps, step \in InitSteps \union LoopSteps,
         Put(object, "live", step), m_exit_signal' = m_exit_signal,
         step \in LoopSteps <=> Held \union {object} = Objects
  PROVE  Promise!Next
<1>1. Held' = Held \union {object}
  BY DEF Held, TypeOK
<1>2. Phase = "acquiring"
  BY DEF Phase, InitSteps, LoopSteps, ReleaseSteps
<1>3. Phase' = IF Held' = Objects THEN "serving" ELSE "acquiring"
  <2>1. fault' = "none" /\ worker' = step
    BY DEF GoTo
  <2>2. CASE step \in InitSteps
    <3>1. Phase' = "acquiring"
      BY <2>1, <2>2 DEF Phase, InitSteps, LoopSteps, ReleaseSteps
    <3>2. step \notin LoopSteps
      BY <2>2 DEF InitSteps, LoopSteps
    <3>3. QED
      BY <1>1, <3>1, <3>2
  <2>3. CASE step \in LoopSteps
    <3>1. Phase' = "serving"
      BY <2>1, <2>3 DEF Phase, InitSteps, LoopSteps, ReleaseSteps
    <3>2. QED
      BY <1>1, <2>3, <3>1
  <2>4. QED
    BY <2>2, <2>3
<1>4. Promise!Acquire(object)
  BY <1>1, <1>2, <1>3 DEF Promise!Acquire
<1>5. QED
  BY <1>4 DEF Promise!Next

\* A creation that fails gives up, with or without one more object to release.
LEMMA PromiseGiveUp ==
  ASSUME TypeOK, NEW object \in Objects, NEW value \in {"live", "broken"},
         fault = "none", worker \in InitSteps,
         Put(object, value, "rel_frame"), m_exit_signal' = m_exit_signal
  PROVE  Promise!Next
<1>1. Held' = Held \union {object}
  BY DEF Held, TypeOK
<1>2. Phase = "acquiring" /\ Phase' = "draining"
  BY DEF Phase, GoTo, InitSteps, LoopSteps, ReleaseSteps
<1>3. Held' = Held \/ \E r \in Objects \ Held : Held' = Held \union {r}
  BY <1>1
<1>4. Promise!GiveUp
  BY <1>2, <1>3 DEF Promise!GiveUp
<1>5. QED
  BY <1>4 DEF Promise!Next

\* Creating the detector, the framework, the grabber and the lock.
LEMMA PromiseInitialize ==
  ASSUME TypeOK, Ownership, m_exit_signal' = m_exit_signal,
         SetLogger \/ SetYolo \/ SetFrame \/ ParseTrt \/ ParseDml \/ SetDxgi \/ SetLock
  PROVE  [Promise!Next]_(Promise!vars)
<1> USE DEF Runs
<1>1. CASE SetLogger
  <2>1. CASE fault' = "none"
    <3>1. Phase = "acquiring" /\ Phase' = "acquiring" /\ Held' = Held
      BY <1>1, <2>1 DEF SetLogger, CreateLogger, Moves, GoTo, owned, Phase, Held,
                        InitSteps, LoopSteps, ReleaseSteps
    <3>2. QED
      BY <3>1 DEF Promise!vars
  <2>2. CASE fault' # "none"
    <3>1. "logger" \in CanFail /\ UNCHANGED ptr
      BY <1>1, <2>2, Zenon DEF SetLogger, CreateLogger, Moves, GoTo, owned
    <3>2. QED
      BY <1>1, <2>2, <3>1, PromiseAbort DEF SetLogger, SomethingMayFail, TypeOK
  <2>3. QED
    BY <2>1, <2>2
<1>2. CASE SetYolo
  <2>1. Held = {}
    BY <1>2 DEF SetYolo, Ownership, NotHeld, Between, Held, Objects
  <2>2. QED
    BY <1>2, <2>1, PromiseAcquire DEF SetYolo, Assign, Objects, InitSteps, LoopSteps
<1>3. CASE SetFrame
  <2>1. Held = {"yolo"}
    BY <1>3 DEF SetFrame, Ownership, Created, NotHeld, Held, Objects
  <2>2. PICK step \in {"parse_trt", "parse_dml"} : Assign("frame", "live", step)
    BY <1>3 DEF SetFrame
  <2>3. QED
    BY <1>3, <2>1, <2>2, PromiseAcquire DEF SetFrame, Assign, Objects, InitSteps, LoopSteps
<1>4. CASE ParseTrt
  <2>1. Held = {"yolo", "frame"} /\ "frame" \in Objects
    BY <1>4 DEF ParseTrt, Ownership, Created, NotHeld, Held, Objects, Parsing
  <2>2. CASE Moves("dx") \/ Moves("dialog")
    <3>1. Phase = "acquiring" /\ Phase' = "acquiring" /\ Held' = Held
      BY <1>4, <2>2 DEF ParseTrt, Moves, GoTo, owned, Phase, Held, InitSteps, LoopSteps, ReleaseSteps
    <3>2. QED
      BY <3>1 DEF Promise!vars
  <2>3. CASE \E f \in {"live", "broken"} : Assign("frame", f, "rel_frame")
    BY <1>4, <2>1, <2>3, PromiseGiveUp DEF ParseTrt, Assign, InitSteps
  <2>4. CASE "model" \in CanFail /\ Aborts("wild")
    BY <1>4, <2>4, PromiseAbort DEF ParseTrt, SomethingMayFail, TypeOK
  <2>5. QED
    BY <1>4, <2>2, <2>3, <2>4 DEF ParseTrt
<1>5. CASE ParseDml
  <2>1. CASE "fit" \in CanFail /\ Aborts("bounds")
    BY <1>5, <2>1, PromiseAbort DEF ParseDml, SomethingMayFail, TypeOK
  <2>2. CASE Moves("dx") \/ Moves("rel_frame") \/ Moves("dialog_dml")
    <3>1. Held' = Held /\ Phase = "acquiring" /\ Phase' \in {"acquiring", "draining"}
      BY <1>5, <2>2 DEF ParseDml, Moves, GoTo, owned, Phase, Held, InitSteps, LoopSteps, ReleaseSteps
    <3>2. Phase' = "draining" => Promise!GiveUp
      BY <3>1 DEF Promise!GiveUp
    <3>3. QED
      BY <3>1, <3>2 DEF Promise!Next, Promise!vars
  <2>3. QED
    BY <1>5, <2>1, <2>2 DEF ParseDml
<1>6. CASE SetDxgi
  <2>1. Held = {"yolo", "frame"} /\ "dx" \in Objects
    BY <1>6 DEF SetDxgi, Ownership, Created, NotHeld, Held, Objects
  <2>2. CASE Assign("dx", "live", "lock")
    BY <1>6, <2>1, <2>2, PromiseAcquire DEF SetDxgi, Assign, Objects, InitSteps, LoopSteps
  <2>3. CASE Assign("dx", "live", "rel_frame")
    BY <1>6, <2>1, <2>3, PromiseGiveUp DEF SetDxgi, Assign, InitSteps
  <2>4. CASE "fit" \in CanFail /\ Aborts("bounds")
    BY <1>6, <2>4, PromiseAbort DEF SetDxgi, SomethingMayFail, TypeOK
  <2>5. QED
    BY <1>6, <2>2, <2>3, <2>4 DEF SetDxgi
<1>7. CASE SetLock
  <2>1. Held = {"yolo", "frame", "dx"} /\ "lock" \in Objects
    BY <1>7 DEF SetLock, Ownership, Created, NotHeld, Held, Objects
  <2>2. CASE Put("lock", "live", "loop")
    BY <1>7, <2>1, <2>2, PromiseAcquire DEF SetLock, Objects, InitSteps, LoopSteps
  <2>3. CASE Put("lock", "broken", "rel_frame")
    BY <1>7, <2>1, <2>3, PromiseGiveUp DEF SetLock, InitSteps
  <2>4. QED
    BY <1>7, <2>2, <2>3 DEF SetLock
<1>8. QED
  BY <1>1, <1>2, <1>3, <1>4, <1>5, <1>6, <1>7

\* The loop serves until it sees the stop request.
LEMMA PromiseLoop ==
  ASSUME TypeOK, Ownership, m_exit_signal' = m_exit_signal,
         CheckExit \/ Capture \/ Detect \/ Action \/ DrawBox
  PROVE  [Promise!Next]_(Promise!vars)
<1> USE DEF Runs, LoopSteps
<1>1. fault = "none" /\ worker \in LoopSteps
  BY DEF CheckExit, Capture, Detect, Action, DrawBox
<1> DEFINE Dying == \/ "infer" \in CanFail /\ (Dies("frame", "null") \/ Dies("frame", "dangling"))
                    \/ "fit" \in CanFail /\ Dies("frame", "bounds")
                    \/ "move" \in CanFail /\ Dies("lock", "division")
                    \/ "toggle" \in CanFail /\ Dies("lock", "bounds")
<1>8. CASE Dying
  <2>1. SomethingMayFail /\ UNCHANGED ptr /\ fault' # "none"
    BY <1>8 DEF Dies, SomethingMayFail
  <2>2. QED
    BY <1>1, <2>1, PromiseAbort DEF TypeOK
<1> SUFFICES ASSUME ~Dying PROVE [Promise!Next]_(Promise!vars)
  BY <1>8
<1>2. \E step : Moves(step) /\ (step \in LoopSteps \/ (m_exit_signal /\ step = "rel_frame"))
  <2>1. CASE CheckExit
    BY <2>1 DEF CheckExit
  <2>2. CASE Capture \/ Detect \/ Action \/ DrawBox
    BY <2>2 DEF Capture, Detect, Action, DrawBox, Calls, Ownership, Created
  <2>3. QED
    BY <2>1, <2>2
<1>3. PICK step : Moves(step) /\ (step \in LoopSteps \/ (m_exit_signal /\ step = "rel_frame"))
  BY <1>2
<1>4. Phase = "serving" /\ Held' = Held
  BY <1>1, <1>3 DEF Phase, Held, Moves, owned, InitSteps, ReleaseSteps
<1>5. CASE step \in LoopSteps
  <2>1. Phase' = "serving"
    BY <1>1, <1>3, <1>5 DEF Phase, Moves, GoTo, owned, InitSteps, ReleaseSteps
  <2>2. QED
    BY <1>4, <2>1 DEF Promise!vars
<1>6. CASE m_exit_signal /\ step = "rel_frame"
  <2>1. Phase' = "draining"
    BY <1>1, <1>3, <1>6 DEF Phase, Moves, GoTo, owned, InitSteps, ReleaseSteps
  <2>2. Promise!StopServing
    BY <1>4, <1>6, <2>1 DEF Promise!StopServing
  <2>3. QED
    BY <2>2 DEF Promise!Next
<1>7. QED
  BY <1>3, <1>5, <1>6

\* Releasing an object other than the last one.
LEMMA PromiseGiveBack ==
  ASSUME TypeOK, m_exit_signal' = m_exit_signal,
         NEW object \in Objects, NEW here \in ReleaseSteps, NEW next \in ReleaseSteps,
         ReleaseObject(object, here, next),
         ptr[object] = "live" \/ SomethingMayFail
  PROVE  [Promise!Next]_(Promise!vars)
<1>1. Phase = "draining"
  BY DEF ReleaseObject, Runs, Phase, InitSteps, LoopSteps, ReleaseSteps
<1>2. CASE Moves(next)
  <2>1. Phase' = "draining" /\ Held' = Held
    BY <1>2 DEF ReleaseObject, Runs, Moves, GoTo, owned, Phase, Held, InitSteps, LoopSteps, ReleaseSteps
  <2>2. QED
    BY <1>1, <2>1 DEF Promise!vars
<1>3. CASE ptr[object] = "live" /\ Assign(object, "freed", next)
  <2>1. Phase' = "draining"
    BY <1>3 DEF ReleaseObject, Runs, Assign, GoTo, Phase, InitSteps, LoopSteps, ReleaseSteps
  <2>2. object \in Held /\ Held' = Held \ {object}
    BY <1>3 DEF Assign, Held, TypeOK
  <2>3. Promise!GiveBack(object)
    BY <1>1, <2>1, <2>2 DEF Promise!GiveBack
  <2>4. QED
    BY <2>3 DEF Promise!Next
<1>4. CASE ptr[object] \in {"wild", "broken", "freed"} /\ Aborts(ptr[object])
  BY <1>4, PromiseAbort DEF ReleaseObject, Runs, TypeOK
<1>5. QED
  BY <1>2, <1>3, <1>4 DEF ReleaseObject

LEMMA PromiseRelease ==
  ASSUME TypeOK, Ownership, HealthyUnlessFailing, m_exit_signal' = m_exit_signal, Release
  PROVE  [Promise!Next]_(Promise!vars)
<1> USE DEF HealthyUnlessFailing, Healthy, Created
<1>1. CASE ReleaseObject("frame", "rel_frame", "rel_lock")
  <2>1. ptr["frame"] = "live" \/ SomethingMayFail
    BY <1>1 DEF ReleaseObject, Runs
  <2>2. QED
    BY <1>1, <2>1, PromiseGiveBack DEF Objects, ReleaseSteps
<1>2. CASE ReleaseLock("rel_lock", "rel_dx")
  <2>1. CASE ReleaseObject("lock", "rel_lock", "rel_dx")
    <3>1. ptr["lock"] = "live" \/ SomethingMayFail
      BY <2>1 DEF ReleaseObject, Runs
    <3>2. QED
      BY <2>1, <3>1, PromiseGiveBack DEF Objects, ReleaseSteps
  <2>2. CASE Runs("rel_lock") /\ m_mouse = "GHUB" /\ Aborts("handle")
    BY <2>2, PromiseAbort DEF Runs, TypeOK
  <2>3. QED
    BY <1>2, <2>1, <2>2 DEF ReleaseLock
<1>3. CASE ReleaseObject("dx", "rel_dx", "rel_yolo")
  <2>1. ptr["dx"] = "live" \/ SomethingMayFail
    BY <1>3 DEF ReleaseObject, Runs
  <2>2. QED
    BY <1>3, <2>1, PromiseGiveBack DEF Objects, ReleaseSteps
<1>4. CASE ReleaseObject("yolo", "rel_yolo", "done")
  <2>1. ptr["yolo"] = "live" /\ Held = {"yolo"}
    BY <1>4 DEF ReleaseObject, Runs, Ownership, NotHeld, Held, Objects, ReleaseSteps
  <2>2. Phase = "draining" /\ Phase' = "ended"
    BY <1>4, <2>1 DEF ReleaseObject, Runs, Moves, Assign, GoTo, Phase, InitSteps, LoopSteps, ReleaseSteps
  <2>3. Held' = {}
    BY <1>4, <2>1 DEF ReleaseObject, Assign, Held, Objects, TypeOK
  <2>4. Promise!End
    BY <2>1, <2>2, <2>3 DEF Promise!End, Objects
  <2>5. QED
    BY <2>4 DEF Promise!Next
<1>5. QED
  BY <1>1, <1>2, <1>3, <1>4 DEF Release

\* The threads, signals and pointers of the Actuator implement the safety part
\* of Service: nothing is acquired twice, serving needs everything and ends on
\* request only, everything is given back before the run ends, and the process
\* aborts only where an initialisation step may fail.
THEOREM ImplementsService == Spec => Promise!Init /\ [][Promise!Next]_(Promise!vars)
<1>1. Init => Promise!Init
  <2> SUFFICES ASSUME Init PROVE Promise!Init
    OBVIOUS
  <2>1. Phase = "idle"
    BY DEF Init, Phase, InitSteps, LoopSteps, ReleaseSteps
  <2>2. Held = {}
    <3>1. \A o \in Objects : ptr[o] \in {"null", "wild"}
      BY DEF Init
    <3>2. QED
      BY <3>1 DEF Held
  <2>3. QED
    BY <2>1, <2>2 DEF Init, Promise!Init
<1>2. TypeOK /\ Ownership /\ HealthyUnlessFailing /\ [Next]_vars
        => [Promise!Next]_(Promise!vars)
  <2> SUFFICES ASSUME TypeOK, Ownership, HealthyUnlessFailing, [Next]_vars
               PROVE  [Promise!Next]_(Promise!vars)
    OBVIOUS
  <2>1. CASE Ui \/ UNCHANGED vars
    BY <2>1, PromiseStutter DEF Ui, vars, thread, owned
  <2>2. CASE Supervisor
    BY <2>2, PromiseSupervisor
  <2>3. CASE WorkerProgress
    <3>1. m_exit_signal' = m_exit_signal
      BY <2>3 DEF WorkerProgress, thread
    <3>2. QED
      BY <2>3, <3>1, PromiseInitialize, PromiseLoop, PromiseRelease DEF WorkerProgress
  <2>4. CASE Dismiss
    <3>1. Held' = Held /\ m_exit_signal' = m_exit_signal
      BY <2>4 DEF Dismiss, DismissDialog, Moves, thread, owned, Held
    <3>2. CASE worker = "dialog"
      <4>1. Phase = "acquiring" /\ Phase' = "acquiring"
        BY <2>4, <3>2 DEF Dismiss, DismissDialog, Runs, Moves, GoTo, owned, Phase,
                          InitSteps, LoopSteps, ReleaseSteps
      <4>2. QED
        BY <3>1, <4>1 DEF Promise!vars
    <3>3. CASE worker = "dialog_dml"
      <4>1. Phase = "acquiring" /\ Phase' = "draining"
        BY <2>4, <3>3 DEF Dismiss, DismissDialog, Runs, Moves, GoTo, owned, Phase,
                          InitSteps, LoopSteps, ReleaseSteps
      <4>2. Promise!GiveUp
        BY <3>1, <4>1 DEF Promise!GiveUp
      <4>3. QED
        BY <4>2 DEF Promise!Next
    <3>4. QED
      BY <2>4, <3>2, <3>3 DEF Dismiss, DismissDialog, Runs
  <2>5. QED
    BY <2>1, <2>2, <2>3, <2>4 DEF Next
<1>3. QED
  BY <1>1, <1>2, TypeCorrect, OwnershipInvariant, HealthyInvariant, PTL DEF Spec

-----------------------------------------------------------------------------

\* Release begins with a framework that is there, sound or not, and no grabber is
\* ever left defunct.
ReleaseFindsFrame == worker = "rel_frame" => ptr["frame"] \in {"live", "broken"}
DxIsSound         == ptr["dx"] # "broken"

\* A message box of DirectML is the sign of a failure.
BoxMeansFailure == worker = "dialog_dml" => "model" \in CanFail

\* What a failed initialisation leaves of a lock never has SendInput as its mouse.
BrokenLocks == ptr["lock"] = "broken" => m_mouse # "SendInput"

\* GHUB is the mouse that the zeroed memory chooses and that the UI may choose.
GhubIsChosen ==
  /\ NoDefaultsYet => worker = "none"
  /\ mousec_type = 0 => 0 \in UiMousecTypes \/ NoDefaultsYet
  /\ m_mouse = "GHUB" => 0 \in UiMousecTypes

AbortInv ==
  AbortsAreKnown /\ ReleaseFindsFrame /\ DxIsSound /\ BoxMeansFailure /\ BrokenLocks /\ GhubIsChosen

LEMMA AbortWorker ==
  ASSUME TypeOK, Ownership, AbortInv, WorkerProgress
  PROVE  AbortInv'
<1> USE DEF AbortInv, AbortsAreKnown, ReleaseFindsFrame, DxIsSound, BoxMeansFailure,
            BrokenLocks, GhubIsChosen, NoDefaultsYet, TypeOK, Objects, Runs, GoTo, Moves, owned, shared, WorkerProgress
<1>1. CASE SetLogger
  BY <1>1 DEF SetLogger, CreateLogger
<1>2. CASE SetYolo \/ SetFrame
  BY <1>2 DEF SetYolo, SetFrame, Assign
<1>3. CASE ParseTrt
  BY <1>3 DEF ParseTrt, Assign
<1>4. CASE ParseDml
  BY <1>4 DEF ParseDml, Ownership, Created, Parsing
<1>5. CASE SetDxgi
  BY <1>5 DEF SetDxgi, Assign, Ownership, Created
<1>6. CASE SetLock
  BY <1>6 DEF SetLock, CreatedMouse, MouseMayFail, Ownership, Created
<1>7. CASE CheckExit
  BY <1>7 DEF CheckExit, Ownership, Created, LoopSteps
<1>8. CASE Capture \/ Detect \/ Action \/ DrawBox
  BY <1>8 DEF Capture, Detect, Action, DrawBox, Dies, Calls, Ownership, Created, LoopSteps
<1>9. CASE Release
  BY <1>9 DEF Release, ReleaseLock, ReleaseObject, Assign, Ownership, Created, ReleaseSteps, PointerStates
<1>10. QED
  BY <1>1, <1>2, <1>3, <1>4, <1>5, <1>6, <1>7, <1>8, <1>9 DEF WorkerProgress

LEMMA AbortInvariant == Spec => []AbortInv
<1>1. Init => AbortInv
  BY DEF Init, AbortInv, AbortsAreKnown, ReleaseFindsFrame, DxIsSound, BoxMeansFailure,
         BrokenLocks, GhubIsChosen, NoDefaultsYet, Objects
<1>2. TypeOK /\ Ownership /\ AbortInv /\ [Next]_vars => AbortInv'
  <2> SUFFICES ASSUME TypeOK, Ownership, AbortInv, [Next]_vars PROVE AbortInv'
    OBVIOUS
  <2> USE DEF AbortInv, AbortsAreKnown, ReleaseFindsFrame, DxIsSound, BoxMeansFailure,
              BrokenLocks, GhubIsChosen, NoDefaultsYet, shared, thread, owned
  <2>1. CASE Ui \/ UNCHANGED vars
    BY <2>1 DEF Ui, UiAttach, UiRequestStart, UiRequestExit, UiConfigure, vars
  <2>2. CASE Start \/ Join
    BY <2>2 DEF Start, Join, At
  <2>3. CASE Supervisor /\ ~Start /\ ~Join
    BY <2>3 DEF Supervisor, At, MapMemory, WriteDefaults, PollStart, ClearStart, PollExit,
                ClearExit, Exit, PollEndKey, PollHomeKey
  <2>4. CASE WorkerProgress
    BY <2>4, AbortWorker
  <2>5. CASE Dismiss
    BY <2>5 DEF Dismiss, DismissDialog, Runs, Moves, GoTo, Ownership, Created, Parsing
  <2>6. QED
    BY <2>1, <2>2, <2>3, <2>4, <2>5 DEF Next
<1>3. QED
  BY <1>1, <1>2, TypeCorrect, OwnershipInvariant, PTL DEF Spec

\* The process dies in the ways the invariant lists and in no other of those the
\* modules know of, whatever may fail and however often the worker is started.
THEOREM NoOtherAbort == Spec => []AbortsAreKnown
<1>1. AbortInv => AbortsAreKnown
  BY DEF AbortInv
<1>2. QED
  BY <1>1, AbortInvariant, PTL

-----------------------------------------------------------------------------
(* The lives of the four objects.                                          *)

Sound == TypeOK /\ Ownership /\ AbortInv /\ HealthyUnlessFailing

\* An object's phase depends on its pointer, the worker's place and the fault only.
LEMMA LifeStutter ==
  ASSUME UNCHANGED <<worker, ptr, fault>>
  PROVE  \A o \in Objects : Life(o)' = Life(o)
BY DEF Life, UsedAt, Objects

\* Starting and joining find none of the objects there.
LEMMA LifeSupervisor ==
  ASSUME Sound, Supervisor
  PROVE  \A o \in Objects : Life(o)' = Life(o)
<1>1. CASE Start /\ ~joinable
  <2>1. worker = "none" /\ worker' = "log" /\ fault = "none" /\ UNCHANGED <<ptr, fault>>
    BY <1>1, Zenon DEF Start, At, owned, Sound, Ownership, HandleMatchesThread
  <2>2. \A o \in Objects : ptr[o] \notin {"live", "broken"}
    BY <2>1 DEF Sound, Ownership, NotHeld, Between, Held, Objects
  <2>3. QED
    BY <2>1, <2>2 DEF Life, LoopSteps
<1>2. CASE Join /\ joinable
  <2>1. worker = "done" /\ worker' = "none" /\ fault = "none" /\ UNCHANGED <<ptr, fault>>
    BY <1>2, Zenon DEF Join, At, owned
  <2>2. \A o \in Objects : ptr[o] \notin {"live", "broken"}
    BY <2>1 DEF Sound, Ownership, NotHeld, Between, Held, Objects
  <2>3. QED
    BY <2>1, <2>2 DEF Life, LoopSteps
<1>3. CASE ~(Start /\ ~joinable) /\ ~(Join /\ joinable)
  <2>1. UNCHANGED <<worker, ptr, fault>>
    BY <1>3 DEF Supervisor, MapMemory, WriteDefaults, PollStart, ClearStart, Start, PollExit,
                ClearExit, Exit, Join, PollEndKey, PollHomeKey, thread, owned
  <2>2. QED
    BY <2>1, LifeStutter
<1>4. QED
  BY <1>1, <1>2, <1>3

LivesMoveOn ==
  /\ [Yolo!Next]_(Life("yolo")) /\ [Frame!Next]_(Life("frame"))
  /\ [Dx!Next]_(Life("dx")) /\ [Lock!Next]_(Life("lock"))

\* Each step of the worker is a step, or none, of each of the four lives.
LEMMA LifeWorker ==
  ASSUME Sound, WorkerProgress
  PROVE  LivesMoveOn
<1> USE DEF LivesMoveOn, Yolo!Next, Yolo!Create, Yolo!Prepare, Yolo!Fail, Yolo!Close,
            Yolo!Release, Yolo!Crash, Yolo!Die, Frame!Next, Frame!Create, Frame!Prepare,
            Frame!Fail, Frame!Close, Frame!Release, Frame!Crash, Frame!Die, Dx!Next,
            Dx!Create, Dx!Prepare, Dx!Fail, Dx!Close, Dx!Release, Dx!Crash, Dx!Die,
            Lock!Next, Lock!Create, Lock!Prepare, Lock!Fail, Lock!Close, Lock!Release,
            Lock!Crash, Lock!Die, Life, UsedAt, Sound, TypeOK, Ownership, Created, NotHeld,
            Held, Between, Parsing, LoopSteps, ReleaseSteps, Objects, Runs, GoTo, Moves,
            Assign, owned, May
<1>1. CASE SetLogger
  BY <1>1 DEF SetLogger, CreateLogger
<1>2. CASE SetYolo
  BY <1>2 DEF SetYolo
<1>3. CASE SetFrame
  BY <1>3 DEF SetFrame
<1>4. CASE ParseTrt
  BY <1>4 DEF ParseTrt
<1>5. CASE ParseDml
  BY <1>5 DEF ParseDml
<1>6. CASE SetDxgi
  BY <1>6 DEF SetDxgi
<1>7. CASE SetLock
  BY <1>7 DEF SetLock
<1>8. CASE CheckExit \/ DrawBox
  BY <1>8 DEF CheckExit, DrawBox
<1>9. CASE Capture \/ Detect \/ Action
  BY <1>9 DEF Capture, Detect, Action, Dies, Calls
<1>10. CASE Release
  <2>1. CASE ReleaseObject("frame", "rel_frame", "rel_lock")
    BY <2>1 DEF ReleaseObject, AbortInv, ReleaseFindsFrame
  <2>2. CASE ReleaseLock("rel_lock", "rel_dx")
    BY <2>2 DEF ReleaseLock, ReleaseObject, PointerStates, DiesAbsent, HealthyUnlessFailing, Healthy,
                AbortInv, GhubIsChosen
  <2>3. CASE ReleaseObject("dx", "rel_dx", "rel_yolo")
    BY <2>3 DEF ReleaseObject, AbortInv, DxIsSound, PointerStates, DiesAbsent, HealthyUnlessFailing,
                Healthy
  <2>4. CASE ReleaseObject("yolo", "rel_yolo", "done")
    BY <2>4 DEF ReleaseObject
  <2>5. QED
    BY <1>10, <2>1, <2>2, <2>3, <2>4 DEF Release
<1>11. QED
  BY <1>1, <1>2, <1>3, <1>4, <1>5, <1>6, <1>7, <1>8, <1>9, <1>10 DEF WorkerProgress

\* The worker keeps to the life of each of its objects: nothing is used that was
\* not prepared, nothing is created again before it was released, and the
\* framework and the detector are never released without being there.
THEOREM LivesAreKept == Spec => KeepsLives
<1>1. Init => Yolo!Init /\ Frame!Init /\ Dx!Init /\ Lock!Init
  BY DEF Init, Yolo!Init, Frame!Init, Dx!Init, Lock!Init, Life, LoopSteps, Objects
<1>2. Sound /\ [Next]_vars => LivesMoveOn
  <2> SUFFICES ASSUME Sound, [Next]_vars PROVE LivesMoveOn
    OBVIOUS
  <2>1. CASE \A o \in Objects : Life(o)' = Life(o)
    BY <2>1 DEF LivesMoveOn, Objects
  <2>2. CASE Ui \/ UNCHANGED vars
    <3>1. UNCHANGED <<worker, ptr, fault>>
      BY <2>2 DEF Ui, vars, owned
    <3>2. QED
      BY <2>1, <3>1, LifeStutter
  <2>3. CASE Supervisor
    BY <2>1, <2>3, LifeSupervisor
  <2>4. CASE WorkerProgress
    BY <2>4, LifeWorker
  <2>5. CASE Dismiss
    BY <2>5 DEF Dismiss, DismissDialog, Runs, Moves, GoTo, owned, Sound, Ownership, Created, NotHeld,
                Held, Parsing, LoopSteps, ReleaseSteps, Objects, Life, UsedAt, LivesMoveOn,
                Yolo!Next, Yolo!Close, Frame!Next, Frame!Fail, Dx!Next, Lock!Next, May, AbortInv,
                BoxMeansFailure
  <2>6. QED
    BY <2>2, <2>3, <2>4, <2>5 DEF Next
<1>3. QED
  BY <1>1, <1>2, TypeCorrect, OwnershipInvariant, AbortInvariant, HealthyInvariant, PTL
     DEF Spec, Sound, LivesMoveOn, KeepsLives, Yolo!Spec, Frame!Spec, Dx!Spec, Lock!Spec
=============================================================================
