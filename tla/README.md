# Verification of SF_TRT 6.2

TLA+ models of the program in `src/`, checked with TLC, and theorems about them
proved with TLAPS. The program is a supervisor that a separate UI process drives
through shared memory, and a worker thread that grabs the screen, runs a
detector on it, chooses one of the detected boxes and sends mouse commands.

Paths below are relative to `src/src/`. Most files are in GBK.

## 1. Inventory

| Part | Source | State | Operations | Talks to |
|---|---|---|---|---|
| Supervisor | `sf-trt.cpp` | position in the polling loop | `initmem`, defaults, polling of two flags and two keys | shared memory; `Actuator::start/exit/join` |
| Actuator (worker thread) | `Actuator.cpp` | four object pointers, logger, `m_exit_signal`, thread handle | `start`, `exit`, `join`, `word`, `initializeResources`, `Release` | every component below |
| Shared memory, UI | `sf-trt.h`; `SF_62_Imgui.7z` | `Data`, `Signal`, `Info` | the UI writes any field at any time | supervisor, worker |
| Target selection | `lock_functional.cpp` 63-128, 201-247; `base_type.h` | `Process`; locals of `action` | scan, class filter, choice of the nearest | reads `Process`, flags of the UI |
| Trigger and movement | `lock_functional.cpp` 17-61, 109-199, 244-286 | clocks `auto_start`, `sleep_start` | `executeTrigger`, `autoTrigger`, `onlyMcove`, `inScopeX/Y`, `MaxMovePixel` | keys, mouse, control, settings of the UI |
| Lock set-up | `lock_base.*`, `lock_functional.cpp` 288-323 | mouse, control | `initLock`, `Release` | factories |
| Control | `control_*.cpp` | error, integral, last error per axis | `control_x`, `control_y` | settings of the UI |
| Mouse | `mouse_*.cpp` | driver handle | `init`, `move`, `trigger`, `monitor`, `close` | Windows, drivers |
| TensorRT framework | `frame_trt.cpp` | engine, context, stream, table of device buffers, indices of two bindings | `AnalyticalModel`, `Detect`, `Release` | detector, CUDA, modal dialogs |
| DirectML framework | `frame_dml.cpp` | environment, session, input and output tensor | `AnalyticalModel`, `Detect`, `Release` | detector, onnxruntime |
| Detectors | `yolo*.cpp` | dimensions | `DecodeOutput`, `dims_error` | fill `Process` |
| DXGI grabber | `include/dxgi-module.h`, binary | - | external | - |
| spdlog, onnxruntime, DirectML, msdk | `spdlog/`, `include/`, `lib/` | - | vendored | - |

What makes each part correct:

- **Supervisor and Actuator.** At most one worker; every start acquires its
  objects afresh and every run gives back all it acquired, also when a step of
  the initialisation fails; no use of an object that is not live; a stop is not
  overtaken by a start; stops end and starts start.
- **Target selection.** The box aimed at was kept by non-maximum suppression, is
  of a wanted class, is the nearest of the candidates; subscripts stay in bounds
  while the UI switches flags.
- **Trigger.** Clicks keep their distance; a trigger that is asked for is not put
  off for ever.
- **Frameworks.** A model that was accepted has all that `Detect` uses, by
  whichever of the two registrations; what is allocated is released once; what
  is decoded is of the current frame.
- **Detectors.** Each box, class and confidence belongs to one row of the
  current output, however the UI moves the threshold meanwhile; no row is read
  that is not there.
- **Mouse.** The orders sent to the device add up to the move asked for.
- **Control.** The integral, which is never reset, stays bounded.
- **Scope.** The trigger's scope is a part of the box.

What is hard: two threads that share a plain `bool` and four raw pointers; a UI
process that writes flags and settings at any moment, read field by field at the
place of use; initialisation that fails half-way and is retried in the same
process; modal dialogs on the worker thread; keys polled with a memory of their
own; clocks that are static. The list with lines is in `PROJECT.json`, "hazards".

## 2. Modules

| Module | Models | Checked by | Proofs |
|---|---|---|---|
| `Service` | what an owner of resources promises, without threads and pointers | as `KeepsPromise` of `Actuator` and of `Inference` | |
| `Component` | what the Actuator and an object it owns expect of one another, over the object's life | as `KeepsLives` of `Actuator`, `KeepsLife` of `Inference` and of `Aim` | |
| `Actuator` | supervisor, worker, UI | `healthy`, `failing`, three violations | `ActuatorProofs` |
| `TargetSelection` | `Functional::action` up to the choice of the target | `selection`, two violations | `TargetSelectionProofs` |
| `Trigger` | `Functional::action` from the target to the click, and the keys | `trigger` | `TriggerProofs` |
| `FrameBase` | what the two frameworks share: members of `Frame`, dimensions of `YOLO`, backend calls | | |
| `FrameTrt`, `FrameDml` | the operations of either framework, on top of `FrameBase` | | |
| `Inference` | one frame object of either kind from creation to release, composed of the two and driven like the worker does | `inference`, in `MCInference` | `InferenceProofs` |
| `Decode` | `DecodeOutput` of the three detectors and `NMSBoxes`, under a moving threshold | `decode`, in `MCDecode` | `DecodeProofs` |
| `Aim` | lock object: `initLock`, distance, scope, PID control, limits, mouse orders, `Release` | `aim`, in `MCAim` | `AimProofs` |

How the modules fit together: `Actuator` runs the whole life of the process and
has of each component only the pointer to its object and the ways in which it
can fail. Those ways are taken from the detailed modules, one by one: a frame
that dies of a null output or runs on a picture that is gone (`"infer"` in
`CanFail`, from `Inference`), a model whose shape does not suit, so that vectors
or its output are read beyond their end (`"fit"`, from `Inference` and `Decode`),
a class filter turned on between scan and choice (`"toggle"`, from
`TargetSelection`), a move that divides by zero (`"move"`, from `Aim`), an object
that exists but cannot be released (`broken`) and a mouse whose release may close a
foreign handle (`m_mouse = "GHUB"`, both from `FaultsAreKnown` of `Inference` and
of `Aim`), a message box on the worker's thread. Nothing but the reader checks that the
two lists agree: `Actuator` is not composed with the detailed modules. `Inference` and `Actuator`
implement the same `Service`, the one with the frame object as its only resource, the
other with all four. Between the Actuator and its objects stands `Component`, a
contract with two sides: the Actuator keeps it as the user of each object
(`KeepsLives`), `Inference` as the framework and `Aim` as the lock object
(`KeepsLife`), with the same failures on either side: a framework whose failed
preparation leaves it releasable or not, a lock object that is then always defunct. `Decode` ends where `TargetSelection` begins: `indices`
chosen among the collected boxes. `TargetSelection` ends with a box, `Aim` starts
from any box and gives what `Trigger` takes for granted, a target in scope or not.

### Actuator

Three processes interleave: the UI (`Ui`), the supervisor (`Supervisor`, its
next statement is `main`) and the worker (`WorkerProgress`, its next statement
is `worker`). Every read or write of memory that another process shares is a step
of its own: polling a start request (`PollStart`), clearing it (`ClearStart`) and
acting on it (`Start`) are three, as in `sf-trt.cpp` 96-98.

`ptr[o]` is what one of the four pointers holds: null, an indeterminate value
(`wild`: the class declares the pointers without an initialiser), a live object,
an object that exists but whose `Release` would use a null member (`broken`), or
an object that was released (`freed`: `Actuator::Release` resets none of them).
A method call is `Calls`: it needs a live object, and anything else is recorded
in `fault` and ends the behaviour, as an exception that leaves the thread does.
`Dies` is a call of a live object that ends the process by itself.

| Code | Definition |
|---|---|
| `initmem`, defaults, polling loop | `MapMemory`, `WriteDefaults`, `PollStart` ... `PollHomeKey` |
| `start`, `exit`, `join` | `Start`, `Exit`, `Join` |
| `initializeResources` | `SetLogger`, `SetYolo`, `SetFrame`, `ParseTrt`/`ParseDml`/`DismissDialog`, `SetDxgi`, `SetLock` |
| loop of `word` | `CheckExit`, `Capture`, `Detect`, `Action`, `DrawBox` |
| `Release` | `Release`, one object at a time |

`CanFail` names what may go wrong in an instance: steps of the initialisation
(`logger`, `model`, `capture`, `mouse`), an inference, a move, a model that is
accepted and does not fit (`fit`), and a UI that turns `category_filter` on during
an action (`toggle`). The stray handle of GHUB is no matter of failing: it is there
whenever the UI chooses that mouse (`m_mouse`).

`Service` is what a user may rely on: a service is launched only
when everything of the run before was given back, acquires no resource it still
holds, serves with all of them, stops serving only when asked to, and gives
everything back. The refinement mapping is at the end of `Actuator`: the phase
is read off `worker`, what is held off `ptr`.

`Component` is the same promise seen from one object: it is created, prepared,
used only after its preparation succeeded, closed and released once, unless a
failed preparation left it defunct, when releasing it ends the process. Its two
constants say how a preparation may end and where the process may die of the
object. `Actuator` instantiates it once per object with `Life(object)` read off
the pointer, the worker's step and the fault; what the lock and the grabber may
die of when absent is what `Release` does with pointers nobody has set.
`AbortsAreKnown` says the same by the step: which fault belongs to which.

### TargetSelection

A box is its class and its squared distance from the centre. `indices` is any
injective sequence of box numbers (`Kept`), which is what `cv::dnn::NMSBoxes`
gives: some of the boxes, by descending confidence. The worker reads
`category_filter` once per candidate and once more for the choice, and the class
flags one by one; the UI may switch any of them before each read. Two history
variables, `steady` and `offered`, remember what the UI did during the action.

### Trigger

Clocks are modelled by their age, which stops at `Horizon`, a value no cool-down
exceeds: beyond it the code cannot tell two ages apart. Keys have the state that
`GetAsyncKeyState` reports: down, and pressed since it was last asked
(`latched`); every call of `monitor` forgets the press, whichever key setting it
is made for. The UI changes the two key settings, the model and `auto_trigger` at any
time; the delay and `keep_move` may have any of their values at every read.

### Inference

A model is the sequence of its nodes, each with a name and dimensions. Any call
of a backend may fail whenever it is made. `pc` is the worker's next step, `held`
the members that point to something, `lost` the members that were overwritten
while they did. `data` says of which frame the contents of the input, of the
device's buffer and of the output are: current, older, or none. Shapes may have any
number of dimensions. TensorRT's `Dims` has eight entries however many are in use;
those not in use are taken to be zero (`Dim`). A `std::vector` has none beyond its size:
subscripts of such a one crash with `"bounds"` (`TooShort`, `GoOn`).
`Readable` is what the detector needs of the noted dimensions and nobody checks.

| Code | Definition |
|---|---|
| `ITensorRt::InitInterface` | `LoadSerializedFile` ... `CreateStream` |
| `parseModelInfo`, `parseModelInfoEx`, `registerInput`, `registerOutput` | `FindNames`, then `RegisterBinding` per binding at `"named"` or `"shaped"`, `EndPass`, `AllocateHost` |
| `ITensorRt::Detect`, `Release` | `InferTrt`, `ReleaseTrt` |
| `IDML::InitInterface`, `parseInput`, `parseOutput`, `parseModelInfo` | `CreateEnv` ... `CreateMemoryInfo` |
| `IDML::Detect`, `Release` | `InferDml`, `ReleaseDml` |
| `createFrameObject`, rest of `initializeResources`, loop of `word` | `CreateFrameObject`, `GoOn`, `BeginFrame`, `DecodeOutput`, `LeaveLoop` |
| `markError` and the user | `MarkError`, `Dismiss` |

Both frameworks give up in the middle of the initialisation in many places;
the TensorRT one then starts its second registration over what the first has
left: indices, dimensions, and a table of buffers of which some entries, or
the table itself, may be missing.

### Decode

One step per row (`RowV5`, `RowV8`), or per anchor and class (`ClassX`), since
each reads the threshold anew from shared memory; `SetConf` is the UI moving it
between any two reads, and `lowest` and `highest` remember what it was
during the frame. `NMSBoxes` is external: it drops what is not above the threshold
it is given, and keeps some of the rest, among them one with the best score.
A model with fewer than five attributes has no score of its own in a row
(`Short`), and one with more anchors than boxes lacks rows: both pass `dims_error`,
and decoding them ends at `ReadBeyond`. `process` has the three lists of struct `Process`; a box is the number of the row
it came from, so that lists out of step and lists of an older frame show.

### Aim

`CreateMouse`, `InitMouse` and `CreateControl` are `initLock`. `Target` is `action`
from the distance of the chosen box to the call of `move`: the aim point
(`Centre`), the scope (`InScope`), the two axes of the PID control (`Control`,
with the integral and the last deviation kept from target to target), and the
limit (`MaxMovePixel`). All settings are chosen anew for each target. The move is
made or not, as the keys will have it (see `Trigger`), but the control has moved
on in both cases. `MoveByGhub` is one call of the recursive `IGHUB::move`, with an
order's bytes 8 bits wide (`Char`). `ghub_handle` holds what the
memory of the object held: no handle, or the number of a handle that the process
has for something else (`Strays`). Nothing sets it, and `Release` closes it. Numbers are whole: gains are tenths, and
fractions of pixels are cut off at once, where the code cuts them off at the end.

## 3. Runs

| Run | Question | Answer |
|---|---|---|
| `healthy` | nothing fails, the model fits, the class filter stays during an action, the mouse is SendInput: can starts, stops, keys and the other settings in any order do harm? | not in what is modelled: `NoFault`, `StopNotForgotten`, `ExitHonoured`, `RestartHonoured`, `KeepsPromise` |
| `failing` | any step, inference or move fails, in any run, models do not fit, filters change, any mouse: what still holds? | `LoopOwnsLiveObjects`, `Ownership`, `AbortsAreKnown`, `KeepsLives`, `ExitHonoured` (unless a message box stays open), `KeepsPromise` (the process may abort, but nothing else goes wrong before) |
| `release_uncreated` | does `Release` skip what was not created? (comment `Actuator.cpp:284`, tests `:289-298`) | no: indeterminate pointers |
| `missing_mouse` | is a mouse that cannot be created an ordinary error? (`lock_functional.cpp:292-294`) | no: `Functional::Release` calls through the null pointer |
| `start_swallowed` | does the start flag start the thread? (`sf-trt.h:65`) | not after a run that ended by itself |
| `selection` | what does the choice guarantee while flags change? | `SubscriptInBounds`, `AimsAtKeptBox`, `AimsAtWantedClass`, `AimsAtNearestInOrder` |
| `nearest` | is it the nearest? (`lock_functional.cpp:240`) | not if a box was suppressed or the order changed |
| `toggle` | is the subscript always in the table? (`:97`) | not if `category_filter` goes up during the scan |
| `trigger` | do clicks keep their distance, do held keys always click again? | yes: `ClicksAreSpaced`, `HeldKeysClick` |
| `inference` | what can be relied on once a model was accepted, how can a framework end the process, what does it lose? | `ReadyToDetect`, `FaultsAreKnown`, `DecodesThisFrame`, `LossesAreKnown`, `KeepsPromise`, `KeepsLife` |
| `decode` | what is collected while the threshold moves, and does any detector read beyond its output? | `CollectedIsJustified`, `NothingIsMissed`, `ReadsWithinOutput` |
| `aim` | do the orders add up, where do they lead the crosshair meanwhile, how does the lock object live, when does a move divide by zero, is the scope on the box, does the integral grow? | `OrdersAddUp`, `StaysNear`, `KeepsLife`, `FaultsAreKnown`, `InScopeIsOnBox`, `IntegralIsBounded` |

Every property of a passing run has a mutant in `PROJECT.json`: a version of a
modelled definition with a plausible bug that breaks it. The mutants stand in the
modules, named after the definition and the bug (`Stamp_AutoStart`), before the
definition they replace.

What the runs do **not** promise, although one might expect it:

- Clicks by different models of the trigger may follow each other at once, as the
  models use two clocks. A key that is let go and pressed again between two
  samples counts as held.
- A delayed click may come at once after the UI sets model 2: the delay runs on
  under the other models while the aim key is held.
- `FaultsAreKnown` and `AbortsAreKnown` tie each fault to the state it needs. They
  speak of the faults that are modelled; section 5 has what is not.
- The registration by shape of the TensorRT framework can serve no model without
  the names `images` and `output`, although the comment at `frame_trt.cpp` 221-223
  says that it is there for models with names of their own: only the pass that has
  found both names gives the table of buffers its entries (259), and the second one
  writes to it without. In `Inference` such a model ends with the fault `unsized`
  or at a failing call (`FaultsAreKnown`, `TrtComplete`). This disagreement of comment
  and code has no run of its own; the registration by shape is of use only when a named
  binding was refused.
- `KeepsPromise` of `Inference` says that all its members point to is given back.
  What they no longer point to, because it was replaced, is for `LossesAreKnown`.
- A failed run of DirectML shows the result of an earlier frame
  (`DecodesThisFrame` excuses it), and the first one of all ends the process. When
  no tensor could be made for the frame, the run reads the picture of an earlier
  one, which is gone: the model has both outcomes, garbage and `dangling`. DirectML loses one input tensor per frame.
- `dims_error` ensures that there are more boxes than attributes, or the other way
  round, and nothing else. `ReadsWithinOutput` is about models that `Fits`: at least
  five attributes, and for YOLOX a box for each anchor. The others are in the runs
  and are read beyond.
- GHUB's `close` may close a handle of somebody else (`"handle"`), on a lock that
  initialised well. Only SendInput is always released without harm.
- Every detector may collect a box by a threshold that is no longer set, and drop
  one that is above the present one.
- `IGHUB::move` tests the wrong axis: moves of which y takes more pieces of 127
  pixels than x do not add up, and those of which y is used up exactly while x is
  not divide by zero. `FaultsAreKnown` and `OrdersAddUp` draw the line. Those that
  add up do so with y running past its aim and back (`StaysNear` says how far).
- The integral is bounded only for gains below one.

### Bounds

**Actuator** has no bound, its state is finite: any number of starts,
stops and failures. The instances differ in what may fail and in what the UI
selects: 0 and 1 of `frame_type` are the two frameworks, other values behave like
1; 0, 1, 2 of `mousec_type` are the three mice, other values like 2. `healthy` has
2 and 3: the two mice left out there are the ones that can do harm by themselves.

**TargetSelection**: up to three boxes, two distances, and three classes of which
one (4) has no flag. Two boxes are enough to confuse positions with numbers; with
three, a box can be suppressed while the other two change places.

**Trigger**: a shortest delay of one tick and a longest of two, so that a tick may
be missing, just enough or too much; two keys, of which either may be set for
aiming and for firing; the three models and one that the code does not know.

**Inference** (`MCInference`): models of two nodes, or three of which the third
has a custom name, and the three detectors. Inputs: an image with one anchor, one
with 21, one that is not square, two images at once (larger than the picture), and
shapes of one dimension and of none. Outputs: boxes with attributes, boxes with too
few of them, fewer boxes than anchors, attributes of boxes, as many of both, and
shapes of two dimensions and of none. So every test of a shape passes and fails in
either pass, and every subscript without a test is in bounds or not. With
a third binding there is one that is registered after the two that count. Any number of frames.

**Decode** (`MCDecode`): nine models with too few attributes, or with no, one or
two classes, of which one row at the beginning and one near the end have scores of
0, 1/2 or 1; the others are zero. The threshold is 0, 1/4 or 3/4, so that each score
and each product of two lies below, between or above. One YOLOX model has fewer
anchors than boxes, one has more, and one has too few attributes. Any number of frames, since `process` is reused.

**Aim** (`MCAim`): boxes around distances of one, two and three pieces of 127
pixels, one that is out of reach and a large one that the crosshair may be on or
beside; two aim positions, two scopes, gains below one, two limits of a move, one of which
limits nothing. Any number of targets: the integral and the last deviation take
finitely many values.

### Fairness

`Actuator` assumes weak fairness of the supervisor's and of the worker's steps: two
threads of a preemptive operating system, neither of which waits for anything
but the join (whose guard is in the model) and the message box. Nothing is assumed of
the UI, of the keys and of who should dismiss a box: liveness properties
excuse an open one. The library calls behind `ParseTrt`, `SetDxgi` or `Capture`
are assumed to return. `Inference` assumes weak fairness of the worker in the same
sense, and nothing of the user at a message box nor of the supervisor. `Trigger`
assumes weak fairness of the worker and of time. That frames keep coming is in the
first of the two: the step from a finished action to the next one is the worker's, and
the grabber between them, which may have no new picture, is left out. A screen
on which nothing changes is therefore outside of what `HeldKeysClick` says; its premise
`Ready` is about the keys, the settings and the target. `TargetSelection`, `Decode` and `Aim`
have no liveness: they are parts of one turn of the worker's loop, whose
progress is the Actuator's.

Deadlock is checked except in `inference` and `aim`, where the life of the object
ends with its release or with the process, and in `decode`, where a read beyond
the output ends the model. In `Actuator` the UI can always step, and the progress
of the two threads is what the liveness properties are about.

## 4. Proofs

Assumptions on the constants are the named `ASSUME`s of each module; TLC
evaluates them in each run.

**ActuatorProofs.** For any `CanFail` and any values the UI writes.
`TypeCorrect`; `OwnershipInvariant`; `LoopIsSafe`; `StopIsRemembered`;
`SafeWhenNothingFails`; `NoOtherAbort`; `LivesAreKept`; `ImplementsService`.
The pointers alone do not say whether a release is safe, since `freed` and `live`
look alike to the code: the inductive invariant `Ownership` therefore says for
each step of the worker which objects are held, and that there is a thread
exactly while the handle is joinable. From it follow `LoopOwnsLiveObjects` (all
four were created by this run) and, with the strengthening
`HealthyUnlessFailing` (where nothing fails no pointer is used before it was
assigned), `NoFault`: `SafeWhenNothingFails` has as its premises that `CanFail` is
empty, thus also that models fit and filters stay, and that the UI chooses neither GHUB
nor EasyKeyMouse. `StopNotForgotten` needs `HandleMatchesThread`: `start` resets
the flag only when there is no thread. `NoOtherAbort` needs to know where a pointer can still be `wild` or `freed`, or
an object `broken` (`AbortInv`): only from the failure that left it so to its release.
With that, `LivesAreKept` takes each step of the worker to a step, or none, of
each of the four lives, and `ImplementsService` to a step of `Service` or a stutter.

**TargetSelectionProofs.** For frames of any size. The inductive invariant
`SelectionInv` relates the two vectors that the scan fills: equal lengths while
the flag is steady (`ScanInStep`), only wanted classes in the table
(`TableIsWanted`), distances of the boxes in the table when candidates are in order
(`DistancesMatch`). `FirstMinInTable` draws the consequence for the choice.

**TriggerProofs.** For any keys, delays, random times and models. `AgesInStep`:
the program knows the time since a click by the age of the clock it stamps, except
between the click and the stamp. `ClickIsDue`: the clock was old enough, and time does not run back.

**InferenceProofs.** For models of any number of nodes with any dimensions.
`FrameTypeCorrect`; `FrameInvariant`; `ReadyFrameIsComplete`; `OnlyKnownFaults`;
`CurrentFrameDecoded`; `OnlyKnownLosses`; `FrameLifeIsKept`; `FrameImplementsService`. That a model is complete when it is ready says nothing
about how it got there, so the inductive invariant `FrameInv` says it for every
step: which members are held, that the table has its entries only if both names
exist, that during a pass the entries of all bindings already visited are
filled and the roles found so far have their dimensions noted from the very
binding whose index is kept. The second pass starts from what a refused first one
left; the invariant holds because the dimensions and indices it needs are
required to be found again before it ends.

**DecodeProofs.** For outputs of any size, any number of classes and any
thresholds, for each of the three detectors, and for all models that `dims_error` lets
pass (`NetsAssumption` has no other bound than its comparison). `DecodeTypeCorrect`; `NoReadBeyond`;
`OnlyJustifiedCollected`; `NothingAboveMissed`; and, as a consequence of the
last two that the runs do not check on its own, `SteadyThreshold`: a threshold
that stays put is a filter, nothing more and nothing less.
`DecodeInv` has these properties for the rows visited so far: each entry of the
lists belongs to a row visited, and each visited row above `highest` has an entry.
YOLOv5 and YOLOv8 take the first class of the best score; that there is one in a row of
any length is proved without induction over data, from the least-number
principle (`LeastNumber`), which is the well-foundedness of the natural numbers
(`NatIsWellFounded`, `WFMin`): the best score is the least number no class exceeds,
and the first class is the least that has it (`BestClassIsBest`).

**AimProofs.** For any boxes, positions, scales, gains and limits.
`AimTypeCorrect`; `OnlyKnownAimFaults`; `OrdersDoAddUp`; `CrosshairStaysNear`;
`LockLifeIsKept`; `ScopeIsOnBox`; `IntegralStaysBounded`. The inductive invariant `AimInv` keeps, while the pieces
of a move are on their way, that what is sent and what is left add up to what was
asked, with no more pieces of y left than of x (`AddsUp`), and that y is cut by whole pieces,
in step with x if it consists of nothing else (`OnItsWay`), from which follows when y can be used
up first. `PiecesAreNear` adds the direction: along x the sent part and the rest
have the same, along y the rest is short, and a piece of it leaves it short. The
life of the lock needs that no failed step of `initLock` leaves a control behind
(`ControlComesLast`). The bound of
the integral is inductive by itself, one case per gain, as the tenths cut off
never increase it. The scope lies on the box by the geometry of either axis
(two lemmas on products).

Only model-checked: all liveness (`ExitHonoured`, `RestartHonoured`,
`HeldKeysClick`, the fairness of `Service` in `KeepsPromise`), since liveness under
fairness is out of the prover's reach. Every invariant, and the safety part of
every other property, that a passing run checks is proved.

## 5. Not modelled

- Of the 41 810 lines that count as implementation, about 38 400 are vendored
  headers (`include/`, `spdlog/`): third-party code that the program only calls. The
  program's own code in `src/src/` has 3 400 lines, comments and declarations
  included, and all of its components that keep state or take decisions are
  modelled. The rest is text (`IState`, log messages), windows and drawing.
- What a foreign handle in `ghub_handle` makes of the orders sent to it, and what
  becomes of the rest of the process when it was closed. The press and the release
  of a click are one step.
- Element types other than float, dimensions that are dynamic (negative) or zero, and
  thresholds below zero.
- Where a box lies in the output tensor and in which order the tensor is stored:
  a box is the number of its row. Fractions of pixels and scores.
- The strings in shared memory, and torn reads of its words (each field is an
  aligned word or a byte).
- The UI (an archive with another project), the DXGI library, vendored code.
- A system clock that is set while the program runs.

## 6. What is left

1. A composition of one frame through `Inference`, `Decode`, `TargetSelection`,
   `Aim` and `Trigger`, with `process` shared. The parts meet at plain
   values (a set of subscripts, a box, a flag), so that each was
   modelled with the values its predecessor may hand over left free; the composition would
   remove states, and add none.
2. Press and release of a click as two steps with a stop in between.
