------------------------------ MODULE FrameBase ------------------------------
(***************************************************************************)
(* What the two inference frameworks share: the members of class Frame,    *)
(* the dimensions they hand to the detector (class YOLO) and the way their *)
(* objects are counted.  FrameTrt and FrameDml add their operations,       *)
(* Inference chooses between the two and drives them like the Actuator.    *)
(*                                                                         *)
(* A model is the sequence of its nodes (bindings): their names and their  *)
(* dimensions.  The nodes are numbered from 1, and 0 stands for no node.   *)
(*                                                                         *)
(* Backend calls (ONNX Runtime, TensorRT, CUDA) may fail whenever they are *)
(* made.  The elements of every node are floats, and no dimension is       *)
(* dynamic (negative) or zero.                                             *)
(***************************************************************************)
EXTENDS Naturals, Sequences

CONSTANTS
  Models,    \* the models that the file may hold
  YoloTypes  \* the detectors the UI chooses from: 1 YOLOv5, 2 YOLOv8, 3 YOLOX

Names == {"images", "output", "custom"}

ASSUME ModelsAssumption ==
  /\ Models \subseteq Seq([name : Names, dims : Seq(Nat \ {0})]) \ {<<>>}
  /\ \A m \in Models : \A n, k \in DOMAIN m :
       (m[n].name = m[k].name /\ m[n].name # "custom") => n = k

ASSUME YoloTypesAssumption == YoloTypes \subseteq 1 .. 3

VARIABLES
  frame_type,     \* the framework: "trt" or "dml"
  yolo_type,      \* the detector
  model,          \* what the engine or session was made of, <<>> before
  pc,             \* the worker's next step
  dialog,         \* markError's message box is open
  stop,           \* Actuator's m_exit_signal
  held,           \* the members that point to something
  lost,           \* those that pointed to something else that was not released
  m_input_dims,   \* the detector's idea of the input, <<>> before
  m_output_dims,  \* and of the output
  data,           \* of which frame the input, the device and the output are
  failed,         \* history: a backend call failed in this frame
  fault           \* the undefined behaviour or escaped exception, or "none"

chosen == <<frame_type, yolo_type>>
owned  == <<held, lost>>
dims   == <<m_input_dims, m_output_dims>>
frame  == <<data, failed>>

\* Where the data of a frame passes through.
Places == {"input", "device", "output"}

\* How old data is: of the current frame, of an earlier one, of none at all.
Ages == {"new", "old", "garbage"}

Nodes == DOMAIN model

\* The node of that name: getBindingIndex, or the strcmp loops over the names.
Named(name) ==
  IF \E n \in Nodes : model[n].name = name
  THEN CHOOSE n \in Nodes : model[n].name = name
  ELSE 0

\* Subscript k of the dimensions, from 0.  Beyond the last, those of TensorRT are
\* zero; a vector has none, and whoever subscripts one must look at Len first.
Dim(d, k) == IF k < Len(d) THEN d[k + 1] ELSE 0

\* How many subscripts of the input, and of the output, are used.
InputRank  == 4
OutputRank == 3

\* The image must be a square.
Oblong(d) == Dim(d, 2) # Dim(d, 3)

\* YOLO::dims_error: boxes first, then their attributes; YOLOV8 overrides it,
\* its attributes come first.
DimsError(d) ==
  IF yolo_type = 2 THEN ~(Dim(d, 1) < Dim(d, 2)) ELSE ~(Dim(d, 1) > Dim(d, 2))

\* The product of all dimensions.
Volume(d) ==
  LET product[k \in 0 .. Len(d)] == IF k = 0 THEN 1 ELSE product[k - 1] * d[k]
  IN product[Len(d)]

\* The input tensor has more elements than a picture of three channels.
Oversized(d) == Volume(d) > 3 * Dim(d, 2) * Dim(d, 3)

\* YOLOX::generate_grids_and_stride: the cells of three grids over the image.
Anchors ==
  LET cells(stride) == (Dim(m_input_dims, 2) \div stride) * (Dim(m_input_dims, 3) \div stride)
  IN cells(8) + cells(16) + cells(32)

\* DecodeOutput reads nothing but the output: a score in the last row it visits,
\* after four coordinates, where YOLOX visits one row per anchor.  dims_error looks
\* at neither.  (Decode follows the rows, see ReadsWithinOutput.)
Readable ==
  /\ Len(m_output_dims) >= OutputRank
  /\ LET boxes == Dim(m_output_dims, 1)  attributes == Dim(m_output_dims, 2) IN
     CASE yolo_type = 1 -> attributes >= 5
       [] yolo_type = 2 -> boxes >= 5     \* they are the other way round
       [] yolo_type = 3 ->
            Anchors > 0 => /\ Anchors <= boxes
                           /\ Anchors * attributes + 4 < (boxes + 1) * attributes

Init ==
  /\ frame_type \in {"trt", "dml"}
  /\ yolo_type \in YoloTypes
  /\ model = <<>>
  /\ dialog = FALSE
  /\ stop = FALSE
  /\ held = {} /\ lost = {}
  /\ m_input_dims = <<>> /\ m_output_dims = <<>>
  /\ data = [p \in Places |-> "garbage"]
  /\ failed = FALSE
  /\ fault = "none"

-----------------------------------------------------------------------------

\* The worker is at that step and nothing keeps it from going on.
At(step) == pc = step /\ ~dialog /\ fault = "none"

\* markError opens a modal box, and the function it is called by returns.
MarkError == dialog' = TRUE

\* A member is made to point to something new.  What it pointed to is lost.
Acquire(r) ==
  /\ held' = held \union {r}
  /\ lost' = lost \union ({r} \intersect held)

\* A backend object is created and the initialisation goes on, or the call
\* fails and the initialisation with it.
Create(r, next) ==
  /\ \/ Acquire(r) /\ pc' = next
     \/ pc' = "failed" /\ UNCHANGED owned
  /\ UNCHANGED <<chosen, stop, dims, frame, fault>>

\* Something that would use an object or an element that is not there.
Crash(what) == fault' = what /\ UNCHANGED pc

\* A frame begins: what was new is of an earlier frame from now on.
Aged(age) == IF age = "new" THEN "old" ELSE age
=============================================================================
