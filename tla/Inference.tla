------------------------------ MODULE Inference ------------------------------
(***************************************************************************)
(* One frame object from its creation to its release: createFrameObject    *)
(* chooses TensorRT or DirectML, and the worker of the Actuator has it     *)
(* read the model, detect in frame after frame until it is told to stop,   *)
(* and releases it.                                                        *)
(***************************************************************************)
EXTENDS FrameTrt, FrameDml

vars == <<frame_type, yolo_type, model, pc, dialog, stop, held, lost,
          m_input_dims, m_output_dims, data, failed, fault,
          gpu_buffers, sized, i, found, input_idx, output_idx>>

TrtSteps == {"load", "runtime", "engine", "context", "stream", "names", "named", "shaped", "host"}
DmlSteps == {"env", "options", "session", "parse_input", "parse_output", "tensor", "memory_info"}
LoopSteps == {"loop", "infer", "decode"}
Steps == {"create", "ready", "failed", "release", "released"}
           \union TrtSteps \union DmlSteps \union LoopSteps

TypeOK ==
  /\ frame_type \in {"trt", "dml"} /\ yolo_type \in YoloTypes
  /\ model \in Models \union {<<>>}
  /\ pc \in Steps
  /\ pc \in TrtSteps => frame_type = "trt"
  /\ pc \in DmlSteps => frame_type = "dml"
  /\ dialog \in BOOLEAN /\ stop \in BOOLEAN
  /\ held \subseteq IF frame_type = "trt" THEN Members ELSE DmlMembers
  /\ lost \subseteq {"gpu_buffers", "m_input_tensors"}
  /\ gpu_buffers \subseteq Nodes
  /\ m_input_dims \in Seq(Nat \ {0}) /\ m_output_dims \in Seq(Nat \ {0})
  /\ data \in [Places -> Ages]
  /\ failed \in BOOLEAN
  /\ fault \in {"none", "null", "range", "unsized", "bounds", "dangling"}
  /\ sized \in BOOLEAN
  /\ i \in 1 .. Len(model) + 1
  /\ found \subseteq {"in", "out", "unused"}
  /\ input_idx \in Nodes \union {0} /\ output_idx \in Nodes \union {0}

InitFrame == Init /\ InitTrt /\ pc = "create"

-----------------------------------------------------------------------------
(* The worker, and those it works for.                                     *)

\* Mutated form: the two frameworks are swapped.
CreateFrameObject_Swapped ==
  /\ At("create")
  /\ pc' = IF frame_type = "trt" THEN "env" ELSE "load"
  /\ UNCHANGED <<chosen, model, dialog, stop, owned, dims, frame, fault, pass>>

CreateFrameObject ==
  /\ At("create")
  /\ pc' = IF frame_type = "trt" THEN "load" ELSE "env"
  /\ UNCHANGED <<chosen, model, dialog, stop, owned, dims, frame, fault, pass>>

\* The initialisation goes on to the screen grabber, which is told the size of the
\* image (getImageSize subscripts the dimensions), and the lock object.  When one
\* of them fails, the frame is released without having been used.
GoOn ==
  /\ \/ /\ At("ready") /\ Len(m_input_dims) < InputRank
        /\ Crash("bounds")
     \/ /\ At("ready") /\ Len(m_input_dims) >= InputRank
        /\ pc' \in {"loop", "release"}
        /\ UNCHANGED fault
     \/ At("failed") /\ pc' = "release" /\ UNCHANGED fault
  /\ UNCHANGED <<chosen, model, dialog, stop, owned, dims, frame, pass>>

\* The while of Actuator::word, with a new picture.
BeginFrame ==
  /\ At("loop") /\ ~stop
  /\ data' = [p \in Places |-> Aged(data[p])]
  /\ failed' = FALSE
  /\ pc' = "infer"
  /\ UNCHANGED <<chosen, model, dialog, stop, owned, dims, fault, pass>>

LeaveLoop ==
  /\ At("loop") /\ stop
  /\ pc' = "release"
  /\ UNCHANGED <<chosen, model, dialog, stop, owned, dims, frame, fault, pass>>

\* The detector decodes what lies at the place of the output, and beyond it when
\* its shape is not what the detector takes it to be.
DecodeOutput ==
  /\ At("decode")
  /\ \/ Readable /\ pc' = "loop" /\ UNCHANGED fault
     \/ ~Readable /\ Crash("bounds")
  /\ UNCHANGED <<chosen, model, dialog, stop, owned, dims, frame, pass>>

\* Actuator::exit, called by the supervisor at any time.
Exit ==
  /\ pc # "create" /\ fault = "none"
  /\ stop' = TRUE
  /\ UNCHANGED <<chosen, model, pc, dialog, owned, dims, frame, fault, pass>>

\* The user dismisses the message box.
Dismiss ==
  /\ dialog
  /\ dialog' = FALSE
  /\ UNCHANGED <<chosen, model, pc, stop, owned, dims, frame, fault, pass>>

Worker ==
  \/ CreateFrameObject \/ GoOn \/ BeginFrame \/ LeaveLoop \/ DecodeOutput
  \/ ParseTrt \/ InferTrt \/ ReleaseTrt
  \/ (ParseDml \/ InferDml \/ ReleaseDml) /\ UNCHANGED pass

Next == Worker \/ Exit \/ Dismiss

\* The worker's thread is scheduled; nothing is assumed of the user in front of
\* a message box or of the supervisor.
Spec == InitFrame /\ [][Next]_vars /\ WF_vars(Worker)

-----------------------------------------------------------------------------
(* Properties.                                                             *)

\* What Detect uses is there and fits together.  TensorRT: every binding has
\* its buffer, and the detector was given the dimensions of the two bindings
\* that the copies use, which are different ones.
TrtComplete ==
  /\ Members \ {"char_stream"} \subseteq held
  /\ gpu_buffers = Nodes
  /\ {input_idx, output_idx} \subseteq Nodes
  /\ input_idx # output_idx
  /\ m_input_dims = model[input_idx].dims
  /\ m_output_dims = model[output_idx].dims

DmlComplete ==
  /\ DmlMembers \ {"m_output_tensors"} \subseteq held
  /\ \E n, k \in Nodes :
       /\ n # k
       /\ m_input_dims = model[n].dims
       /\ m_output_dims = model[k].dims

Complete ==
  /\ IF frame_type = "trt" THEN TrtComplete ELSE DmlComplete
  /\ ~Oblong(m_input_dims)
  /\ ~DimsError(m_output_dims)

\* When AnalyticalModel has returned true, by whichever of its two ways and
\* after whichever failures, Detect finds all it needs: a half registered pass
\* leaves no index, dimension or buffer behind that the other did not replace.
ReadyToDetect == pc \in LoopSteps \union {"ready"} => Complete

\* The shape of the model does not suit the step that the worker is at.  DirectML
\* checks nothing before its subscripts; TensorRT serves a model of fewer
\* dimensions until they are used; and no framework checks what the detector and
\* the picture need.
Misfit ==
  \/ /\ frame_type = "dml"
     /\ \/ pc = "parse_input" /\ TooShort("images", model[Named("images")].dims)
        \/ pc = "parse_output" /\ TooShort("output", model[Named("output")].dims)
        \/ pc = "infer" /\ Oversized(m_input_dims)
  \/ frame_type = "trt" /\ pc = "ready" /\ Len(m_input_dims) < InputRank
  \/ pc = "decode" /\ ~Readable

\* The ways in which a framework runs into undefined behaviour or ends the
\* process, and no other while the elements are floats and no dimension is
\* dynamic.  TensorRT uses its table of buffers before it has entries, or releases
\* itself without an engine or with such a table.  DirectML decodes a null output
\* when the run fails before any has succeeded, and runs over the picture of an
\* earlier frame when the tensor of this one is not made.  Either reads beyond a
\* vector or an array of a model whose shape does not suit.
FaultsAreKnown ==
  /\ fault = "null" /\ frame_type = "trt" => "m_engine" \notin held /\ pc = "release"
  /\ fault \in {"range", "unsized"} => frame_type = "trt" /\ ~sized
  /\ fault = "null" /\ frame_type = "dml" => failed /\ data["output"] = "garbage"
  /\ fault = "dangling" => frame_type = "dml" /\ pc = "infer" /\ failed /\ data["input"] = "old"
  /\ fault = "bounds" => Misfit

\* What is decoded is of the current frame, unless a backend call failed in this
\* very frame: a failure in an earlier frame leaves no trace.
DecodesThisFrame == pc = "decode" => failed \/ data["output"] = "new"

\* Nothing that a member points to is replaced unreleased, except the buffers of
\* a registration by name that was given up, by those of the registration by
\* shape, and DirectML's input tensor by that of the next frame.
LossesAreKnown ==
  [][lost' # lost => \/ pc = "shaped" /\ sized
                     \/ pc = "infer" /\ frame_type = "dml"]_vars

\* The frame keeps the promise of Service: it serves with all that Detect needs,
\* stops when it was told to, and has given back all its members point to when it
\* ends (what they no longer point to is the matter of LossesAreKnown).  Until its
\* message boxes are dismissed it is still about to begin.
Phase ==
  CASE fault # "none"                                    -> "aborted"
    [] fault = "none" /\ pc = "create"                    -> "idle"
    [] fault = "none" /\ pc \in LoopSteps                 -> "serving"
    [] fault = "none" /\ pc \in {"failed", "release"} /\ ~dialog -> "draining"
    [] fault = "none" /\ pc = "released"                  -> "ended"
    [] OTHER                                             -> "acquiring"

Lent ==
  IF \/ pc \in LoopSteps \union {"release"} /\ Complete
     \/ pc = "released" /\ held \union gpu_buffers # {}
  THEN {"frame"} ELSE {}

Promise == INSTANCE Service
  WITH Resources <- {"frame"}, MayAbort <- TRUE,
       phase <- Phase, held <- Lent, stop <- stop

KeepsPromise == Promise!Spec

\* Release works once there is an engine whose table has entries; DirectML's
\* always does.
Releasable == frame_type = "trt" => "m_engine" \in held /\ sized

LifePhase ==
  IF fault # "none" THEN "aborted"
  ELSE CASE pc \in {"create", "released"}                       -> "absent"
         [] pc \in LoopSteps                                   -> "usable"
         [] pc = "ready" /\ Releasable                         -> "usable"
         [] pc \in {"failed", "release"} /\ Releasable          -> "closing"
         [] pc \in {"ready", "failed", "release"} /\ ~Releasable -> "defunct"
         [] OTHER                                              -> "preparing"

Life == INSTANCE Component
  WITH phase <- LifePhase,
       AfterFailure <- {"closing", "defunct"}, Deaths <- {"preparing", "usable"}

\* The framework lives as its user expects (Actuator!Frame): once it was usable,
\* in whichever of its two ways it was prepared, its release works.
KeepsLife == Life!Spec
=============================================================================
