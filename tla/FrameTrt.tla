------------------------------- MODULE FrameTrt -------------------------------
(***************************************************************************)
(* The TensorRT framework, frame_trt.cpp.                                  *)
(*                                                                         *)
(* The nodes of the model are the bindings of the engine.  Each needs a    *)
(* buffer on the device, kept in gpu_buffers under its number.  They are   *)
(* registered by name (parseModelInfo) and, when that gives up, once more  *)
(* by shape (parseModelInfoEx).                                            *)
(***************************************************************************)
EXTENDS FrameBase

VARIABLES
  gpu_buffers, \* the bindings whose entry points to a buffer
  sized,       \* gpu_buffers has an entry for every binding
  i,           \* the loop counter of the pass over the bindings
  found,       \* locals in and out of parseModelInfoEx, as a set
  input_idx, output_idx

idx  == <<input_idx, output_idx>>
pass == <<gpu_buffers, sized, i, found, idx>>

\* The members that Release releases, but for the table of buffers.
Members == {"char_stream", "m_runtime", "m_engine", "m_context", "m_stream",
            "input_memory", "output_memory"}

InitTrt ==
  /\ gpu_buffers = {}
  /\ sized = FALSE
  /\ i = 1
  /\ found = {}
  /\ input_idx = 0 /\ output_idx = 0

-----------------------------------------------------------------------------
(* AnalyticalModel.                                                        *)

\* loadSerializedFile: a file that cannot be read or is empty is an error.
LoadSerializedFile ==
  /\ At("load")
  /\ Create("char_stream", "runtime")
  /\ dialog' = (pc' = "failed")
  /\ UNCHANGED <<model, pass>>

CreateRuntime ==
  /\ At("runtime")
  /\ Create("m_runtime", "engine")
  /\ dialog' = (pc' = "failed")
  /\ UNCHANGED <<model, pass>>

DeserializeEngine ==
  /\ At("engine")
  /\ Create("m_engine", "context")
  /\ dialog' = (pc' = "failed")
  /\ IF pc' = "failed" THEN UNCHANGED model ELSE model' \in Models
  /\ UNCHANGED pass

CreateContext ==
  /\ At("context")
  /\ Create("m_context", "stream")
  /\ dialog' = (pc' = "failed")
  /\ UNCHANGED <<model, pass>>

\* The bytes of the file are not needed any more.
CreateStream ==
  /\ At("stream")
  /\ \/ held' = (held \ {"char_stream"}) \union {"m_stream"} /\ pc' = "names"
     \/ held' = held \ {"char_stream"} /\ pc' = "failed"
  /\ UNCHANGED <<chosen, model, dialog, stop, lost, dims, frame, fault, pass>>

\* parseModelInfo looks for the two names; only when it finds both does it give
\* the table of buffers its entries.
FindNames ==
  /\ At("names")
  /\ input_idx' = Named("images")
  /\ output_idx' = Named("output")
  /\ \/ 0 \in {input_idx', output_idx'} /\ MarkError /\ pc' = "shaped" /\ UNCHANGED sized
     \/ /\ 0 \notin {input_idx', output_idx'}
        /\ sized' = TRUE
        /\ pc' = "named"
        /\ UNCHANGED dialog
  /\ UNCHANGED <<chosen, model, stop, owned, dims, frame, fault, gpu_buffers, i, found>>

NamedRole(n) ==
  CASE n = input_idx                      -> "in"
    [] n = output_idx /\ n # input_idx    -> "out"
    [] OTHER                              -> "unused"

ShapedRole(d) ==
  CASE Len(d) = 4 /\ Dim(d, 1) = 3 /\ ~Oblong(d)              -> "in"
    [] Len(d) = 3 /\ Dim(d, 0) = 1 /\ Dim(d, 1) # Dim(d, 2)   -> "out"
    [] OTHER                                                  -> "unused"

Role(n) == IF pc = "named" THEN NamedRole(n) ELSE ShapedRole(model[n].dims)

\* registerInput and registerOutput refuse a shape.
Refused(role, d) ==
  \/ role = "in" /\ Oblong(d)
  \/ role = "out" /\ DimsError(d)

\* Mutated form: registration by name is tried again.
GiveUp_TriesAgain ==
  /\ pc' = IF pc = "named" THEN "named" ELSE "failed"
  /\ i' = 1
  /\ found' = {}

\* Registration by name gives way to registration by shape, which is the last.
GiveUp ==
  /\ pc' = IF pc = "named" THEN "shaped" ELSE "failed"
  /\ i' = 1
  /\ found' = {}

\* A buffer the entry pointed to before is lost.
Allocate(n, role) ==
  /\ gpu_buffers' = gpu_buffers \union {n}
  /\ lost' = IF n \in gpu_buffers THEN lost \union {"gpu_buffers"} ELSE lost
  /\ i' = i + 1
  /\ found' = found \union {role}

\* One turn of the loop of either pass: the binding is refused, or is an input
\* without dimensions, or its dimensions are noted and cudaMalloc fills in its
\* entry or fails.  An entry that is not there is written all the same, or
\* cudaMalloc refuses its address.
RegisterBinding ==
  /\ At("named") \/ At("shaped")
  /\ i \in Nodes
  /\ LET role == Role(i)  d == model[i].dims IN
     /\ input_idx' = IF role = "in" THEN i ELSE input_idx
     /\ output_idx' = IF role = "out" THEN i ELSE output_idx
     /\ \/ Refused(role, d) /\ MarkError /\ GiveUp /\ UNCHANGED <<lost, gpu_buffers, dims, fault>>
        \/ role = "in" /\ d = <<>> /\ GiveUp /\ UNCHANGED <<lost, gpu_buffers, dialog, dims, fault>>
        \/ /\ ~Refused(role, d)
           /\ ~(role = "in" /\ d = <<>>)
           /\ m_input_dims' = IF role = "in" THEN d ELSE m_input_dims
           /\ m_output_dims' = IF role = "out" THEN d ELSE m_output_dims
           /\ \/ ~sized /\ Crash("unsized") /\ UNCHANGED <<lost, gpu_buffers, i, found>>
              \/ sized /\ Allocate(i, role) /\ UNCHANGED <<pc, fault>>
              \/ GiveUp /\ UNCHANGED <<lost, gpu_buffers, fault>>
           /\ UNCHANGED dialog
  /\ UNCHANGED <<chosen, model, stop, held, frame, sized>>

\* Mutated form: || for &&.
EndPass_EitherFound ==
  /\ At("named") \/ At("shaped")
  /\ i \notin Nodes
  /\ pc' = IF pc = "named" \/ {"in", "out"} \intersect found # {} THEN "host" ELSE "failed"
  /\ UNCHANGED <<chosen, model, dialog, stop, owned, dims, frame, fault, pass>>

\* Registration by shape must have found both.
EndPass ==
  /\ At("named") \/ At("shaped")
  /\ i \notin Nodes
  /\ pc' = IF pc = "named" \/ {"in", "out"} \subseteq found THEN "host" ELSE "failed"
  /\ UNCHANGED <<chosen, model, dialog, stop, owned, dims, frame, fault, pass>>

AllocateHost ==
  /\ At("host")
  /\ held' = held \union {"input_memory", "output_memory"}
  /\ pc' = "ready"
  /\ UNCHANGED <<chosen, model, dialog, stop, lost, dims, frame, fault, pass>>

-----------------------------------------------------------------------------
(* Detect and Release.                                                     *)

\* Mutated form: the results are read while the device may not have written them.
InferTrt_NoSync ==
  /\ At("infer") /\ frame_type = "trt"
  /\ data' \in {[data EXCEPT !["input"] = "new", !["device"] = "new", !["output"] = age] :
                 age \in {"new", data["output"]}}
  /\ pc' = "decode"
  /\ UNCHANGED <<chosen, model, dialog, stop, owned, dims, failed, fault, pass>>

\* imageToBlob and InferEnqueue: a copy or the inference that fails is logged
\* at most, and leaves its target as it is.
InferTrt ==
  /\ At("infer") /\ frame_type = "trt"
  /\ \E done \in SUBSET {"upload", "enqueue", "download"} :
       LET device == IF "upload" \in done THEN "new" ELSE data["input"]
           result == IF "enqueue" \in done THEN device ELSE data["device"]
       IN
       /\ data' = [input |-> device, device |-> result,
                   output |-> IF "download" \in done THEN result ELSE data["output"]]
       /\ failed' = ({"upload", "enqueue", "download"} # done)
  /\ pc' = "decode"
  /\ UNCHANGED <<chosen, model, dialog, stop, owned, dims, fault, pass>>

\* Mutated form: only the two buffers that inference uses are freed.
ReleaseTrt_TwoBuffers ==
  /\ At("release") /\ frame_type = "trt"
  /\ \/ "m_engine" \notin held /\ Crash("null") /\ UNCHANGED <<held, gpu_buffers>>
     \/ /\ "m_engine" \in held /\ ~sized
        /\ Crash("range") /\ UNCHANGED <<held, gpu_buffers>>
     \/ /\ "m_engine" \in held /\ sized
        /\ held' = held \ Members
        /\ gpu_buffers' = gpu_buffers \ {input_idx, output_idx}
        /\ pc' = "released"
        /\ UNCHANGED fault
  /\ UNCHANGED <<chosen, model, dialog, stop, lost, dims, frame, sized, i, found, idx>>

\* Mutated form: the engine goes before the loop that asks it for its bindings.
ReleaseTrt_EngineFirst ==
  /\ At("release") /\ frame_type = "trt"
  /\ held' = held \ {"m_engine"}
  /\ Crash("null")
  /\ UNCHANGED <<gpu_buffers, chosen, model, dialog, stop, lost, dims, frame, sized, i, found, idx>>

\* The loop over the bindings needs the engine, and the table its entries:
\* vector::at throws.  A model has at least one binding.
ReleaseTrt ==
  /\ At("release") /\ frame_type = "trt"
  /\ \/ "m_engine" \notin held /\ Crash("null") /\ UNCHANGED <<held, gpu_buffers>>
     \/ /\ "m_engine" \in held /\ ~sized
        /\ Crash("range") /\ UNCHANGED <<held, gpu_buffers>>
     \/ /\ "m_engine" \in held /\ sized
        /\ held' = held \ Members
        /\ gpu_buffers' = {}
        /\ pc' = "released"
        /\ UNCHANGED fault
  /\ UNCHANGED <<chosen, model, dialog, stop, lost, dims, frame, sized, i, found, idx>>

ParseTrt ==
  \/ LoadSerializedFile \/ CreateRuntime \/ DeserializeEngine \/ CreateContext
  \/ CreateStream \/ FindNames \/ RegisterBinding \/ EndPass \/ AllocateHost
=============================================================================
