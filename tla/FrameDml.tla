------------------------------- MODULE FrameDml -------------------------------
(***************************************************************************)
(* The DirectML framework, frame_dml.cpp.  All its members are null until  *)
(* they are created, and Release skips those that are null.                *)
(***************************************************************************)
EXTENDS FrameBase

\* The members that Release releases.
DmlMembers == {"m_env", "m_session_options", "m_session", "m_memory_info",
               "m_input_tensors", "m_output_tensors"}

-----------------------------------------------------------------------------
(* AnalyticalModel.                                                        *)

CreateEnv ==
  /\ At("env")
  /\ Create("m_env", "options")
  /\ UNCHANGED <<model, dialog>>

\* The options are created, or not, or created but refuse a setting.
CreateSessionOptions ==
  /\ At("options")
  /\ \/ Create("m_session_options", "session")
     \/ /\ Acquire("m_session_options")
        /\ pc' = "failed"
        /\ UNCHANGED <<chosen, stop, dims, frame, fault>>
  /\ UNCHANGED <<model, dialog>>

CreateSession ==
  /\ At("session")
  /\ Create("m_session", "parse_input")
  /\ IF pc' = "failed" THEN UNCHANGED model ELSE model' \in Models
  /\ UNCHANGED dialog

\* The shape of a node has too few dimensions for the subscripts that look at it.
TooShort(name, d) == Len(d) < IF name = "images" THEN InputRank ELSE OutputRank

\* The shape of a node is refused.
Unfit(name, d) == IF name = "images" THEN Oblong(d) ELSE DimsError(d)

\* Both parse functions: the name is not found, a call fails or there are no
\* dimensions; there are fewer than the subscripts that follow; the shape is
\* refused; or the dimensions are noted.
Parse(name, next) ==
  LET n == Named(name)  d == model[n].dims IN
  /\ \/ pc' = "failed" /\ UNCHANGED <<dialog, dims, fault>>
     \/ n # 0 /\ d # <<>> /\ TooShort(name, d) /\ Crash("bounds") /\ UNCHANGED <<dialog, dims>>
     \/ /\ n # 0 /\ ~TooShort(name, d) /\ Unfit(name, d)
        /\ MarkError /\ pc' = "failed"
        /\ UNCHANGED <<dims, fault>>
     \/ /\ n # 0 /\ ~TooShort(name, d) /\ ~Unfit(name, d)
        /\ \/ name = "images" /\ m_input_dims' = d /\ UNCHANGED m_output_dims
           \/ name = "output" /\ m_output_dims' = d /\ UNCHANGED m_input_dims
        /\ pc' = next
        /\ UNCHANGED <<dialog, fault>>
  /\ UNCHANGED <<chosen, model, stop, owned, frame>>

ParseInput  == At("parse_input") /\ Parse("images", "parse_output")
ParseOutput == At("parse_output") /\ Parse("output", "tensor")

\* An empty tensor of another element type than the one Detect will put here.
CreateTensor ==
  /\ At("tensor")
  /\ Create("m_input_tensors", "memory_info")
  /\ UNCHANGED <<model, dialog>>

CreateMemoryInfo ==
  /\ At("memory_info")
  /\ Create("m_memory_info", "ready")
  /\ UNCHANGED <<model, dialog>>

-----------------------------------------------------------------------------
(* Detect and Release.                                                     *)

\* The tensor of this frame, or the one of an earlier frame if it is not made.
Tensor(done) == IF "tensor" \in done THEN "new" ELSE data["input"]

\* What a run makes of its input.  An old tensor lies over the picture of its
\* frame, which is gone with the frame.
Result(tensor) == IF tensor = "new" THEN "new" ELSE "garbage"

\* A run reads memory that is not the picture of this frame: the tensor is larger
\* than the picture, or lies over one that is gone, which may do no harm.
Misread(tensor) ==
  \/ tensor = "new" /\ Oversized(m_input_dims) /\ fault' = "bounds"
  \/ tensor = "old" /\ fault' = "dangling"

\* Mutated form: the output of the frame before is released first, so that a
\* failing run has nothing to fall back to; it is not looked at, either.
InferDml_ReleasesFirst ==
  /\ At("infer") /\ frame_type = "dml"
  /\ \E done \in SUBSET {"tensor", "run"} :
       LET tensor == Tensor(done) IN
       /\ IF "tensor" \in done
          THEN lost' = lost \union {"m_input_tensors"}
          ELSE UNCHANGED lost
       /\ \/ /\ "run" \in done
             /\ data' = [data EXCEPT !["input"] = tensor, !["output"] = Result(tensor)]
             /\ held' = held \union {"m_output_tensors"}
             /\ pc' = "decode"
             /\ UNCHANGED fault
          \/ /\ "run" \notin done
             /\ fault' = "null"
             /\ held' = held \ {"m_output_tensors"}
             /\ UNCHANGED <<data, pc>>
       /\ failed' = ({"tensor", "run"} # done)
  /\ UNCHANGED <<chosen, model, dialog, stop, dims>>

\* Each frame puts a new tensor over the member that holds the previous one.  A
\* run that fails leaves the output of an earlier frame, if there is one: a
\* null output is read all the same.
InferDml ==
  /\ At("infer") /\ frame_type = "dml"
  /\ \E done \in SUBSET {"tensor", "run"} :
       LET tensor == Tensor(done) IN
       /\ \/ "tensor" \in done /\ lost' = lost \union {"m_input_tensors"}
          \/ "tensor" \notin done /\ UNCHANGED lost
       /\ \/ /\ "run" \in done
             /\ ~(tensor = "new" /\ Oversized(m_input_dims))
             /\ data' = [data EXCEPT !["input"] = tensor, !["output"] = Result(tensor)]
             /\ held' = held \union {"m_output_tensors"}
             /\ pc' = "decode"
             /\ UNCHANGED fault
          \/ /\ "run" \in done
             /\ Misread(tensor)
             /\ data' = [data EXCEPT !["input"] = tensor]
             /\ UNCHANGED <<held, pc>>
          \/ /\ "run" \notin done
             /\ data' = [data EXCEPT !["input"] = tensor]
             /\ \/ "m_output_tensors" \in held /\ pc' = "decode" /\ UNCHANGED fault
                \/ "m_output_tensors" \notin held /\ fault' = "null" /\ UNCHANGED pc
             /\ UNCHANGED held
       /\ failed' = ({"tensor", "run"} # done)
  /\ UNCHANGED <<chosen, model, dialog, stop, dims>>

ReleaseDml ==
  /\ At("release") /\ frame_type = "dml"
  /\ held' = held \ DmlMembers
  /\ pc' = "released"
  /\ UNCHANGED <<chosen, model, dialog, stop, lost, dims, frame, fault>>

ParseDml ==
  \/ CreateEnv \/ CreateSessionOptions \/ CreateSession
  \/ ParseInput \/ ParseOutput \/ CreateTensor \/ CreateMemoryInfo
=============================================================================
