--------------------------- MODULE InferenceProofs ---------------------------
(***************************************************************************)
(* Proofs about Inference, for models of any number of nodes with any      *)
(* names and dimensions, and for any failures of the backend.              *)
(***************************************************************************)
EXTENDS Inference, SequenceTheorems, TLAPS

Using == LoopSteps \union {"ready"}

\* Which members point to something, at every step of the initialisation: no
\* step meets the member that it sets.
HeldFits ==
  /\ pc \in {"create", "load", "env"} => held = {}
  /\ pc = "runtime" => held = {"char_stream"}
  /\ pc = "engine"  => held = {"char_stream", "m_runtime"}
  /\ pc = "context" => held = {"char_stream", "m_runtime", "m_engine"}
  /\ pc = "stream"  => held = {"char_stream", "m_runtime", "m_engine", "m_context"}
  /\ pc \in {"names", "named", "shaped", "host"}
       => held = {"m_runtime", "m_engine", "m_context", "m_stream"}
  /\ pc = "options" => held = {"m_env"}
  /\ pc = "session" => held = {"m_env", "m_session_options"}
  /\ pc \in {"parse_input", "parse_output", "tensor"}
       => held = {"m_env", "m_session_options", "m_session"}
  /\ pc = "memory_info"
       => held = {"m_env", "m_session_options", "m_session", "m_input_tensors"}
  /\ pc = "failed" => {"input_memory", "m_memory_info"} \intersect held = {}
  /\ pc \in Using =>
       IF frame_type = "trt" THEN Members \ {"char_stream"} \subseteq held
       ELSE DmlMembers \ {"m_output_tensors"} \subseteq held

\* The steps before a model has been read.
Early == {"create", "load", "runtime", "engine", "env", "options", "session"}

\* A model is there when its nodes are looked at.
ModelFits ==
  pc \in Using \union {"context", "stream", "names", "named", "shaped", "host",
                       "parse_input", "parse_output", "tensor", "memory_info"}
    => model \in Models

\* Until it looks for names, TensorRT has registered nothing, and DirectML never.
Unregistered ==
  pc \in Early \union {"context", "stream", "names"} \/ frame_type = "dml" =>
    /\ i = 1 /\ found = {} /\ gpu_buffers = {} /\ ~sized
    /\ input_idx = 0 /\ output_idx = 0

\* The input, and the output, are noted as the node of that index has them.
InNoted ==
  /\ input_idx \in Nodes
  /\ m_input_dims = model[input_idx].dims
  /\ ~Oblong(m_input_dims)
OutNoted ==
  /\ output_idx \in Nodes
  /\ m_output_dims = model[output_idx].dims
  /\ ~DimsError(m_output_dims)

\* Registration by name: the indices are right from the beginning, the
\* dimensions are noted when the loop has passed them, and no buffer is there
\* before its turn.
ByName ==
  pc = "named" =>
    /\ sized
    /\ gpu_buffers = 1 .. (i - 1)
    /\ input_idx \in Nodes /\ model[input_idx].name = "images"
    /\ output_idx \in Nodes /\ model[output_idx].name = "output"
    /\ input_idx < i => InNoted
    /\ output_idx < i => OutNoted

\* Registration by shape: what was found is noted, and only a table with entries
\* lets it find anything.
ByShape ==
  pc = "shaped" =>
    /\ found # {} => sized
    /\ 1 .. (i - 1) \subseteq gpu_buffers
    /\ "in" \in found => InNoted /\ ShapedRole(m_input_dims) = "in"
    /\ "out" \in found => OutNoted /\ ShapedRole(m_output_dims) = "out"

\* What both lead to.
Registered ==
  (pc \in Using \union {"host"} /\ frame_type = "trt") =>
    /\ sized
    /\ gpu_buffers = Nodes
    /\ InNoted /\ OutNoted
    /\ input_idx # output_idx

\* A table has entries only if both names were found.
SizedByName ==
  sized => \A name \in {"images", "output"} : \E n \in Nodes : model[n].name = name

\* DirectML: the nodes are those of the two names.
Parsed ==
  frame_type = "dml" =>
    /\ pc \in Using \union {"parse_output", "tensor", "memory_info"} =>
         \E n \in Nodes : /\ model[n].name = "images"
                          /\ m_input_dims = model[n].dims /\ ~Oblong(m_input_dims)
                          /\ Len(m_input_dims) >= InputRank
    /\ pc \in Using \union {"tensor", "memory_info"} =>
         \E k \in Nodes : /\ model[k].name = "output"
                          /\ m_output_dims = model[k].dims /\ ~DimsError(m_output_dims)

\* Without an output tensor there never was an output.
NoOutputYet ==
  (frame_type = "dml" /\ pc # "released" /\ "m_output_tensors" \notin held)
    => data["output"] = "garbage"

\* Nobody asks a frame to stop that does not exist.
NotYetAsked == pc = "create" => ~stop

ParseInv == HeldFits /\ ModelFits /\ Unregistered /\ ByName /\ ByShape
              /\ Registered /\ SizedByName /\ Parsed
RunInv   == FaultsAreKnown /\ DecodesThisFrame /\ NoOutputYet /\ NotYetAsked
FrameInv == TypeOK /\ ParseInv /\ RunInv

-----------------------------------------------------------------------------
(* Facts about models.                                                     *)

LEMMA ModelType ==
  ASSUME NEW m \in Models
  PROVE  /\ Len(m) \in Nat /\ DOMAIN m = 1 .. Len(m)
         /\ m # <<>>
         /\ \A n \in DOMAIN m : m[n].dims \in Seq(Nat \ {0})
<1>1. m \in Seq([name : Names, dims : Seq(Nat \ {0})]) /\ m # <<>>
  BY ModelsAssumption
<1>2. Len(m) \in Nat /\ DOMAIN m = 1 .. Len(m)
  BY <1>1
<1>3. \A n \in DOMAIN m : m[n] \in [name : Names, dims : Seq(Nat \ {0})]
  BY <1>1, <1>2, ElementOfSeq
<1>4. QED
  BY <1>1, <1>2, <1>3

\* A node that is named is a node of that name.
LEMMA NamedIsNode ==
  ASSUME NEW name, Named(name) # 0
  PROVE  Named(name) \in Nodes /\ model[Named(name)].name = name
BY Zenon DEF Named

\* The dimensions and indices that were noted are not disturbed.
LEMMA NotedUnchanged ==
  ASSUME UNCHANGED <<chosen, model, dims, idx>>
  PROVE  (InNoted <=> InNoted') /\ (OutNoted <=> OutNoted')
BY DEF chosen, dims, idx, InNoted, OutNoted, DimsError, Nodes

\* Neither are those that suit, or do not.
LEMMA MisfitUnchanged ==
  ASSUME UNCHANGED <<chosen, model, pc, dims>>
  PROVE  Misfit <=> Misfit'
BY DEF chosen, dims, Misfit, Readable, Anchors, Named, Nodes

LEMMA FrameInit ==
  InitFrame => FrameInv
<1> SUFFICES ASSUME InitFrame PROVE FrameInv
  OBVIOUS
<1>1. TypeOK
  <2>1. pc \in Steps /\ data \in [Places -> Ages]
    BY Zenon DEF InitFrame, Init, Steps, Ages
  <2>2. Len(model) = 0 /\ <<>> \in Seq(Nat \ {0})
    BY DEF InitFrame, Init
  <2>3. i \in 1 .. Len(model) + 1
    BY <2>2 DEF InitFrame, InitTrt
  <2>4. frame_type \in {"trt", "dml"} /\ pc = "create" /\ m_input_dims = <<>> /\ m_output_dims = <<>>
    BY DEF InitFrame, Init
  <2>5. gpu_buffers = {} /\ held = {} /\ lost = {} /\ found = {} /\ input_idx = 0 /\ output_idx = 0
        /\ sized \in BOOLEAN /\ dialog \in BOOLEAN /\ stop \in BOOLEAN /\ failed \in BOOLEAN
    BY DEF InitFrame, Init, InitTrt
  <2>6. yolo_type \in YoloTypes /\ model = <<>> /\ fault = "none"
    BY DEF InitFrame, Init
  <2>7. QED
    BY <2>1, <2>2, <2>3, <2>4, <2>5, <2>6 DEF TypeOK, TrtSteps, DmlSteps
<1>2. ParseInv
  BY DEF InitFrame, Init, InitTrt, ParseInv, HeldFits, ModelFits, Unregistered, ByName, ByShape,
         Registered, SizedByName, Parsed, Using, Early, LoopSteps
<1>3. RunInv
  BY DEF InitFrame, Init, InitTrt, RunInv, FaultsAreKnown, DecodesThisFrame, NoOutputYet, NotYetAsked, Places
<1>4. QED
  BY <1>1, <1>2, <1>3 DEF FrameInv

-----------------------------------------------------------------------------
(* TensorRT: from the file to the stream.                                  *)

LoadTrt ==
  \/ LoadSerializedFile \/ CreateRuntime \/ DeserializeEngine \/ CreateContext \/ CreateStream

LEMMA LoadTrtStep ==
  ASSUME FrameInv, LoadTrt
  PROVE  FrameInv'
<1> USE DEF LoadTrt, LoadSerializedFile, CreateRuntime, DeserializeEngine, CreateContext, CreateStream,
            At, Create, Acquire
<1>0. TypeOK /\ ParseInv /\ RunInv
  BY DEF FrameInv
<1>1. /\ UNCHANGED <<chosen, stop, dims, frame, fault, pass>>
      /\ frame_type = "trt" /\ pc \in Early \union {"context", "stream"}
      /\ pc' \in {"runtime", "engine", "context", "stream", "names", "failed"}
      /\ dialog' \in BOOLEAN
  BY <1>0 DEF TypeOK, TrtSteps, DmlSteps, Early
<1>2. /\ \/ model' = model /\ (pc = "engine" => pc' = "failed")
         \/ model' \in Models /\ pc = "engine"
      /\ pc' \in {"context", "stream", "names"} => model' \in Models
      /\ i = 1
  BY <1>0, <1>1 DEF ParseInv, ModelFits, Unregistered
<1>3. HeldFits' /\ held' \subseteq Members /\ UNCHANGED lost
  BY <1>0, <1>1 DEF ParseInv, HeldFits, Using, LoopSteps, Members, owned, chosen
<1>4. model' \in Models \union {<<>>} /\ 1 \in 1 .. Len(model') + 1
  <2>1. model' \in Models \union {<<>>}
    BY <1>0, <1>2 DEF TypeOK
  <2>2. Len(model') \in Nat
    BY <2>1, ModelType
  <2>3. QED
    BY <2>1, <2>2
<1>5. Unregistered /\ Unregistered'
  BY <1>0, <1>1 DEF ParseInv, Unregistered, Early, pass, idx, chosen
<1>6. TypeOK'
  BY <1>0, <1>1, <1>2, <1>3, <1>4, <1>5 DEF TypeOK, Unregistered, Steps, TrtSteps, DmlSteps,
     chosen, dims, frame, pass, idx
<1>7. ParseInv'
  BY <1>0, <1>1, <1>2, <1>3, <1>5 DEF ParseInv, ModelFits, Unregistered, ByName, ByShape, Registered,
     SizedByName, Parsed, Using, LoopSteps, chosen, pass, Early
<1>8. RunInv'
  BY <1>0, <1>1 DEF RunInv, FaultsAreKnown, DecodesThisFrame, NoOutputYet, NotYetAsked, chosen, frame
<1>9. QED
  BY <1>6, <1>7, <1>8 DEF FrameInv

-----------------------------------------------------------------------------
(* TensorRT: the registration of the bindings.                             *)

LEMMA FindNamesStep ==
  ASSUME FrameInv, FindNames
  PROVE  FrameInv'
<1>0. TypeOK /\ ParseInv /\ RunInv
  BY DEF FrameInv
<1>1. /\ UNCHANGED <<chosen, model, stop, owned, dims, frame, fault, gpu_buffers, i, found>>
      /\ frame_type = "trt" /\ pc = "names" /\ pc' \in {"named", "shaped"}
      /\ dialog' \in BOOLEAN /\ sized' \in BOOLEAN /\ ~sized
      /\ model \in Models /\ i = 1 /\ found = {} /\ gpu_buffers = {} /\ fault = "none"
  BY <1>0 DEF FindNames, At, MarkError, TypeOK, TrtSteps, DmlSteps, ParseInv, ModelFits, Unregistered
<1>2. \A name : Named(name) # 0 => Named(name) \in 1 .. Len(model) /\ model[Named(name)].name = name
  BY <1>1, NamedIsNode, ModelType DEF Nodes
<1>3. input_idx' = Named("images") /\ output_idx' = Named("output")
  BY DEF FindNames
<1>4. /\ sized' => pc' = "named"
      /\ pc' = "named" => sized' /\ input_idx' # 0 /\ output_idx' # 0
  BY <1>1 DEF FindNames
<1>5. TypeOK'
  BY <1>0, <1>1, <1>2, <1>3, ModelType DEF TypeOK, Steps, TrtSteps, DmlSteps, Nodes,
     chosen, owned, dims, frame
<1>6. ByName' /\ SizedByName'
  BY <1>1, <1>2, <1>3, <1>4, ModelType DEF ByName, SizedByName, Nodes
<1>7. ParseInv'
  BY <1>0, <1>1, <1>6 DEF ParseInv, HeldFits, ModelFits, Unregistered, ByShape, Registered, Parsed,
     Using, LoopSteps, Early, chosen, owned
<1>8. RunInv'
  BY <1>0, <1>1, <1>4 DEF RunInv, FaultsAreKnown, DecodesThisFrame, NoOutputYet, NotYetAsked, chosen, owned, frame
<1>9. QED
  BY <1>5, <1>7, <1>8 DEF FrameInv

\* The roles that a binding may have, and what they say about it.
LEMMA RoleType ==
  ASSUME NEW n
  PROVE  /\ Role(n) \in {"in", "out", "unused"}
         /\ pc = "named" => (Role(n) = "in" <=> n = input_idx)
                             /\ (Role(n) = "out" <=> n = output_idx /\ n # input_idx)
         /\ pc # "named" => Role(n) = ShapedRole(model[n].dims)
BY DEF Role, NamedRole, ShapedRole

\* What every turn of the loop does to what was noted, refused or not.
LEMMA NotesBinding ==
  ASSUME TypeOK, RegisterBinding
  PROVE  LET role == Role(i)  d == model[i].dims IN
         /\ input_idx' = IF role = "in" THEN i ELSE input_idx
         /\ output_idx' = IF role = "out" THEN i ELSE output_idx
         /\ \/ (Refused(role, d) \/ d = <<>>) /\ GiveUp /\ UNCHANGED <<lost, gpu_buffers, dims, fault>>
            \/ /\ ~Refused(role, d)
               /\ m_input_dims' = IF role = "in" THEN d ELSE m_input_dims
               /\ m_output_dims' = IF role = "out" THEN d ELSE m_output_dims
               /\ \/ ~sized /\ Crash("unsized") /\ UNCHANGED <<lost, gpu_buffers, i, found>>
                  \/ sized /\ Allocate(i, role) /\ UNCHANGED <<pc, fault>>
                  \/ GiveUp /\ UNCHANGED <<lost, gpu_buffers, fault>>
BY DEF RegisterBinding

LEMMA RegisterBindingStep ==
  ASSUME FrameInv, RegisterBinding
  PROVE  FrameInv'
<1>0. TypeOK /\ ParseInv /\ RunInv
  BY DEF FrameInv
<1>1. /\ UNCHANGED <<chosen, model, stop, held, frame, sized>>
      /\ frame_type = "trt" /\ pc \in {"named", "shaped"} /\ fault = "none"
      /\ i \in Nodes /\ model \in Models
      /\ dialog' \in BOOLEAN
      /\ input_idx' = IF Role(i) = "in" THEN i ELSE input_idx
      /\ output_idx' = IF Role(i) = "out" THEN i ELSE output_idx
  BY <1>0 DEF RegisterBinding, At, MarkError, TypeOK, TrtSteps, DmlSteps, ParseInv, ModelFits
<1>2. /\ Nodes = 1 .. Len(model) /\ Len(model) \in Nat /\ i \in Nat
      /\ model[i].dims \in Seq(Nat \ {0})
  BY <1>1, ModelType DEF Nodes
<1>3. input_idx' \in Nodes \union {0} /\ output_idx' \in Nodes \union {0}
  BY <1>0, <1>1, NotesBinding DEF TypeOK
<1>4. CASE GiveUp /\ UNCHANGED <<lost, gpu_buffers, fault>>
  <2>1. pc' = (IF pc = "named" THEN "shaped" ELSE "failed") /\ i' = 1 /\ found' = {}
    BY <1>4 DEF GiveUp
  <2>2. m_input_dims' \in Seq(Nat \ {0}) /\ m_output_dims' \in Seq(Nat \ {0})
    BY <1>0, <1>2, NotesBinding DEF TypeOK, dims
  <2>3. TypeOK'
    BY <1>0, <1>1, <1>2, <1>3, <1>4, <2>1, <2>2 DEF TypeOK, Steps, TrtSteps, DmlSteps, Nodes,
       chosen, frame
  <2>4. ParseInv'
    BY <1>0, <1>1, <2>1 DEF ParseInv, HeldFits, ModelFits, Unregistered, ByName, ByShape, Registered,
       SizedByName, Parsed, Using, LoopSteps, Early, chosen, Nodes
  <2>5. RunInv'
    BY <1>0, <1>1, <1>4, <2>1 DEF RunInv, FaultsAreKnown, DecodesThisFrame, NoOutputYet, NotYetAsked, chosen, frame
  <2>6. QED
    BY <2>3, <2>4, <2>5 DEF FrameInv
<1>5. CASE /\ ~Refused(Role(i), model[i].dims)
           /\ m_input_dims' = IF Role(i) = "in" THEN model[i].dims ELSE m_input_dims
           /\ m_output_dims' = IF Role(i) = "out" THEN model[i].dims ELSE m_output_dims
           /\ ~sized /\ Crash("unsized") /\ UNCHANGED <<lost, gpu_buffers, i, found>>
  <2>1. pc' = "shaped" /\ pc = "shaped" /\ fault' = "unsized" /\ found = {} /\ i' = i /\ found' = found
    BY <1>0, <1>1, <1>5 DEF Crash, ParseInv, ByName, ByShape
  <2>2. TypeOK'
    BY <1>0, <1>1, <1>2, <1>3, <1>5, <2>1 DEF TypeOK, Steps, TrtSteps, DmlSteps, Nodes,
       chosen, frame
  <2>3. ParseInv'
    BY <1>0, <1>1, <1>5, <2>1 DEF ParseInv, HeldFits, ModelFits, Unregistered, ByName, ByShape,
       Registered, SizedByName, Parsed, Using, LoopSteps, Early, chosen, Nodes
  <2>4. RunInv'
    BY <1>0, <1>1, <1>5, <2>1 DEF RunInv, FaultsAreKnown, DecodesThisFrame, NoOutputYet, NotYetAsked, chosen, frame
  <2>5. QED
    BY <2>2, <2>3, <2>4 DEF FrameInv
<1>6. CASE /\ ~Refused(Role(i), model[i].dims)
           /\ m_input_dims' = IF Role(i) = "in" THEN model[i].dims ELSE m_input_dims
           /\ m_output_dims' = IF Role(i) = "out" THEN model[i].dims ELSE m_output_dims
           /\ sized /\ Allocate(i, Role(i)) /\ UNCHANGED <<pc, fault>>
  <2>1. /\ gpu_buffers' = gpu_buffers \union {i} /\ i' = i + 1
        /\ found' = found \union {Role(i)}
        /\ lost' \subseteq lost \union {"gpu_buffers"}
        /\ pc' = pc /\ fault' = "none"
    BY <1>1, <1>6 DEF Allocate
  <2>2. i' \in 1 .. Len(model') + 1 /\ gpu_buffers' \subseteq Nodes'
    BY <1>0, <1>1, <1>2, <2>1 DEF TypeOK, Nodes
  <2>3. TypeOK'
    BY <1>0, <1>1, <1>2, <1>3, <1>6, <2>1, <2>2, RoleType DEF TypeOK, Steps, TrtSteps, DmlSteps,
       Nodes, chosen, frame
  <2>4. /\ Role(i) = "in" => InNoted' /\ m_input_dims' = model[i].dims
        /\ Role(i) = "out" => OutNoted' /\ m_output_dims' = model[i].dims
    <3>1. ASSUME Role(i) = "in" PROVE InNoted' /\ m_input_dims' = model[i].dims
      BY <1>1, <1>6, <3>1 DEF InNoted, Refused, Nodes
    <3>2. ASSUME Role(i) = "out" PROVE OutNoted' /\ m_output_dims' = model[i].dims
      BY <1>1, <1>6, <3>2 DEF OutNoted, Refused, DimsError, Nodes, chosen
    <3>3. QED
      BY <3>1, <3>2
  <2>5. /\ Role(i) # "in" /\ InNoted => InNoted' /\ m_input_dims' = m_input_dims
        /\ Role(i) # "out" /\ OutNoted => OutNoted' /\ m_output_dims' = m_output_dims
    BY <1>0, <1>1, <1>6, NotesBinding DEF InNoted, OutNoted, DimsError, Nodes, chosen
  <2>6. ByName'
    <3>1. CASE pc = "named"
      <4>1. input_idx' = input_idx /\ output_idx' = output_idx
        BY <1>0, <3>1, NotesBinding, RoleType
      <4>2. model[input_idx].name = "images" /\ model[output_idx].name = "output"
            /\ input_idx \in Nodes /\ output_idx \in Nodes /\ gpu_buffers = 1 .. (i - 1)
        BY <1>0, <3>1 DEF ParseInv, ByName
      <4>3. input_idx < i + 1 => InNoted'
        BY <1>0, <1>2, <2>4, <2>5, <3>1, <4>2, RoleType DEF ParseInv, ByName
      <4>4. output_idx < i + 1 => OutNoted'
        BY <1>0, <1>2, <2>4, <2>5, <3>1, <4>2, RoleType DEF ParseInv, ByName
      <4>5. gpu_buffers' = 1 .. (i' - 1)
        <5>1. (1 .. (i - 1)) \union {i} = 1 .. i /\ i' - 1 = i
          BY <1>1, <1>2, <2>1
        <5>2. QED
          BY <2>1, <4>2, <5>1
      <4>6. QED
        BY <1>1, <1>6, <2>1, <4>1, <4>2, <4>3, <4>4, <4>5 DEF ByName, Nodes
    <3>2. CASE pc # "named"
      BY <2>1, <3>2 DEF ByName
    <3>3. QED
      BY <3>1, <3>2
  <2>7. ByShape'
    <3>1. CASE pc = "shaped"
      <4>1. Role(i) = ShapedRole(model[i].dims)
        BY <3>1, RoleType
      <4>2. 1 .. (i' - 1) \subseteq gpu_buffers'
        BY <1>0, <1>2, <2>1, <3>1 DEF ParseInv, ByShape
      <4>3. "in" \in found' => InNoted' /\ ShapedRole(m_input_dims') = "in"
        BY <1>0, <2>1, <2>4, <2>5, <3>1, <4>1 DEF ParseInv, ByShape
      <4>4. "out" \in found' => OutNoted' /\ ShapedRole(m_output_dims') = "out"
        BY <1>0, <2>1, <2>4, <2>5, <3>1, <4>1 DEF ParseInv, ByShape
      <4>5. QED
        BY <1>1, <1>6, <4>2, <4>3, <4>4 DEF ByShape
    <3>2. CASE pc # "shaped"
      BY <2>1, <3>2 DEF ByShape
    <3>3. QED
      BY <3>1, <3>2
  <2>8. ParseInv'
    BY <1>0, <1>1, <2>1, <2>6, <2>7 DEF ParseInv, HeldFits, ModelFits, Unregistered, Registered,
       SizedByName, Parsed, Using, LoopSteps, Early, chosen, Nodes
  <2>9. RunInv'
    BY <1>0, <1>1, <2>1 DEF RunInv, FaultsAreKnown, DecodesThisFrame, NoOutputYet, NotYetAsked, chosen, frame
  <2>10. QED
    BY <2>3, <2>8, <2>9 DEF FrameInv
<1>7. QED
  BY <1>0, <1>4, <1>5, <1>6, NotesBinding

LEMMA EndPassStep ==
  ASSUME FrameInv, EndPass
  PROVE  FrameInv'
<1>0. TypeOK /\ ParseInv /\ RunInv
  BY DEF FrameInv
<1>1. /\ UNCHANGED <<chosen, model, dialog, stop, owned, dims, frame, fault, pass>>
      /\ frame_type = "trt" /\ pc \in {"named", "shaped"} /\ fault = "none"
      /\ pc' = IF pc = "named" \/ {"in", "out"} \subseteq found THEN "host" ELSE "failed"
      /\ model \in Models
  BY <1>0 DEF EndPass, At, TypeOK, TrtSteps, DmlSteps, ParseInv, ModelFits
<1>2. Nodes = 1 .. Len(model) /\ Len(model) \in Nat /\ i = Len(model) + 1
  BY <1>0, <1>1, ModelType DEF EndPass, TypeOK, Nodes
<1>3. TypeOK'
  BY <1>0, <1>1 DEF TypeOK, Steps, TrtSteps, DmlSteps, Nodes, chosen, owned, dims, frame, pass, idx
<1>4. pc' = "host" => sized /\ gpu_buffers = Nodes /\ InNoted /\ OutNoted /\ input_idx # output_idx
  <2>1. CASE pc = "named"
    BY <1>0, <1>2, <2>1 DEF ParseInv, ByName
  <2>2. CASE pc = "shaped" /\ {"in", "out"} \subseteq found
    <3>1. InNoted /\ OutNoted /\ ShapedRole(m_input_dims) = "in" /\ ShapedRole(m_output_dims) = "out"
          /\ sized /\ 1 .. (i - 1) \subseteq gpu_buffers
      BY <1>0, <2>2 DEF ParseInv, ByShape
    <3>2. input_idx # output_idx
      BY <3>1 DEF InNoted, OutNoted
    <3>3. gpu_buffers = Nodes
      <4>1. i - 1 = Len(model) /\ gpu_buffers \subseteq Nodes
        BY <1>0, <1>2 DEF TypeOK
      <4>2. Nodes \subseteq gpu_buffers
        BY <1>2, <3>1, <4>1
      <4>3. QED
        BY <4>1, <4>2
    <3>4. QED
      BY <3>1, <3>2, <3>3
  <2>3. QED
    BY <1>1, <2>1, <2>2
<1>5. Registered'
  BY <1>1, <1>4, NotedUnchanged DEF Registered, Using, LoopSteps, Nodes, pass, idx
<1>6. ParseInv'
  BY <1>0, <1>1, <1>5 DEF ParseInv, HeldFits, ModelFits, Unregistered, ByName, ByShape, SizedByName,
     Parsed, Using, LoopSteps, Early, Nodes, chosen, owned, pass
<1>7. RunInv'
  BY <1>0, <1>1 DEF RunInv, FaultsAreKnown, DecodesThisFrame, NoOutputYet, NotYetAsked, chosen, owned, frame, pass
<1>8. QED
  BY <1>3, <1>6, <1>7 DEF FrameInv

LEMMA AllocateHostStep ==
  ASSUME FrameInv, AllocateHost
  PROVE  FrameInv'
<1>0. TypeOK /\ ParseInv /\ RunInv
  BY DEF FrameInv
<1>1. /\ UNCHANGED <<chosen, model, dialog, stop, lost, dims, frame, fault, pass>>
      /\ frame_type = "trt" /\ pc = "host" /\ pc' = "ready" /\ fault = "none"
      /\ held = {"m_runtime", "m_engine", "m_context", "m_stream"}
      /\ held' = held \union {"input_memory", "output_memory"}
  BY <1>0 DEF AllocateHost, At, TypeOK, TrtSteps, DmlSteps, ParseInv, HeldFits
<1>2. TypeOK'
  BY <1>0, <1>1 DEF TypeOK, Steps, TrtSteps, DmlSteps, Members, Nodes, chosen, dims, frame, pass, idx
<1>3. Registered'
  BY <1>0, <1>1, NotedUnchanged DEF ParseInv, Registered, Using, LoopSteps, Nodes, pass, idx, chosen
<1>4. ParseInv'
  BY <1>0, <1>1, <1>3 DEF ParseInv, HeldFits, ModelFits, Unregistered, ByName, ByShape, SizedByName,
     Parsed, Using, LoopSteps, Early, Members, Nodes, chosen, pass
<1>5. RunInv'
  BY <1>0, <1>1 DEF RunInv, FaultsAreKnown, DecodesThisFrame, NoOutputYet, NotYetAsked, chosen, frame, pass
<1>6. QED
  BY <1>2, <1>4, <1>5 DEF FrameInv

-----------------------------------------------------------------------------
(* TensorRT: inference and release.                                        *)

LEMMA InferTrtStep ==
  ASSUME FrameInv, InferTrt
  PROVE  FrameInv'
<1>0. TypeOK /\ ParseInv /\ RunInv
  BY DEF FrameInv
<1>1. /\ UNCHANGED <<chosen, model, dialog, stop, owned, dims, fault, pass>>
      /\ frame_type = "trt" /\ pc = "infer" /\ pc' = "decode" /\ fault = "none"
  BY DEF InferTrt, At
<1>2. /\ data' \in [Places -> Ages] /\ failed' \in BOOLEAN
      /\ ~failed' => data'["output"] = "new"
  <2>1. PICK done \in SUBSET {"upload", "enqueue", "download"} :
          LET device == IF "upload" \in done THEN "new" ELSE data["input"]
              result == IF "enqueue" \in done THEN device ELSE data["device"]
          IN
          /\ data' = [input |-> device, device |-> result,
                      output |-> IF "download" \in done THEN result ELSE data["output"]]
          /\ failed' = ({"upload", "enqueue", "download"} # done)
    BY DEF InferTrt
  <2>2. data["input"] \in Ages /\ data["device"] \in Ages /\ data["output"] \in Ages /\ "new" \in Ages
    BY <1>0 DEF TypeOK, Places, Ages
  <2>3. data'["input"] \in Ages /\ data'["device"] \in Ages /\ data'["output"] \in Ages
        /\ DOMAIN data' = {"input", "device", "output"} /\ data' = [p \in DOMAIN data' |-> data'[p]]
    BY <2>1, <2>2
  <2>4. QED
    BY <2>1, <2>3 DEF Places
<1>3. TypeOK'
  BY <1>0, <1>1, <1>2 DEF TypeOK, Steps, TrtSteps, DmlSteps, LoopSteps, Nodes, chosen, owned, dims,
     pass, idx
<1>4. Registered'
  BY <1>0, <1>1, NotedUnchanged DEF ParseInv, Registered, Using, LoopSteps, Nodes, pass, idx, chosen
<1>5. ParseInv'
  BY <1>0, <1>1, <1>4 DEF ParseInv, HeldFits, ModelFits, Unregistered, ByName, ByShape, SizedByName,
     Parsed, Using, LoopSteps, Early, Nodes, chosen, owned, pass
<1>6. RunInv'
  BY <1>0, <1>1, <1>2 DEF RunInv, FaultsAreKnown, DecodesThisFrame, NoOutputYet, NotYetAsked, chosen
<1>7. QED
  BY <1>3, <1>5, <1>6 DEF FrameInv

LEMMA ReleaseTrtStep ==
  ASSUME FrameInv, ReleaseTrt
  PROVE  FrameInv'
<1>0. TypeOK /\ ParseInv /\ RunInv
  BY DEF FrameInv
<1>1. /\ UNCHANGED <<chosen, model, dialog, stop, lost, dims, frame, sized, i, found, idx>>
      /\ frame_type = "trt" /\ pc = "release" /\ fault = "none"
      /\ pc' \in {"release", "released"}
      /\ held' \subseteq held /\ gpu_buffers' \subseteq gpu_buffers
      /\ \/ fault' = "none"
         \/ fault' = "null" /\ pc' = "release" /\ "m_engine" \notin held'
         \/ fault' = "range" /\ ~sized
  BY DEF ReleaseTrt, At, Crash
<1>2. TypeOK'
  BY <1>0, <1>1 DEF TypeOK, Steps, TrtSteps, DmlSteps, Nodes, chosen, dims, frame, idx
<1>3. ParseInv'
  BY <1>0, <1>1 DEF ParseInv, HeldFits, ModelFits, Unregistered, ByName, ByShape, SizedByName,
     Registered, Parsed, Using, LoopSteps, Early, Nodes, chosen
<1>4. RunInv'
  BY <1>0, <1>1 DEF RunInv, FaultsAreKnown, DecodesThisFrame, NoOutputYet, NotYetAsked, chosen, frame
<1>5. QED
  BY <1>2, <1>3, <1>4 DEF FrameInv

-----------------------------------------------------------------------------
(* DirectML.                                                               *)

CreateDml ==
  \/ CreateEnv \/ CreateSessionOptions \/ CreateSession \/ CreateTensor \/ CreateMemoryInfo

LEMMA CreateDmlStep ==
  ASSUME FrameInv, CreateDml, UNCHANGED pass
  PROVE  FrameInv'
<1> USE DEF CreateDml, CreateEnv, CreateSessionOptions, CreateSession, CreateTensor, CreateMemoryInfo,
            At, Create, Acquire
<1>0. TypeOK /\ ParseInv /\ RunInv
  BY DEF FrameInv
<1>1. /\ UNCHANGED <<chosen, stop, dims, frame, fault, dialog, pass>>
      /\ frame_type = "dml"
      /\ pc \in {"env", "options", "session", "tensor", "memory_info"}
      /\ pc' \in {"options", "session", "parse_input", "memory_info", "ready", "failed"}
      /\ fault = "none"
  BY <1>0 DEF TypeOK, TrtSteps, DmlSteps
<1>2. /\ (model' = model /\ pc' # "parse_input") \/ model' \in Models
      /\ pc' \in {"memory_info", "ready"} => model' = model /\ pc \in {"tensor", "memory_info"}
      /\ pc' = "parse_input" => model' \in Models
  BY <1>0, <1>1
<1>3. HeldFits' /\ held' \subseteq DmlMembers /\ UNCHANGED lost /\ held \subseteq held'
      /\ ("m_output_tensors" \notin held)
  BY <1>0, <1>1 DEF ParseInv, HeldFits, Using, LoopSteps, DmlMembers, owned, chosen
<1>4. model' \in Models \union {<<>>} /\ 1 \in 1 .. Len(model') + 1
  <2>1. model' \in Models \union {<<>>}
    BY <1>0, <1>2 DEF TypeOK
  <2>2. Len(model') \in Nat
    BY <2>1, ModelType
  <2>3. QED
    BY <2>1, <2>2
<1>5. Unregistered /\ Unregistered' /\ i = 1 /\ gpu_buffers = {} /\ ~sized
      /\ input_idx = 0 /\ output_idx = 0
  BY <1>0, <1>1 DEF ParseInv, Unregistered, pass, idx, chosen
<1>6. TypeOK'
  BY <1>0, <1>1, <1>3, <1>4, <1>5 DEF TypeOK, Steps, TrtSteps, DmlSteps, chosen, dims, frame, pass, idx
<1>7. Parsed'
  BY <1>0, <1>1, <1>2 DEF ParseInv, Parsed, Using, LoopSteps, DimsError, Nodes, chosen, dims
<1>8. ParseInv'
  BY <1>0, <1>1, <1>2, <1>3, <1>5, <1>7 DEF ParseInv, ModelFits, ByName, ByShape,
     Registered, SizedByName, Using, LoopSteps, chosen, pass
<1>9. RunInv'
  BY <1>0, <1>1, <1>3 DEF RunInv, FaultsAreKnown, DecodesThisFrame, NoOutputYet, NotYetAsked, chosen, frame
<1>10. QED
  BY <1>6, <1>8, <1>9 DEF FrameInv

LEMMA ParseDmlStep ==
  ASSUME FrameInv, ParseInput \/ ParseOutput, UNCHANGED pass
  PROVE  FrameInv'
<1>0. TypeOK /\ ParseInv /\ RunInv
  BY DEF FrameInv
<1>1. /\ UNCHANGED <<chosen, model, stop, owned, frame, pass>>
      /\ frame_type = "dml" /\ fault = "none"
      /\ pc \in {"parse_input", "parse_output"}
      /\ pc' \in {pc, "parse_output", "tensor", "failed"}
      /\ dialog' \in BOOLEAN
      /\ model \in Models
      /\ pc' \notin {pc, "failed"} => pc' = IF pc = "parse_input" THEN "parse_output" ELSE "tensor"
      /\ fault' \in {"none", "bounds"}
      /\ pc' = pc <=> fault' = "bounds"
  BY <1>0 DEF ParseInput, ParseOutput, Parse, Unfit, At, MarkError, Crash, TypeOK, TrtSteps, DmlSteps, ParseInv, ModelFits
<1>2. /\ pc' = "parse_output" /\ pc # pc' =>
           \E n \in Nodes : /\ model[n].name = "images" /\ ~Oblong(model[n].dims)
                            /\ m_input_dims' = model[n].dims /\ UNCHANGED m_output_dims
                            /\ Len(model[n].dims) >= InputRank
      /\ pc' = "tensor" =>
           \E n \in Nodes : /\ model[n].name = "output" /\ ~DimsError(model[n].dims)
                            /\ m_output_dims' = model[n].dims /\ UNCHANGED m_input_dims
      /\ pc' \in {pc, "failed"} => UNCHANGED dims
      /\ fault' = "bounds" => Misfit
  BY <1>1, NamedIsNode DEF ParseInput, ParseOutput, Parse, Unfit, TooShort, InputRank,
     OutputRank, At, Crash, Misfit
<1>3. m_input_dims' \in Seq(Nat \ {0}) /\ m_output_dims' \in Seq(Nat \ {0})
  BY <1>0, <1>1, <1>2, ModelType DEF TypeOK, Nodes, dims
<1>4. TypeOK'
  BY <1>0, <1>1, <1>3 DEF TypeOK, Steps, TrtSteps, DmlSteps, Nodes, chosen, owned, frame, pass, idx
<1>5. Parsed'
  <2> USE DEF ParseInv, Parsed, Using, LoopSteps, DimsError, Nodes, chosen, dims
  <2>1. CASE pc' \in {pc, "failed"}
    BY <1>0, <1>1, <1>2, <2>1
  <2>2. CASE pc' \notin {pc, "failed"}
    BY <1>0, <1>1, <1>2, <2>2
  <2>3. QED
    BY <2>1, <2>2
<1>6. ParseInv'
  BY <1>0, <1>1, <1>5 DEF ParseInv, HeldFits, ModelFits, Unregistered, ByName, ByShape, SizedByName,
     Registered, Using, LoopSteps, Early, Nodes, chosen, owned, pass, idx
<1>7. RunInv'
  BY <1>0, <1>1, <1>2, MisfitUnchanged DEF RunInv, FaultsAreKnown, DecodesThisFrame, NoOutputYet, NotYetAsked, chosen, owned, frame
<1>8. QED
  BY <1>4, <1>6, <1>7 DEF FrameInv

LEMMA InferDmlStep ==
  ASSUME FrameInv, InferDml, UNCHANGED pass
  PROVE  FrameInv'
<1>0. TypeOK /\ ParseInv /\ RunInv
  BY DEF FrameInv
<1>1. /\ UNCHANGED <<chosen, model, dialog, stop, dims, pass>>
      /\ frame_type = "dml" /\ pc = "infer" /\ fault = "none" /\ pc' \in {"infer", "decode"}
      /\ lost' \subseteq lost \union {"m_input_tensors"}
      /\ held \subseteq held' /\ held' \subseteq held \union {"m_output_tensors"}
  BY DEF InferDml, At
<1>2. PICK done \in SUBSET {"tensor", "run"} :
        /\ \/ /\ data' = [data EXCEPT !["input"] = Tensor(done), !["output"] = Result(Tensor(done))]
              /\ held' = held \union {"m_output_tensors"}
              /\ UNCHANGED fault
           \/ /\ Misread(Tensor(done))
              /\ data' = [data EXCEPT !["input"] = Tensor(done)]
              /\ UNCHANGED <<held, pc>>
           \/ /\ "run" \notin done
              /\ data' = [data EXCEPT !["input"] = Tensor(done)]
              /\ \/ "m_output_tensors" \in held /\ UNCHANGED fault
                 \/ "m_output_tensors" \notin held /\ fault' = "null"
              /\ UNCHANGED held
        /\ failed' = ({"tensor", "run"} # done)
        /\ Misread(Tensor(done)) \/ pc' = "decode" \/ "run" \notin done
        /\ fault' = "none" => pc' = "decode"
  BY <1>1 DEF InferDml, Misread
<1> DEFINE t == Tensor(done)
<1>3. /\ data' \in [Places -> Ages] /\ failed' \in BOOLEAN
      /\ fault' \in {"none", "null", "bounds", "dangling"}
      /\ ~failed' /\ fault' = "none" => data'["output"] = "new"
      /\ fault' = "null" => failed' /\ data'["output"] = "garbage"
      /\ fault' = "dangling" => failed' /\ data'["input"] = "old" /\ pc' = "infer"
      /\ fault' = "bounds" => pc' = "infer" /\ Oversized(m_input_dims)
      /\ "m_output_tensors" \notin held' => data'["output"] = "garbage"
  <2>1. data \in [Places -> Ages] /\ ("m_output_tensors" \notin held => data["output"] = "garbage")
    BY <1>0, <1>1 DEF TypeOK, RunInv, NoOutputYet, NotYetAsked
  <2>2. t \in Ages /\ Result(t) \in Ages /\ ("tensor" \in done => t = "new")
        /\ (t = "new" => Result(t) = "new")
    BY <2>1 DEF Tensor, Result, Ages, Places
  <2>3. \A d, o \in Ages :
          /\ [data EXCEPT !["input"] = d, !["output"] = o] \in [Places -> Ages]
          /\ [data EXCEPT !["input"] = d, !["output"] = o]["output"] = o
          /\ [data EXCEPT !["input"] = d] \in [Places -> Ages]
          /\ [data EXCEPT !["input"] = d]["output"] = data["output"]
          /\ [data EXCEPT !["input"] = d]["input"] = d
    BY <2>1 DEF Places, Ages
  <2>4. failed' \in BOOLEAN /\ ("tensor" \notin done => failed') /\ ("run" \notin done => failed')
    BY <1>2
  <2>5. CASE /\ data' = [data EXCEPT !["input"] = t, !["output"] = Result(t)]
             /\ held' = held \union {"m_output_tensors"} /\ UNCHANGED fault
    BY <1>1, <2>2, <2>3, <2>4, <2>5
  <2>6. CASE Misread(t) /\ data' = [data EXCEPT !["input"] = t] /\ UNCHANGED <<held, pc>>
    <3>1. /\ fault' \in {"bounds", "dangling"}
          /\ fault' = "bounds" => Oversized(m_input_dims)
          /\ fault' = "dangling" => t = "old"
      BY <2>6 DEF Misread
    <3>2. data' \in [Places -> Ages] /\ data'["input"] = t /\ data'["output"] = data["output"]
      BY <2>2, <2>3, <2>6
    <3>3. QED
      BY <1>1, <2>1, <2>2, <2>4, <2>6, <3>1, <3>2
  <2>7. CASE /\ "run" \notin done /\ data' = [data EXCEPT !["input"] = t]
             /\ \/ "m_output_tensors" \in held /\ UNCHANGED fault
                \/ "m_output_tensors" \notin held /\ fault' = "null"
             /\ UNCHANGED held
    <3>1. data' \in [Places -> Ages] /\ data'["output"] = data["output"]
      BY <2>2, <2>3, <2>7
    <3>2. QED
      BY <1>1, <2>1, <2>4, <2>7, <3>1
  <2>8. QED
    BY <1>2, <2>5, <2>6, <2>7
<1>4. TypeOK'
  BY <1>0, <1>1, <1>3 DEF TypeOK, Steps, TrtSteps, DmlSteps, LoopSteps, DmlMembers, Nodes, chosen, dims,
     pass, idx
<1>5. Parsed'
  BY <1>0, <1>1 DEF ParseInv, Parsed, Using, LoopSteps, DimsError, Nodes, chosen, dims
<1>6. ParseInv'
  BY <1>0, <1>1, <1>5 DEF ParseInv, HeldFits, ModelFits, Unregistered, ByName, ByShape, SizedByName,
     Registered, Using, LoopSteps, Early, Nodes, chosen, pass, idx
<1>7. RunInv'
  <2>1. FaultsAreKnown'
    BY <1>1, <1>3 DEF FaultsAreKnown, Misfit, chosen, dims
  <2>2. DecodesThisFrame'
    BY <1>1, <1>2, <1>3 DEF DecodesThisFrame, Misread
  <2>3. QED
    BY <1>0, <1>1, <1>3, <2>1, <2>2 DEF RunInv, NoOutputYet, NotYetAsked, chosen
<1>8. QED
  BY <1>4, <1>6, <1>7 DEF FrameInv

LEMMA ReleaseDmlStep ==
  ASSUME FrameInv, ReleaseDml, UNCHANGED pass
  PROVE  FrameInv'
<1>0. TypeOK /\ ParseInv /\ RunInv
  BY DEF FrameInv
<1>1. /\ UNCHANGED <<chosen, model, dialog, stop, lost, dims, frame, fault, pass>>
      /\ frame_type = "dml" /\ pc' = "released" /\ fault = "none"
      /\ held' \subseteq held
  BY DEF ReleaseDml, At
<1>2. TypeOK'
  BY <1>0, <1>1 DEF TypeOK, Steps, TrtSteps, DmlSteps, Nodes, chosen, dims, frame, pass, idx
<1>3. ParseInv'
  BY <1>0, <1>1 DEF ParseInv, HeldFits, ModelFits, Unregistered, ByName, ByShape, SizedByName,
     Registered, Parsed, Using, LoopSteps, Early, Nodes, chosen, pass, idx
<1>4. RunInv'
  BY <1>0, <1>1 DEF RunInv, FaultsAreKnown, DecodesThisFrame, NoOutputYet, NotYetAsked, chosen, frame
<1>5. QED
  BY <1>2, <1>3, <1>4 DEF FrameInv

-----------------------------------------------------------------------------
(* The steps that concern both, and those of the others.                   *)

\* Steps of the worker between the calls of the framework.
Between == CreateFrameObject \/ GoOn \/ BeginFrame \/ LeaveLoop \/ DecodeOutput

LEMMA BetweenStep ==
  ASSUME FrameInv, Between
  PROVE  FrameInv'
<1> USE DEF Between, CreateFrameObject, GoOn, BeginFrame, LeaveLoop, DecodeOutput, At, Crash
<1>0. TypeOK /\ ParseInv /\ RunInv
  BY DEF FrameInv
<1>1. /\ UNCHANGED <<chosen, model, dialog, stop, owned, dims, pass>>
      /\ fault = "none" /\ fault' \in {"none", "bounds"}
      /\ \/ pc = "create" /\ pc' = IF frame_type = "trt" THEN "load" ELSE "env"
         \/ pc \in Using /\ pc' \in LoopSteps \ {"decode"} /\ fault' = "none"
         \/ pc \in Using /\ pc' = pc /\ fault' = "bounds" /\ UNCHANGED frame
         \/ pc' = "release"
  BY DEF Using, LoopSteps
<1>2. /\ data' \in [Places -> Ages] /\ failed' \in BOOLEAN
      /\ data["output"] = "garbage" => data'["output"] = "garbage"
  <2>1. CASE UNCHANGED frame
    BY <1>0, <2>1 DEF TypeOK, frame
  <2>2. CASE BeginFrame
    <3>1. \A p \in Places : Aged(data[p]) \in Ages
      BY <1>0 DEF TypeOK, Aged, Ages
    <3>2. QED
      BY <2>2, <3>1 DEF Places, Aged
  <2>3. QED
    BY <2>1, <2>2
<1>3. TypeOK'
  BY <1>0, <1>1, <1>2 DEF TypeOK, Steps, TrtSteps, DmlSteps, LoopSteps, Using, Nodes, chosen, owned, dims,
     pass, idx
<1>4. Registered'
  BY <1>0, <1>1, NotedUnchanged DEF ParseInv, Registered, Using, LoopSteps, Nodes, pass, idx, chosen
<1>5. Parsed'
  BY <1>0, <1>1 DEF ParseInv, Parsed, Using, LoopSteps, DimsError, Nodes, chosen, dims
<1>6. HeldFits' /\ ModelFits' /\ Unregistered'
  BY <1>0, <1>1 DEF ParseInv, HeldFits, ModelFits, Unregistered, Using, LoopSteps, Early,
     chosen, owned, pass, idx
<1>7. ParseInv'
  BY <1>0, <1>1, <1>4, <1>5, <1>6 DEF ParseInv, ByName, ByShape, SizedByName, LoopSteps,
     Nodes, chosen, pass
<1>8. RunInv'
  <2>1. fault' = "bounds" => Misfit /\ pc' = pc
    <3>1. CASE DecodeOutput
      BY <3>1 DEF Misfit
    <3>2. CASE GoOn
      <4>1. frame_type = "dml" /\ pc = "ready" => Len(m_input_dims) >= InputRank
        BY <1>0 DEF ParseInv, Parsed, Using
      <4>2. InputRank = 4 /\ Len(m_input_dims) \in Nat
        BY <1>0 DEF TypeOK, InputRank
      <4>3. QED
        BY <1>0, <1>1, <3>2, <4>1, <4>2 DEF Misfit, TypeOK
    <3>3. CASE CreateFrameObject \/ BeginFrame \/ LeaveLoop
      BY <1>1, <3>3
    <3>4. QED
      BY <3>1, <3>2, <3>3
  <2>2. FaultsAreKnown'
    BY <1>1, <2>1, MisfitUnchanged DEF FaultsAreKnown
  <2>3. DecodesThisFrame'
    BY <1>0, <1>1 DEF RunInv, DecodesThisFrame, frame
  <2>4. QED
    BY <1>0, <1>1, <1>2, <2>2, <2>3 DEF RunInv, NoOutputYet, NotYetAsked, LoopSteps, Using, chosen, owned
<1>9. QED
  BY <1>3, <1>7, <1>8 DEF FrameInv

\* Exit, the user in front of a box, and steps that change nothing.
LEMMA OthersStep ==
  ASSUME FrameInv,
         UNCHANGED <<chosen, model, pc, owned, dims, frame, fault, pass>>,
         stop' \in BOOLEAN, pc # "create" \/ stop' = stop, dialog' \in BOOLEAN
  PROVE  FrameInv'
<1>0. TypeOK /\ ParseInv /\ RunInv
  BY DEF FrameInv
<1>1. TypeOK'
  BY <1>0 DEF TypeOK, Nodes, chosen, owned, dims, frame, pass, idx
<1>2. ByName' /\ ByShape' /\ Registered'
  BY <1>0, NotedUnchanged DEF ParseInv, ByName, ByShape, Registered, Nodes, chosen, dims, pass, idx
<1>3. ParseInv'
  BY <1>0, <1>2 DEF ParseInv, HeldFits, ModelFits, Unregistered, SizedByName, Parsed, DimsError,
     Nodes, chosen, owned, dims, pass, idx
<1>4. RunInv'
  BY <1>0, MisfitUnchanged DEF RunInv, FaultsAreKnown, DecodesThisFrame, NoOutputYet, NotYetAsked,
     chosen, owned, frame, pass
<1>5. QED
  BY <1>1, <1>3, <1>4 DEF FrameInv

-----------------------------------------------------------------------------

\* No step of the frame, whichever backend call fails, breaks the invariant.
THEOREM FrameInvariant == Spec => []FrameInv
<1>1. ASSUME FrameInv, [Next]_vars PROVE FrameInv'
  <2>1. CASE Worker
    <3>1. CASE Between
      BY <1>1, <3>1, BetweenStep
    <3>2. CASE ParseTrt
      BY <1>1, <3>2, LoadTrtStep, FindNamesStep, RegisterBindingStep, EndPassStep, AllocateHostStep
         DEF ParseTrt, LoadTrt
    <3>3. CASE InferTrt \/ ReleaseTrt
      BY <1>1, <3>3, InferTrtStep, ReleaseTrtStep
    <3>4. CASE (ParseDml \/ InferDml \/ ReleaseDml) /\ UNCHANGED pass
      BY <1>1, <3>4, CreateDmlStep, ParseDmlStep, InferDmlStep, ReleaseDmlStep DEF ParseDml, CreateDml
    <3>5. QED
      BY <2>1, <3>1, <3>2, <3>3, <3>4 DEF Worker, Between
  <2>2. CASE Exit \/ Dismiss
    BY <1>1, <2>2, OthersStep DEF Exit, Dismiss, FrameInv, TypeOK
  <2>3. CASE UNCHANGED vars
    BY <1>1, <2>3, OthersStep DEF vars, chosen, owned, dims, frame, pass, idx, FrameInv, TypeOK
  <2>4. QED
    BY <1>1, <2>1, <2>2, <2>3 DEF Next
<1>2. QED
  BY <1>1, FrameInit, PTL DEF Spec

\* Every variable of the frame keeps its type, for models of any size.
THEOREM FrameTypeCorrect == Spec => []TypeOK
<1>1. FrameInv => TypeOK
  BY DEF FrameInv
<1>2. QED
  BY <1>1, FrameInvariant, PTL

\* When AnalyticalModel has returned true, Detect finds all it needs, by either
\* way of registration and for models of any number of bindings.
THEOREM ReadyFrameIsComplete == Spec => []ReadyToDetect
<1>1. ASSUME FrameInv PROVE ReadyToDetect
  <2>1. TypeOK /\ ParseInv
    BY <1>1 DEF FrameInv
  <2>2. ASSUME pc \in Using PROVE Complete
    <3>1. CASE frame_type = "trt"
      BY <2>1, <2>2, <3>1 DEF ParseInv, HeldFits, Registered, InNoted, OutNoted, Complete, TrtComplete
    <3>2. CASE frame_type = "dml"
      <4>1. PICK n \in Nodes : /\ model[n].name = "images"
                               /\ m_input_dims = model[n].dims /\ ~Oblong(m_input_dims)
        BY <2>1, <2>2, <3>2 DEF ParseInv, Parsed
      <4>2. PICK k \in Nodes : /\ model[k].name = "output"
                               /\ m_output_dims = model[k].dims /\ ~DimsError(m_output_dims)
        BY <2>1, <2>2, <3>2 DEF ParseInv, Parsed
      <4>3. n # k
        BY <4>1, <4>2
      <4>4. DmlMembers \ {"m_output_tensors"} \subseteq held
        BY <2>1, <2>2, <3>2 DEF ParseInv, HeldFits
      <4>5. QED
        BY <3>2, <4>1, <4>2, <4>3, <4>4 DEF Complete, DmlComplete
    <3>3. QED
      BY <2>1, <3>1, <3>2 DEF TypeOK
  <2>3. QED
    BY <2>2 DEF ReadyToDetect, Using
<1>2. QED
  BY <1>1, FrameInvariant, PTL

\* A framework runs into undefined behaviour or ends the process in the known
\* ways only, whatever fails and whatever the shape of the model.
THEOREM OnlyKnownFaults == Spec => []FaultsAreKnown
<1>1. FrameInv => FaultsAreKnown
  BY DEF FrameInv, RunInv
<1>2. QED
  BY <1>1, FrameInvariant, PTL

\* What is decoded is of the current frame, unless a call failed in this frame.
THEOREM CurrentFrameDecoded == Spec => []DecodesThisFrame
<1>1. FrameInv => DecodesThisFrame
  BY DEF FrameInv, RunInv
<1>2. QED
  BY <1>1, FrameInvariant, PTL

\* No step replaces what a member points to, but for the three known ones.
THEOREM OnlyKnownLosses == Spec => LossesAreKnown
<1> DEFINE Allowed == \/ pc = "shaped" /\ sized
                      \/ pc = "infer" /\ frame_type = "dml"
<1>1. ASSUME FrameInv, [Next]_vars PROVE lost' # lost => Allowed
  <2>0. TypeOK /\ ParseInv
    BY <1>1 DEF FrameInv
  <2>1. CASE LoadTrt
    BY <2>0, <2>1 DEF LoadTrt, LoadSerializedFile, CreateRuntime, DeserializeEngine, CreateContext,
       CreateStream, At, Create, Acquire, ParseInv, HeldFits, owned
  <2>2. CASE CreateDml
    BY <2>0, <2>2 DEF CreateDml, CreateEnv, CreateSessionOptions, CreateSession, CreateTensor,
       CreateMemoryInfo, At, Create, Acquire, ParseInv, HeldFits, owned
  <2>3. CASE RegisterBinding
    <3>1. CASE pc = "named"
      <4>1. gpu_buffers = 1 .. (i - 1) /\ i \in Nat
        BY <2>0, <3>1, ModelType DEF ParseInv, ByName, TypeOK
      <4>2. i \notin gpu_buffers
        BY <4>1
      <4>3. QED
        BY <2>0, <2>3, <4>2, NotesBinding DEF Allocate
    <3>2. CASE pc # "named"
      BY <2>0, <2>3, <3>2, NotesBinding DEF RegisterBinding, At, Allocate
    <3>3. QED
      BY <3>1, <3>2
  <2>4. CASE InferDml
    BY <2>4 DEF InferDml, At
  <2>5. CASE \/ FindNames \/ EndPass \/ AllocateHost \/ InferTrt \/ ReleaseTrt \/ Between
             \/ ParseInput \/ ParseOutput \/ ReleaseDml \/ Exit \/ Dismiss
    BY <2>5 DEF FindNames, EndPass, AllocateHost, InferTrt, ReleaseTrt, Between, CreateFrameObject, GoOn,
       BeginFrame, LeaveLoop, DecodeOutput, ParseInput, ParseOutput, Parse, ReleaseDml, Exit, Dismiss, owned
  <2>6. CASE UNCHANGED vars
    BY <2>6 DEF vars
  <2>7. QED
    BY <1>1, <2>1, <2>2, <2>3, <2>4, <2>5, <2>6 DEF Next, Worker, Between, ParseTrt, LoadTrt, ParseDml, CreateDml
<1>2. FrameInv /\ [Next]_vars => [lost' # lost => Allowed]_vars
  BY <1>1
<1>3. QED
  BY <1>2, FrameInvariant, PTL DEF Spec, LossesAreKnown

-----------------------------------------------------------------------------
(* Inference implements Service.                                           *)

FrameComplete == FrameInv /\ ReadyToDetect

LEMMA CompleteUnchanged ==
  ASSUME UNCHANGED <<chosen, model, dims, held, gpu_buffers, idx>>
  PROVE  Complete <=> Complete'
BY DEF Complete, TrtComplete, DmlComplete, DimsError, Nodes, chosen, dims, idx

\* Until the loop nothing is lent, and a step that does not lead to it or to the
\* end is no step of Service, or gives up, or is the end of the process.
LEMMA PromiseParse ==
  ASSUME pc \in TrtSteps \union DmlSteps \union {"ready"}, fault = "none", stop' = stop,
         pc' \in TrtSteps \union DmlSteps \union {"ready", "failed"}
  PROVE  [Promise!Next]_(Promise!vars)
<1>1. Phase = "acquiring" /\ Lent = {} /\ Lent' = {}
  BY DEF Phase, Lent, TrtSteps, DmlSteps, LoopSteps
<1>2. Phase' \in {"acquiring", "draining", "aborted"}
  BY DEF Phase, TrtSteps, DmlSteps, LoopSteps
<1>3. CASE Phase' = "acquiring"
  BY <1>1, <1>3 DEF Promise!vars
<1>4. CASE Phase' = "draining"
  <2>1. Promise!GiveUp
    BY <1>1, <1>4 DEF Promise!GiveUp
  <2>2. QED
    BY <2>1 DEF Promise!Next
<1>5. CASE Phase' = "aborted"
  <2>1. Promise!Abort
    BY <1>1, <1>5 DEF Promise!Abort
  <2>2. QED
    BY <2>1 DEF Promise!Next
<1>6. QED
  BY <1>2, <1>3, <1>4, <1>5

\* Steps of the loop that stay in it, or end the process.
LEMMA PromiseLoop ==
  ASSUME pc \in LoopSteps, pc' \in LoopSteps, fault = "none", stop' = stop,
         Complete, Complete'
  PROVE  [Promise!Next]_(Promise!vars)
<1>1. Phase = "serving" /\ Lent = {"frame"} /\ Lent' = {"frame"}
  BY DEF Phase, Lent, LoopSteps
<1>2. CASE fault' = "none"
  BY <1>1, <1>2 DEF Phase, LoopSteps, Promise!vars
<1>3. CASE fault' # "none"
  <2>1. Phase' = "aborted"
    BY <1>3 DEF Phase
  <2>2. Promise!Abort
    BY <1>1, <2>1 DEF Promise!Abort
  <2>3. QED
    BY <2>2 DEF Promise!Next
<1>4. QED
  BY <1>2, <1>3

LEMMA PromiseBetween ==
  ASSUME FrameComplete, FrameComplete', Between
  PROVE  [Promise!Next]_(Promise!vars)
<1>1. /\ UNCHANGED <<chosen, model, dialog, stop, owned, dims, pass>>
      /\ fault = "none" /\ ~dialog
      /\ (GoOn /\ ~At("failed")) \/ DecodeOutput => fault' = "none" \/ pc' = pc
      /\ (GoOn /\ ~At("ready")) \/ CreateFrameObject \/ BeginFrame \/ LeaveLoop => fault' = "none"
  BY DEF Between, CreateFrameObject, GoOn, BeginFrame, LeaveLoop, DecodeOutput, At, Crash
<1>2. Complete <=> Complete'
  BY <1>1, CompleteUnchanged DEF owned, pass
<1>3. CASE CreateFrameObject
  <2>1. Phase = "idle" /\ Phase' = "acquiring" /\ Lent = {} /\ Lent' = {}
    BY <1>1, <1>3 DEF CreateFrameObject, At, Phase, Lent, LoopSteps
  <2>2. stop' = FALSE
    BY <1>1, <1>3 DEF CreateFrameObject, At, FrameComplete, FrameInv, RunInv, NotYetAsked, TypeOK
  <2>3. Promise!Launch
    BY <2>1, <2>2 DEF Promise!Launch
  <2>4. QED
    BY <2>3 DEF Promise!Next
<1>4. CASE GoOn /\ At("ready") /\ pc' = "loop"
  <2>1. Phase = "acquiring" /\ Lent = {} /\ Phase' = "serving"
    BY <1>1, <1>4 DEF At, Phase, Lent, LoopSteps
  <2>2. Lent' = {"frame"}
    BY <1>4 DEF FrameComplete, ReadyToDetect, Lent, LoopSteps
  <2>3. Promise!Acquire("frame")
    BY <1>1, <2>1, <2>2 DEF Promise!Acquire
  <2>4. QED
    BY <2>3 DEF Promise!Next
<1>5. CASE GoOn /\ At("ready") /\ pc' = "release"
  <2>1. Phase = "acquiring" /\ Lent = {} /\ Phase' = "draining"
    BY <1>1, <1>5 DEF At, Phase, Lent, LoopSteps
  <2>2. Lent' \in {{}, {"frame"}}
    BY DEF Lent
  <2>3. Promise!GiveUp
    BY <1>1, <2>1, <2>2 DEF Promise!GiveUp
  <2>4. QED
    BY <2>3 DEF Promise!Next
<1>6. CASE GoOn /\ At("failed") /\ pc' = "release"
  <2>1. Phase = "draining" /\ Phase' = "draining" /\ Lent = {}
    BY <1>1, <1>6 DEF At, Phase, Lent, LoopSteps
  <2>2. ~Complete
    <3>1. "input_memory" \notin held /\ "m_memory_info" \notin held
      BY <1>6 DEF At, FrameComplete, FrameInv, ParseInv, HeldFits
    <3>2. ~TrtComplete /\ ~DmlComplete
      BY <3>1, Zenon DEF TrtComplete, DmlComplete, Members, DmlMembers
    <3>3. QED
      BY <3>2 DEF Complete
  <2>3. Lent' = {}
    BY <1>2, <1>6, <2>2 DEF Lent, LoopSteps
  <2>4. QED
    BY <1>1, <2>1, <2>3 DEF Promise!vars
<1>7. CASE BeginFrame \/ DecodeOutput
  <2>1. pc \in LoopSteps /\ pc' \in LoopSteps
    BY <1>7 DEF BeginFrame, DecodeOutput, At, Crash, LoopSteps
  <2>2. Complete
    BY <2>1 DEF FrameComplete, ReadyToDetect
  <2>3. QED
    BY <1>1, <1>2, <2>1, <2>2, PromiseLoop
<1>8. CASE LeaveLoop
  <2>1. Phase = "serving" /\ Phase' = "draining" /\ stop
    BY <1>1, <1>8 DEF LeaveLoop, At, Phase, LoopSteps
  <2>2. Lent' = Lent
    BY <1>2, <1>8 DEF LeaveLoop, At, Lent, LoopSteps
  <2>3. Promise!StopServing
    BY <1>1, <2>1, <2>2 DEF Promise!StopServing
  <2>4. QED
    BY <2>3 DEF Promise!Next
<1>9. CASE GoOn /\ At("ready") /\ pc' = pc
  BY <1>1, <1>9, PromiseParse DEF At
<1>10. QED
  BY <1>3, <1>4, <1>5, <1>6, <1>7, <1>8, <1>9 DEF Between, GoOn, Crash

LEMMA PromiseReleaseStep ==
  ASSUME FrameComplete, ReleaseTrt \/ (ReleaseDml /\ UNCHANGED pass)
  PROVE  [Promise!Next]_(Promise!vars)
<1>1. /\ UNCHANGED <<chosen, model, dialog, stop, dims, idx>>
      /\ Phase = "draining" /\ Lent \in {{}, {"frame"}} /\ pc = "release" /\ ~dialog
  BY DEF ReleaseTrt, ReleaseDml, At, pass, Phase, Lent, LoopSteps
<1>2. CASE pc' = "released"
  <2>1. held' = {} /\ gpu_buffers' = {}
    BY <1>1, <1>2 DEF ReleaseTrt, ReleaseDml, At, Crash, pass, FrameComplete, FrameInv, TypeOK,
       ParseInv, Unregistered
  <2>2. Lent' = {} /\ Phase' = "ended"
    <3>1. fault' = "none"
      BY <1>1, <1>2 DEF ReleaseTrt, ReleaseDml, At, Crash
    <3>2. QED
      BY <1>2, <2>1, <3>1 DEF Lent, Phase, LoopSteps
  <2>3. Promise!End
    BY <1>1, <2>2 DEF Promise!End
  <2>4. QED
    BY <2>3 DEF Promise!Next
<1>3. CASE pc' # "released"
  <2>1. pc' = pc /\ fault' # "none" /\ UNCHANGED <<held, gpu_buffers>>
    BY <1>3 DEF ReleaseTrt, ReleaseDml, Crash
  <2>2. Complete <=> Complete'
    BY <1>1, <2>1, CompleteUnchanged
  <2>3. Lent' = Lent /\ Phase' = "aborted"
    BY <1>1, <2>1, <2>2 DEF Lent, Phase, LoopSteps
  <2>4. Promise!Abort
    BY <1>1, <2>3 DEF Promise!Abort
  <2>5. QED
    BY <2>4 DEF Promise!Next
<1>4. QED
  BY <1>2, <1>3

\* Requests to stop, and the user in front of a box.
LEMMA PromiseOthers ==
  ASSUME UNCHANGED <<chosen, model, pc, owned, dims, frame, fault, pass>>,
         Exit \/ Dismiss \/ UNCHANGED <<dialog, stop>>
  PROVE  [Promise!Next]_(Promise!vars)
<1>1. Lent' = Lent
  <2>1. Complete <=> Complete'
    BY CompleteUnchanged DEF owned, pass
  <2>2. QED
    BY <2>1 DEF Lent, owned, pass
<1>2. CASE UNCHANGED <<dialog, stop>>
  BY <1>1, <1>2 DEF Phase, Promise!vars
<1>3. CASE Exit
  <2>1. Phase' = Phase /\ Phase # "aborted" /\ stop' = TRUE
    BY <1>3 DEF Exit, Phase
  <2>2. Promise!Request
    BY <1>1, <2>1 DEF Promise!Request
  <2>3. QED
    BY <2>2 DEF Promise!Next
<1>4. CASE Dismiss
  <2>1. stop' = stop
    BY <1>4 DEF Dismiss
  <2>2. \/ Phase' = Phase
        \/ Phase = "acquiring" /\ Phase' = "draining"
    BY <1>4 DEF Dismiss, Phase, LoopSteps
  <2>3. Promise!GiveUp \/ UNCHANGED Promise!vars
    BY <1>1, <2>1, <2>2 DEF Promise!GiveUp, Promise!vars
  <2>4. QED
    BY <2>3 DEF Promise!Next
<1>5. QED
  BY <1>2, <1>3, <1>4

\* Whatever fails, the frame object implements the safety part of Service: it
\* serves with all that Detect needs, stops serving on request only, and has
\* given back every member and every buffer of its table when it ends.
THEOREM FrameImplementsService == Spec => Promise!Init /\ [][Promise!Next]_(Promise!vars)
<1>1. InitFrame => Promise!Init
  BY DEF InitFrame, Init, Promise!Init, Phase, Lent, LoopSteps
<1>2. ASSUME FrameComplete, FrameComplete', [Next]_vars
      PROVE  [Promise!Next]_(Promise!vars)
  <2>1. CASE Between
    BY <1>2, <2>1, PromiseBetween
  <2>2. CASE ParseTrt \/ ((ParseDml) /\ UNCHANGED pass)
    <3>1. pc \in TrtSteps \union DmlSteps /\ fault = "none" /\ stop' = stop
      BY <2>2 DEF ParseTrt, LoadSerializedFile, CreateRuntime, DeserializeEngine, CreateContext,
         CreateStream, FindNames, RegisterBinding, EndPass, AllocateHost, ParseDml, CreateEnv,
         CreateSessionOptions, CreateSession, ParseInput, ParseOutput, Parse, CreateTensor,
         CreateMemoryInfo, Create, At, TrtSteps, DmlSteps
    <3>2. CASE RegisterBinding
      <4>1. pc' \in {pc, "shaped", "failed"}
        BY <1>2, <3>2, NotesBinding DEF FrameComplete, FrameInv, GiveUp, Crash
      <4>2. QED
        BY <3>1, <4>1, PromiseParse DEF TrtSteps
    <3>3. CASE ~RegisterBinding
      <4>1. pc' \in TrtSteps \union DmlSteps \union {"ready", "failed"}
        BY <2>2, <3>1, <3>3 DEF ParseTrt, LoadSerializedFile, CreateRuntime, DeserializeEngine, CreateContext,
           CreateStream, FindNames, EndPass, AllocateHost, ParseDml, CreateEnv, CreateSessionOptions,
           CreateSession, ParseInput, ParseOutput, Parse, CreateTensor, CreateMemoryInfo, Create,
           Crash, TrtSteps, DmlSteps
      <4>2. QED
        BY <3>1, <4>1, PromiseParse
    <3>4. QED
      BY <3>2, <3>3
  <2>3. CASE InferTrt \/ (InferDml /\ UNCHANGED pass)
    <3>1. pc = "infer" /\ pc' \in {"infer", "decode"} /\ fault = "none" /\ stop' = stop
      BY <2>3 DEF InferTrt, InferDml, At
    <3>2. Complete /\ Complete'
      BY <1>2, <3>1 DEF FrameComplete, ReadyToDetect, LoopSteps
    <3>3. QED
      BY <3>1, <3>2, PromiseLoop DEF LoopSteps
  <2>4. CASE ReleaseTrt \/ (ReleaseDml /\ UNCHANGED pass)
    BY <1>2, <2>4, PromiseReleaseStep
  <2>5. CASE Exit \/ Dismiss
    BY <2>5, PromiseOthers DEF Exit, Dismiss
  <2>6. CASE UNCHANGED vars
    BY <2>6, PromiseOthers DEF vars, chosen, owned, dims, frame, pass, idx
  <2>7. QED
    BY <1>2, <2>1, <2>2, <2>3, <2>4, <2>5, <2>6 DEF Next, Worker, Between
<1>3. QED
  BY <1>1, <1>2, FrameInvariant, ReadyFrameIsComplete, PTL DEF Spec, FrameComplete

-----------------------------------------------------------------------------
(* The life of the framework.                                              *)

\* What is usable can be released.
LEMMA UsableIsReleasable ==
  ASSUME FrameInv, pc \in LoopSteps \union {"ready"}
  PROVE  Releasable
<1> SUFFICES ASSUME frame_type = "trt" PROVE "m_engine" \in held /\ sized
  BY DEF Releasable
<1>1. "m_engine" \in held
  BY DEF FrameInv, ParseInv, HeldFits, Using, Members
<1>2. sized
  BY DEF FrameInv, ParseInv, Registered, Using
<1>3. QED
  BY <1>1, <1>2

\* A step of the preparation: it goes on, succeeds, fails or kills the process.
LEMMA LifeParse ==
  ASSUME FrameInv', pc \in TrtSteps \union DmlSteps, fault = "none",
         pc' \in TrtSteps \union DmlSteps \union {"ready", "failed"}
  PROVE  [Life!Next]_LifePhase
<1> USE DEF Life!Next, Life!Prepare, Life!Fail, Life!Die, LifePhase, TrtSteps, DmlSteps, LoopSteps
<1>1. LifePhase = "preparing"
  OBVIOUS
<1>2. CASE fault' # "none"
  BY <1>1, <1>2
<1>3. CASE fault' = "none" /\ pc' = "ready"
  <2>1. Releasable'
    BY <1>3 DEF FrameInv, ParseInv, HeldFits, Registered, Using, Members, Releasable
  <2>2. QED
    BY <1>1, <1>3, <2>1
<1>4. CASE fault' = "none" /\ pc' = "failed"
  BY <1>1, <1>4
<1>5. CASE fault' = "none" /\ pc' \in TrtSteps \union DmlSteps
  BY <1>1, <1>5
<1>6. QED
  BY <1>2, <1>3, <1>4, <1>5

LEMMA LifeRest ==
  ASSUME FrameInv, Between \/ Exit \/ Dismiss \/ UNCHANGED vars
  PROVE  [Life!Next]_LifePhase
<1>1. UNCHANGED <<chosen, held, sized>> /\ (Releasable' <=> Releasable)
      /\ \/ UNCHANGED fault
         \/ pc \in {"ready", "decode"} /\ pc' = pc /\ fault = "none" /\ fault' # "none"
  BY DEF Between, CreateFrameObject, GoOn, BeginFrame, LeaveLoop, DecodeOutput, Exit, Dismiss, vars,
     chosen, owned, pass, Releasable, At, Crash
<1>2. CASE pc' = pc
  <2>1. CASE UNCHANGED fault
    BY <1>1, <1>2, <2>1 DEF LifePhase
  <2>2. CASE ~UNCHANGED fault
    BY <1>1, <1>2, <2>2, UsableIsReleasable DEF LifePhase, LoopSteps, Life!Next, Life!Die
  <2>3. QED
    BY <2>1, <2>2
<1>3. CASE pc' # pc
  <2>1. fault = "none" /\ fault' = "none" /\ Between
    BY <1>1, <1>3 DEF Between, CreateFrameObject, GoOn, BeginFrame, LeaveLoop, DecodeOutput, At, Exit,
       Dismiss, vars
  <2> USE DEF LifePhase, Life!Next, Life!Create, Life!Close, At, LoopSteps
  <2>2. CASE CreateFrameObject
    BY <1>1, <2>1, <2>2 DEF CreateFrameObject
  <2>3. CASE GoOn
    BY <1>1, <1>3, <2>1, <2>3, UsableIsReleasable DEF GoOn, Crash
  <2>4. CASE BeginFrame \/ DecodeOutput
    BY <1>1, <1>3, <2>1, <2>4 DEF BeginFrame, DecodeOutput, Crash
  <2>5. CASE LeaveLoop
    BY <1>1, <2>1, <2>5, UsableIsReleasable DEF LeaveLoop
  <2>6. QED
    BY <2>1, <2>2, <2>3, <2>4, <2>5 DEF Between
<1>4. QED
  BY <1>2, <1>3

\* Whatever fails, the framework lives as the worker expects: what was usable can
\* be released, for models of any shape.
THEOREM FrameLifeIsKept == Spec => KeepsLife
<1>1. InitFrame => Life!Init
  BY DEF InitFrame, Init, Life!Init, LifePhase, LoopSteps
<1>2. ASSUME FrameInv, FrameInv', [Next]_vars
      PROVE  [Life!Next]_LifePhase
  <2>1. CASE Between \/ Exit \/ Dismiss \/ UNCHANGED vars
    BY <1>2, <2>1, LifeRest
  <2>2. CASE ParseTrt \/ ((ParseDml) /\ UNCHANGED pass)
    <3>1. pc \in TrtSteps \union DmlSteps /\ fault = "none"
      BY <2>2 DEF ParseTrt, LoadSerializedFile, CreateRuntime, DeserializeEngine, CreateContext,
         CreateStream, FindNames, RegisterBinding, EndPass, AllocateHost, ParseDml, CreateEnv,
         CreateSessionOptions, CreateSession, ParseInput, ParseOutput, Parse, CreateTensor,
         CreateMemoryInfo, Create, At, TrtSteps, DmlSteps
    <3>2. CASE RegisterBinding
      <4>1. pc' \in {pc, "shaped", "failed"}
        BY <1>2, <3>2, NotesBinding DEF FrameInv, GiveUp, Crash
      <4>2. QED
        BY <1>2, <3>1, <4>1, LifeParse DEF TrtSteps
    <3>3. CASE ~RegisterBinding
      <4>1. pc' \in TrtSteps \union DmlSteps \union {"ready", "failed"}
        BY <2>2, <3>1, <3>3 DEF ParseTrt, LoadSerializedFile, CreateRuntime, DeserializeEngine, CreateContext,
           CreateStream, FindNames, EndPass, AllocateHost, ParseDml, CreateEnv, CreateSessionOptions,
           CreateSession, ParseInput, ParseOutput, Parse, CreateTensor, CreateMemoryInfo, Create,
           Crash, TrtSteps, DmlSteps
      <4>2. QED
        BY <1>2, <3>1, <4>1, LifeParse
    <3>4. QED
      BY <3>2, <3>3
  <2>3. CASE InferTrt \/ InferDml
    BY <2>3 DEF InferTrt, InferDml, At, LifePhase, LoopSteps, Life!Next, Life!Die
  <2>4. CASE ReleaseTrt \/ ReleaseDml
    BY <2>4 DEF ReleaseTrt, ReleaseDml, At, Crash, LifePhase, Releasable, LoopSteps, Life!Next,
       Life!Release, Life!Crash
  <2>5. QED
    BY <1>2, <2>1, <2>2, <2>3, <2>4 DEF Next, Worker, Between
<1>3. QED
  BY <1>1, <1>2, FrameInvariant, PTL DEF Spec, KeepsLife, Life!Spec
=============================================================================
