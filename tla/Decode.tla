------------------------------- MODULE Decode -------------------------------
(***************************************************************************)
(* DecodeOutput of the three detectors, yolov5.cpp, yolov8.cpp, yolox.cpp. *)
(*                                                                         *)
(* The worker walks over the rows of the model's output and collects those *)
(* above the confidence threshold in m_process; NMSBoxes of OpenCV then    *)
(* chooses among them.  The threshold lies in the memory shared with the   *)
(* UI (yolo_base keeps a pointer to it): it is read anew for every row and *)
(* once more by NMSBoxes, and the UI writes it whenever it likes.          *)
(*                                                                         *)
(* Of a row only the scores are kept; where the box lies is abstracted to  *)
(* the number of its row, and so is the order of the output in memory.     *)
(* Scores are counted in halves, 0 to 2; probabilities and the threshold   *)
(* in quarters, because YOLOX multiplies two scores.                       *)
(***************************************************************************)
EXTENDS Integers, Sequences

CONSTANTS
  Nets,        \* the models: detector, image size, boxes and their attributes
  Outputs(_),  \* what the model may put out for a frame
  Thresholds   \* what the UI may set *m_conf to

\* Those that dims_error lets pass: it compares the two dimensions, no more.
ASSUME NetsAssumption ==
  \A n \in Nets :
    /\ n \in [yolo_type : 1 .. 3, size : Nat, boxes : Nat, attributes : Nat \ {0}]
    /\ n.attributes < n.boxes

ASSUME OutputsAssumption ==
  \A n \in Nets :
    Outputs(n) \subseteq [0 .. n.boxes - 1 -> [4 .. n.attributes - 1 -> 0 .. 2]]

ASSUME ThresholdsAssumption == Thresholds \subseteq Nat

VARIABLES
  net,            \* the model of this run
  conf,           \* *m_conf
  lowest, highest,  \* history: its extremes since the decoding began
  pc,
  output,         \* the output of the frame
  row, class_idx, \* the loop counters
  grid_strides,   \* YOLOX: how many anchors are in the list
  process,        \* m_process: boxes (as rows), classes and confidences
  indices,        \* and the subscripts of those that NMSBoxes chose
  beyond          \* something was read that is not in the output, or not of its row

ui   == <<conf, lowest, highest>>
vars == <<net, ui, pc, output, row, class_idx, grid_strides, process, indices, beyond>>

\* Negative for a model of too few attributes.
class_num == net.attributes - IF net.yolo_type = 2 THEN 4 ELSE 5

\* The first attribute that is a class score, and all of them.
First   == IF net.yolo_type = 2 THEN 4 ELSE 5
Classes == 0 .. class_num - 1

Score(r, c) == output[r][First + c]

\* std::max_element, and the loop of YOLOv5 that starts from zero: the first of
\* the classes with the highest score; YOLOv5 takes class 0 where there is none.
BestClass(r) ==
  IF Classes = {} THEN 0
  ELSE CHOOSE c \in Classes :
         /\ \A d \in Classes : Score(r, d) <= Score(r, c)
         /\ \A d \in Classes : d < c => Score(r, d) < Score(r, c)

Nothing == [boxes |-> <<>>, classes |-> <<>>, confidences |-> <<>>]

Found == DOMAIN process.boxes

-----------------------------------------------------------------------------

Init ==
  /\ net \in Nets
  /\ conf \in Thresholds
  /\ lowest = conf /\ highest = conf
  /\ pc = "idle"
  /\ output = [r \in {} |-> 0]
  /\ row = 0 /\ class_idx = 0
  /\ grid_strides = 0
  /\ process = Nothing
  /\ indices = {}
  /\ beyond = FALSE

\* The UI moves the slider.
SetConf ==
  /\ conf' \in Thresholds
  /\ lowest' = IF pc = "decode" /\ conf' < lowest THEN conf' ELSE lowest
  /\ highest' = IF pc = "decode" /\ conf' > highest THEN conf' ELSE highest
  /\ UNCHANGED <<net, pc, output, row, class_idx, grid_strides, process, indices, beyond>>

\* generate_grids_and_stride: one anchor per cell of three square grids.
Anchors ==
  LET grid(stride) == net.size \div stride
  IN  grid(8) * grid(8) + grid(16) * grid(16) + grid(32) * grid(32)

\* Mutated form: the anchors of the frame before stay in the list.
Clear_KeepsGrids ==
  /\ process' = Nothing
  /\ indices' = {}
  /\ grid_strides' = IF net.yolo_type = 3 THEN grid_strides + Anchors ELSE grid_strides

\* Mutated form: the boxes of the frame before stay.
Clear_KeepsBoxes ==
  /\ UNCHANGED process
  /\ indices' = {}
  /\ grid_strides' = IF net.yolo_type = 3 THEN Anchors ELSE grid_strides

\* What every DecodeOutput begins with.
Clear ==
  /\ process' = Nothing
  /\ indices' = {}
  /\ grid_strides' = IF net.yolo_type = 3 THEN Anchors ELSE grid_strides

DecodeOutput ==
  /\ pc \in {"idle", "done"}
  /\ pc' = "decode"
  /\ output' \in Outputs(net)
  /\ row' = 0 /\ class_idx' = 0
  /\ lowest' = conf /\ highest' = conf
  /\ Clear
  /\ UNCHANGED <<net, conf, beyond>>

\* How many rows the loop is about to visit.
Rows == IF net.yolo_type = 3 THEN grid_strides ELSE net.boxes

Decoding(yolo_type) == pc = "decode" /\ net.yolo_type = yolo_type /\ row < Rows

\* Mutated form: the probability is not kept.
Collect_NoConfidence(class, prob) ==
  IF prob > conf
  THEN process' = [process EXCEPT !.boxes = Append(@, row), !.classes = Append(@, class)]
  ELSE UNCHANGED process

\* The box of the current row is taken if its probability exceeds the threshold.
Collect(class, prob) ==
  IF prob > conf
  THEN process' = [boxes       |-> Append(process.boxes, row),
                   classes     |-> Append(process.classes, class),
                   confidences |-> Append(process.confidences, prob)]
  ELSE UNCHANGED process

\* The rows have coordinates only, or not even those: there is no objectness, nor
\* a class score of YOLOv8.
Short == net.attributes < 5

\* What follows the row is taken for its score, or what follows the output in the
\* last one; YOLOv5's loop over the classes does not end when that exceeds the
\* threshold.  It is followed no further.
ReadBeyond == beyond' = TRUE /\ pc' = "beyond" /\ UNCHANGED <<process, row, class_idx>>

\* YOLOv5 looks at the objectness alone.
RowV5 ==
  /\ Decoding(1)
  /\ \/ Short /\ ReadBeyond
     \/ /\ ~Short
        /\ Collect(BestClass(row), 2 * output[row][4])
        /\ row' = row + 1
        /\ UNCHANGED <<pc, class_idx, beyond>>
  /\ UNCHANGED <<net, ui, output, grid_strides, indices>>

\* YOLOv8 looks at the best of the class scores.
RowV8 ==
  /\ Decoding(2)
  /\ \/ Short /\ ReadBeyond
     \/ /\ ~Short
        /\ Collect(BestClass(row), 2 * Score(row, BestClass(row)))
        /\ row' = row + 1
        /\ UNCHANGED <<pc, class_idx, beyond>>
  /\ UNCHANGED <<net, ui, output, grid_strides, indices>>

\* YOLOX visits the anchors, and looks at every class of each.
ClassX ==
  /\ Decoding(3)
  /\ \/ (Short \/ row >= net.boxes) /\ ReadBeyond
     \/ /\ ~Short /\ row < net.boxes
        /\ class_idx < class_num
        /\ Collect(class_idx, output[row][4] * Score(row, class_idx))
        /\ class_idx' = class_idx + 1
        /\ UNCHANGED <<row, pc, beyond>>
     \/ /\ ~Short /\ row < net.boxes
        /\ class_idx >= class_num
        /\ row' = row + 1 /\ class_idx' = 0
        /\ UNCHANGED <<process, pc, beyond>>
  /\ UNCHANGED <<net, ui, output, grid_strides, indices>>

\* Mutated form: the lists are handed over before the last row is decoded.
NMSBoxes_Early ==
  /\ pc = "decode" /\ row + 1 >= Rows
  /\ indices' = {j \in Found : process.confidences[j] > conf}
  /\ pc' = "done"
  /\ UNCHANGED <<net, ui, output, row, class_idx, grid_strides, process, beyond>>

\* cv::dnn::NMSBoxes drops what is not above the threshold, and of what overlaps
\* all but the best: some of those that are left, a best one among them.
NMSBoxes ==
  /\ pc = "decode" /\ row >= Rows
  /\ LET above == {j \in Found : process.confidences[j] > conf}
         best  == {j \in above : \A l \in above :
                     process.confidences[l] <= process.confidences[j]}
     IN  indices' \in {chosen \in SUBSET above : chosen \intersect best # {} \/ above = {}}
  /\ pc' = "done"
  /\ UNCHANGED <<net, ui, output, row, class_idx, grid_strides, process, beyond>>

Next == SetConf \/ DecodeOutput \/ RowV5 \/ RowV8 \/ ClassX \/ NMSBoxes

Spec == Init /\ [][Next]_vars

-----------------------------------------------------------------------------
(* Properties.                                                             *)

\* The three lists stay aligned, and the chosen subscripts lie within them.
TypeOK ==
  /\ net \in Nets
  /\ conf \in Thresholds /\ lowest \in Thresholds /\ highest \in Thresholds
  /\ pc \in {"idle", "decode", "done", "beyond"}
  /\ pc # "idle" => output \in Outputs(net)
  /\ row \in Nat /\ class_idx \in Nat
  /\ grid_strides \in Nat
  /\ process.boxes \in Seq(0 .. net.boxes - 1)
  /\ process.classes \in Seq(Nat)
  /\ process.confidences \in Seq(Nat)
  /\ Len(process.classes) = Len(process.boxes)
  /\ Len(process.confidences) = Len(process.boxes)
  /\ indices \subseteq Found
  /\ beyond = (pc = "beyond")

\* What the model puts out has at least one score per row, and a row for each of
\* YOLOX's anchors.  Nothing checks it: dims_error lets other models pass.
Fits == ~Short /\ (net.yolo_type = 3 => Anchors <= net.boxes)

\* With a model that fits, no row or score is read that is not there, in the
\* first frame or in any later one.
ReadsWithinOutput == Fits => ~beyond

\* What this frame holds for a row and a class: does the detector offer it, and
\* with which probability.
Offered(r, c) == IF net.yolo_type = 3 THEN c \in Classes ELSE c = BestClass(r)
Prob(r, c) ==
  CASE net.yolo_type = 1 -> 2 * output[r][4]
    [] net.yolo_type = 2 -> 2 * Score(r, c)
    [] net.yolo_type = 3 -> output[r][4] * Score(r, c)

\* However the threshold moves meanwhile, everything collected is of this frame,
\* with its own class and probability, and above the lowest threshold there was
\* while it was decoded.
CollectedIsJustified ==
  pc = "done" =>
    \A j \in Found :
      LET r == process.boxes[j]  c == process.classes[j] IN
      /\ Offered(r, c)
      /\ process.confidences[j] = Prob(r, c)
      /\ process.confidences[j] > lowest

\* Whatever is above the highest threshold there was while the frame was decoded
\* is collected; and then at least one box is chosen.  With
\* CollectedIsJustified: a threshold that is left alone has exactly the boxes
\* above it collected.
NothingIsMissed ==
  pc = "done" =>
    \A r \in 0 .. Rows - 1 : \A c \in Classes \union {0} :
      Offered(r, c) /\ Prob(r, c) > highest =>
        /\ \E j \in Found : process.boxes[j] = r /\ process.classes[j] = c
        /\ indices # {}
=============================================================================
