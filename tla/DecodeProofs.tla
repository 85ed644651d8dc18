---------------------------- MODULE DecodeProofs ----------------------------
(***************************************************************************)
(* Proofs about Decode, for any models, outputs and thresholds.            *)
(*                                                                         *)
(* BestClass chooses the first of the best classes, which is there only    *)
(* because a set of numbers has a least one: that follows from the         *)
(* well-foundedness of the natural numbers.                                *)
(***************************************************************************)
EXTENDS Decode, SequenceTheorems, WellFoundedInduction, TLAPS

\* The output of a model of too few attributes is never decoded beyond its first
\* row.
ShortIsUnread ==
  Short => row = 0 /\ (pc \in {"decode", "done"} => Found = {})

\* No loop runs past the rows there are.
RowsAreThere == pc = "decode" => row <= net.boxes

DecodeType == TypeOK /\ RowsAreThere

\* The anchors are those of this model only.
GridsFit == (pc = "decode" /\ net.yolo_type = 3) => grid_strides = Anchors

\* The history follows the threshold while the frame is decoded.
HistoryFits == pc = "decode" => lowest <= conf /\ conf <= highest

\* The entry j is what the frame offers, above the lowest threshold.
Justified(j) ==
  /\ Offered(process.boxes[j], process.classes[j])
  /\ process.confidences[j] = Prob(process.boxes[j], process.classes[j])
  /\ process.confidences[j] > lowest

AllJustified ==
  pc \in {"decode", "done"} => \A j \in Found : Justified(j)

\* The loops have passed this row and class.
Passed(r, c) == r < row \/ (net.yolo_type = 3 /\ r = row /\ c < class_idx)

Collected(r, c) == \E j \in Found : process.boxes[j] = r /\ process.classes[j] = c

NoneMissed ==
  pc = "decode" =>
    \A r \in 0 .. net.boxes - 1 : \A c \in Classes \union {0} :
      Passed(r, c) /\ Offered(r, c) /\ Prob(r, c) > highest => Collected(r, c)

DecodeInv ==
  /\ DecodeType /\ ShortIsUnread /\ GridsFit /\ HistoryFits
  /\ AllJustified /\ NoneMissed /\ NothingIsMissed /\ ReadsWithinOutput

-----------------------------------------------------------------------------
(* Numbers and sequences.                                                  *)

LEMMA ProductType == \A a, b \in Nat : a * b \in Nat
OBVIOUS

LEMMA NetType ==
  ASSUME net \in Nets
  PROVE  /\ net.yolo_type \in 1 .. 3 /\ net.size \in Nat
         /\ net.boxes \in Nat /\ net.attributes \in Nat
         /\ class_num \in Int
         /\ First + class_num = net.attributes
         /\ First \in {4, 5} /\ (net.yolo_type # 2 => First = 5)
         /\ ~Short => class_num \in Nat
         /\ ~Short /\ net.yolo_type = 2 => class_num > 0
         /\ net.boxes > 0
BY NetsAssumption DEF class_num, First, Short

LEMMA AnchorsType ==
  ASSUME net \in Nets
  PROVE  Anchors \in Nat
<1> DEFINE grid(stride) == net.size \div stride
<1>1. grid(8) \in Nat /\ grid(16) \in Nat /\ grid(32) \in Nat
  BY NetType
<1>2. grid(8) * grid(8) \in Nat /\ grid(16) * grid(16) \in Nat /\ grid(32) * grid(32) \in Nat
  BY <1>1, ProductType
<1>3. QED
  BY <1>2 DEF Anchors

LEMMA OutputType ==
  ASSUME net \in Nets, output \in Outputs(net), NEW r \in 0 .. net.boxes - 1,
         NEW a \in 4 .. net.attributes - 1
  PROVE  output[r][a] \in Nat
<1>1. output \in [0 .. net.boxes - 1 -> [4 .. net.attributes - 1 -> 0 .. 2]]
  BY OutputsAssumption
<1>2. output[r] \in [4 .. net.attributes - 1 -> 0 .. 2]
  BY <1>1
<1>3. output[r][a] \in 0 .. 2
  BY <1>2
<1>4. QED
  BY <1>3

LEMMA NatIsWellFounded == IsWellFoundedOn({p \in Nat \X Nat : p[1] < p[2]}, Nat)
BY NatLessThanWellFounded, Zenon DEF OpToRel

\* Every set of numbers has a least one.
LEMMA LeastNumber ==
  ASSUME NEW T, T \subseteq Nat, T # {}
  PROVE  \E x \in T : \A y \in T : x <= y
<1> DEFINE R == {p \in Nat \X Nat : p[1] < p[2]}
<1>1. PICK x \in T : \A y \in T : <<y, x>> \notin R
  <2>1. IsWellFoundedOn(R, Nat)
    BY NatIsWellFounded
  <2>2. QED
    <3> HIDE DEF R
    <3> QED
      BY <2>1, WFMin, Zenon
<1>2. \A y \in T : x <= y
  <2> SUFFICES ASSUME NEW y \in T PROVE x <= y
    OBVIOUS
  <2>1. x \in Nat /\ y \in Nat
    OBVIOUS
  <2>2. ~(y < x)
    BY <1>1, <2>1
  <2>3. QED
    BY <2>1, <2>2
<1>3. QED
  BY <1>2

\* Where there are classes, one of them is the best class of a row: none has a
\* higher score.
LEMMA BestClassIsBest ==
  ASSUME net \in Nets, output \in Outputs(net), NEW r \in 0 .. net.boxes - 1, class_num > 0
  PROVE  /\ BestClass(r) \in Classes
         /\ \A d \in Classes : Score(r, d) <= Score(r, BestClass(r))
<1>1. \A d \in Classes : Score(r, d) \in 0 .. 2
  <2> SUFFICES ASSUME NEW d \in Classes PROVE Score(r, d) \in 0 .. 2
    OBVIOUS
  <2>1. First + d \in 4 .. net.attributes - 1
    BY NetType DEF Classes
  <2>2. output[r] \in [4 .. net.attributes - 1 -> 0 .. 2]
    BY OutputsAssumption
  <2>3. QED
    BY <2>1, <2>2 DEF Score
<1>2. Classes # {} /\ Classes \subseteq Nat
  <2>1. class_num \in Int /\ class_num > 0
    BY NetType
  <2>2. \A n \in Int : 0 .. n - 1 \subseteq Nat /\ (n > 0 => 0 \in 0 .. n - 1)
    OBVIOUS
  <2>3. Classes \subseteq Nat /\ 0 \in Classes
    BY <2>1, <2>2 DEF Classes
  <2>4. QED
    BY <2>3
<1>3. PICK top \in 0 .. 2 : (\E c \in Classes : Score(r, c) = top) /\ \A d \in Classes : Score(r, d) <= top
  <2>1. CASE \E c \in Classes : Score(r, c) = 2
    BY <1>1, <2>1
  <2>2. CASE (\A c \in Classes : Score(r, c) # 2) /\ (\E c \in Classes : Score(r, c) = 1)
    BY <1>1, <2>2
  <2>3. CASE \A c \in Classes : Score(r, c) = 0
    <3>1. PICK c \in Classes : TRUE
      BY <1>2
    <3>2. Score(r, c) = 0 /\ \A d \in Classes : Score(r, d) <= 0
      BY <2>3
    <3>3. QED
      BY <3>2
  <2>4. (\E c \in Classes : Score(r, c) = 2) \/ (\E c \in Classes : Score(r, c) = 1)
        \/ (\A c \in Classes : Score(r, c) = 0)
    BY <1>1
  <2>5. QED
    BY <2>1, <2>2, <2>3, <2>4
<1>4. PICK c \in Classes : Score(r, c) = top /\ \A d \in Classes : Score(r, d) = top => c <= d
  <2> DEFINE T == {d \in Classes : Score(r, d) = top}
  <2>1. T \subseteq Nat /\ T # {}
    BY <1>2, <1>3
  <2>2. PICK c \in T : \A d \in T : c <= d
    <3> HIDE DEF T
    <3> QED
      BY <2>1, LeastNumber
  <2>3. QED
    BY <2>2
<1>5. \E b \in Classes : /\ \A d \in Classes : Score(r, d) <= Score(r, b)
                         /\ \A d \in Classes : d < b => Score(r, d) < Score(r, b)
  <2>1. \A d \in Classes : Score(r, d) <= Score(r, c)
    BY <1>3, <1>4
  <2>2. ASSUME NEW d \in Classes, d < c PROVE Score(r, d) < Score(r, c)
    <3>1. d \in Nat /\ c \in Nat /\ Score(r, d) \in 0 .. 2 /\ Score(r, c) = top
      BY <1>1, <1>2, <1>4
    <3>2. Score(r, d) # top
      BY <1>4, <2>2, <3>1
    <3>3. QED
      BY <2>1, <3>1, <3>2
  <2>3. QED
    BY <2>1, <2>2
<1>6. QED
  BY <1>2, <1>5, Zenon DEF BestClass

\* YOLOv5 asks for a best class also where there is none.
LEMMA BestClassType ==
  ASSUME net \in Nets, output \in Outputs(net), NEW r \in 0 .. net.boxes - 1
  PROVE  BestClass(r) \in Nat
<1>1. CASE class_num > 0
  BY <1>1, BestClassIsBest, NetType DEF Classes
<1>2. CASE class_num <= 0
  <2>1. Classes = {}
    BY <1>2, NetType DEF Classes
  <2>2. QED
    BY <2>1 DEF BestClass
<1>3. QED
  BY <1>1, <1>2, NetType

-----------------------------------------------------------------------------
(* What a row adds.                                                        *)

\* What the frame offers does not change while it is decoded.
LEMMA OfferedUnchanged ==
  ASSUME UNCHANGED <<net, output>>
  PROVE  \A r, c : (Offered(r, c)' <=> Offered(r, c)) /\ Prob(r, c)' = Prob(r, c)
<1>1. First' = First /\ Classes' = Classes
  BY DEF First, Classes, class_num
<1>2. \A r, c : Score(r, c)' = Score(r, c)
  BY <1>1 DEF Score
<1>3. ASSUME NEW r PROVE BestClass(r)' = BestClass(r)
  BY SMT DEF BestClass, Classes, class_num, First, Score
<1>4. QED
  BY <1>1, <1>2, <1>3 DEF Offered, Prob

LEMMA ProbType ==
  ASSUME DecodeType, pc # "idle", ~Short,
         NEW r \in 0 .. net.boxes - 1, NEW c, Offered(r, c)
  PROVE  Prob(r, c) \in Nat /\ c \in Nat
<1>0. net \in Nets /\ output \in Outputs(net)
  BY DEF DecodeType, TypeOK
<1>1. CASE net.yolo_type = 1
  <2>1. output[r][4] \in Nat
    BY <1>0, <1>1, OutputType, NetType DEF Short
  <2>2. c \in Nat
    BY <1>0, <1>1, BestClassType DEF Offered
  <2>3. QED
    BY <1>1, <2>1, <2>2 DEF Prob
<1>2. CASE net.yolo_type \in {2, 3}
  <2>1. c \in Classes
    BY <1>0, <1>2, NetType, BestClassIsBest DEF Offered
  <2>2. c \in Nat /\ First + c \in 4 .. net.attributes - 1
    BY <1>0, <2>1, NetType DEF Classes
  <2>3. Score(r, c) \in Nat
    BY <1>0, <2>2, OutputType DEF Score
  <2>4. CASE net.yolo_type = 2
    BY <2>2, <2>3, <2>4 DEF Prob
  <2>5. CASE net.yolo_type = 3
    <3>1. 4 \in 4 .. net.attributes - 1
      BY <1>0, <2>2, <2>5, NetType
    <3>2. output[r][4] \in Nat
      BY <1>0, <3>1, OutputType
    <3>3. output[r][4] * Score(r, c) \in Nat
      BY <2>3, <3>2, ProductType
    <3>4. QED
      BY <2>2, <2>5, <3>3 DEF Prob
  <2>6. QED
    BY <1>2, <2>4, <2>5
<1>3. QED
  BY <1>0, <1>1, <1>2, NetType

LEMMA CollectStep ==
  ASSUME DecodeType, row < net.boxes, net' = net, NEW class \in Nat, NEW prob \in Nat,
         Collect(class, prob)
  PROVE  /\ process'.boxes \in Seq(0 .. net'.boxes - 1)
         /\ process'.classes \in Seq(Nat) /\ process'.confidences \in Seq(Nat)
         /\ Len(process'.classes) = Len(process'.boxes)
         /\ Len(process'.confidences) = Len(process'.boxes)
         /\ \A j \in Found : /\ j \in Found'
                             /\ process'.boxes[j] = process.boxes[j]
                             /\ process'.classes[j] = process.classes[j]
                             /\ process'.confidences[j] = process.confidences[j]
         /\ \A j \in Found' :
              \/ j \in Found
              \/ /\ prob > conf
                 /\ process'.boxes[j] = row
                 /\ process'.classes[j] = class
                 /\ process'.confidences[j] = prob
         /\ prob > conf =>
              \E j \in Found' : process'.boxes[j] = row /\ process'.classes[j] = class
<1> DEFINE n == Len(process.boxes)
<1>0. /\ process.boxes \in Seq(0 .. net.boxes - 1)
      /\ process.classes \in Seq(Nat) /\ Len(process.classes) = n
      /\ process.confidences \in Seq(Nat) /\ Len(process.confidences) = n
      /\ n \in Nat /\ Found = 1 .. n
  BY LenProperties DEF DecodeType, TypeOK, Found
<1>1. CASE prob > conf
  <2>1. /\ process'.boxes = Append(process.boxes, row)
        /\ process'.classes = Append(process.classes, class)
        /\ process'.confidences = Append(process.confidences, prob)
    BY <1>1 DEF Collect
  <2>2. row \in 0 .. net.boxes - 1
    BY NetType DEF DecodeType, TypeOK
  <2>3. /\ process'.boxes \in Seq(0 .. net.boxes - 1)
        /\ Len(process'.boxes) = n + 1
        /\ \A k \in 1 .. n : process'.boxes[k] = process.boxes[k]
        /\ process'.boxes[n + 1] = row
    BY <1>0, <2>1, <2>2, AppendProperties
  <2>4. /\ process'.classes \in Seq(Nat)
        /\ Len(process'.classes) = n + 1
        /\ \A k \in 1 .. n : process'.classes[k] = process.classes[k]
        /\ process'.classes[n + 1] = class
    BY <1>0, <2>1, AppendProperties
  <2>5. /\ process'.confidences \in Seq(Nat)
        /\ Len(process'.confidences) = n + 1
        /\ \A k \in 1 .. n : process'.confidences[k] = process.confidences[k]
        /\ process'.confidences[n + 1] = prob
    BY <1>0, <2>1, AppendProperties
  <2>6. Found' = 1 .. n + 1
    BY <2>3, LenProperties DEF Found
  <2> HIDE DEF n
  <2>7. \A j \in Found' : j \in Found \/ j = n + 1
    BY <1>0, <2>6
  <2>8. n + 1 \in Found' /\ \A j \in Found : j \in Found'
    BY <1>0, <2>6
  <2>9. QED
    BY <1>0, <1>1, <2>3, <2>4, <2>5, <2>7, <2>8
<1>2. CASE ~(prob > conf)
  BY <1>0, <1>2 DEF Collect, Found
<1>3. QED
  BY <1>1, <1>2

-----------------------------------------------------------------------------
(* The steps.                                                              *)

LEMMA DecodeInit ==
  Init => DecodeInv
<1> SUFFICES ASSUME Init PROVE DecodeInv
  OBVIOUS
<1>1. <<>> \in Seq(Nat) /\ <<>> \in Seq(0 .. net.boxes - 1) /\ Len(<<>>) = 0
  OBVIOUS
<1>2. DecodeType
  BY <1>1 DEF Init, Nothing, DecodeType, TypeOK, RowsAreThere
<1>3. QED
  BY <1>2 DEF Init, DecodeInv, ShortIsUnread, GridsFit, HistoryFits, AllJustified, NoneMissed,
     NothingIsMissed, ReadsWithinOutput

\* With what it begins, nothing is collected and nothing is passed.
LEMMA DecodeOutputStep ==
  ASSUME DecodeInv, DecodeOutput
  PROVE  DecodeInv'
<1>0. DecodeType /\ ReadsWithinOutput /\ pc \in {"idle", "done"}
  BY DEF DecodeInv, DecodeOutput
<1>1. /\ UNCHANGED <<net, conf, beyond>> /\ pc' = "decode"
      /\ row' = 0 /\ class_idx' = 0 /\ lowest' = conf /\ highest' = conf
      /\ process'.boxes = <<>> /\ process'.classes = <<>> /\ process'.confidences = <<>>
      /\ grid_strides' = IF net.yolo_type = 3 THEN Anchors ELSE grid_strides
      /\ output' \in Outputs(net) /\ indices' = {}
  BY DEF DecodeOutput, Clear, Nothing
<1>2. <<>> \in Seq(Nat) /\ <<>> \in Seq(0 .. net.boxes - 1) /\ Len(<<>>) = 0
  OBVIOUS
<1>3. DecodeType'
  BY <1>0, <1>1, <1>2, AnchorsType, NetType DEF DecodeType, TypeOK, RowsAreThere
<1>4. GridsFit' /\ HistoryFits'
  BY <1>0, <1>1, ThresholdsAssumption DEF DecodeType, TypeOK, RowsAreThere, GridsFit, HistoryFits, Anchors
<1>5. Found' = {}
  BY <1>1 DEF Found
<1>6. ASSUME NEW r \in Nat, NEW c \in Classes' \union {0}, Offered(r, c)' PROVE ~Passed(r, c)'
  <2>1. net.yolo_type = 3 => c \in Classes'
    BY <1>1, <1>6 DEF Offered
  <2>2. c \in Nat
    BY <1>0, <1>1, NetType DEF Classes, DecodeType, TypeOK, RowsAreThere, class_num
  <2>3. QED
    BY <1>1, <2>2 DEF Passed
<1>7. NoneMissed'
  BY <1>6 DEF NoneMissed
<1>8. QED
  BY <1>0, <1>1, <1>3, <1>4, <1>5, <1>7 DEF DecodeInv, ShortIsUnread, AllJustified, NothingIsMissed,
     ReadsWithinOutput, Fits, Short, Anchors, class_num

LEMMA SetConfStep ==
  ASSUME DecodeInv, SetConf
  PROVE  DecodeInv'
<1>0. DecodeType /\ ShortIsUnread /\ GridsFit /\ HistoryFits /\ AllJustified /\ NoneMissed
      /\ NothingIsMissed /\ ReadsWithinOutput
  BY DEF DecodeInv
<1>1. /\ UNCHANGED <<net, pc, output, row, class_idx, grid_strides, process, indices, beyond>>
      /\ conf' \in Thresholds
      /\ lowest' = (IF pc = "decode" /\ conf' < lowest THEN conf' ELSE lowest)
      /\ highest' = (IF pc = "decode" /\ conf' > highest THEN conf' ELSE highest)
  BY DEF SetConf
<1>2. conf \in Nat /\ conf' \in Nat /\ lowest \in Nat /\ highest \in Nat
  BY <1>0, <1>1, ThresholdsAssumption DEF DecodeType, TypeOK, RowsAreThere
<1>3. lowest' <= lowest /\ highest <= highest' /\ lowest' \in Nat /\ highest' \in Nat
      /\ (pc = "done" => highest' = highest)
  BY <1>1, <1>2
<1>4. Found' = Found /\ Classes' = Classes /\ Rows' = Rows
  BY <1>1 DEF Found, Classes, class_num, Rows
<1>5. DecodeType' /\ GridsFit' /\ HistoryFits' /\ ReadsWithinOutput'
  <2>1. DecodeType'
    BY <1>0, <1>1, <1>4 DEF DecodeType, TypeOK, RowsAreThere
  <2>2. GridsFit' /\ ReadsWithinOutput'
    BY <1>0, <1>1 DEF GridsFit, ReadsWithinOutput, Fits, Short, Anchors, class_num
  <2>3. HistoryFits'
    BY <1>0, <1>1, <1>2 DEF HistoryFits
  <2>4. QED
    BY <2>1, <2>2, <2>3
<1>6. ASSUME NEW j \in Found, pc \in {"decode", "done"}, Justified(j) PROVE Justified(j)'
  <2>1. process.boxes[j] \in 0 .. net.boxes - 1
    BY <1>0, <1>6, ElementOfSeq, LenProperties DEF DecodeType, TypeOK, RowsAreThere, Found
  <2>2. process.confidences[j] \in Nat
    BY <1>0, <1>6, <2>1, ProbType DEF Justified, ShortIsUnread
  <2>3. QED
    BY <1>1, <1>2, <1>3, <1>6, <2>2, OfferedUnchanged DEF Justified
<1>7. AllJustified'
  BY <1>0, <1>1, <1>4, <1>6 DEF AllJustified
<1>8. NoneMissed'
  <2>1. ASSUME NEW r \in 0 .. net.boxes - 1, NEW c \in Classes \union {0}, pc = "decode",
               Passed(r, c), Offered(r, c), Prob(r, c) > highest'
        PROVE  Collected(r, c)
    <3>1. ~Short
      <4>1. CASE r < row
        BY <1>0, <2>1, <4>1, NetType DEF ShortIsUnread, DecodeType, TypeOK
      <4>2. CASE net.yolo_type = 3
        <5>1. c \in Classes /\ net.attributes = 5 + class_num /\ class_num \in Int
          BY <1>0, <2>1, <4>2, NetType DEF Offered, DecodeType, TypeOK
        <5>2. class_num > 0
          BY <5>1 DEF Classes
        <5>3. QED
          BY <5>1, <5>2 DEF Short
      <4>3. QED
        BY <2>1, <4>1, <4>2 DEF Passed
    <3>2. Prob(r, c) \in Nat
      BY <1>0, <2>1, <3>1, ProbType
    <3>3. Prob(r, c) > highest
      BY <1>2, <1>3, <2>1, <3>2
    <3>4. QED
      BY <1>0, <2>1, <3>3 DEF NoneMissed
  <2>2. QED
    BY <1>1, <1>4, <2>1, OfferedUnchanged DEF NoneMissed, Passed, Collected
<1>9. NothingIsMissed'
  BY <1>0, <1>1, <1>3, <1>4, OfferedUnchanged DEF NothingIsMissed
<1>10. ShortIsUnread'
  BY <1>0, <1>1, <1>4 DEF ShortIsUnread, Short
<1>11. QED
  BY <1>5, <1>7, <1>8, <1>9, <1>10 DEF DecodeInv

\* A row, or a class of a row, that was looked at: what was collected before
\* stays, and what is added is justified.
LEMMA CollectKeeps ==
  ASSUME DecodeInv, pc = "decode", row < net.boxes, ~Short,
         UNCHANGED <<net, ui, pc, output, grid_strides>>,
         NEW class, Offered(row, class), Collect(class, Prob(row, class))
  PROVE  /\ \A j \in Found' : Justified(j)'
         /\ \A r, c : Collected(r, c) => Collected(r, c)'
         /\ Prob(row, class) > highest =>
              \E j \in Found' : process'.boxes[j] = row /\ process'.classes[j] = class
<1>0. DecodeType /\ HistoryFits /\ AllJustified
  BY DEF DecodeInv
<1>1. class \in Nat /\ Prob(row, class) \in Nat /\ conf \in Nat /\ lowest \in Nat /\ highest \in Nat
  <2>1. row \in 0 .. net.boxes - 1
    BY <1>0, NetType DEF DecodeType, TypeOK
  <2>2. class \in Nat /\ Prob(row, class) \in Nat
    BY <1>0, <2>1, ProbType
  <2>3. QED
    BY <1>0, <2>2, ThresholdsAssumption DEF DecodeType, TypeOK
<1>2. lowest <= conf /\ conf <= highest /\ UNCHANGED <<conf, lowest, highest>>
  BY <1>0 DEF HistoryFits, ui
<1>3. ASSUME NEW j \in Found' PROVE Justified(j)'
  <2>1. CASE j \in Found
    <3>1. Justified(j)
      BY <1>0, <2>1 DEF AllJustified
    <3>2. QED
      BY <1>0, <1>1, <1>2, <2>1, <3>1, CollectStep, OfferedUnchanged DEF Justified
  <2>2. CASE /\ Prob(row, class) > conf
             /\ process'.boxes[j] = row
             /\ process'.classes[j] = class
             /\ process'.confidences[j] = Prob(row, class)
    BY <1>1, <1>2, <2>2, OfferedUnchanged DEF Justified
  <2>3. QED
    BY <1>0, <1>1, <1>3, <2>1, <2>2, CollectStep
<1>4. ASSUME NEW r, NEW c, Collected(r, c) PROVE Collected(r, c)'
  BY <1>0, <1>1, <1>4, CollectStep DEF Collected
<1>5. Prob(row, class) > highest => Prob(row, class) > conf
  BY <1>1, <1>2
<1>6. QED
  BY <1>0, <1>1, <1>3, <1>4, <1>5, CollectStep

\* YOLOv5 and YOLOv8 look at the best class of a row only.
LEMMA RowStep ==
  ASSUME DecodeInv, pc = "decode", row < net.boxes, net.yolo_type \in {1, 2},
         ~Short, row' = row + 1,
         UNCHANGED <<net, ui, pc, output, class_idx, grid_strides, indices, beyond>>,
         Collect(BestClass(row), Prob(row, BestClass(row)))
  PROVE  DecodeInv'
<1>0. DecodeType /\ NoneMissed /\ ReadsWithinOutput
  BY DEF DecodeInv
<1>1. row \in 0 .. net.boxes - 1 /\ row \in Nat /\ net.boxes \in Nat
  BY <1>0, NetType DEF DecodeType, TypeOK
<1>2. Offered(row, BestClass(row))
  BY DEF Offered
<1>3. BestClass(row) \in Nat /\ Prob(row, BestClass(row)) \in Nat
  BY <1>0, <1>1, <1>2, ProbType
<1>4. DecodeType'
  BY <1>0, <1>1, <1>3, CollectStep DEF DecodeType, TypeOK, RowsAreThere, ui
<1>5. /\ \A j \in Found' : Justified(j)'
      /\ \A r, c : Collected(r, c) => Collected(r, c)'
      /\ Prob(row, BestClass(row)) > highest =>
           \E j \in Found' : process'.boxes[j] = row /\ process'.classes[j] = BestClass(row)
  BY <1>2, CollectKeeps
<1>6. NoneMissed'
  <2>1. ASSUME NEW r \in 0 .. net.boxes - 1, NEW c \in Classes \union {0},
               Passed(r, c)', Offered(r, c), Prob(r, c) > highest
        PROVE  Collected(r, c)'
    <3>1. CASE r < row
      BY <1>0, <1>5, <2>1, <3>1 DEF NoneMissed, Passed
    <3>2. CASE r = row
      <4>1. c = BestClass(row)
        BY <2>1, <3>2 DEF Offered
      <4>2. QED
        BY <1>5, <2>1, <3>2, <4>1 DEF Collected
    <3>3. QED
      BY <1>1, <2>1, <3>1, <3>2 DEF Passed
  <2>2. Classes' = Classes /\ highest' = highest /\ net' = net
    BY DEF Classes, class_num, First, ui
  <2>3. QED
    BY <2>1, <2>2, OfferedUnchanged DEF NoneMissed
<1>7. QED
  BY <1>0, <1>4, <1>5, <1>6 DEF DecodeInv, ShortIsUnread, Short, GridsFit, HistoryFits, AllJustified,
     NothingIsMissed, ReadsWithinOutput, Fits, Short, Anchors, class_num, ui

\* With too few attributes nothing is collected, and nothing follows.
LEMMA ReadBeyondStep ==
  ASSUME DecodeInv, pc = "decode", ReadBeyond, ~Fits,
         UNCHANGED <<net, ui, output, grid_strides, indices>>
  PROVE  DecodeInv'
<1>0. DecodeType /\ ShortIsUnread
  BY DEF DecodeInv
<1>1. beyond' = TRUE /\ pc' = "beyond" /\ UNCHANGED <<process, row, class_idx>>
  BY DEF ReadBeyond
<1>2. DecodeType'
  BY <1>0, <1>1 DEF DecodeType, TypeOK, RowsAreThere, ui, Found
<1>3. ~Fits' /\ ShortIsUnread'
  BY <1>0, <1>1 DEF Fits, Short, Anchors, ShortIsUnread
<1>4. QED
  BY <1>1, <1>2, <1>3 DEF DecodeInv, GridsFit, HistoryFits, AllJustified, NoneMissed,
     NothingIsMissed, ReadsWithinOutput

LEMMA RowV5Step ==
  ASSUME DecodeInv, RowV5
  PROVE  DecodeInv'
<1>1. /\ UNCHANGED <<net, ui, output, grid_strides, indices>>
      /\ pc = "decode" /\ net.yolo_type = 1 /\ row < net.boxes
  BY DEF RowV5, Decoding, Rows
<1>2. CASE Short /\ ReadBeyond
  BY <1>1, <1>2, ReadBeyondStep DEF Fits
<1>3. CASE /\ ~Short
           /\ Collect(BestClass(row), 2 * output[row][4])
           /\ row' = row + 1 /\ UNCHANGED <<pc, class_idx, beyond>>
  <2>1. Prob(row, BestClass(row)) = 2 * output[row][4]
    BY <1>1 DEF Prob
  <2>2. QED
    BY <1>1, <1>3, <2>1, RowStep
<1>4. QED
  BY <1>2, <1>3 DEF RowV5

LEMMA RowV8Step ==
  ASSUME DecodeInv, RowV8
  PROVE  DecodeInv'
<1>1. /\ UNCHANGED <<net, ui, output, grid_strides, indices>>
      /\ pc = "decode" /\ net.yolo_type = 2 /\ row < net.boxes
  BY DEF RowV8, Decoding, Rows
<1>2. CASE Short /\ ReadBeyond
  BY <1>1, <1>2, ReadBeyondStep DEF Fits
<1>3. CASE /\ ~Short
           /\ Collect(BestClass(row), 2 * Score(row, BestClass(row)))
           /\ row' = row + 1 /\ UNCHANGED <<pc, class_idx, beyond>>
  <2>1. Prob(row, BestClass(row)) = 2 * Score(row, BestClass(row))
    BY <1>1 DEF Prob
  <2>2. QED
    BY <1>1, <1>3, <2>1, RowStep
<1>4. QED
  BY <1>2, <1>3 DEF RowV8

LEMMA ClassXStep ==
  ASSUME DecodeInv, ClassX
  PROVE  DecodeInv'
<1>0. DecodeType /\ GridsFit /\ HistoryFits /\ AllJustified /\ NoneMissed /\ ReadsWithinOutput
  BY DEF DecodeInv
<1>1. /\ UNCHANGED <<net, ui, output, grid_strides, indices>>
      /\ pc = "decode" /\ net.yolo_type = 3 /\ row < grid_strides
      /\ grid_strides = Anchors
  BY <1>0 DEF ClassX, Decoding, Rows, GridsFit
<1>2. Classes' = Classes /\ highest' = highest /\ lowest' = lowest /\ conf' = conf /\ net' = net
      /\ Anchors' = Anchors /\ (Fits' <=> Fits)
  BY <1>1 DEF Classes, class_num, ui, Anchors, Fits, Short
<1>3. CASE (Short \/ row >= net.boxes) /\ ReadBeyond
  <2>1. ~Fits
    BY <1>0, <1>1, <1>3, NetType, AnchorsType DEF Fits, DecodeType, TypeOK, RowsAreThere
  <2>2. QED
    BY <1>1, <1>3, <2>1, ReadBeyondStep
<1>4. CASE /\ ~Short /\ row < net.boxes /\ class_idx < class_num
           /\ Collect(class_idx, output[row][4] * Score(row, class_idx))
           /\ class_idx' = class_idx + 1
           /\ UNCHANGED <<row, pc, beyond>>
  <2>1. class_idx \in Classes
    BY <1>0, <1>4, NetType DEF DecodeType, TypeOK, RowsAreThere, Classes
  <2>2. Offered(row, class_idx)
    BY <1>1, <2>1 DEF Offered
  <2>3. Prob(row, class_idx) = output[row][4] * Score(row, class_idx)
    BY <1>1 DEF Prob
  <2>4. /\ \A j \in Found' : Justified(j)'
        /\ \A r, c : Collected(r, c) => Collected(r, c)'
        /\ Prob(row, class_idx) > highest =>
             \E j \in Found' : process'.boxes[j] = row /\ process'.classes[j] = class_idx
    BY <1>1, <1>4, <2>2, <2>3, CollectKeeps
  <2>5. DecodeType'
    <3>1. row \in 0 .. net.boxes - 1 /\ class_idx \in Nat
      BY <1>0, <1>4, NetType DEF DecodeType, TypeOK
    <3>2. Prob(row, class_idx) \in Nat
      BY <1>0, <1>1, <1>4, <2>2, <3>1, ProbType
    <3>3. /\ process'.boxes \in Seq(0 .. net.boxes - 1)
          /\ process'.classes \in Seq(Nat) /\ process'.confidences \in Seq(Nat)
          /\ Len(process'.classes) = Len(process'.boxes)
          /\ Len(process'.confidences) = Len(process'.boxes)
          /\ \A j \in Found : j \in Found'
      BY <1>0, <1>2, <1>4, <2>3, <3>1, <3>2, CollectStep
    <3>4. QED
      BY <1>0, <1>1, <1>2, <1>4, <3>1, <3>3 DEF DecodeType, TypeOK, RowsAreThere
  <2>6. NoneMissed'
    <3>1. ASSUME NEW r \in 0 .. net.boxes - 1, NEW c \in Classes \union {0},
                 Passed(r, c)', Offered(r, c), Prob(r, c) > highest
          PROVE  Collected(r, c)'
      <4>1. CASE Passed(r, c)
        BY <1>0, <1>1, <2>4, <3>1, <4>1 DEF NoneMissed
      <4>2. CASE ~Passed(r, c)
        <5>1. c \in Int
          BY <1>0, <3>1, NetType DEF Classes, DecodeType, TypeOK
        <5>2. r = row /\ c = class_idx
          BY <1>0, <1>1, <1>2, <1>4, <3>1, <4>2, <5>1 DEF Passed, DecodeType, TypeOK, RowsAreThere
        <5>3. QED
          BY <1>4, <2>4, <3>1, <5>2 DEF Collected
      <4>3. QED
        BY <4>1, <4>2
    <3>2. QED
      BY <1>1, <1>2, <3>1, OfferedUnchanged DEF NoneMissed
  <2>7. QED
    BY <1>0, <1>1, <1>2, <1>4, <2>4, <2>5, <2>6 DEF DecodeInv, ShortIsUnread, Short, GridsFit, HistoryFits, AllJustified,
       NothingIsMissed, ReadsWithinOutput
<1>5. CASE /\ ~Short /\ row < net.boxes /\ class_idx >= class_num
           /\ row' = row + 1 /\ class_idx' = 0
           /\ UNCHANGED <<process, pc, beyond>>
  <2>1. DecodeType'
    BY <1>0, <1>1, <1>2, <1>5, NetType DEF DecodeType, TypeOK, RowsAreThere, Found
  <2>2. NoneMissed'
    <3>1. ASSUME NEW r \in 0 .. net.boxes - 1, NEW c \in Classes \union {0},
                 Passed(r, c)', Offered(r, c)
          PROVE  Passed(r, c)
      <4>1. c \in Classes /\ c \in Nat /\ class_num \in Nat /\ c < class_num
        BY <1>0, <1>1, <3>1, NetType DEF Classes, DecodeType, TypeOK, RowsAreThere, Offered
      <4>2. QED
        BY <1>0, <1>1, <1>2, <1>5, <3>1, <4>1 DEF Passed, DecodeType, TypeOK, RowsAreThere
    <3>2. QED
      BY <1>0, <1>1, <1>2, <1>5, <3>1, OfferedUnchanged DEF NoneMissed, Collected, Found
  <2>3. AllJustified'
    BY <1>0, <1>1, <1>2, <1>5, OfferedUnchanged DEF AllJustified, Justified, Found
  <2>4. QED
    BY <1>0, <1>1, <1>2, <1>5, <2>1, <2>2, <2>3 DEF DecodeInv, ShortIsUnread, Short, GridsFit, HistoryFits,
       NothingIsMissed, ReadsWithinOutput
<1>6. QED
  BY <1>3, <1>4, <1>5 DEF ClassX

LEMMA NMSBoxesStep ==
  ASSUME DecodeInv, NMSBoxes
  PROVE  DecodeInv'
<1>0. DecodeType /\ ShortIsUnread /\ HistoryFits /\ AllJustified /\ NoneMissed /\ ReadsWithinOutput
  BY DEF DecodeInv
<1>1. /\ UNCHANGED <<net, ui, output, row, class_idx, grid_strides, process, beyond>>
      /\ pc = "decode" /\ row >= Rows /\ pc' = "done" /\ indices' \subseteq Found
  BY DEF NMSBoxes
<1>2. Classes' = Classes /\ Found' = Found /\ Rows' = Rows /\ UNCHANGED <<lowest, highest, conf>>
  BY <1>1 DEF Classes, class_num, Found, Rows, ui
<1>3. DecodeType'
  BY <1>0, <1>1, <1>2 DEF DecodeType, TypeOK, RowsAreThere
<1>4. AllJustified'
  BY <1>0, <1>1, <1>2, OfferedUnchanged DEF AllJustified, Justified
<1>5. Rows \in Nat /\ (Rows > 0 => ~Short)
  BY <1>0, <1>1, NetType DEF ShortIsUnread, Rows, DecodeType, TypeOK
<1>6. ASSUME NEW r \in 0 .. Rows - 1, NEW c \in Classes \union {0},
             Offered(r, c), Prob(r, c) > highest
      PROVE  Collected(r, c) /\ indices' # {}
  <2>1. Rows \in Nat /\ r \in 0 .. net.boxes - 1 /\ r < row
    BY <1>0, <1>1, NetType DEF Rows, DecodeType, TypeOK, RowsAreThere
  <2>2. Collected(r, c)
    BY <1>0, <1>1, <1>6, <2>1 DEF NoneMissed, Passed
  <2>3. PICK j \in Found : process.boxes[j] = r /\ process.classes[j] = c
    BY <2>2 DEF Collected
  <2>4. process.confidences[j] = Prob(r, c)
    BY <1>0, <1>1, <2>3 DEF AllJustified, Justified
  <2>5. Prob(r, c) \in Nat /\ conf \in Nat /\ highest \in Nat
    BY <1>0, <1>1, <1>5, <1>6, <2>1, ProbType, ThresholdsAssumption DEF DecodeType, TypeOK
  <2>6. process.confidences[j] > conf
    BY <1>0, <1>1, <1>6, <2>4, <2>5 DEF HistoryFits
  <2>7. indices' # {}
    BY <2>3, <2>6 DEF NMSBoxes
  <2>8. QED
    BY <2>2, <2>7
<1>7. NothingIsMissed'
  BY <1>1, <1>2, <1>6, OfferedUnchanged DEF NothingIsMissed, Collected
<1>8. ShortIsUnread' /\ GridsFit' /\ HistoryFits' /\ NoneMissed' /\ ReadsWithinOutput'
  BY <1>0, <1>1, <1>2, <1>5 DEF ShortIsUnread, GridsFit, HistoryFits, NoneMissed, ReadsWithinOutput,
     Fits, Short, Anchors, class_num
<1>9. QED
  BY <1>3, <1>4, <1>7, <1>8 DEF DecodeInv

LEMMA DecodeStutter ==
  ASSUME DecodeInv, UNCHANGED vars
  PROVE  DecodeInv'
<1>0. DecodeType /\ ShortIsUnread /\ GridsFit /\ HistoryFits /\ AllJustified /\ NoneMissed
      /\ NothingIsMissed /\ ReadsWithinOutput
  BY DEF DecodeInv
<1>1. Found' = Found /\ Classes' = Classes /\ Rows' = Rows /\ Anchors' = Anchors
      /\ UNCHANGED <<net, conf, lowest, highest, pc, output, row, class_idx, grid_strides, process,
                     indices, beyond>>
  BY DEF Found, Classes, class_num, Rows, Anchors, vars, ui
<1>2. DecodeType' /\ ShortIsUnread' /\ GridsFit' /\ HistoryFits' /\ ReadsWithinOutput'
  BY <1>0, <1>1 DEF DecodeType, TypeOK, RowsAreThere, ShortIsUnread, GridsFit, HistoryFits,
     ReadsWithinOutput, Fits, Short, class_num
<1>3. AllJustified'
  BY <1>0, <1>1, OfferedUnchanged DEF AllJustified, Justified
<1>4. NoneMissed' /\ NothingIsMissed'
  BY <1>0, <1>1, OfferedUnchanged DEF NoneMissed, NothingIsMissed, Passed, Collected
<1>5. QED
  BY <1>2, <1>3, <1>4 DEF DecodeInv

-----------------------------------------------------------------------------

THEOREM DecodeInvariant == Spec => []DecodeInv
<1>1. ASSUME DecodeInv, [Next]_vars PROVE DecodeInv'
  BY <1>1, SetConfStep, DecodeOutputStep, RowV5Step, RowV8Step, ClassXStep, NMSBoxesStep, DecodeStutter
     DEF Next
<1>2. QED
  BY <1>1, DecodeInit, PTL DEF Spec

\* With a model that fits, no detector reads beyond the output or a row, for
\* models of any size and any number of frames.  Nothing but what dims_error checks
\* is assumed of the others.
THEOREM NoReadBeyond == Spec => []ReadsWithinOutput
<1>1. DecodeInv => ReadsWithinOutput
  BY DEF DecodeInv
<1>2. QED
  BY <1>1, DecodeInvariant, PTL

\* The lists stay aligned, the chosen subscripts lie within them, and whatever is
\* collected has a box, a class and a probability that are numbers.
THEOREM DecodeTypeCorrect == Spec => []TypeOK
<1>1. DecodeInv => TypeOK
  BY DEF DecodeInv, DecodeType
<1>2. QED
  BY <1>1, DecodeInvariant, PTL

\* Every detector collects only what the frame offers, with its own class and
\* probability, above the lowest threshold there was, however the UI moves it.
THEOREM OnlyJustifiedCollected == Spec => []CollectedIsJustified
<1>1. DecodeInv => CollectedIsJustified
  BY DEF DecodeInv, AllJustified, Justified, CollectedIsJustified
<1>2. QED
  BY <1>1, DecodeInvariant, PTL

\* No detector misses anything above the highest threshold there was.
THEOREM NothingAboveMissed == Spec => []NothingIsMissed
<1>1. DecodeInv => NothingIsMissed
  BY DEF DecodeInv
<1>2. QED
  BY <1>1, DecodeInvariant, PTL

\* A threshold that was left alone while the frame was decoded has exactly the
\* boxes above it collected, whichever the detector.
SteadyIsExact ==
  pc = "done" /\ lowest = highest =>
    \A r \in 0 .. Rows - 1 : \A c \in Classes \union {0} :
      Collected(r, c) <=> Offered(r, c) /\ Prob(r, c) > lowest

\* This holds of every decoded frame, for models of any size.
THEOREM SteadyThreshold == Spec => []SteadyIsExact
<1>1. DecodeInv => SteadyIsExact
  BY DEF DecodeInv, AllJustified, Justified, NothingIsMissed, SteadyIsExact, Collected
<1>2. QED
  BY <1>1, DecodeInvariant, PTL
=============================================================================
