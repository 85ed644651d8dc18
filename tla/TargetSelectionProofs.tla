----------------------- MODULE TargetSelectionProofs -----------------------
(***************************************************************************)
(* Proofs about TargetSelection, for frames of any number of boxes, any    *)
(* distances and any classes.                                              *)
(***************************************************************************)
EXTENDS TargetSelection, SequenceTheorems, TLAPS

\* What non-maximum suppression keeps is a sequence of box numbers.
LEMMA KeptIsSequence ==
  ASSUME NEW n \in Nat, NEW s \in Kept(n)
  PROVE  s \in Seq(0 .. n-1)
<1>1. PICK k \in 0 .. n : s \in [1 .. k -> 0 .. n-1]
  BY DEF Kept
<1>2. QED
  BY <1>1, SeqDef

\* Steps that leave the frame and the locals alone.
LEMMA TypeFrame ==
  ASSUME TypeOK, UNCHANGED <<process, i, distance, new_indices, idx>>,
         pc' \in Steps, pc' \in {"scan", "class"} => i < Len(indices),
         category_filter' \in BOOLEAN, chosen_classes' \subseteq FlaggedClasses,
         offered' \subseteq FlaggedClasses, steady' \in BOOLEAN
  PROVE  TypeOK'
BY DEF TypeOK, process, Boxes

LEMMA TypeUi ==
  ASSUME TypeOK, Ui
  PROVE  TypeOK'
<1>1. category_filter' \in BOOLEAN /\ steady' \in BOOLEAN
  BY Zenon DEF TypeOK, Ui, ToggleFilter, ToggleClass
<1>2. chosen_classes' \subseteq FlaggedClasses /\ offered' \subseteq FlaggedClasses
  BY DEF TypeOK, Ui, ToggleFilter, ToggleClass
<1>3. QED
  BY <1>1, <1>2, TypeFrame DEF TypeOK, Ui, locals

\* A new frame: the vectors are cleared, or filled anew.
LEMMA TypeDecode ==
  ASSUME TypeOK, Fresh, ClearProcess \/ DecodeOutput
  PROVE  TypeOK'
<1>1. i' = 0 /\ distance' = <<>> /\ new_indices' = <<>>
  BY DEF ClearProcess, DecodeOutput, Fresh, locals
<1>2. PICK n \in 0 .. MaxBoxes :
        /\ boxes' \in [0 .. n-1 -> Distances]
        /\ classes' \in [0 .. n-1 -> Classes]
        /\ indices' \in Seq(0 .. n-1)
        /\ Len(indices') \in 0 .. n
  <2>1. CASE ClearProcess
    <3>1. boxes' \in [0 .. 0-1 -> Distances] /\ classes' \in [0 .. 0-1 -> Classes]
      BY <2>1 DEF ClearProcess, NoBoxes
    <3>2. QED
      BY <2>1, <3>1, BoxesAssumption DEF ClearProcess
  <2>2. CASE DecodeOutput
    <3>1. PICK n \in 0 .. MaxBoxes :
            /\ boxes' \in [0 .. n-1 -> Distances]
            /\ classes' \in [0 .. n-1 -> Classes]
            /\ indices' \in Kept(n)
      BY <2>2 DEF DecodeOutput
    <3>2. n \in Nat
      BY BoxesAssumption
    <3>3. PICK k \in 0 .. n : indices' \in [1 .. k -> 0 .. n-1]
      BY <3>1 DEF Kept
    <3>4. indices' \in Seq(0 .. n-1) /\ Len(indices') = k
      BY <3>2, <3>3, SeqDef, LenProperties
    <3>5. QED
      BY <3>1, <3>3, <3>4
  <2>3. QED
    BY <2>1, <2>2
<1>3. n \in Nat /\ Boxes' = 0 .. n-1
  BY <1>2, BoxesAssumption DEF Boxes
<1>4. 0 .. Len(indices')-1 \subseteq Boxes'
  BY <1>2, <1>3
<1>5. idx' \in Boxes' \union {-1}
  BY DEF ClearProcess, DecodeOutput, Fresh, locals
<1>6. QED
  BY <1>1, <1>2, <1>3, <1>4, <1>5 DEF TypeOK, ClearProcess, DecodeOutput, flags, history, Steps

\* The scan stays within indices and notes distances and box numbers.
LEMMA TypeScan ==
  ASSUME TypeOK, ScanCandidate \/ ScanClass
  PROVE  TypeOK'
<1>0. pc \in {"scan", "class"} /\ UNCHANGED process
  BY DEF ScanCandidate, ScanClass
<1>1. i \in Nat /\ i < Len(indices) /\ Len(indices) \in Nat
  BY <1>0 DEF TypeOK
<1>2. indices[i + 1] \in Boxes /\ i \in Boxes /\ boxes[i] \in Distances
  <2>1. i + 1 \in 1 .. Len(indices) /\ i \in 0 .. Len(indices)-1
    BY <1>1
  <2>2. indices[i + 1] \in Boxes
    BY <2>1, ElementOfSeq DEF TypeOK
  <2>3. QED
    BY <2>1, <2>2 DEF TypeOK
<1>3. distance' \in Seq(Distances) /\ new_indices' \in Seq(Boxes)
  <2>1. distance \in Seq(Distances) /\ new_indices \in Seq(Boxes)
    BY DEF TypeOK
  <2>2. Append(distance, boxes[i]) \in Seq(Distances) /\ Append(new_indices, indices[i + 1]) \in Seq(Boxes)
    BY <1>2, <2>1, AppendProperties
  <2>3. QED
    BY <2>1, <2>2 DEF ScanCandidate, ScanClass, CategoryFilter
<1>4. i' \in 0 .. Len(indices) /\ pc' \in Steps /\ (pc' \in {"scan", "class"} => i' < Len(indices))
  BY <1>1 DEF ScanCandidate, ScanClass, NextCandidate, Steps
<1>5. Boxes' = Boxes
  BY <1>0 DEF Boxes, process
<1>6. QED
  BY <1>0, <1>3, <1>4, <1>5 DEF TypeOK, ScanCandidate, ScanClass, process, flags, history

\* The cleared locals are well typed.
LEMMA LocalsReturn ==
  ASSUME TypeOK, Return
  PROVE  i' \in 0 .. Len(indices) /\ distance' \in Seq(Distances) /\ new_indices' \in Seq(Boxes)
<1>1. Len(indices) \in Nat
  BY DEF TypeOK
<1>2. i' = 0 /\ distance' = <<>> /\ new_indices' = <<>>
  BY DEF Return
<1>3. QED
  BY <1>1, <1>2

LEMMA TypePick ==
  ASSUME TypeOK, PickTarget
  PROVE  TypeOK'
<1>1. UNCHANGED process /\ Boxes' = Boxes
  BY DEF PickTarget, process, Boxes
<1>2. Table \in Seq(Boxes)
  BY DEF TypeOK, Table
<1>3. idx' \in Boxes \union {-1}
  <2>1. CASE idx' = -1 \/ idx' = idx
    BY <2>1 DEF TypeOK
  <2>2. CASE \E k \in 1 .. Len(Table) : idx' = Table[k]
    BY <1>2, <2>2, ElementOfSeq
  <2>3. QED
    BY <1>2, <2>1, <2>2 DEF PickTarget
<1>4. i' \in 0 .. Len(indices) /\ distance' \in Seq(Distances) /\ new_indices' \in Seq(Boxes)
  BY LocalsReturn DEF TypeOK, PickTarget, locals
<1>5. pc' \in Steps \ {"scan", "class"}
  BY DEF PickTarget, Return, Steps
<1>6. QED
  BY <1>1, <1>3, <1>4, <1>5 DEF TypeOK, PickTarget, process, flags, history

LEMMA TypeBeginAndAim ==
  ASSUME TypeOK, Fresh, BeginAction \/ AimAtTarget
  PROVE  TypeOK'
<1>1. UNCHANGED process /\ Boxes' = Boxes
  BY DEF BeginAction, AimAtTarget, process, Boxes
<1>2. i' \in 0 .. Len(indices) /\ distance' \in Seq(Distances) /\ new_indices' \in Seq(Boxes)
  BY LocalsReturn DEF TypeOK, BeginAction, AimAtTarget, locals
<1>3. pc' \in Steps /\ (pc' \in {"scan", "class"} => i' < Len(indices))
  <2>1. indices # <<>> => Len(indices) > 0
    BY EmptySeq DEF TypeOK
  <2>2. CASE BeginAction
    BY <2>1, <2>2 DEF BeginAction, locals, Steps, Fresh
  <2>3. CASE AimAtTarget
    BY <2>3 DEF AimAtTarget, Return, Steps
  <2>4. QED
    BY <2>2, <2>3
<1>4. offered' \subseteq FlaggedClasses /\ steady' \in BOOLEAN
  BY DEF TypeOK, BeginAction, AimAtTarget, history
<1>5. QED
  BY <1>1, <1>2, <1>3, <1>4 DEF TypeOK, BeginAction, AimAtTarget, process, flags

LEMMA TypeInit ==
  ASSUME Init
  PROVE  TypeOK /\ Fresh
<1>1. Boxes = 0 .. 0-1 /\ Boxes = {} /\ 0 \in 0 .. MaxBoxes
  BY BoxesAssumption DEF Init, Boxes, NoBoxes
<1>2. boxes \in [Boxes -> Distances] /\ classes \in [Boxes -> Classes]
  BY <1>1 DEF Init, NoBoxes
<1>3. QED
  BY <1>1, <1>2 DEF Init, TypeOK, Fresh, Steps

LEMMA TypeStep ==
  ASSUME TypeOK, Fresh, [Next]_vars
  PROVE  TypeOK' /\ Fresh'
<1>1. CASE Ui
  BY <1>1, TypeUi DEF Ui, Fresh, locals
<1>2. CASE ClearProcess \/ DecodeOutput
  BY <1>2, TypeDecode DEF ClearProcess, DecodeOutput, Fresh, locals
<1>3. CASE BeginAction \/ AimAtTarget
  BY <1>3, TypeBeginAndAim DEF BeginAction, AimAtTarget, Return, Fresh, locals
<1>4. CASE ScanCandidate \/ ScanClass
  BY <1>4, TypeScan DEF ScanCandidate, ScanClass, NextCandidate, Fresh
<1>5. CASE PickTarget
  BY <1>5, TypePick DEF PickTarget, Return, Fresh
<1>6. CASE UNCHANGED vars
  BY <1>6 DEF vars, TypeOK, Fresh, Boxes
<1>7. QED
  BY <1>1, <1>2, <1>3, <1>4, <1>5, <1>6 DEF Next, Worker

\* Every state has its type: in particular every number in indices, new_indices
\* and idx is the number of a box of the frame.
THEOREM SelectionTypeCorrect == Spec => []TypeOK
<1>1. Init => TypeOK /\ Fresh
  BY TypeInit
<1>2. TypeOK /\ Fresh /\ [Next]_vars => TypeOK' /\ Fresh'
  BY TypeStep
<1>3. QED
  BY <1>1, <1>2, PTL DEF Spec

-----------------------------------------------------------------------------
(* What the scan keeps: the two vectors it fills and the position it is at.  *)

\* The distances and the new table are filled in step while the flag that
\* chooses between them stays as it is, and only from what was kept.
ScanInStep ==
  /\ Range(new_indices) \subseteq Range(indices)
  /\ steady /\ category_filter => Len(new_indices) = Len(distance)
  /\ steady /\ ~category_filter => Len(distance) = i
  /\ pc = "class" /\ steady => category_filter
  /\ pc = "pick" => i = Len(indices)

\* Every box in the new table has a class that was up during the action.
TableIsWanted ==
  /\ chosen_classes \subseteq offered
  /\ \A b \in Range(new_indices) : classes[b] \in offered

\* Without a suppressed or reordered box, each distance is that of the box
\* that the table has at the same position.
DistancesMatch ==
  /\ InOrder /\ steady /\ category_filter =>
       \A k \in 1 .. Len(new_indices) : distance[k] = boxes[new_indices[k]]
  /\ steady /\ ~category_filter =>
       \A k \in 1 .. Len(distance) : distance[k] = boxes[k - 1]

\* The safety properties of the choice, with what they rest on.
SelectionInv ==
  /\ TypeOK /\ Fresh
  /\ ScanInStep /\ TableIsWanted /\ DistancesMatch
  /\ SubscriptInBounds /\ AimsAtKeptBox /\ AimsAtWantedClass /\ AimsAtNearestInOrder

LEMMA RangeAppend ==
  ASSUME NEW S, NEW s \in Seq(S), NEW x \in S
  PROVE  Range(Append(s, x)) = Range(s) \union {x}
BY AppendProperties DEF Range

LEMMA RangeEmpty == Range(<<>>) = {}
BY DEF Range

LEMMA ScanBounds ==
  ASSUME TypeOK, pc \in {"scan", "class"}
  PROVE  i \in Nat /\ i < Len(indices) /\ Len(indices) \in Nat /\ boxes[i] \in Distances
<1>1. i \in Nat /\ i < Len(indices) /\ Len(indices) \in Nat
  BY DEF TypeOK
<1>2. i \in 0 .. Len(indices)-1
  BY <1>1
<1>3. QED
  BY <1>1, <1>2 DEF TypeOK

\* Steps after which the locals are empty.
LEMMA EmptyScan ==
  ASSUME i' = 0, distance' = <<>>, new_indices' = <<>>, pc' \notin {"class", "pick"},
         chosen_classes' \subseteq offered'
  PROVE  ScanInStep' /\ TableIsWanted' /\ DistancesMatch'
BY RangeEmpty DEF ScanInStep, TableIsWanted, DistancesMatch

\* The UI may turn the selection on or off at any time: the history variable
\* steady remembers it.
LEMMA SelectionUi ==
  ASSUME SelectionInv, Ui
  PROVE  ScanInStep' /\ TableIsWanted' /\ DistancesMatch'
<1>1. UNCHANGED <<boxes, classes, indices, pc, i, distance, new_indices>>
  BY DEF Ui, process, locals
<1>2. chosen_classes' \subseteq offered' /\ offered \subseteq offered'
  BY DEF Ui, ToggleFilter, ToggleClass, SelectionInv, TableIsWanted
<1>3. steady' => steady /\ category_filter' = category_filter
  BY Zenon DEF Ui, ToggleFilter, ToggleClass
<1>4. QED
  BY <1>1, <1>2, <1>3 DEF SelectionInv, ScanInStep, TableIsWanted, DistancesMatch, InOrder

LEMMA SelectionScanCandidate ==
  ASSUME SelectionInv, ScanCandidate
  PROVE  ScanInStep' /\ TableIsWanted' /\ DistancesMatch'
<1>0. UNCHANGED <<boxes, classes, indices, category_filter, chosen_classes, new_indices, offered, steady>>
  BY DEF ScanCandidate, process, flags, history
<1>1. CASE category_filter /\ pc' = "class" /\ UNCHANGED <<i, distance>>
  BY <1>0, <1>1 DEF SelectionInv, ScanInStep, TableIsWanted, DistancesMatch, InOrder
<1>2. CASE ~category_filter /\ distance' = Append(distance, boxes[i]) /\ NextCandidate
  <2>1. i \in Nat /\ i < Len(indices) /\ Len(indices) \in Nat /\ boxes[i] \in Distances
    BY ScanBounds DEF SelectionInv, ScanCandidate
  <2>2. distance \in Seq(Distances)
    BY DEF SelectionInv, TypeOK
  <2>3. /\ Len(distance') = Len(distance) + 1
        /\ \A k \in 1 .. Len(distance) : distance'[k] = distance[k]
        /\ distance'[Len(distance) + 1] = boxes[i]
    BY <1>2, <2>1, <2>2, AppendProperties
  <2>4. ScanInStep'
    BY <1>0, <1>2, <2>1, <2>3 DEF SelectionInv, ScanInStep, NextCandidate
  <2>5. TableIsWanted'
    BY <1>0 DEF SelectionInv, TableIsWanted
  <2>6. DistancesMatch'
    <3>1. SUFFICES ASSUME steady, NEW k \in 1 .. Len(distance')
                   PROVE  distance'[k] = boxes[k - 1]
      BY <1>0, <1>2 DEF DistancesMatch
    <3>2. Len(distance) = i
      BY <1>2, <3>1 DEF SelectionInv, ScanInStep
    <3>3. CASE k \in 1 .. Len(distance)
      BY <1>2, <2>3, <3>1, <3>3 DEF SelectionInv, DistancesMatch
    <3>4. CASE k = i + 1
      BY <2>1, <2>3, <3>2, <3>4
    <3>5. QED
      BY <2>1, <2>3, <3>2, <3>3, <3>4
  <2>7. QED
    BY <2>4, <2>5, <2>6
<1>3. QED
  BY <1>1, <1>2 DEF ScanCandidate

LEMMA SelectionScanClass ==
  ASSUME SelectionInv, ScanClass
  PROVE  ScanInStep' /\ TableIsWanted' /\ DistancesMatch'
<1>0. UNCHANGED <<boxes, classes, indices, category_filter, chosen_classes, offered, steady>>
  BY DEF ScanClass, process, flags, history
<1>1. i \in Nat /\ i < Len(indices) /\ Len(indices) \in Nat /\ boxes[i] \in Distances
  BY ScanBounds DEF SelectionInv, ScanClass
<1>2. steady => category_filter
  BY DEF SelectionInv, ScanInStep, ScanClass
<1>3. i' = i + 1 /\ (pc' = "pick" => i' = Len(indices)) /\ pc' # "class"
  BY <1>1 DEF ScanClass, NextCandidate
<1>4. CASE ClassName \notin chosen_classes /\ UNCHANGED <<new_indices, distance>>
  BY <1>0, <1>2, <1>3, <1>4 DEF SelectionInv, ScanInStep, TableIsWanted, DistancesMatch, InOrder
<1>5. CASE ClassName \in chosen_classes /\ CategoryFilter
  <2>1. distance \in Seq(Distances) /\ new_indices \in Seq(Boxes) /\ indices \in Seq(Boxes)
    BY DEF SelectionInv, TypeOK
  <2>2. i + 1 \in 1 .. Len(indices)
    BY <1>1
  <2>3. indices[i + 1] \in Boxes
    BY <2>1, <2>2, ElementOfSeq
  <2>4. /\ Len(distance') = Len(distance) + 1
        /\ \A k \in 1 .. Len(distance) : distance'[k] = distance[k]
        /\ distance'[Len(distance) + 1] = boxes[i]
    BY <1>1, <1>5, <2>1, AppendProperties DEF CategoryFilter
  <2>5. /\ Len(new_indices') = Len(new_indices) + 1
        /\ \A k \in 1 .. Len(new_indices) : new_indices'[k] = new_indices[k]
        /\ new_indices'[Len(new_indices) + 1] = indices[i + 1]
    BY <1>5, <2>1, <2>3, AppendProperties DEF CategoryFilter
  <2>6. Range(new_indices') = Range(new_indices) \union {indices[i + 1]}
    BY <1>5, <2>1, <2>3, RangeAppend DEF CategoryFilter
  <2>7. indices[i + 1] \in Range(indices)
    BY <2>1, <2>2 DEF Range
  <2>8. ScanInStep'
    BY <1>0, <1>2, <1>3, <2>4, <2>5, <2>6, <2>7 DEF SelectionInv, ScanInStep
  <2>9. TableIsWanted'
    BY <1>0, <1>5, <2>6 DEF SelectionInv, TableIsWanted, ClassName
  <2>10. DistancesMatch'
    <3>1. SUFFICES ASSUME InOrder, steady, category_filter, NEW k \in 1 .. Len(new_indices')
                   PROVE  distance'[k] = boxes[new_indices'[k]]
      BY <1>0, <1>2 DEF DistancesMatch, InOrder
    <3>2. Len(new_indices) = Len(distance) /\ Len(distance) \in Nat
      BY <2>1, <3>1 DEF SelectionInv, ScanInStep
    <3>3. CASE k \in 1 .. Len(new_indices)
      BY <2>4, <2>5, <3>1, <3>2, <3>3 DEF SelectionInv, DistancesMatch
    <3>4. CASE k = Len(new_indices) + 1
      <4>1. indices[i + 1] = i
        BY <1>1, <2>2, <3>1 DEF InOrder
      <4>2. QED
        BY <2>4, <2>5, <3>2, <3>4, <4>1
    <3>5. QED
      BY <2>5, <3>2, <3>3, <3>4
  <2>11. QED
    BY <2>8, <2>9, <2>10
<1>6. QED
  BY <1>4, <1>5 DEF ScanClass

LEMMA SelectionOther ==
  ASSUME SelectionInv, ClearProcess \/ DecodeOutput \/ BeginAction \/ PickTarget \/ AimAtTarget
  PROVE  ScanInStep' /\ TableIsWanted' /\ DistancesMatch'
<1>1. chosen_classes' \subseteq offered'
  BY DEF SelectionInv, TableIsWanted, ClearProcess, DecodeOutput, BeginAction, PickTarget,
         AimAtTarget, flags, history
<1>2. CASE ClearProcess \/ DecodeOutput \/ BeginAction
  BY <1>1, <1>2, EmptyScan
  DEF SelectionInv, Fresh, ClearProcess, DecodeOutput, BeginAction, locals
<1>3. CASE Return
  BY <1>1, <1>3, EmptyScan DEF Return
<1>4. CASE PickTarget /\ UNCHANGED locals
  <2>1. UNCHANGED <<boxes, classes, indices, category_filter, chosen_classes, i, distance,
                    new_indices, offered, steady>>
    BY <1>4 DEF PickTarget, process, flags, locals, history
  <2>2. pc' \notin {"class", "pick"}
    BY <1>4 DEF PickTarget, Return
  <2>3. QED
    BY <2>1, <2>2 DEF SelectionInv, ScanInStep, TableIsWanted, DistancesMatch, InOrder
<1>5. QED
  BY <1>2, <1>3, <1>4 DEF PickTarget, AimAtTarget

\* What getDistanceIdx finds when it is called with the flag the scan ran with:
\* a position that the table has, of a box no farther than any in the table.
LEMMA FirstMinInTable ==
  ASSUME SelectionInv, pc = "pick", steady, Table # <<>>,
         NEW k \in 1 .. Len(indices), IsFirstMin(k)
  PROVE  /\ k \in 1 .. Len(Table)
         /\ InOrder => \A j \in 1 .. Len(Table) : boxes[Table[k]] <= boxes[Table[j]]
<1>1. /\ distance \in Seq(Distances) /\ Table \in Seq(Boxes) /\ indices \in Seq(Boxes)
      /\ boxes \in [Boxes -> Distances]
  BY DEF SelectionInv, TypeOK, Table
<1>2. Len(Table) > 0 /\ Len(Table) \in Nat
  BY <1>1, EmptySeq, LenProperties
<1>3. Len(distance) = Len(Table)
  BY DEF SelectionInv, ScanInStep, Table
<1>4. /\ k \in 1 .. Len(distance)
      /\ \A j \in 1 .. Len(distance) : distance[k] <= distance[j]
  BY <1>1, <1>2, <1>3 DEF IsFirstMin
<1>5. ASSUME InOrder, NEW j \in 1 .. Len(Table)
      PROVE  distance[j] = boxes[Table[j]]
  <2>1. CASE category_filter
    BY <1>5, <2>1 DEF SelectionInv, DistancesMatch, Table
  <2>2. CASE ~category_filter
    BY <1>3, <1>5, <2>2 DEF SelectionInv, DistancesMatch, Table, InOrder
  <2>3. QED
    BY <2>1, <2>2
<1>6. QED
  BY <1>3, <1>4, <1>5

\* The four safety properties, after the steps that do not choose a target.
LEMMA ChoiceKept ==
  ASSUME SelectionInv, [Ui \/ (Worker /\ ~PickTarget)]_vars
  PROVE  SubscriptInBounds' /\ AimsAtKeptBox' /\ AimsAtWantedClass' /\ AimsAtNearestInOrder'
<1>1. CASE Ui
  <2>1. UNCHANGED <<boxes, classes, indices, pc, new_indices, idx>>
    BY <1>1 DEF Ui, process, locals
  <2>2. offered \subseteq offered'
    BY <1>1 DEF Ui, ToggleFilter, ToggleClass
  <2>3. steady' => steady /\ category_filter' = category_filter
    BY <1>1, Zenon DEF Ui, ToggleFilter, ToggleClass
  <2>4. QED
    BY <2>1, <2>2, <2>3 DEF SelectionInv, SubscriptInBounds, AimsAtKeptBox, AimsAtWantedClass,
       AimsAtNearestInOrder, Nearest, Admitted, InOrder
<1>2. CASE Worker /\ ~PickTarget
  <2>1. pc' \notin {"aim", "out_of_bounds"}
    BY <1>2 DEF Worker, ClearProcess, DecodeOutput, BeginAction, ScanCandidate, ScanClass,
       AimAtTarget, NextCandidate, Return
  <2>2. QED
    BY <2>1 DEF SubscriptInBounds, AimsAtKeptBox, AimsAtWantedClass, AimsAtNearestInOrder
<1>3. CASE UNCHANGED vars
  BY <1>3 DEF vars, SelectionInv, SubscriptInBounds, AimsAtKeptBox, AimsAtWantedClass,
     AimsAtNearestInOrder, Nearest, Admitted, InOrder
<1>4. QED
  BY <1>1, <1>2, <1>3

\* getDistanceIdx chooses a box of the table it was asked to look in.
LEMMA ChoiceMade ==
  ASSUME SelectionInv, PickTarget
  PROVE  SubscriptInBounds' /\ AimsAtKeptBox' /\ AimsAtWantedClass' /\ AimsAtNearestInOrder'
<1>1. UNCHANGED <<boxes, classes, indices, category_filter, offered, steady>>
  BY DEF PickTarget, process, flags, history
<1>2. CASE Return
  BY <1>2 DEF Return, SubscriptInBounds, AimsAtKeptBox, AimsAtWantedClass, AimsAtNearestInOrder
<1>3. CASE ~Return
  <2>0. UNCHANGED locals
    BY <1>3 DEF PickTarget
  <2>1. PICK k \in 1 .. Len(indices) :
          /\ Table # <<>> /\ IsFirstMin(k)
          /\ \/ k <= Len(Table) /\ idx' = Table[k] /\ pc' = "aim"
             \/ k > Len(Table) /\ pc' = "out_of_bounds" /\ UNCHANGED idx
    BY <1>3 DEF PickTarget
  <2>2. Table \in Seq(Boxes) /\ Len(Table) \in Nat
    BY LenProperties DEF SelectionInv, TypeOK, Table
  <2>3. Admitted = Range(Table) /\ Admitted' = Admitted
    BY <1>1, <2>0 DEF Admitted, Table, locals
  <2>4. Range(Table) \subseteq Range(indices)
    BY DEF SelectionInv, ScanInStep, Table
  <2>5. pc = "pick"
    BY DEF PickTarget
  <2>6. steady => k \in 1 .. Len(Table)
    BY <2>1, <2>5, FirstMinInTable
  <2>7. SubscriptInBounds'
    BY <1>1, <2>1, <2>2, <2>6 DEF SubscriptInBounds
  <2>8. CASE pc' = "aim"
    <3>1. idx' = Table[k] /\ k \in 1 .. Len(Table)
      BY <2>1, <2>2, <2>8
    <3>2. idx' \in Range(Table)
      BY <2>2, <3>1 DEF Range
    <3>3. AimsAtKeptBox'
      BY <1>1, <2>4, <3>2 DEF AimsAtKeptBox
    <3>4. AimsAtWantedClass'
      BY <1>1, <3>2 DEF AimsAtWantedClass, SelectionInv, TableIsWanted, Table
    <3>5. AimsAtNearestInOrder'
      <4>1. SUFFICES ASSUME steady, InOrder, NEW b \in Range(Table)
                     PROVE  boxes[idx'] <= boxes[b]
        BY <1>1, <2>3 DEF AimsAtNearestInOrder, Nearest, InOrder
      <4>2. PICK j \in 1 .. Len(Table) : b = Table[j]
        BY <2>2 DEF Range
      <4>3. QED
        BY <2>1, <2>5, <3>1, <4>1, <4>2, FirstMinInTable
    <3>6. QED
      BY <2>7, <3>3, <3>4, <3>5
  <2>9. CASE pc' # "aim"
    BY <2>7, <2>9 DEF AimsAtKeptBox, AimsAtWantedClass, AimsAtNearestInOrder
  <2>10. QED
    BY <2>8, <2>9
<1>4. QED
  BY <1>2, <1>3 DEF PickTarget

LEMMA SelectionInductive == Spec => []SelectionInv
<1>1. Init => SelectionInv
  <2> SUFFICES ASSUME Init PROVE SelectionInv
    OBVIOUS
  <2>1. TypeOK /\ Fresh
    BY TypeInit
  <2>2. QED
    BY <2>1, RangeEmpty DEF Init, SelectionInv, ScanInStep, TableIsWanted, DistancesMatch,
       SubscriptInBounds, AimsAtKeptBox, AimsAtWantedClass, AimsAtNearestInOrder
<1>2. SelectionInv /\ [Next]_vars => SelectionInv'
  <2> SUFFICES ASSUME SelectionInv, [Next]_vars PROVE SelectionInv'
    OBVIOUS
  <2>1. TypeOK' /\ Fresh'
    BY TypeStep DEF SelectionInv
  <2>2. ScanInStep' /\ TableIsWanted' /\ DistancesMatch'
    <3>1. CASE UNCHANGED vars
      BY <3>1 DEF vars, SelectionInv, ScanInStep, TableIsWanted, DistancesMatch, InOrder
    <3>2. QED
      BY <3>1, SelectionUi, SelectionScanCandidate, SelectionScanClass, SelectionOther
      DEF Next, Worker
  <2>3. SubscriptInBounds' /\ AimsAtKeptBox' /\ AimsAtWantedClass' /\ AimsAtNearestInOrder'
    BY ChoiceKept, ChoiceMade DEF Next, Worker
  <2>4. QED
    BY <2>1, <2>2, <2>3 DEF SelectionInv
<1>3. QED
  BY <1>1, <1>2, PTL DEF Spec

\* While category_filter stays as it is during an action, the position of the
\* smallest distance is a position of the table, for any number of candidates.
THEOREM SubscriptIsInBounds == Spec => []SubscriptInBounds
<1>1. SelectionInv => SubscriptInBounds
  BY DEF SelectionInv
<1>2. QED
  BY <1>1, SelectionInductive, PTL

\* Whatever the UI switches during the scan, action never aims at a box that
\* non-maximum suppression dropped.
THEOREM OnlyKeptBoxesAimedAt == Spec => []AimsAtKeptBox
<1>1. SelectionInv => AimsAtKeptBox
  BY DEF SelectionInv
<1>2. QED
  BY <1>1, SelectionInductive, PTL

\* With selection by class, action aims at a class that the UI had up at some
\* time during the action, although each flag is read on its own.
THEOREM OnlyWantedClassesAimedAt == Spec => []AimsAtWantedClass
<1>1. SelectionInv => AimsAtWantedClass
  BY DEF SelectionInv
<1>2. QED
  BY <1>1, SelectionInductive, PTL

\* When the candidates are the boxes in their order, none suppressed, action
\* aims at the nearest of those it may aim at.
THEOREM NearestWhenInOrder == Spec => []AimsAtNearestInOrder
<1>1. SelectionInv => AimsAtNearestInOrder
  BY DEF SelectionInv
<1>2. QED
  BY <1>1, SelectionInductive, PTL
=============================================================================
