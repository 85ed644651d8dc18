--------------------------- MODULE TargetSelection ---------------------------
(***************************************************************************)
(* How Functional::action picks the box to aim at, from the candidates     *)
(* that a detector's DecodeOutput left in the shared Process, while the UI *)
(* process switches the category flags of the shared memory.               *)
(*                                                                         *)
(* The worker reads each flag where it needs it, not once per frame.  A    *)
(* box is its class and its squared distance from the centre of the        *)
(* screen (getDistance); boxes are numbered from 0 like in the code.       *)
(***************************************************************************)
EXTENDS Integers, Sequences, Functions

CONSTANTS
  MaxBoxes,   \* bound: boxes above the confidence threshold in a frame
  Distances,  \* the squared distances that boxes have
  Classes     \* the classes that boxes have

ASSUME BoxesAssumption ==
  /\ MaxBoxes \in Nat
  /\ Distances \subseteq Nat
  /\ Classes \subseteq Nat

VARIABLES
  boxes,            \* m_process->boxes, by their distance
  classes,          \* m_process->classes
  indices,          \* m_process->indices: what non-maximum suppression kept
  category_filter,  \* Signal: select by class
  chosen_classes,   \* Signal: first_class .. fourth_class, as a set
  pc,               \* the worker's next step
  i,                \* the loop counter of the scan
  distance,         \* local of action: the distances of the admitted boxes
  new_indices,      \* local of action: the admitted boxes, if selecting
  idx,              \* the box to aim at, -1 for none
  offered,          \* history: classes that were up at some time in this action
  steady            \* history: category_filter has not changed in this action

process == <<boxes, classes, indices>>
flags   == <<category_filter, chosen_classes>>
locals  == <<i, distance, new_indices>>
history == <<offered, steady>>
vars    == <<boxes, classes, indices, category_filter, chosen_classes, pc, i,
             distance, new_indices, idx, offered, steady>>

\* The classes that have a flag; a box of another class is never selected.
FlaggedClasses == 0 .. 3

\* What NMSBoxes gives for n boxes: some of them, by descending confidence,
\* which says nothing of their positions.
Kept(n) ==
  {s \in UNION {[1 .. k -> 0 .. n-1] : k \in 0 .. n} : IsInjective(s)}

\* The vectors boxes and classes when they are empty.
NoBoxes == [b \in {} |-> 0]

Steps == {"detect", "decode", "action", "scan", "class", "pick", "aim", "out_of_bounds"}

\* The numbers of the boxes of the frame.
Boxes == DOMAIN boxes

TypeOK ==
  /\ \E n \in 0 .. MaxBoxes : Boxes = 0 .. n-1
  /\ boxes \in [Boxes -> Distances]
  /\ classes \in [Boxes -> Classes]
  /\ indices \in Seq(Boxes)
  /\ 0 .. Len(indices)-1 \subseteq Boxes
  /\ category_filter \in BOOLEAN
  /\ chosen_classes \subseteq FlaggedClasses
  /\ pc \in Steps
  /\ i \in 0 .. Len(indices)
  /\ pc \in {"scan", "class"} => i < Len(indices)
  /\ distance \in Seq(Distances)
  /\ new_indices \in Seq(Boxes)
  /\ idx \in Boxes \union {-1}
  /\ offered \subseteq FlaggedClasses
  /\ steady \in BOOLEAN

Init ==
  /\ boxes = NoBoxes /\ classes = NoBoxes /\ indices = <<>>
  /\ category_filter \in BOOLEAN
  /\ chosen_classes \in SUBSET (FlaggedClasses \intersect Classes)
  /\ pc = "detect"
  /\ i = 0 /\ distance = <<>> /\ new_indices = <<>>
  /\ idx = -1
  /\ offered = chosen_classes
  /\ steady = TRUE

-----------------------------------------------------------------------------
(* The UI process.                                                         *)

ToggleFilter ==
  /\ category_filter' = ~category_filter
  /\ steady' = FALSE
  /\ UNCHANGED <<chosen_classes, offered>>

ToggleClass ==
  /\ \E c \in FlaggedClasses \intersect Classes :
       chosen_classes' = IF c \in chosen_classes THEN chosen_classes \ {c}
                                                 ELSE chosen_classes \union {c}
  /\ offered' = offered \union chosen_classes'
  /\ UNCHANGED <<category_filter, steady>>

Ui ==
  /\ ToggleFilter \/ ToggleClass
  /\ UNCHANGED <<process, pc, locals, idx>>

-----------------------------------------------------------------------------
(* The worker: DecodeOutput.                                               *)

\* Mutated form: the indices of an earlier frame are not cleared.
ClearProcess_KeepsIndices ==
  /\ pc = "detect"
  /\ boxes' = NoBoxes /\ classes' = NoBoxes
  /\ idx' = -1
  /\ pc' = "decode"
  /\ UNCHANGED <<indices, flags, locals, history>>

ClearProcess ==
  /\ pc = "detect"
  /\ boxes' = NoBoxes /\ classes' = NoBoxes /\ indices' = <<>>
  /\ idx' = -1
  /\ pc' = "decode"
  /\ UNCHANGED <<flags, locals, history>>

\* Boxes and classes are pushed together; NMSBoxes fills indices.
DecodeOutput ==
  /\ pc = "decode"
  /\ \E n \in 0 .. MaxBoxes :
       /\ boxes' \in [0 .. n-1 -> Distances]
       /\ classes' \in [0 .. n-1 -> Classes]
       /\ indices' \in Kept(n)
  /\ pc' = "action"
  /\ UNCHANGED <<flags, locals, idx, history>>

-----------------------------------------------------------------------------
(* The worker: Functional::action.                                         *)

\* A frame without candidates is skipped.
BeginAction ==
  /\ pc = "action"
  /\ pc' = IF indices = <<>> THEN "detect" ELSE "scan"
  /\ offered' = chosen_classes
  /\ steady' = TRUE
  /\ UNCHANGED <<process, flags, locals, idx>>

\* Mutated form: the class at the candidate's position.
ClassName_ByPosition == classes[i]

\* Process::getClassName of the candidate at the loop counter.
ClassName == classes[indices[i + 1]]

\* The loop goes on with the next candidate, if there is one.
NextCandidate ==
  /\ i' = i + 1
  /\ pc' = IF i' < Len(indices) THEN "scan" ELSE "pick"

\* Without selection only the distance is noted, of the box at the position of
\* the candidate in indices.
ScanCandidate ==
  /\ pc = "scan"
  /\ \/ category_filter /\ pc' = "class" /\ UNCHANGED <<i, distance>>
     \/ ~category_filter /\ distance' = Append(distance, boxes[i]) /\ NextCandidate
  /\ UNCHANGED <<process, flags, new_indices, idx, history>>

\* Mutated form: the candidate is noted by its position.
CategoryFilter_ByPosition ==
  /\ new_indices' = Append(new_indices, i)
  /\ distance' = Append(distance, boxes[i])

\* Functional::categoryFilter notes the candidate's box, and the distance of
\* the box at the candidate's position.
CategoryFilter ==
  /\ new_indices' = Append(new_indices, indices[i + 1])
  /\ distance' = Append(distance, boxes[i])

\* The switch over the class with the test of its flag.
ScanClass ==
  /\ pc = "class"
  /\ \/ ClassName \in chosen_classes /\ CategoryFilter
     \/ ClassName \notin chosen_classes /\ UNCHANGED <<new_indices, distance>>
  /\ NextCandidate
  /\ UNCHANGED <<process, flags, idx, history>>

\* Mutated form: the first maximum.
IsFirstMin_Max(k) ==
  \/ distance = <<>> /\ k = 1
  \/ /\ k \in 1 .. Len(distance)
     /\ \A j \in 1 .. Len(distance) : distance[k] >= distance[j]
     /\ \A j \in 1 .. k-1 : distance[j] # distance[k]

\* std::min_element gives the first minimum, position 0 of an empty vector.
IsFirstMin(k) ==
  \/ distance = <<>> /\ k = 1
  \/ /\ k \in 1 .. Len(distance)
     /\ \A j \in 1 .. Len(distance) : distance[k] <= distance[j]
     /\ \A j \in 1 .. k-1 : distance[j] # distance[k]

\* Mutated form: the table that was filled, even if it was left empty.
PickTarget_Unchecked ==
  /\ pc = "pick"
  /\ LET table == IF category_filter THEN new_indices ELSE indices IN
     \E k \in 1 .. Len(indices) :
       /\ IsFirstMin(k)
       /\ \/ k <= Len(table) /\ idx' = table[k] /\ pc' = "aim"
          \/ k > Len(table) /\ pc' = "out_of_bounds" /\ UNCHANGED idx
  /\ UNCHANGED <<process, flags, locals, history>>

\* The table getDistanceIdx looks the position up in.
Table == IF category_filter THEN new_indices ELSE indices

\* The locals of action are gone when it returns.
Return ==
  /\ pc' = "detect"
  /\ i' = 0 /\ distance' = <<>> /\ new_indices' = <<>>

\* getDistanceIdx: -1 without candidates, and action returns.  A subscript
\* beyond the table reads memory that is not the vector's.
PickTarget ==
  /\ pc = "pick"
  /\ \/ Table = <<>> /\ idx' = -1 /\ Return
     \/ /\ Table # <<>>
        /\ \E k \in 1 .. Len(indices) :
             /\ IsFirstMin(k)
             /\ \/ k <= Len(Table) /\ idx' = Table[k] /\ pc' = "aim"
                \/ k > Len(Table) /\ pc' = "out_of_bounds" /\ UNCHANGED idx
        /\ UNCHANGED locals
  /\ UNCHANGED <<process, flags, history>>

\* The rest of action aims at boxes[idx].
AimAtTarget ==
  /\ pc = "aim"
  /\ Return
  /\ UNCHANGED <<process, flags, idx, history>>

Worker ==
  \/ ClearProcess \/ DecodeOutput
  \/ BeginAction \/ ScanCandidate \/ ScanClass \/ PickTarget \/ AimAtTarget

Next == Ui \/ Worker

Spec == Init /\ [][Next]_vars

-----------------------------------------------------------------------------
(* Properties.                                                             *)

\* The boxes that action may aim at when it has scanned the candidates.
Admitted == IF category_filter THEN Range(new_indices) ELSE Range(indices)

\* The locals of action are not used before the scan begins, and no target of
\* an earlier frame is left when the vectors are filled.
Fresh ==
  /\ pc \in {"detect", "decode", "action"} => i = 0 /\ distance = <<>> /\ new_indices = <<>>
  /\ pc = "decode" => idx = -1

\* While category_filter stays as it is during an action, getDistanceIdx never
\* reads beyond its table: the distances and the table are filled in step.
SubscriptInBounds == steady => pc # "out_of_bounds"

\* Whatever the UI switches and whenever it does, action aims at a box that
\* non-maximum suppression kept: never at one that was suppressed.
AimsAtKeptBox == pc = "aim" => idx \in Range(indices)

\* With selection, the class of the box was up at some time during the action,
\* however the UI switches the class flags meanwhile.
AimsAtWantedClass ==
  (pc = "aim" /\ category_filter /\ steady) => classes[idx] \in offered

\* What the code achieves of AimsAtNearest: it holds when every box was kept and
\* in the order the detector found it, so that a candidate's position is its box.
Nearest == \A b \in Admitted : boxes[idx] <= boxes[b]
InOrder == \A k \in 1 .. Len(indices) : indices[k] = k - 1
AimsAtNearestInOrder == (pc = "aim" /\ steady /\ InOrder) => Nearest

-----------------------------------------------------------------------------
(* What comments of the source say, and the code does not do.              *)

\* lock_functional.cpp:240, "get the nearest target".
AimsAtNearest == (pc = "aim" /\ steady) => Nearest

\* lock_functional.cpp:97, "candidates exist: return the index of the smallest",
\* says so with the flag as it is at the call.
SubscriptAlwaysInBounds == pc # "out_of_bounds"
=============================================================================
