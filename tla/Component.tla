----------------------------- MODULE Component -----------------------------
(***************************************************************************)
(* What the Actuator and an object it owns expect of one another, with     *)
(* none of the members, libraries and threads of either.  The object is    *)
(* created and prepared; it is used only after its preparation succeeded;  *)
(* it is given up when that failed or when its user has finished; and it   *)
(* is released once, which fails if the preparation left it defunct.       *)
(*                                                                         *)
(* Inference implements it for the framework and Aim for the lock object,  *)
(* Actuator for all four objects from its user's side.                     *)
(***************************************************************************)
CONSTANTS
  AfterFailure,  \* what a failed preparation may leave: "closing" or "defunct"
  Deaths         \* where the process may die of the object before it is defunct

VARIABLE phase   \* where the object stands

Phases == {"absent", "preparing", "usable", "closing", "defunct", "aborted"}

TypeOK == phase \in Phases

\* The object is not there, or it has just been created.
Init == phase \in {"absent", "preparing"}

Create == phase = "absent" /\ phase' = "preparing"

\* What needs little preparation is created and prepared at once.
Prepare == phase \in {"absent", "preparing"} /\ phase' = "usable"

Fail == phase \in {"absent", "preparing"} /\ phase' \in AfterFailure

\* Its user has finished and will release it.
Close == phase = "usable" /\ phase' = "closing"

Release == phase \in {"usable", "closing"} /\ phase' = "absent"

\* Releasing what a failed preparation left defunct.
Crash == phase = "defunct" /\ phase' = "aborted"

Die == phase \in Deaths /\ phase' = "aborted"

Next == Create \/ Prepare \/ Fail \/ Close \/ Release \/ Crash \/ Die

Spec == Init /\ [][Next]_phase
=============================================================================
