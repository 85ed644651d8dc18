------------------------------ MODULE Service ------------------------------
(***************************************************************************)
(* What the actuator promises whoever operates it, with none of its        *)
(* threads, pointers or signals: a service that is launched, acquires its  *)
(* resources, serves while it holds all of them, stops serving only when   *)
(* asked to, gives back everything it holds, and can be launched again     *)
(* after it was reaped.  Actuator implements it (Actuator!Promise).        *)
(***************************************************************************)
CONSTANTS Resources,  \* what the service must hold while it serves
          MayAbort    \* whether the process may die under the service

VARIABLES phase,      \* where the service stands
          held,       \* the resources it has acquired and not given back
          stop        \* it has been asked to stop

vars == <<phase, held, stop>>

Phases == {"idle", "acquiring", "serving", "draining", "ended", "aborted"}

TypeOK ==
  /\ phase \in Phases
  /\ held \subseteq Resources
  /\ stop \in BOOLEAN

Init ==
  /\ phase = "idle"
  /\ held = {}
  /\ stop = FALSE

\* A request to stop may come at any time; only a new launch forgets it.
Request ==
  /\ phase # "aborted"
  /\ stop' = TRUE
  /\ UNCHANGED <<phase, held>>

\* Launching needs everything of the previous run to be given back.
Launch ==
  /\ phase = "idle"
  /\ held = {}
  /\ phase' = "acquiring"
  /\ stop' = FALSE
  /\ UNCHANGED held

\* No resource is acquired while it is still held: that would lose it.  The
\* last one lets the service serve.
Acquire(r) ==
  /\ phase = "acquiring"
  /\ r \notin held
  /\ held' = held \union {r}
  /\ phase' = IF held' = Resources THEN "serving" ELSE "acquiring"
  /\ UNCHANGED stop

\* An acquisition failed; what it acquired on the way to failing is held.
GiveUp ==
  /\ phase = "acquiring"
  /\ phase' = "draining"
  /\ held' = held \/ \E r \in Resources \ held : held' = held \union {r}
  /\ UNCHANGED stop

StopServing ==
  /\ phase = "serving"
  /\ stop
  /\ phase' = "draining"
  /\ UNCHANGED <<held, stop>>

GiveBack(r) ==
  /\ phase = "draining"
  /\ r \in held
  /\ held' = held \ {r}
  /\ UNCHANGED <<phase, stop>>

\* The run is over once nothing is held (the last give-back may end it).
End ==
  /\ phase = "draining"
  /\ held' = {}
  /\ held = {} \/ \E r \in Resources : held = {r}
  /\ phase' = "ended"
  /\ UNCHANGED stop

Reap ==
  /\ phase = "ended"
  /\ phase' = "idle"
  /\ UNCHANGED <<held, stop>>

Abort ==
  /\ MayAbort
  /\ phase # "aborted"
  /\ phase' = "aborted"
  /\ UNCHANGED <<held, stop>>

Next ==
  \/ Request
  \/ Launch
  \/ \E r \in Resources : Acquire(r) \/ GiveBack(r)
  \/ GiveUp
  \/ StopServing
  \/ End
  \/ Reap
  \/ Abort

\* A service that was asked to stop stops serving, and a service that stopped
\* serving gives everything back and ends.
Fairness ==
  /\ WF_vars(StopServing)
  /\ WF_vars(End)
  /\ \A r \in Resources : WF_vars(GiveBack(r))

Spec == Init /\ [][Next]_vars /\ Fairness
=============================================================================
