----------------------------- MODULE ChildOutcome -----------------------------
(***************************************************************************)
(* What a Child of src/src/util/child.rs promises its owner: the result it *)
(* reports is how the process really ended, is reported only once it has   *)
(* ended, and never changes.                                               *)
(***************************************************************************)
CONSTANTS
  Outcomes,   \* the ways a process may end
  Unset       \* none of them: not yet

VARIABLES
  truth,    \* how the process ended, Unset while it lives
  report    \* what the owner was told, Unset before it is

Init == truth = Unset /\ report = Unset

\* The process ends.
End ==
  /\ truth = Unset
  /\ truth' \in Outcomes
  /\ UNCHANGED report

\* The owner learns it.
Report ==
  /\ truth # Unset /\ report = Unset
  /\ report' = truth
  /\ UNCHANGED truth

Next == End \/ Report

Spec == Init /\ [][Next]_<<truth, report>>
=============================================================================
