------------------------------ MODULE MCLaunch ------------------------------
(* schtest, a scheduler's binary and one process it may leave behind.      *)
EXTENDS Launch, TLC

OwnerOf == Box :> Runner @@ Sched :> Box
SomeCauses == {Setup, NoExec}
=============================================================================
