-------------------------- MODULE MCHostRunsRestart --------------------------
(***************************************************************************)
(* Model-checking instance of HostRunsRestart.                             *)
(***************************************************************************)
EXTENDS HostRunsRestart, TLC

CONSTANTS r1, r2, r3, s1

MCSessionOf == [r \in RunId |-> s1]
MCSymmetry  == Permutations(RunId)
===============================================================================
