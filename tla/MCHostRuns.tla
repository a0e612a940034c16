----------------------------- MODULE MCHostRuns -----------------------------
(***************************************************************************)
(* Model-checking instance of HostRuns.                                    *)
(***************************************************************************)
EXTENDS HostRuns, TLC

CONSTANTS r1, r2, r3, s1, s2, m1

MCOneSession  == [r \in RunId |-> s1]
MCTwoSessions == r1 :> s1 @@ r2 :> s1 @@ r3 :> s2
MCSymmetry    == Permutations(RunId)
===============================================================================
