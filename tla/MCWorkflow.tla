------------------------------ MODULE MCWorkflow ------------------------------
(***************************************************************************)
(* Instances of WorkflowScheduler: a and b side by side, j built on both   *)
(* (it reads a's artifact and waits for b), or the chain a, b, j.          *)
(***************************************************************************)
EXTENDS WorkflowScheduler, TLC

CONSTANTS a, b, j, c1, c2, c3

MCJoin == a :> {} @@ b :> {} @@ j :> {a, b}
MCJoinReads == a :> {} @@ b :> {} @@ j :> {a}
MCChain == a :> {} @@ b :> {a} @@ j :> {b}
MCAttempts == [n \in Node |-> 2]
MCThrice == [n \in Node |-> 3]
MCRetry == [n \in Node |-> {"criterion-failed", "execution-failed"}]
MCCalls == Permutations(Call)
===============================================================================
