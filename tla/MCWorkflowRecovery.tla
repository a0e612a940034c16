-------------------------- MODULE MCWorkflowRecovery --------------------------
(* Instance of WorkflowRecovery: j reads the artifact of a and follows b. *)
EXTENDS WorkflowRecovery, TLC

CONSTANTS a, b, j, c1, c2, c3

MCJoin == a :> {} @@ b :> {} @@ j :> {a, b}
MCJoinReads == a :> {} @@ b :> {} @@ j :> {a}
MCAttempts == [n \in Node |-> 2]
MCRetry == [n \in Node |-> {"criterion-failed", "execution-failed"}]
MCCalls == Permutations(Call)
===============================================================================
