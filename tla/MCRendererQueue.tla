---------------------------- MODULE MCRendererQueue ----------------------------
(* Instances of RendererQueue: a and b share a thread, the others have none. *)
EXTENDS RendererQueue, TLC

CONSTANTS a, b, c, d, e, t

MCThreads == [r \in Run |-> IF r \in {a, b} THEN t ELSE NoThread]
MCSubmits == [r \in Run |-> IF r = b THEN 2 ELSE 1]
MCTwins == Permutations(Run \ {a, b})
===============================================================================
