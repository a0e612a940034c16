--------------------------- MODULE WorkflowGraphRun ---------------------------
(***************************************************************************)
(* What the workflow scheduler promises of a dependency graph              *)
(* (docs/specs, Node lifecycle): a node works only while everything it     *)
(* depends on is done; what is done is reopened only together with         *)
(* everything that depends on it, and only while nothing works.            *)
(***************************************************************************)
CONSTANTS Node, Deps

VARIABLE node

States == {"waiting", "working", "done", "over"}

Init == node = [n \in Node |-> "waiting"]

In(st) == {n \in Node : node[n] = st}

(* B starts, F will not be tried. *)
Advance(B, F) ==
  /\ B \cup F \subseteq In("waiting")
  /\ \A n \in B : Deps[n] \subseteq In("done")
  /\ node' = [n \in Node |-> IF n \in B THEN "working" ELSE IF n \in F THEN "over" ELSE node[n]]

Settle(n, st) == node[n] = "working" /\ node' = [node EXCEPT ![n] = st]

(* The result of n is withdrawn before anything was built on it. *)
Revoke(n) ==
  /\ node[n] = "done" /\ \A m \in Node : n \in Deps[m] => node[m] \in {"waiting", "over"}
  /\ node' = [node EXCEPT ![n] = "over"]

Reopen(S) ==
  /\ In("working") = {} /\ \A n \in Node : Deps[n] \cap S # {} => n \in S
  /\ node' = [n \in Node |-> IF n \in S THEN "waiting" ELSE node[n]]

Next ==
  \/ \E B, F \in SUBSET Node : Advance(B, F)
  \/ \E n \in Node, st \in {"done", "over"} : Settle(n, st)
  \/ \E n \in Node : Revoke(n)
  \/ \E S \in SUBSET Node : Reopen(S)

Spec == Init /\ [][Next]_node
===============================================================================
