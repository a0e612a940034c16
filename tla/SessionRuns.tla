----------------------------- MODULE SessionRuns -----------------------------
(***************************************************************************)
(* What the Host promises about Task runs (docs/adr/0040 and 0041): a run  *)
(* is accepted, executes at most once, and is finished for good; runs of   *)
(* one session execute one at a time; an accepted run may be withdrawn     *)
(* before it executes, never afterwards.                                   *)
(***************************************************************************)
CONSTANTS RunId, SessionId, SessionOf

VARIABLE run

States == {"new", "waiting", "executing", "finished"}
TypeOK == run \in [RunId -> States]

Init == run = [r \in RunId |-> "new"]

Becomes(r, st) == run' = [run EXCEPT ![r] = st]

Accept(r)   == run[r] = "new" /\ Becomes(r, "waiting")
Execute(r)  == /\ run[r] \in {"new", "waiting"}
               /\ \A q \in RunId : SessionOf[q] = SessionOf[r] => run[q] # "executing"
               /\ Becomes(r, "executing")
Finish(r)   == run[r] = "executing" /\ Becomes(r, "finished")
Withdraw(r) == run[r] \in {"new", "waiting"} /\ Becomes(r, "finished")

Next == \E r \in RunId : Accept(r) \/ Execute(r) \/ Finish(r) \/ Withdraw(r)

Spec == Init /\ [][Next]_run
===============================================================================
