--------------------------- MODULE WorkflowRecovery ---------------------------
(***************************************************************************)
(* Checkpoints of a workflow and the Host's death: checkpoint() and        *)
(* resume() of app/electron/workflowScheduler.ts.                          *)
(*                                                                         *)
(* checkpoint() checks the boundary, then awaits the digest of every       *)
(* artifact, then reads the node states; handlers may run in between.      *)
(***************************************************************************)
EXTENDS WorkflowScheduler

CONSTANTS Deaths   \* bound: how often the Host dies

VARIABLES
  saving,   \* a checkpoint waits for the digests
  saved,    \* the last checkpoint handed out
  deaths

rvars == <<status, tried, total, active, reason, art, complete, late, call, exec,
           saving, saved, deaths>>

(* mutant: the budgets are written as they were admitted *)
SnapshotOfAdmission ==
  [taken |-> TRUE, status |-> [n \in Node |-> IF status[n] = "running" THEN "blocked" ELSE status[n]],
   tried |-> tried, reason |-> reason, art |-> art, complete |-> complete, left |-> MaxTotal]
(* What checkpoint() returns: a running node is written as blocked. *)
Snapshot ==
  [taken |-> TRUE,
   status |-> [n \in Node |-> IF status[n] = "running" THEN "blocked" ELSE status[n]],
   tried |-> tried, reason |-> reason, art |-> art, complete |-> complete,
   left |-> Minus(MaxTotal, total)]

AtBoundary == active = 0 /\ \A n \in Node : status[n] # "running"
HasArtifacts == \E n \in Node : art[n].by # 0

CheckpointBegin ==
  /\ ~saving /\ NoLoopDue /\ AtBoundary
  /\ IF HasArtifacts THEN saving' = TRUE /\ saved' = saved
                     ELSE saving' = FALSE /\ saved' = Snapshot
  /\ UNCHANGED wvars /\ UNCHANGED deaths

CheckpointEnd ==
  /\ saving /\ NoLoopDue
  /\ saving' = FALSE /\ saved' = Snapshot
  /\ UNCHANGED wvars /\ UNCHANGED deaths

(* assertResumeNodesAndBudgets, assertResumeArtifacts *)
Attempts(t) == UNION {{n} \X (1 .. t[n]) : n \in Node}
Tried(t) == Cardinality(Attempts(t))
Resumable ==
  /\ saved.taken
  /\ Tried(saved.tried) <= MaxTotal /\ saved.left = MaxTotal - Tried(saved.tried)
  /\ \A n \in Node : (saved.status[n] = "passed" /\ n \notin Optional) => saved.art[n].by # 0

(* The Host dies; a new one resumes from the checkpoint. The scheduler     *)
(* that is restored executes nothing before it is called. Callers that     *)
(* waited get an error.                                                    *)
Resume ==
  /\ deaths < Deaths /\ Resumable
  /\ deaths' = deaths + 1 /\ saving' = FALSE
  /\ status' = saved.status /\ tried' = saved.tried /\ reason' = saved.reason
  /\ art' = saved.art /\ complete' = saved.complete
  /\ total' = Tried(saved.tried) /\ active' = 0 /\ late' = FALSE
  /\ call' = [c \in Call |-> IF Looping(c) THEN "failed" ELSE call[c]]
  /\ exec' = [c \in Call |-> [n \in Node |-> Idle]]
  /\ UNCHANGED saved

RInit == WInit /\ saving = FALSE /\ saved = [taken |-> FALSE] /\ deaths = 0
RNext ==
  \/ WNext /\ UNCHANGED <<saving, saved, deaths>>
  \/ CheckpointBegin \/ CheckpointEnd \/ Resume
RSpec == RInit /\ [][RNext]_rvars

-----------------------------------------------------------------------------
(* Properties *)

(* The total is what the nodes add up to, so that the budget recomputed at *)
(* a resume is the one that was left.                                      *)
TotalAddsUp == total = Tried(tried)

(* A checkpoint that was handed out is accepted when it comes back. *)
CheckpointAccepted == saved.taken => Resumable

(* What a checkpoint says has passed was built on what it says has passed, *)
(* of the artifacts it holds.                                              *)
CheckpointClosed ==
  saved.taken => \A n \in Node : saved.status[n] = "passed" =>
     /\ \A d \in Deps[n] : saved.status[d] = "passed"
     /\ saved.art[n].by # 0 => \A d \in Reads[n] : saved.art[n].from[d] = saved.art[d].by

(* `Workflow checkpoint requires a clean node boundary`: no node is being  *)
(* executed when the node states are written into a checkpoint.            *)
SavedAtBoundary ==
  [][saved' # saved => \A n \in Node : status[n] # "running"]_rvars
===============================================================================
