-------------------------- MODULE WorkflowScheduler --------------------------
(***************************************************************************)
(* The Host's workflow scheduler: class WorkflowScheduler of               *)
(* app/electron/workflowScheduler.ts, for one admitted definition.         *)
(*                                                                         *)
(* run(), repair() and continueRun() are calls c \in Call.  Each of them   *)
(* drives a loop of its own (runPending) that starts a batch of ready      *)
(* nodes, waits for all of them, and goes on; all loops share the maps of  *)
(* the object.  A step is what happens between two awaits that really      *)
(* wait: a workspace's admission and release, the execution of a node, its *)
(* verification.  The order of the nodes in the definition is left out: a  *)
(* batch is any of the ready nodes, as many as may run at once.            *)
(*                                                                         *)
(* Every node declares one artifact, named by the node.  Its value is the  *)
(* attempt that made it and the attempts that made the inputs it read.     *)
(***************************************************************************)
EXTENDS Integers, FiniteSets

CONSTANTS
  Node,          \* nodes of the definition
  Deps,          \* dependsOn
  Reads,         \* producers of the input artifacts (direct dependencies)
  Needs,         \* those of Reads whose artifact is required
  Optional,      \* nodes whose artifact is not a required output
  Writers,       \* nodes with a workspace that must be admitted and released
  RetryOn,       \* failure reasons a node may be repaired for
  MaxAttempts,   \* per node
  MaxTotal,      \* budgets.maxTotalAttempts
  MaxConcurrent, \* budgets.maxConcurrentNodes
  Call,          \* calls of run, repair and continueRun
  OutOfTurn      \* whether clients make a call while another one runs, or a
                 \* repair of a restored scheduler before they let it run on

Reason == {"execution-failed", "schema-failed", "criterion-failed"}

ASSUME GraphAssumption ==
  /\ IsFiniteSet(Node)
  /\ Deps \in [Node -> SUBSET Node] /\ Reads \in [Node -> SUBSET Node]
  /\ Needs \in [Node -> SUBSET Node]
  /\ \A n \in Node : n \notin Deps[n] /\ Needs[n] \subseteq Reads[n] /\ Reads[n] \subseteq Deps[n]
ASSUME PolicyAssumption ==
  /\ MaxAttempts \in [Node -> Nat \ {0}] /\ RetryOn \in [Node -> SUBSET Reason]
  /\ Writers \subseteq Node /\ Optional \subseteq Node
ASSUME BudgetAssumption ==   \* validateBudgets
  MaxTotal \in Nat /\ MaxTotal >= Cardinality(Node) /\ MaxConcurrent \in Nat \ {0}
ASSUME TurnAssumption == OutOfTurn \in BOOLEAN

VARIABLES
  status,    \* statuses
  tried,     \* attemptsByNode
  total,     \* attempts
  active,    \* active
  reason,    \* failureReasons, "none" where there is none
  art,       \* artifacts
  complete,  \* initialRunComplete
  late,      \* the wall-clock budget is exhausted
  call,      \* what each call does, its verdict once it returned
  exec       \* what each call does with each node: executeOne

wvars == <<status, tried, total, active, reason, art, complete, late, call, exec>>

Status == {"pending", "running", "passed", "failed", "blocked"}
NoInputs == [d \in Node |-> 0]
NoArtifact == [by |-> 0, from |-> NoInputs]
Idle == [at |-> "none", attempt |-> 0, gives |-> FALSE, from |-> NoInputs]

-----------------------------------------------------------------------------
(* The loop *)

ReadyOnInputs(n) ==        \* mutant: control-only dependencies are not awaited
  /\ status[n] = "pending"
  /\ \A d \in Needs[n] : art[d].by # 0
Ready(n) ==
  /\ status[n] = "pending"
  /\ \A d \in Deps[n] : status[d] = "passed"
  /\ \A d \in Needs[n] : art[d].by # 0

ReadyNodes == {n \in Node : Ready(n)}
Pending == {n \in Node : status[n] = "pending"}
Inputs(n) == [d \in Node |-> IF d \in Reads[n] THEN art[d].by ELSE 0]

Looping(c) == call[c] = "looping"
Busy(c, n) == exec[c][n].at # "none"
BatchOver(c) == Looping(c) /\ \A n \in Node : ~Busy(c, n)

(* No other handler runs between the end of a batch and the next one. *)
NoLoopDue == \A c \in Call : ~BatchOver(c)

Started(n) == [at |-> "executing", attempt |-> tried[n] + 1, gives |-> FALSE, from |-> Inputs(n)]
Asking(n)  == [Idle EXCEPT !.at = "admitting", !.attempt = tried[n] + 1]

(* active -= 1, k times, never below 0 *)
Minus(a, k) == IF a < k THEN 0 ELSE a - k

(* All nodes of a batch check the budgets before the first of them counts  *)
(* its attempt.                                                            *)
Batch(c, B) ==
  LET no  == {n \in B : tried[n] >= MaxAttempts[n] \/ total >= MaxTotal}
      go  == (B \ no) \ Writers
      ask == (B \ no) \cap Writers
  IN  /\ BatchOver(c) /\ ~late
      /\ B \subseteq ReadyNodes /\ B # {}
      /\ \/ Cardinality(B) = MaxConcurrent
         \/ Cardinality(B) < MaxConcurrent /\ B = ReadyNodes
      /\ status' = [n \in Node |-> IF n \in no THEN "failed" ELSE IF n \in go THEN "running" ELSE status[n]]
      /\ reason' = [n \in Node |-> IF n \in no THEN "execution-failed" ELSE reason[n]]
      /\ tried'  = [n \in Node |-> IF n \in go THEN tried[n] + 1 ELSE tried[n]]
      /\ total'  = total + Cardinality(go)
      /\ active' = Minus(active, Cardinality(no)) + Cardinality(go)
      /\ exec' = [exec EXCEPT ![c] = [n \in Node |-> IF n \in go THEN Started(n)
                                                     ELSE IF n \in ask THEN Asking(n) ELSE @[n]]]
      /\ UNCHANGED <<art, complete, late, call>>

(* What is still pending when the loop ends is blocked. *)
Closed == [n \in Node |-> IF n \in Pending THEN "blocked" ELSE status[n]]
Verdict(st) ==
  CASE \A n \in Node : st[n] = "passed" -> "passed"
    [] \E n \in Node : st[n] = "failed" -> "failed"
    [] OTHER -> "blocked"

ReturnWhenNoneReady(c) ==   \* mutant: the clock stops the batches, not the loop
  /\ BatchOver(c) /\ ReadyNodes = {}
  /\ status' = Closed
  /\ call' = [call EXCEPT ![c] = Verdict(Closed)]
  /\ UNCHANGED <<tried, total, active, reason, art, complete, late, exec>>
Return(c) ==
  /\ BatchOver(c) /\ (late \/ ReadyNodes = {})
  /\ status' = Closed
  /\ call' = [call EXCEPT ![c] = Verdict(Closed)]
  /\ UNCHANGED <<tried, total, active, reason, art, complete, late, exec>>

-----------------------------------------------------------------------------
(* executeOne: the steps of a node *)

At(c, n, st) == Looping(c) /\ exec[c][n].at = st
GoesTo(c, n, e) == exec' = [exec EXCEPT ![c] = [@ EXCEPT ![n] = e]]

AdmitWorkspace(c, n) ==
  /\ At(c, n, "admitting")
  /\ tried' = [tried EXCEPT ![n] = exec[c][n].attempt]
  /\ total' = total + 1 /\ active' = active + 1
  /\ status' = [status EXCEPT ![n] = "running"]
  /\ GoesTo(c, n, [exec[c][n] EXCEPT !.at = "executing", !.from = Inputs(n)])
  /\ UNCHANGED <<reason, art, complete, late, call>>

DenyWorkspace(c, n) ==
  /\ At(c, n, "admitting")
  /\ status' = [status EXCEPT ![n] = "blocked"]
  /\ GoesTo(c, n, Idle)
  /\ UNCHANGED <<tried, total, active, reason, art, complete, late, call>>

(* The execution completed and its outputs have the declared schemas. *)
Observe(c, n, gives) ==
  /\ At(c, n, "executing") /\ (gives \/ n \in Optional)
  /\ GoesTo(c, n, [exec[c][n] EXCEPT !.at = "verifying", !.gives = gives])
  /\ UNCHANGED <<status, tried, total, active, reason, art, complete, late, call>>

LeaveKeepsActive(c, n) ==   \* mutant: the slot is not given back
  active' = active /\ GoesTo(c, n, IF n \in Writers THEN [exec[c][n] EXCEPT !.at = "releasing"] ELSE Idle)
Leave(c, n) ==
  /\ active' = Minus(active, 1)
  /\ GoesTo(c, n, IF n \in Writers THEN [exec[c][n] EXCEPT !.at = "releasing"] ELSE Idle)

Fail(c, n, why) ==
  /\ IF why = "criterion-failed" THEN At(c, n, "verifying") ELSE At(c, n, "executing")
  /\ status' = [status EXCEPT ![n] = "failed"]
  /\ reason' = [reason EXCEPT ![n] = why]
  /\ Leave(c, n)
  /\ UNCHANGED <<tried, total, art, complete, late, call>>

Pass(c, n) ==
  /\ At(c, n, "verifying")
  /\ art' = IF exec[c][n].gives
            THEN [art EXCEPT ![n] = [by |-> exec[c][n].attempt, from |-> exec[c][n].from]] ELSE art
  /\ status' = [status EXCEPT ![n] = "passed"]
  /\ reason' = [reason EXCEPT ![n] = "none"]
  /\ Leave(c, n)
  /\ UNCHANGED <<tried, total, complete, late, call>>

Release(c, n, ok) ==
  /\ At(c, n, "releasing")
  /\ status' = IF ok THEN status ELSE [status EXCEPT ![n] = "failed"]
  /\ reason' = IF ok THEN reason ELSE [reason EXCEPT ![n] = "execution-failed"]
  /\ GoesTo(c, n, Idle)
  /\ UNCHANGED <<tried, total, active, art, complete, late, call>>

-----------------------------------------------------------------------------
(* Calls *)

MayCall(c) == call[c] = "new" /\ NoLoopDue /\ (OutOfTurn \/ \A d \in Call : ~Looping(d))

Run(c) ==
  /\ MayCall(c) /\ ~complete
  /\ complete' = TRUE /\ call' = [call EXCEPT ![c] = "looping"]
  /\ UNCHANGED <<status, tried, total, active, reason, art, late, exec>>

(* impactedClosure *)
Downstream(S) == \A n \in Node : Deps[n] \cap S # {} => n \in S
SeedsOnly(seeds) == seeds    \* mutant: nodes built on a repaired one are kept
Impacted(seeds) == {n \in Node : \A S \in SUBSET Node : (seeds \subseteq S /\ Downstream(S)) => n \in S}

Retryable(n) == (IF reason[n] = "none" THEN "criterion-failed" ELSE reason[n]) \in RetryOn[n]
WithinNodes(I) == \A n \in I : tried[n] < MaxAttempts[n]
WithinEach(I) == total < MaxTotal /\ WithinNodes(I)     \* mutant: one attempt is reserved for all
WithinBudget(I) == total + Cardinality(I) <= MaxTotal /\ WithinNodes(I)

Repair(c, seeds) ==
  LET I == Impacted(seeds)
  IN  /\ MayCall(c) /\ complete /\ (OutOfTurn \/ Pending = {})
      /\ seeds # {} /\ \A n \in seeds : Retryable(n)
      /\ ~late /\ WithinBudget(I)
      /\ status' = [n \in Node |-> IF n \in I THEN "pending" ELSE status[n]]
      /\ reason' = [n \in Node |-> IF n \in I THEN "none" ELSE reason[n]]
      /\ art'    = [n \in Node |-> IF n \in I THEN NoArtifact ELSE art[n]]
      /\ call' = [call EXCEPT ![c] = "looping"]
      /\ UNCHANGED <<tried, total, active, complete, late, exec>>

Continue(c) ==
  /\ MayCall(c)
  /\ call' = [call EXCEPT ![c] = "looping"]
  /\ UNCHANGED <<status, tried, total, active, reason, art, complete, late, exec>>

TimeUp ==
  /\ ~late /\ late' = TRUE
  /\ UNCHANGED <<status, tried, total, active, reason, art, complete, call, exec>>

WInit ==
  /\ status = [n \in Node |-> "pending"] /\ tried = [n \in Node |-> 0] /\ total = 0 /\ active = 0
  /\ reason = [n \in Node |-> "none"] /\ art = [n \in Node |-> NoArtifact]
  /\ complete = FALSE /\ late = FALSE
  /\ call = [c \in Call |-> "new"] /\ exec = [c \in Call |-> [n \in Node |-> Idle]]

Answer(c, n) ==
  \/ AdmitWorkspace(c, n) \/ DenyWorkspace(c, n)
  \/ \E gives \in BOOLEAN : Observe(c, n, gives)
  \/ \E why \in Reason : Fail(c, n, why)
  \/ Pass(c, n)
  \/ \E ok \in BOOLEAN : Release(c, n, ok)
Loop(c) == Return(c) \/ \E B \in SUBSET Node : Batch(c, B)
Ask(c) == Run(c) \/ Continue(c) \/ \E seeds \in SUBSET Node : Repair(c, seeds)

WNext ==
  \/ \E c \in Call : Loop(c) \/ Ask(c)
  \/ \E c \in Call, n \in Node : Answer(c, n)
  \/ TimeUp

WSpec == WInit /\ [][WNext]_wvars
(* The loop goes on once its batch is over; what a node waits for answers. *)
WFairSpec ==
  WSpec /\ \A c \in Call : WF_wvars(Loop(c)) /\ \A n \in Node : WF_wvars(Answer(c, n))

-----------------------------------------------------------------------------
(* Properties *)

WTypeOK ==
  /\ status \in [Node -> Status] /\ tried \in [Node -> Nat] /\ total \in Nat /\ active \in Nat
  /\ reason \in [Node -> Reason \cup {"none"}]
  /\ art \in [Node -> [by: Nat, from: [Node -> Nat]]]
  /\ complete \in BOOLEAN /\ late \in BOOLEAN
  /\ call \in [Call -> {"new", "looping", "passed", "failed", "blocked"}]
  /\ exec \in [Call -> [Node -> [at: {"none", "admitting", "executing", "verifying", "releasing"},
                                 attempt: Nat, gives: BOOLEAN, from: [Node -> Nat]]]]

(* The budgets are kept although the nodes of a batch check them before    *)
(* any of them counts: what is pending has been reserved by the definition *)
(* or by the repair that made it pending.                                  *)
BudgetKept == total <= MaxTotal /\ \A n \in Node : tried[n] <= MaxAttempts[n]

(* The slots reported by budget-updated are those in use: active counts    *)
(* the nodes that execute or are verified, and no more than allowed.       *)
InSlot == {x \in Call \X Node : exec[x[1]][x[2]].at \in {"executing", "verifying"}}
SlotsCounted == active = Cardinality(InSlot) /\ active <= MaxConcurrent

(* A node executes only on passed dependencies, and what has passed stands *)
(* on dependencies that have passed (and still do).                        *)
StandsOnPassed ==
  \A n \in Node : status[n] \in {"running", "passed"} => \A d \in Deps[n] : status[d] = "passed"

(* The artifact of a passed node was made from the artifacts its producers *)
(* have now, not from ones a repair has replaced or removed.               *)
LineageFresh ==
  \A n \in Node : (status[n] = "passed" /\ art[n].by # 0) =>
     \A d \in Reads[n] : art[n].from[d] = art[d].by

(* A node is executed by one call at a time, for its current attempt. *)
NodeExclusive ==
  \A c \in Call, n \in Node : exec[c][n].at \in {"executing", "verifying"} =>
     /\ status[n] = "running" /\ exec[c][n].attempt = tried[n]
     /\ \A d \in Call \ {c} : ~Busy(d, n)

(* "Workflow repair requires an initial terminal run": the executions of   *)
(* two calls never meet in one node.  It holds of calls one after the other*)
(* and not of a repair accepted while the initial run goes on.             *)
OneExecutionPerNode ==
  \A n \in Node, c, d \in Call : (At(c, n, "executing") /\ At(d, n, "executing")) => c = d

(* A call returns at last. *)
CallReturns == \A c \in Call : Looping(c) ~> ~Looping(c)

(* The scheduler implements the promise of WorkflowGraphRun. *)
View == [n \in Node |-> CASE status[n] = "pending" -> "waiting" [] status[n] = "running" -> "working"
                          [] status[n] = "passed" -> "done" [] OTHER -> "over"]
Graph == INSTANCE WorkflowGraphRun WITH node <- View
GraphSpec == Graph!Spec
==============================================================================
