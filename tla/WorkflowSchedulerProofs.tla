------------------------ MODULE WorkflowSchedulerProofs ------------------------
(***************************************************************************)
(* The safety of the workflow scheduler whose calls come one after the     *)
(* other (~OutOfTurn), for any graph, budgets, policies and writers: it      *)
(* implements WorkflowGraphRun, keeps its budgets, counts its slots, and   *)
(* what has passed was made from what its producers have now.  At the end  *)
(* the same over checkpoints and deaths of the Host.                       *)
(***************************************************************************)
EXTENDS WorkflowRecovery, TLAPS, FiniteSetTheorems

(* The inductive invariant, in parts *)

(* WTypeOK without the type of total, which the budgets need. *)
WTypes ==
  /\ status \in [Node -> Status] /\ tried \in [Node -> Nat] /\ active \in Nat
  /\ reason \in [Node -> Reason \cup {"none"}]
  /\ art \in [Node -> [by: Nat, from: [Node -> Nat]]]
  /\ complete \in BOOLEAN /\ late \in BOOLEAN
  /\ call \in [Call -> {"new", "looping", "passed", "failed", "blocked"}]
  /\ exec \in [Call -> [Node -> [at: {"none", "admitting", "executing", "verifying", "releasing"},
                                 attempt: Nat, gives: BOOLEAN, from: [Node -> Nat]]]]

(* One call loops, and only it executes nodes. *)
LoopsAlone ==
  /\ \A c, d \in Call : Looping(c) /\ Looping(d) => c = d
  /\ \A c \in Call, n \in Node : Busy(c, n) => Looping(c)

(* Where a node stands tells what its status is. *)
StageFits ==
  \A c \in Call, n \in Node :
    /\ exec[c][n].at = "admitting" =>
         /\ status[n] = "pending"
         /\ exec[c][n].attempt = tried[n] + 1 /\ tried[n] < MaxAttempts[n]
         /\ \A d \in Deps[n] : status[d] = "passed" /\ ~Busy(c, d)
    /\ exec[c][n].at \in {"executing", "verifying"} =>
         /\ status[n] = "running" /\ exec[c][n].attempt = tried[n]
         /\ \A d \in Reads[n] : exec[c][n].from[d] = art[d].by
    /\ exec[c][n].at = "releasing" => status[n] \in {"passed", "failed"}
RunningIsBusy ==
  \A n \in Node : status[n] = "running" => \E c \in Call : exec[c][n].at \in {"executing", "verifying"}

(* Nothing is built on a node that a call still has in its hands. *)
BusyIsUnused ==
  \A c \in Call, m, n \in Node : Busy(c, n) /\ n \in Deps[m] => status[m] \notin {"running", "passed"}

(* What is not done yet has no artifact. *)
NoEarlyArtifact == \A n \in Node : status[n] \in {"pending", "running"} => art[n].by = 0

(* Every pending node has its attempt reserved. *)
AttemptsReserved ==
  /\ total \in Nat /\ total + Cardinality(Pending) <= MaxTotal
  /\ \A n \in Node : tried[n] <= MaxAttempts[n]
NonePendingBetween == complete /\ (\A c \in Call : ~Looping(c)) => Pending = {}

(* The nodes that hold a slot or are about to. *)
Taking == {x \in Call \X Node : exec[x[1]][x[2]].at \in {"admitting", "executing", "verifying"}}
SlotsReserved ==
  IsFiniteSet(Taking) /\ Cardinality(Taking) <= MaxConcurrent /\ active = Cardinality(InSlot)

WInv ==
  /\ WTypes /\ LoopsAlone /\ StageFits /\ RunningIsBusy /\ StandsOnPassed /\ BusyIsUnused
  /\ NoEarlyArtifact /\ LineageFresh

-----------------------------------------------------------------------------
(* Operators *)

Work == [at: {"none", "admitting", "executing", "verifying", "releasing"},
         attempt: Nat, gives: BOOLEAN, from: [Node -> Nat]]

LEMMA GoesToFacts ==
  ASSUME WTypes, NEW c \in Call, NEW n \in Node, NEW e \in Work, GoesTo(c, n, e)
  PROVE  /\ exec' \in [Call -> [Node -> Work]]
         /\ exec'[c][n] = e
         /\ \A d \in Call, m \in Node : d # c \/ m # n => exec'[d][m] = exec[d][m]
BY DEF WTypes, GoesTo, Work

LEMMA InputsFacts ==
  ASSUME WTypes, NEW n \in Node
  PROVE  /\ Inputs(n) \in [Node -> Nat]
         /\ \A d \in Reads[n] : Inputs(n)[d] = art[d].by
BY GraphAssumption DEF WTypes, Inputs

LEMMA WorkFacts ==
  ASSUME WTypes, NEW n \in Node
  PROVE  /\ Started(n) \in Work /\ Asking(n) \in Work /\ Idle \in Work
         /\ Started(n).at = "executing" /\ Started(n).attempt = tried[n] + 1
         /\ \A d \in Reads[n] : Started(n).from[d] = art[d].by
         /\ Asking(n).at = "admitting" /\ Asking(n).attempt = tried[n] + 1
         /\ Idle.at = "none"
<1>1. NoInputs \in [Node -> Nat] /\ Inputs(n) \in [Node -> Nat] /\ tried[n] + 1 \in Nat
  BY InputsFacts DEF WTypes, NoInputs
<1>2. Started(n) \in Work /\ Asking(n) \in Work /\ Idle \in Work
  BY <1>1 DEF Started, Asking, Idle, Work
<1>3. Started(n).at = "executing" /\ Started(n).attempt = tried[n] + 1 /\ Started(n).from = Inputs(n)
  BY DEF Started
<1>4. Asking(n).at = "admitting" /\ Asking(n).attempt = tried[n] + 1 /\ Idle.at = "none"
  BY DEF Asking, Idle
<1> QED BY <1>2, <1>3, <1>4, InputsFacts

(* impactedClosure() is closed: no node outside depends on one inside. *)
LEMMA ImpactedFacts ==
  ASSUME NEW seeds \in SUBSET Node
  PROVE  /\ Impacted(seeds) \subseteq Node
         /\ \A n \in Node : Deps[n] \cap Impacted(seeds) # {} => n \in Impacted(seeds)
<1>1. ASSUME NEW n \in Node, NEW d \in Deps[n] \cap Impacted(seeds),
             NEW S \in SUBSET Node, seeds \subseteq S, Downstream(S)
      PROVE  n \in S
  <2>1. d \in S
    BY <1>1 DEF Impacted
  <2> QED BY <1>1, <2>1 DEF Downstream
<1> QED BY <1>1 DEF Impacted

LEMMA ReadsAreDeps == \A n \in Node : Reads[n] \subseteq Deps[n] /\ Deps[n] \subseteq Node /\ n \notin Deps[n]
BY GraphAssumption

-----------------------------------------------------------------------------
(* Every step keeps the invariant *)

LEMMA InitKeeps == WInit => WInv
<1> SUFFICES ASSUME WInit PROVE WInv
  OBVIOUS
<1>1. NoInputs \in [Node -> Nat] /\ Idle \in Work /\ Idle.at = "none"
      /\ NoArtifact \in [by : Nat, from : [Node -> Nat]] /\ NoArtifact.by = 0
  BY DEF NoInputs, Idle, Work, NoArtifact
<1>2. \A c \in Call : call[c] = "new" /\ \A n \in Node : exec[c][n].at = "none"
  BY <1>1 DEF WInit
<1>3. \A n \in Node : status[n] = "pending" /\ art[n].by = 0
  BY <1>1 DEF WInit
<1>4. WTypes
  BY <1>1 DEF WInit, WTypes, Status, Reason, Work
<1> QED
  BY <1>2, <1>3, <1>4
     DEF WInv, LoopsAlone, StageFits, RunningIsBusy, StandsOnPassed, BusyIsUnused, NoEarlyArtifact,
         LineageFresh, Looping, Busy

(* When a batch is over nobody executes anything. *)
LEMMA BatchOverFacts ==
  ASSUME WInv, NEW c \in Call, BatchOver(c)
  PROVE  /\ \A d \in Call, n \in Node : exec[d][n].at = "none"
         /\ \A n \in Node : status[n] # "running"
         /\ \A d \in Call : Looping(d) => d = c
<1>1. \A d \in Call, n \in Node : exec[d][n].at = "none"
  BY DEF WInv, LoopsAlone, BatchOver, Busy
<1> QED BY <1>1 DEF WInv, LoopsAlone, RunningIsBusy, BatchOver

LEMMA BatchKeeps ==
  ASSUME WInv, NEW c \in Call, NEW B \in SUBSET Node, Batch(c, B) PROVE WInv'
<1> DEFINE no == {n \in B : tried[n] >= MaxAttempts[n] \/ total >= MaxTotal}
           go == (B \ no) \ Writers
           ask == (B \ no) \cap Writers
<1>1. /\ BatchOver(c) /\ B \subseteq ReadyNodes
      /\ status' = [n \in Node |-> IF n \in no THEN "failed" ELSE IF n \in go THEN "running" ELSE status[n]]
      /\ reason' = [n \in Node |-> IF n \in no THEN "execution-failed" ELSE reason[n]]
      /\ tried'  = [n \in Node |-> IF n \in go THEN tried[n] + 1 ELSE tried[n]]
      /\ total'  = total + Cardinality(go)
      /\ active' = Minus(active, Cardinality(no)) + Cardinality(go)
      /\ exec' = [exec EXCEPT ![c] = [n \in Node |-> IF n \in go THEN Started(n)
                                                     ELSE IF n \in ask THEN Asking(n) ELSE @[n]]]
      /\ UNCHANGED <<art, complete, late, call>>
  BY DEF Batch
<1>2. /\ \A d \in Call, n \in Node : exec[d][n].at = "none"
      /\ \A n \in Node : status[n] # "running"
      /\ \A d \in Call : Looping(d) => d = c
  BY <1>1, BatchOverFacts
<1>3. /\ \A n \in B : status[n] = "pending" /\ \A d \in Deps[n] : status[d] = "passed"
      /\ no \subseteq B /\ go \subseteq B /\ ask \subseteq B /\ no \cap go = {} /\ no \cap ask = {} /\ go \cap ask = {}
      /\ \A n \in go \cup ask : ~(tried[n] >= MaxAttempts[n])
  BY <1>1 DEF ReadyNodes, Ready
<1>4. IsFiniteSet(no) /\ IsFiniteSet(go) /\ Cardinality(no) \in Nat /\ Cardinality(go) \in Nat
  BY <1>3, GraphAssumption, FS_Subset, FS_CardinalityType
<1> HIDE DEF no, go, ask
<1>5. /\ exec' \in [Call -> [Node -> Work]]
      /\ \A n \in Node : exec'[c][n] = IF n \in go THEN Started(n) ELSE IF n \in ask THEN Asking(n) ELSE exec[c][n]
      /\ \A d \in Call, n \in Node : d # c => exec'[d][n] = exec[d][n]
  BY <1>1, WorkFacts DEF WInv, WTypes, Work
<1>6. WTypes'
  <2>1. Minus(active, Cardinality(no)) \in Nat
    BY <1>4 DEF Minus, WInv, WTypes
  <2> QED BY <1>1, <1>4, <1>5, <2>1 DEF WInv, WTypes, Status, Reason, Work
<1>7. LoopsAlone'
  BY <1>1, <1>2, <1>5 DEF WInv, LoopsAlone, Looping, Busy, BatchOver
<1>8. /\ \A n \in go : exec'[c][n].at = "executing" /\ exec'[c][n].attempt = tried[n] + 1
                       /\ \A d \in Reads[n] : exec'[c][n].from[d] = art[d].by
      /\ \A n \in ask : exec'[c][n].at = "admitting" /\ exec'[c][n].attempt = tried[n] + 1
      /\ \A d \in Call, n \in Node : d # c \/ n \notin go \cup ask => exec'[d][n].at = "none"
  BY <1>2, <1>3, <1>5, WorkFacts DEF WInv
<1>9. \A n \in Node : /\ n \in B => status'[n] \in {"failed", "running", "pending"}
                      /\ n \notin B => status'[n] = status[n]
                      /\ n \in go => status'[n] = "running"
                      /\ n \in ask => status'[n] = "pending"
                      /\ status'[n] = "running" => n \in go
                      /\ \A d \in Deps[n] : status[d] = "passed" => status'[d] = "passed"
  BY <1>1, <1>2, <1>3, ReadsAreDeps
<1>10. StageFits'
  <2>1. ASSUME NEW n \in go PROVE tried'[n] = tried[n] + 1
    BY <1>1, <1>3, <2>1
  <2>2. ASSUME NEW n \in ask
        PROVE /\ tried'[n] = tried[n] /\ tried[n] < MaxAttempts[n]
              /\ \A d \in Deps[n] : status'[d] = "passed" /\ exec'[c][d].at = "none"
    <3>1. n \in Node /\ tried'[n] = tried[n] /\ tried[n] < MaxAttempts[n]
      BY <1>1, <1>3, PolicyAssumption DEF WInv, WTypes
    <3>2. ASSUME NEW d \in Deps[n] PROVE status'[d] = "passed" /\ exec'[c][d].at = "none"
      <4>1. d \in Node /\ status[d] = "passed"
        BY <1>3, <3>1, ReadsAreDeps
      <4>2. d \notin B
        BY <1>3, <4>1
      <4> QED BY <1>3, <1>8, <1>9, <4>1, <4>2
    <3> QED BY <3>1, <3>2
  <2>3. \A d \in Call, n \in Node : exec'[d][n].at = "none" \/ (d = c /\ n \in go \cup ask)
    BY <1>8
  <2>4. ASSUME NEW n \in go
        PROVE status'[n] = "running" /\ exec'[c][n].attempt = tried'[n] /\ art' = art
              /\ \A d \in Reads[n] : exec'[c][n].from[d] = art[d].by
    <3>1. n \in Node /\ art' = art /\ tried'[n] = tried[n] + 1
      BY <1>1, <1>3, <2>1
    <3>2. status'[n] = "running"
      BY <1>9, <3>1
    <3> QED BY <1>8, <3>1, <3>2
  <2>5. ASSUME NEW n \in ask
        PROVE status'[n] = "pending" /\ exec'[c][n].attempt = tried'[n] + 1
              /\ tried'[n] < MaxAttempts[n]
    BY <1>3, <1>8, <1>9, <2>2
  <2> QED BY <1>8, <2>2, <2>3, <2>4, <2>5 DEF StageFits, Busy
<1>11. RunningIsBusy'
  BY <1>8, <1>9 DEF RunningIsBusy
<1>12. StandsOnPassed'
  BY <1>3, <1>9 DEF WInv, StandsOnPassed
<1>13. BusyIsUnused'
  <2>1. ASSUME NEW n \in B, NEW m \in Node, n \in Deps[m] PROVE status'[m] \notin {"running", "passed"}
    <3>1. status[n] = "pending"
      BY <1>3
    <3>2. status[m] \notin {"running", "passed"} /\ m \notin B
      BY <1>3, <2>1, <3>1 DEF WInv, StandsOnPassed
    <3> QED BY <1>9, <3>2
  <2> QED BY <1>3, <1>8, <2>1 DEF BusyIsUnused, Busy
<1>14. NoEarlyArtifact' /\ LineageFresh'
  BY <1>1, <1>3, <1>9 DEF WInv, NoEarlyArtifact, LineageFresh
<1> QED BY <1>6, <1>7, <1>10, <1>11, <1>12, <1>13, <1>14 DEF WInv

(* The steps of executeOne: what changes is one node, that one call has in *)
(* its hands, so that nothing else is built on it.                         *)
Fits(c, n, e) ==
  /\ e.at = "admitting" =>
       /\ status'[n] = "pending" /\ e.attempt = tried'[n] + 1 /\ tried'[n] < MaxAttempts[n]
       /\ \A d \in Deps[n] : status[d] = "passed" /\ ~Busy(c, d)
  /\ e.at \in {"executing", "verifying"} =>
       /\ status'[n] = "running" /\ e.attempt = tried'[n]
       /\ \A d \in Reads[n] : e.from[d] = art[d].by
  /\ e.at = "releasing" => status'[n] \in {"passed", "failed"}
  /\ status'[n] = "running" => e.at \in {"executing", "verifying"}
  /\ status'[n] \in {"running", "passed"} => \A d \in Deps[n] : status[d] = "passed" /\ ~Busy(c, d)
  /\ status'[n] \in {"pending", "running"} => art'[n].by = 0
  /\ status'[n] = "passed" /\ art'[n].by # 0 => \A d \in Reads[n] : art'[n].from[d] = art[d].by

NodeStep(c, n, e) ==
  /\ Looping(c) /\ Busy(c, n) /\ GoesTo(c, n, e)
  /\ \A m \in Node \ {n} : status'[m] = status[m] /\ tried'[m] = tried[m] /\ art'[m] = art[m]
  /\ UNCHANGED <<complete, late, call>>

LEMMA NodeStepKeeps ==
  ASSUME WInv, WTypes', NEW c \in Call, NEW n \in Node, NEW e \in Work, NodeStep(c, n, e), Fits(c, n, e)
  PROVE  WInv'
<1>1. /\ exec'[c][n] = e
      /\ \A d \in Call, m \in Node : d # c \/ m # n => exec'[d][m] = exec[d][m]
  BY GoesToFacts DEF WInv, NodeStep
<1>2. \A m \in Node \ {n} : status'[m] = status[m] /\ tried'[m] = tried[m] /\ art'[m] = art[m]
  BY DEF NodeStep
<1>3. /\ \A d \in Call : d # c => ~Looping(d) /\ \A m \in Node : exec[d][m].at = "none"
      /\ \A m \in Node : n \in Deps[m] => status[m] \notin {"running", "passed"} /\ m # n
      /\ call' = call
  BY ReadsAreDeps DEF WInv, LoopsAlone, BusyIsUnused, NodeStep, Busy
<1>4. \A m \in Node : \A d \in Deps[m] : d \in Node /\ d # m
  BY ReadsAreDeps
<1>5. LoopsAlone'
  BY <1>1, <1>3 DEF WInv, LoopsAlone, NodeStep, Looping, Busy
<1>6. StageFits'
  <2>1. ASSUME NEW m \in Node, m # n, exec[c][m].at = "admitting"
        PROVE \A d \in Deps[m] : status'[d] = "passed" /\ exec'[c][d].at = "none"
    <3>1. \A d \in Deps[m] : d \in Node /\ status[d] = "passed" /\ exec[c][d].at = "none"
      BY <1>4, <2>1 DEF WInv, StageFits, Busy
    <3>2. n \notin Deps[m]
      BY <3>1 DEF NodeStep, Busy
    <3> QED BY <1>1, <1>2, <3>1, <3>2
  <2>2. ASSUME NEW m \in Node, m # n, exec[c][m].at \in {"executing", "verifying"}
        PROVE \A d \in Reads[m] : exec[c][m].from[d] = art'[d].by
    <3>1. n \notin Deps[m] /\ \A d \in Reads[m] : d \in Deps[m] /\ exec[c][m].from[d] = art[d].by
      BY <1>3, <2>2, ReadsAreDeps DEF WInv, StageFits
    <3> QED BY <1>2, <1>4, <3>1
  <2>3. \A d \in Deps[n] : exec'[c][d] = exec[c][d] /\ status'[d] = status[d] /\ art'[d] = art[d]
    BY <1>1, <1>2, <1>4
  <2>4. \A d \in Reads[n] : art'[d] = art[d]
    BY <2>3, ReadsAreDeps
  <2>5. ASSUME NEW m \in Node, m # n
        PROVE /\ exec'[c][m].at = "admitting" =>
                   /\ status'[m] = "pending"
                   /\ exec'[c][m].attempt = tried'[m] + 1 /\ tried'[m] < MaxAttempts[m]
                   /\ \A d \in Deps[m] : status'[d] = "passed" /\ ~Busy(c, d)'
              /\ exec'[c][m].at \in {"executing", "verifying"} =>
                   /\ status'[m] = "running" /\ exec'[c][m].attempt = tried'[m]
                   /\ \A d \in Reads[m] : exec'[c][m].from[d] = art'[d].by
              /\ exec'[c][m].at = "releasing" => status'[m] \in {"passed", "failed"}
    BY <1>1, <1>2, <2>1, <2>2, <2>5 DEF WInv, StageFits, Busy
  <2>6. /\ exec'[c][n].at = "admitting" =>
             /\ status'[n] = "pending"
             /\ exec'[c][n].attempt = tried'[n] + 1 /\ tried'[n] < MaxAttempts[n]
             /\ \A d \in Deps[n] : status'[d] = "passed" /\ ~Busy(c, d)'
        /\ exec'[c][n].at \in {"executing", "verifying"} =>
             /\ status'[n] = "running" /\ exec'[c][n].attempt = tried'[n]
             /\ \A d \in Reads[n] : exec'[c][n].from[d] = art'[d].by
        /\ exec'[c][n].at = "releasing" => status'[n] \in {"passed", "failed"}
    BY <1>1, <2>3, <2>4 DEF Fits, Busy
  <2>7. \A d \in Call, m \in Node : d # c => exec'[d][m].at = "none"
    BY <1>1, <1>3
  <2> QED BY <2>5, <2>6, <2>7 DEF StageFits
<1>7. RunningIsBusy'
  <2>1. ASSUME NEW m \in Node, m # n, status[m] = "running"
        PROVE \E d \in Call : exec'[d][m].at \in {"executing", "verifying"}
    BY <1>1, <2>1 DEF WInv, RunningIsBusy
  <2> QED BY <1>1, <1>2, <2>1 DEF RunningIsBusy, Fits
<1>8. StandsOnPassed'
  BY <1>2, <1>3, <1>4 DEF WInv, StandsOnPassed, Fits
<1>9. BusyIsUnused'
  <2>1. ASSUME NEW d \in Call, NEW m \in Node, NEW k \in Node, exec'[d][k].at # "none", k \in Deps[m]
        PROVE status'[m] \notin {"running", "passed"}
    <3>1. d = c
      BY <1>1, <1>3, <2>1
    <3>2. CASE m = n
      BY <1>1, <1>4, <2>1, <3>1, <3>2 DEF Fits, Busy
    <3>3. CASE m # n /\ k = n
      BY <1>2, <1>3, <2>1, <3>3
    <3>4. CASE m # n /\ k # n
      BY <1>1, <1>2, <2>1, <3>1, <3>4 DEF WInv, BusyIsUnused, Busy
    <3> QED BY <3>2, <3>3, <3>4
  <2> QED BY <2>1 DEF BusyIsUnused, Busy
<1>10. NoEarlyArtifact'
  BY <1>2 DEF WInv, NoEarlyArtifact, Fits
<1>11. LineageFresh'
  <2>1. \A m \in Node : \A d \in Reads[m] : d \in Deps[m] /\ d \in Node /\ d # m
    BY <1>4, ReadsAreDeps
  <2>2. ASSUME NEW m \in Node, m # n, status[m] = "passed" PROVE n \notin Reads[m]
    BY <1>3, <2>1, <2>2
  <2> QED BY <1>2, <2>1, <2>2 DEF WInv, LineageFresh, Fits
<1> QED BY <1>5, <1>6, <1>7, <1>8, <1>9, <1>10, <1>11 DEF WInv

LEMMA WorkUpdates ==
  ASSUME WTypes, NEW c \in Call, NEW n \in Node
  PROVE  /\ exec[c][n] \in Work
         /\ \A st \in {"admitting", "executing", "verifying", "releasing"} :
              /\ [exec[c][n] EXCEPT !.at = st] \in Work
              /\ [exec[c][n] EXCEPT !.at = st].at = st
              /\ [exec[c][n] EXCEPT !.at = st].attempt = exec[c][n].attempt
              /\ [exec[c][n] EXCEPT !.at = st].from = exec[c][n].from
<1>1. exec[c][n] \in Work
  BY DEF WTypes, Work
<1>2. \A w \in Work, st \in {"admitting", "executing", "verifying", "releasing"} :
        /\ [w EXCEPT !.at = st] \in Work /\ [w EXCEPT !.at = st].at = st
        /\ [w EXCEPT !.at = st].attempt = w.attempt /\ [w EXCEPT !.at = st].from = w.from
  BY DEF Work
<1> QED BY <1>1, <1>2

LEMMA AdmitKeeps ==
  ASSUME WInv, NEW c \in Call, NEW n \in Node, AdmitWorkspace(c, n) PROVE WInv'
<1> DEFINE e == [exec[c][n] EXCEPT !.at = "executing", !.from = Inputs(n)]
<1>1. /\ exec[c][n] \in Work /\ exec[c][n].at = "admitting" /\ Looping(c)
      /\ Inputs(n) \in [Node -> Nat] /\ \A d \in Reads[n] : Inputs(n)[d] = art[d].by
  BY WorkUpdates, InputsFacts DEF AdmitWorkspace, At, WInv
<1>2. e \in Work /\ e.at = "executing" /\ e.attempt = exec[c][n].attempt /\ e.from = Inputs(n)
  BY <1>1 DEF Work
<1>3. GoesTo(c, n, e)
  BY DEF AdmitWorkspace
<1>4. /\ status' = [status EXCEPT ![n] = "running"] /\ tried' = [tried EXCEPT ![n] = exec[c][n].attempt]
      /\ total' = total + 1 /\ active' = active + 1
      /\ UNCHANGED <<reason, art, complete, late, call>>
  BY DEF AdmitWorkspace
<1> HIDE DEF e
<1>5. exec[c][n].attempt \in Nat
  BY <1>1 DEF Work
<1>6. WTypes'
  BY <1>2, <1>3, <1>4, <1>5, GoesToFacts DEF WInv, WTypes, Work, Status
<1>7. /\ status'[n] = "running" /\ tried'[n] = exec[c][n].attempt /\ art' = art
      /\ \A m \in Node \ {n} : status'[m] = status[m] /\ tried'[m] = tried[m]
  BY <1>4 DEF WInv, WTypes
<1>8. NodeStep(c, n, e)
  BY <1>1, <1>3, <1>4, <1>7 DEF NodeStep, Busy
<1>9. art[n].by = 0 /\ \A d \in Deps[n] : status[d] = "passed" /\ ~Busy(c, d)
  BY <1>1 DEF WInv, StageFits, NoEarlyArtifact
<1>10. Fits(c, n, e)
  BY <1>1, <1>2, <1>7, <1>9 DEF Fits
<1> QED BY <1>2, <1>6, <1>8, <1>10, NodeStepKeeps

LEMMA DenyKeeps ==
  ASSUME WInv, NEW c \in Call, NEW n \in Node, DenyWorkspace(c, n) PROVE WInv'
<1>1. /\ exec[c][n].at = "admitting" /\ Looping(c) /\ Idle \in Work /\ Idle.at = "none"
      /\ GoesTo(c, n, Idle) /\ status' = [status EXCEPT ![n] = "blocked"]
      /\ UNCHANGED <<tried, total, active, reason, art, complete, late, call>>
  BY WorkFacts DEF DenyWorkspace, At, WInv
<1>2. WTypes'
  BY <1>1, GoesToFacts DEF WInv, WTypes, Work, Status
<1>3. status'[n] = "blocked" /\ \A m \in Node \ {n} : status'[m] = status[m]
  BY <1>1 DEF WInv, WTypes
<1>4. NodeStep(c, n, Idle)
  BY <1>1, <1>3 DEF NodeStep, Busy
<1>5. Fits(c, n, Idle)
  BY <1>1, <1>3 DEF Fits
<1> QED BY <1>1, <1>2, <1>4, <1>5, NodeStepKeeps

LEMMA ObserveKeeps ==
  ASSUME WInv, NEW c \in Call, NEW n \in Node, NEW gives \in BOOLEAN, Observe(c, n, gives) PROVE WInv'
<1> DEFINE e == [exec[c][n] EXCEPT !.at = "verifying", !.gives = gives]
<1>1. /\ exec[c][n] \in Work /\ exec[c][n].at = "executing" /\ Looping(c) /\ GoesTo(c, n, e)
      /\ UNCHANGED <<status, tried, total, active, reason, art, complete, late, call>>
  BY WorkUpdates DEF Observe, At, WInv
<1>2. e \in Work /\ e.at = "verifying" /\ e.attempt = exec[c][n].attempt /\ e.from = exec[c][n].from
  BY <1>1 DEF Work
<1> HIDE DEF e
<1>3. WTypes'
  BY <1>1, <1>2, GoesToFacts DEF WInv, WTypes, Work
<1>4. NodeStep(c, n, e)
  BY <1>1 DEF NodeStep, Busy
<1>5. /\ status[n] = "running" /\ exec[c][n].attempt = tried[n] /\ art[n].by = 0
      /\ \A d \in Reads[n] : exec[c][n].from[d] = art[d].by
      /\ \A d \in Deps[n] : status[d] = "passed" /\ ~Busy(c, d)
  BY <1>1, ReadsAreDeps DEF WInv, StageFits, NoEarlyArtifact, StandsOnPassed, BusyIsUnused
<1>6. Fits(c, n, e)
  BY <1>1, <1>2, <1>5 DEF Fits
<1> QED BY <1>2, <1>3, <1>4, <1>6, NodeStepKeeps

(* Both ends of an execution. *)
LEMMA LeaveFacts ==
  ASSUME WInv, NEW c \in Call, NEW n \in Node, Leave(c, n)
  PROVE  /\ active' \in Nat
         /\ \E e \in Work : GoesTo(c, n, e) /\ e.at \in {"none", "releasing"}
<1>1. active' \in Nat
  BY DEF Leave, Minus, WInv, WTypes
<1>2. /\ Idle \in Work /\ Idle.at = "none"
      /\ [exec[c][n] EXCEPT !.at = "releasing"] \in Work
      /\ [exec[c][n] EXCEPT !.at = "releasing"].at = "releasing"
  BY WorkFacts, WorkUpdates DEF WInv
<1>3. \E e \in Work : GoesTo(c, n, e) /\ e.at \in {"none", "releasing"}
  <2>1. CASE n \in Writers
    BY <1>2, <2>1 DEF Leave
  <2>2. CASE n \notin Writers
    BY <1>2, <2>2 DEF Leave
  <2> QED BY <2>1, <2>2
<1> QED BY <1>1, <1>3

LEMMA FailKeeps ==
  ASSUME WInv, NEW c \in Call, NEW n \in Node, NEW why \in Reason, Fail(c, n, why) PROVE WInv'
<1>1. /\ exec[c][n].at \in {"executing", "verifying"} /\ Looping(c) /\ Leave(c, n)
      /\ status' = [status EXCEPT ![n] = "failed"] /\ reason' = [reason EXCEPT ![n] = why]
      /\ UNCHANGED <<tried, total, art, complete, late, call>>
  BY DEF Fail, At
<1>2. PICK e \in Work : GoesTo(c, n, e) /\ e.at \in {"none", "releasing"}
  BY <1>1, LeaveFacts
<1>3. WTypes'
  BY <1>1, <1>2, GoesToFacts, LeaveFacts DEF WInv, WTypes, Work, Status
<1>4. status'[n] = "failed" /\ \A m \in Node \ {n} : status'[m] = status[m]
  BY <1>1 DEF WInv, WTypes
<1>5. NodeStep(c, n, e)
  BY <1>1, <1>2, <1>4 DEF NodeStep, Busy
<1>6. Fits(c, n, e)
  BY <1>2, <1>4 DEF Fits
<1> QED BY <1>2, <1>3, <1>5, <1>6, NodeStepKeeps

LEMMA PassKeeps ==
  ASSUME WInv, NEW c \in Call, NEW n \in Node, Pass(c, n) PROVE WInv'
<1> DEFINE made == [by |-> exec[c][n].attempt, from |-> exec[c][n].from]
<1>1. /\ exec[c][n].at = "verifying" /\ Looping(c) /\ Leave(c, n)
      /\ status' = [status EXCEPT ![n] = "passed"] /\ reason' = [reason EXCEPT ![n] = "none"]
      /\ art' = IF exec[c][n].gives THEN [art EXCEPT ![n] = made] ELSE art
      /\ UNCHANGED <<tried, total, complete, late, call>>
  BY DEF Pass, At
<1>2. PICK e \in Work : GoesTo(c, n, e) /\ e.at \in {"none", "releasing"}
  BY <1>1, LeaveFacts
<1>3. made \in [by : Nat, from : [Node -> Nat]] /\ made.from = exec[c][n].from
  BY WorkUpdates DEF Work, WInv
<1> HIDE DEF made
<1>4. WTypes'
  <2>1. art' \in [Node -> [by : Nat, from : [Node -> Nat]]]
    BY <1>1, <1>3 DEF WInv, WTypes
  <2> QED BY <1>1, <1>2, <2>1, GoesToFacts, LeaveFacts DEF WInv, WTypes, Work, Status
<1>5. /\ status'[n] = "passed" /\ (art'[n] = made \/ art' = art)
      /\ \A m \in Node \ {n} : status'[m] = status[m] /\ art'[m] = art[m]
  BY <1>1 DEF WInv, WTypes
<1>6. NodeStep(c, n, e)
  BY <1>1, <1>2, <1>5 DEF NodeStep, Busy
<1>7. /\ art[n].by = 0
      /\ \A d \in Reads[n] : exec[c][n].from[d] = art[d].by
      /\ \A d \in Deps[n] : status[d] = "passed" /\ ~Busy(c, d)
  BY <1>1, ReadsAreDeps DEF WInv, StageFits, NoEarlyArtifact, StandsOnPassed, BusyIsUnused
<1>8. Fits(c, n, e)
  BY <1>2, <1>3, <1>5, <1>7 DEF Fits
<1> QED BY <1>2, <1>4, <1>6, <1>8, NodeStepKeeps

LEMMA ReleaseKeeps ==
  ASSUME WInv, NEW c \in Call, NEW n \in Node, NEW ok \in BOOLEAN, Release(c, n, ok) PROVE WInv'
<1>1. /\ exec[c][n].at = "releasing" /\ Looping(c) /\ Idle \in Work /\ Idle.at = "none"
      /\ GoesTo(c, n, Idle)
      /\ status' = IF ok THEN status ELSE [status EXCEPT ![n] = "failed"]
      /\ reason' = IF ok THEN reason ELSE [reason EXCEPT ![n] = "execution-failed"]
      /\ UNCHANGED <<tried, total, active, art, complete, late, call>>
  BY WorkFacts DEF Release, At, WInv
<1>2. WTypes'
  BY <1>1, GoesToFacts DEF WInv, WTypes, Work, Status, Reason
<1>3. status'[n] \in {status[n], "failed"} /\ \A m \in Node \ {n} : status'[m] = status[m]
  BY <1>1 DEF WInv, WTypes
<1>4. NodeStep(c, n, Idle)
  BY <1>1, <1>3 DEF NodeStep, Busy
<1>5. /\ status[n] \in {"passed", "failed"}
      /\ status[n] = "passed" => \A d \in Deps[n] : status[d] = "passed" /\ ~Busy(c, d)
      /\ status[n] = "passed" /\ art[n].by # 0 => \A d \in Reads[n] : art[n].from[d] = art[d].by
  BY <1>1, ReadsAreDeps DEF WInv, StageFits, StandsOnPassed, BusyIsUnused, LineageFresh
<1>6. Fits(c, n, Idle)
  BY <1>1, <1>3, <1>5 DEF Fits
<1> QED BY <1>1, <1>2, <1>4, <1>6, NodeStepKeeps

-----------------------------------------------------------------------------
(* The calls *)

LEMMA ReturnKeeps ==
  ASSUME WInv, NEW c \in Call, Return(c) PROVE WInv'
<1>1. /\ BatchOver(c) /\ call' = [call EXCEPT ![c] = Verdict(Closed)]
      /\ status' = [n \in Node |-> IF n \in Pending THEN "blocked" ELSE status[n]]
      /\ UNCHANGED <<tried, total, active, reason, art, complete, late, exec>>
  BY DEF Return, Closed
<1>2. /\ \A d \in Call, n \in Node : exec[d][n].at = "none"
      /\ \A n \in Node : status[n] # "running"
      /\ \A d \in Call : Looping(d) => d = c
  BY <1>1, BatchOverFacts
<1>3. \A n \in Node : status'[n] = IF status[n] = "pending" THEN "blocked" ELSE status[n]
  BY <1>1 DEF Pending
<1>4. Verdict(Closed) \in {"passed", "failed", "blocked"}
  BY DEF Verdict
<1>5. WTypes'
  BY <1>1, <1>4 DEF WInv, WTypes, Status
<1>6. LoopsAlone' /\ StageFits' /\ RunningIsBusy' /\ BusyIsUnused'
  BY <1>1, <1>2, <1>3, <1>4 DEF WInv, WTypes, LoopsAlone, StageFits, RunningIsBusy, BusyIsUnused, Looping, Busy
<1>7. StandsOnPassed' /\ NoEarlyArtifact' /\ LineageFresh'
  BY <1>1, <1>2, <1>3, ReadsAreDeps DEF WInv, StandsOnPassed, NoEarlyArtifact, LineageFresh
<1> QED BY <1>5, <1>6, <1>7 DEF WInv

(* Nobody loops when a call comes in. *)
LEMMA CallFacts ==
  ASSUME ~OutOfTurn, WInv, NEW c \in Call, MayCall(c)
  PROVE  /\ \A d \in Call : ~Looping(d) /\ \A n \in Node : exec[d][n].at = "none"
         /\ \A n \in Node : status[n] # "running"
<1>1. \A d \in Call : ~Looping(d) /\ \A n \in Node : exec[d][n].at = "none"
  BY DEF MayCall, WInv, LoopsAlone, Busy
<1> QED BY <1>1 DEF WInv, RunningIsBusy

LEMMA CallKeeps ==
  ASSUME ~OutOfTurn, WInv, NEW c \in Call, Run(c) \/ Continue(c) PROVE WInv'
<1>1. /\ MayCall(c) /\ call' = [call EXCEPT ![c] = "looping"] /\ complete' \in {TRUE, complete}
      /\ UNCHANGED <<status, tried, total, active, reason, art, late, exec>>
  BY DEF Run, Continue
<1>2. WTypes'
  BY <1>1 DEF WInv, WTypes
<1>3. LoopsAlone' /\ StageFits' /\ RunningIsBusy' /\ BusyIsUnused'
  BY <1>1, CallFacts DEF WInv, WTypes, LoopsAlone, StageFits, RunningIsBusy, BusyIsUnused, Looping, Busy
<1>4. StandsOnPassed' /\ NoEarlyArtifact' /\ LineageFresh'
  BY <1>1 DEF WInv, StandsOnPassed, NoEarlyArtifact, LineageFresh
<1> QED BY <1>2, <1>3, <1>4 DEF WInv

LEMMA RepairKeeps ==
  ASSUME ~OutOfTurn, WInv, NEW c \in Call, NEW seeds \in SUBSET Node, Repair(c, seeds) PROVE WInv'
<1> DEFINE I == Impacted(seeds)
<1>1. /\ MayCall(c) /\ call' = [call EXCEPT ![c] = "looping"]
      /\ status' = [n \in Node |-> IF n \in I THEN "pending" ELSE status[n]]
      /\ reason' = [n \in Node |-> IF n \in I THEN "none" ELSE reason[n]]
      /\ art'    = [n \in Node |-> IF n \in I THEN NoArtifact ELSE art[n]]
      /\ UNCHANGED <<tried, total, active, complete, late, exec>>
  BY DEF Repair
<1>2. \A n \in Node : n \notin I => \A d \in Deps[n] : d \in Node /\ d \notin I
  BY ImpactedFacts, ReadsAreDeps
<1> HIDE DEF I
<1>3. NoArtifact \in [by : Nat, from : [Node -> Nat]] /\ NoArtifact.by = 0
  BY DEF NoArtifact, NoInputs
<1>4. WTypes'
  BY <1>1, <1>3 DEF WInv, WTypes, Status
<1>5. LoopsAlone' /\ StageFits' /\ RunningIsBusy' /\ BusyIsUnused'
  BY <1>1, CallFacts DEF WInv, WTypes, LoopsAlone, StageFits, RunningIsBusy, BusyIsUnused, Looping, Busy
<1>6. StandsOnPassed'
  BY <1>1, <1>2 DEF WInv, StandsOnPassed
<1>7. NoEarlyArtifact'
  BY <1>1, <1>3 DEF WInv, NoEarlyArtifact
<1>8. LineageFresh'
  BY <1>1, <1>2, ReadsAreDeps DEF WInv, LineageFresh
<1> QED BY <1>4, <1>5, <1>6, <1>7, <1>8 DEF WInv

LEMMA StutterKeeps ==
  ASSUME WInv, TimeUp \/ UNCHANGED wvars PROVE WInv'
<1>1. late' \in BOOLEAN /\ UNCHANGED <<status, tried, total, active, reason, art, complete, call, exec>>
  BY DEF TimeUp, wvars, WInv, WTypes
<1>2. WTypes'
  BY <1>1 DEF WInv, WTypes
<1>3. LoopsAlone' /\ StageFits' /\ RunningIsBusy' /\ BusyIsUnused'
  BY <1>1 DEF WInv, LoopsAlone, StageFits, RunningIsBusy, BusyIsUnused, Looping, Busy
<1>4. StandsOnPassed' /\ NoEarlyArtifact' /\ LineageFresh'
  BY <1>1 DEF WInv, StandsOnPassed, NoEarlyArtifact, LineageFresh
<1> QED BY <1>2, <1>3, <1>4 DEF WInv

LEMMA StepKeeps ==
  ASSUME ~OutOfTurn, WInv, [WNext]_wvars PROVE WInv'
<1>1. ASSUME NEW c \in Call, Loop(c) \/ Ask(c) PROVE WInv'
  BY <1>1, ReturnKeeps, BatchKeeps, CallKeeps, RepairKeeps DEF Loop, Ask
<1>2. ASSUME NEW c \in Call, NEW n \in Node, Answer(c, n) PROVE WInv'
  BY <1>2, AdmitKeeps, DenyKeeps, ObserveKeeps, FailKeeps, PassKeeps, ReleaseKeeps DEF Answer
<1> QED BY <1>1, <1>2, StutterKeeps DEF WNext

(* What is looped over, executed and reported of a node agree at all times. *)
THEOREM WInvHolds ==
  ASSUME ~OutOfTurn
  PROVE  WSpec => []WInv
BY InitKeeps, StepKeeps, PTL DEF WSpec

(* While calls come one after the other, the artifact of a passed node was *)
(* made from what its producers have now, whatever is repaired and however *)
(* often: nothing stale is handed on.                                      *)
THEOREM LineageHolds ==
  ASSUME ~OutOfTurn
  PROVE  WSpec => []LineageFresh
<1>1. WInv => LineageFresh
  BY DEF WInv
<1> QED BY <1>1, WInvHolds, PTL

-----------------------------------------------------------------------------
(* The scheduler implements WorkflowGraphRun *)

Shown(st) == CASE st = "pending" -> "waiting" [] st = "running" -> "working"
               [] st = "passed" -> "done" [] OTHER -> "over"

LEMMA ViewFacts ==
  /\ View = [n \in Node |-> Shown(status[n])]
  /\ View' = [n \in Node |-> Shown(status'[n])]
  /\ Shown("pending") = "waiting" /\ Shown("running") = "working" /\ Shown("passed") = "done"
  /\ Shown("failed") = "over" /\ Shown("blocked") = "over"
BY DEF View, Shown

(* What the view shows, as sets of nodes. *)
LEMMA ShownFacts ==
  ASSUME WTypes
  PROVE  /\ Graph!In("waiting") = {n \in Node : status[n] = "pending"}
         /\ Graph!In("working") = {n \in Node : status[n] = "running"}
         /\ Graph!In("done") = {n \in Node : status[n] = "passed"}
<1>1. \A n \in Node : status[n] \in Status /\ View[n] = Shown(status[n])
  BY ViewFacts DEF WTypes
<1>2. \A st \in Status : /\ Shown(st) = "waiting" <=> st = "pending"
                         /\ Shown(st) = "working" <=> st = "running"
                         /\ Shown(st) = "done" <=> st = "passed"
  BY ViewFacts DEF Status
<1> QED BY <1>1, <1>2 DEF Graph!In

(* Nodes that were pending start, or will not be tried. *)
LEMMA AdvanceLemma ==
  ASSUME WInv, NEW S \in SUBSET Node, NEW F \in SUBSET Node,
         \A n \in S \cup F : status[n] = "pending",
         \A n \in S : \A d \in Deps[n] : status[d] = "passed",
         \A n \in Node : /\ n \in S => status'[n] = "running"
                         /\ n \in F /\ n \notin S => status'[n] \in {"failed", "blocked"}
                         /\ n \notin S \cup F => status'[n] = status[n]
  PROVE  Graph!Next
<1>1. Graph!Advance(S, F)
  <2>1. S \cup F \subseteq Graph!In("waiting")
    BY ShownFacts DEF WInv
  <2>2. \A n \in S : Deps[n] \subseteq Graph!In("done")
    BY ShownFacts, ReadsAreDeps DEF WInv
  <2>3. \A n \in Node : Shown(status'[n]) = IF n \in S THEN "working" ELSE IF n \in F THEN "over" ELSE View[n]
    BY ViewFacts
  <2>4. View' = [n \in Node |-> IF n \in S THEN "working" ELSE IF n \in F THEN "over" ELSE View[n]]
    BY <2>3, ViewFacts
  <2> QED BY <2>1, <2>2, <2>4 DEF Graph!Advance
<1> QED BY <1>1 DEF Graph!Next

(* A node that was working settles. *)
LEMMA SettleLemma ==
  ASSUME WInv, NEW n \in Node, NEW st \in {"passed", "failed"}, status[n] = "running",
         status' = [status EXCEPT ![n] = st]
  PROVE  Graph!Next
<1>1. View[n] = "working" /\ View' = [View EXCEPT ![n] = Shown(st)] /\ Shown(st) \in {"done", "over"}
  <2>1. \A m \in Node : status'[m] = IF m = n THEN st ELSE status[m]
    BY DEF WInv, WTypes
  <2>2. \A m \in Node : Shown(status'[m]) = IF m = n THEN Shown(st) ELSE View[m]
    BY <2>1, ViewFacts
  <2>3. View' = [m \in Node |-> IF m = n THEN Shown(st) ELSE View[m]]
    BY <2>2, ViewFacts
  <2>4. View = [m \in Node |-> View[m]] /\ View[n] = "working"
    BY ViewFacts
  <2> QED BY <2>3, <2>4, ViewFacts
<1>2. Graph!Settle(n, Shown(st))
  BY <1>1 DEF Graph!Settle
<1> QED BY <1>1, <1>2 DEF Graph!Next

LEMMA SameStatus ==
  ASSUME status' = status PROVE View' = View
BY ViewFacts

(* A release that fails withdraws what has passed, before its use. *)
LEMMA ReleaseShows ==
  ASSUME WInv, NEW c \in Call, NEW n \in Node, NEW ok \in BOOLEAN, Release(c, n, ok)
  PROVE  Graph!Next \/ View' = View
<1>1. /\ exec[c][n].at = "releasing" /\ status[n] \in {"passed", "failed"}
      /\ status' = IF ok THEN status ELSE [status EXCEPT ![n] = "failed"]
  BY DEF Release, At, WInv, StageFits
<1>2. CASE ok \/ status[n] = "failed"
  <2>1. status' = status
    BY <1>1, <1>2 DEF WInv, WTypes
  <2> QED BY <2>1, SameStatus
<1>3. CASE ~ok /\ status[n] = "passed"
  <2>1. \A m \in Node : status'[m] = IF m = n THEN "failed" ELSE status[m]
    BY <1>1, <1>3 DEF WInv, WTypes
  <2>2. View' = [m \in Node |-> IF m = n THEN "over" ELSE View[m]]
    BY <2>1, ViewFacts
  <2>3. View = [m \in Node |-> View[m]] /\ View[n] = "done"
    BY <1>3, ViewFacts
  <2>4. \A m \in Node : n \in Deps[m] => View[m] \in {"waiting", "over"}
    <3>1. \A m \in Node : n \in Deps[m] => status[m] \in {"pending", "failed", "blocked"}
      BY <1>1 DEF WInv, WTypes, Status, BusyIsUnused, Busy
    <3> QED BY <3>1, ViewFacts
  <2>5. Graph!Revoke(n)
    BY <2>2, <2>3, <2>4 DEF Graph!Revoke
  <2> QED BY <2>5 DEF Graph!Next
<1> QED BY <1>1, <1>2, <1>3

LEMMA RepairShows ==
  ASSUME ~OutOfTurn, WInv, NEW c \in Call, NEW seeds \in SUBSET Node, Repair(c, seeds)
  PROVE  Graph!Next
<1> DEFINE I == Impacted(seeds)
<1>1. /\ MayCall(c) /\ status' = [n \in Node |-> IF n \in I THEN "pending" ELSE status[n]]
  BY DEF Repair
<1>2. I \in SUBSET Node /\ \A n \in Node : Deps[n] \cap I # {} => n \in I
  BY ImpactedFacts
<1> HIDE DEF I
<1>3. Graph!In("working") = {}
  BY <1>1, CallFacts, ShownFacts DEF WInv
<1>4. View' = [n \in Node |-> IF n \in I THEN "waiting" ELSE View[n]]
  BY <1>1, ViewFacts
<1>5. Graph!Reopen(I)
  BY <1>2, <1>3, <1>4 DEF Graph!Reopen
<1> QED BY <1>2, <1>5 DEF Graph!Next

LEMMA BatchShows ==
  ASSUME WInv, NEW c \in Call, NEW B \in SUBSET Node, Batch(c, B) PROVE Graph!Next
<1> DEFINE no == {n \in B : tried[n] >= MaxAttempts[n] \/ total >= MaxTotal}
           go == (B \ no) \ Writers
<1>1. /\ B \subseteq ReadyNodes
      /\ status' = [n \in Node |-> IF n \in no THEN "failed" ELSE IF n \in go THEN "running" ELSE status[n]]
  BY DEF Batch
<1>2. /\ no \subseteq B /\ go \subseteq B /\ no \cap go = {}
      /\ \A n \in B : status[n] = "pending" /\ \A d \in Deps[n] : status[d] = "passed"
  BY <1>1 DEF ReadyNodes, Ready
<1> HIDE DEF no, go
<1>3. \A n \in Node : /\ n \in go => status'[n] = "running"
                      /\ n \in no => status'[n] = "failed"
                      /\ n \notin go \cup no => status'[n] = status[n]
  BY <1>1, <1>2
<1> QED BY <1>2, <1>3, AdvanceLemma

LEMMA ReturnShows ==
  ASSUME WInv, NEW c \in Call, Return(c) PROVE Graph!Next
<1>1. \A n \in Node : status'[n] = IF n \in Pending THEN "blocked" ELSE status[n]
  BY DEF Return, Closed
<1>2. Pending \in SUBSET Node /\ \A n \in Pending : status[n] = "pending"
  BY DEF Pending
<1> DEFINE S == {n \in Node : FALSE}
<1>3. S \in SUBSET Node /\ S = {}
  OBVIOUS
<1> QED BY <1>1, <1>2, <1>3, AdvanceLemma

LEMMA AnswerShows ==
  ASSUME WInv, NEW c \in Call, NEW n \in Node, Answer(c, n) PROVE Graph!Next \/ View' = View
<1>1. CASE AdmitWorkspace(c, n)
  <2>1. status[n] = "pending" /\ \A d \in Deps[n] : status[d] = "passed"
    BY <1>1 DEF AdmitWorkspace, At, WInv, StageFits
  <2>2. \A m \in Node : status'[m] = IF m = n THEN "running" ELSE status[m]
    BY <1>1 DEF AdmitWorkspace, WInv, WTypes
  <2>3. Graph!Next
    <3> DEFINE S == {n}
               F == {m \in Node : FALSE}
    <3>1. S \in SUBSET Node /\ F \in SUBSET Node /\ S \cup F = {n}
      OBVIOUS
    <3>2. \A m \in Node : /\ m \in S => status'[m] = "running"
                          /\ m \notin S \cup F => status'[m] = status[m]
      BY <2>2
    <3> QED BY <2>1, <3>1, <3>2, AdvanceLemma
  <2> QED BY <2>3
<1>2. CASE DenyWorkspace(c, n)
  <2>1. status[n] = "pending"
    BY <1>2 DEF DenyWorkspace, At, WInv, StageFits
  <2>2. \A m \in Node : status'[m] = IF m = n THEN "blocked" ELSE status[m]
    BY <1>2 DEF DenyWorkspace, WInv, WTypes
  <2>3. Graph!Next
    <3> DEFINE S == {m \in Node : FALSE}
               F == {n}
    <3>1. S \in SUBSET Node /\ F \in SUBSET Node /\ S \cup F = {n}
      OBVIOUS
    <3>2. \A m \in Node : /\ m \in F => status'[m] = "blocked"
                          /\ m \notin S \cup F => status'[m] = status[m]
      BY <2>2
    <3> QED BY <2>1, <3>1, <3>2, AdvanceLemma
  <2> QED BY <2>3
<1>3. CASE \E gives \in BOOLEAN : Observe(c, n, gives)
  BY <1>3, SameStatus DEF Observe
<1>4. CASE \E why \in Reason : Fail(c, n, why)
  <2>1. status[n] = "running" /\ status' = [status EXCEPT ![n] = "failed"]
    BY <1>4 DEF Fail, At, WInv, StageFits
  <2> QED BY <2>1, SettleLemma
<1>5. CASE Pass(c, n)
  <2>1. status[n] = "running" /\ status' = [status EXCEPT ![n] = "passed"]
    BY <1>5 DEF Pass, At, WInv, StageFits
  <2> QED BY <2>1, SettleLemma
<1>6. CASE \E ok \in BOOLEAN : Release(c, n, ok)
  BY <1>6, ReleaseShows
<1> QED BY <1>1, <1>2, <1>3, <1>4, <1>5, <1>6 DEF Answer

LEMMA StepShows ==
  ASSUME ~OutOfTurn, WInv, [WNext]_wvars PROVE [Graph!Next]_View
<1>1. ASSUME NEW c \in Call, Loop(c) PROVE Graph!Next
  BY <1>1, BatchShows, ReturnShows DEF Loop
<1>2. ASSUME NEW c \in Call, Ask(c) PROVE Graph!Next \/ View' = View
  BY <1>2, RepairShows, SameStatus DEF Ask, Run, Continue
<1>3. ASSUME NEW c \in Call, NEW n \in Node, Answer(c, n) PROVE Graph!Next \/ View' = View
  BY <1>3, AnswerShows
<1>4. ASSUME TimeUp \/ UNCHANGED wvars PROVE View' = View
  BY <1>4, SameStatus DEF TimeUp, wvars
<1> QED BY <1>1, <1>2, <1>3, <1>4 DEF WNext

(* The scheduler keeps the promise of a dependency graph: a node works     *)
(* only on done dependencies, and what is done is withdrawn before its use *)
(* or reopened together with all that was built on it.                     *)
THEOREM SchedulerImplementsGraph ==
  ASSUME ~OutOfTurn
  PROVE  WSpec => GraphSpec
<1>1. WInit => Graph!Init
  <2> SUFFICES ASSUME WInit PROVE Graph!Init
    OBVIOUS
  <2>1. \A n \in Node : Shown(status[n]) = "waiting"
    BY ViewFacts DEF WInit
  <2> QED BY <2>1, ViewFacts DEF Graph!Init
<1>2. WInv /\ [WNext]_wvars => [Graph!Next]_View
  BY StepShows
<1> QED BY <1>1, <1>2, WInvHolds, PTL DEF WSpec, GraphSpec, Graph!Spec

-----------------------------------------------------------------------------
(* Budgets *)

LEMMA PartsFit ==
  ASSUME NEW S, IsFiniteSet(S), NEW T \in SUBSET S, NEW U \in SUBSET S, T \cap U = {}
  PROVE  /\ IsFiniteSet(T) /\ IsFiniteSet(U)
         /\ Cardinality(S) \in Nat /\ Cardinality(T) \in Nat /\ Cardinality(U) \in Nat
         /\ Cardinality(T) + Cardinality(U) <= Cardinality(S)
<1>1. IsFiniteSet(T) /\ IsFiniteSet(U) /\ IsFiniteSet(T \cup U)
  BY FS_Subset, FS_Union
<1>2. /\ Cardinality(S) \in Nat /\ Cardinality(T) \in Nat /\ Cardinality(U) \in Nat
      /\ Cardinality(T \cup U) <= Cardinality(S)
  BY <1>1, FS_CardinalityType, FS_Subset
<1>3. Cardinality(T \cup U) = Cardinality(T) + Cardinality(U) - Cardinality({})
  BY <1>1, FS_Union
<1> QED BY <1>1, <1>2, <1>3, FS_EmptySet

LEMMA PendingFacts == IsFiniteSet(Pending) /\ Cardinality(Pending) \in Nat
BY GraphAssumption, FS_Subset, FS_CardinalityType DEF Pending

(* A node whose attempt is counted was pending: its reservation is used.   *)
LEMMA CountKeepsBudget ==
  ASSUME WInv, AttemptsReserved, NEW go \in SUBSET Pending, total' = total + Cardinality(go),
         Pending' \subseteq Pending \ go,
         \A n \in Node : tried'[n] <= MaxAttempts[n]
  PROVE  AttemptsReserved'
<1>1. /\ Cardinality(Pending) \in Nat /\ Cardinality(Pending') \in Nat /\ Cardinality(go) \in Nat
      /\ Cardinality(Pending') + Cardinality(go) <= Cardinality(Pending)
  BY PendingFacts, PartsFit
<1>2. total + Cardinality(go) + Cardinality(Pending') <= MaxTotal
  BY <1>1, BudgetAssumption DEF AttemptsReserved, WInv, WTypes
<1> QED BY <1>1, <1>2 DEF AttemptsReserved

LEMMA BatchKeepsBudget ==
  ASSUME WInv, AttemptsReserved, NEW c \in Call, NEW B \in SUBSET Node, Batch(c, B)
  PROVE  AttemptsReserved'
<1> DEFINE no == {n \in B : tried[n] >= MaxAttempts[n] \/ total >= MaxTotal}
           go == (B \ no) \ Writers
<1>1. /\ B \subseteq ReadyNodes
      /\ status' = [n \in Node |-> IF n \in no THEN "failed" ELSE IF n \in go THEN "running" ELSE status[n]]
      /\ tried'  = [n \in Node |-> IF n \in go THEN tried[n] + 1 ELSE tried[n]]
      /\ total'  = total + Cardinality(go)
  BY DEF Batch
<1>2. \A n \in go : ~(tried[n] >= MaxAttempts[n]) /\ n \in Pending
  BY <1>1 DEF ReadyNodes, Ready, Pending
<1> HIDE DEF no, go
<1>3. Pending' \subseteq Pending \ go
  BY <1>1 DEF Pending
<1>4. ASSUME NEW n \in Node PROVE tried'[n] <= MaxAttempts[n]
  <2>1. tried[n] \in Nat /\ MaxAttempts[n] \in Nat /\ tried[n] <= MaxAttempts[n]
    BY PolicyAssumption DEF AttemptsReserved, WInv, WTypes
  <2> QED BY <1>1, <1>2, <2>1
<1> QED BY <1>1, <1>2, <1>3, <1>4, CountKeepsBudget

LEMMA AnswerKeepsBudget ==
  ASSUME WInv, AttemptsReserved, NEW c \in Call, NEW n \in Node, Answer(c, n)
  PROVE  AttemptsReserved'
<1>1. CASE AdmitWorkspace(c, n)
  <2>1. n \in Pending /\ exec[c][n].attempt = tried[n] + 1 /\ tried[n] < MaxAttempts[n]
    BY <1>1 DEF AdmitWorkspace, At, WInv, StageFits, Pending
  <2>2. /\ tried' = [tried EXCEPT ![n] = exec[c][n].attempt] /\ total' = total + 1
        /\ status' = [status EXCEPT ![n] = "running"]
    BY <1>1 DEF AdmitWorkspace
  <2>3. Cardinality({n}) = 1
    BY FS_Singleton
  <2>4. Pending' \subseteq Pending \ {n}
    BY <2>2 DEF Pending, WInv, WTypes
  <2>5. ASSUME NEW m \in Node PROVE tried'[m] <= MaxAttempts[m]
    <3>1. tried[m] \in Nat /\ MaxAttempts[m] \in Nat /\ tried[m] <= MaxAttempts[m]
      BY PolicyAssumption DEF AttemptsReserved, WInv, WTypes
    <3>2. tried'[m] = IF m = n THEN tried[n] + 1 ELSE tried[m]
      BY <2>1, <2>2 DEF WInv, WTypes
    <3> QED BY <2>1, <3>1, <3>2
  <2> QED BY <2>1, <2>2, <2>3, <2>4, <2>5, CountKeepsBudget
<1>2. CASE ~AdmitWorkspace(c, n)
  <2> DEFINE go == {m \in Pending : FALSE}
  <2>1. tried' = tried /\ total' = total
    BY <1>2 DEF Answer, DenyWorkspace, Observe, Fail, Pass, Release
  <2>2. Pending' \subseteq Pending
    <3>1. CASE DenyWorkspace(c, n) \/ \E gives \in BOOLEAN : Observe(c, n, gives)
      BY <3>1 DEF DenyWorkspace, Observe, Pending, WInv, WTypes
    <3>2. CASE Pass(c, n) \/ \E why \in Reason : Fail(c, n, why)
      BY <3>2 DEF Pass, Fail, Pending, WInv, WTypes
    <3>3. CASE \E ok \in BOOLEAN : Release(c, n, ok)
      BY <3>3 DEF Release, Pending, WInv, WTypes
    <3> QED BY <1>2, <3>1, <3>2, <3>3 DEF Answer
  <2>3. go = {} /\ Cardinality(go) = 0
    BY FS_EmptySet
  <2>4. total' = total + Cardinality(go)
    BY <2>1, <2>3 DEF AttemptsReserved
  <2>5. \A m \in Node : tried'[m] <= MaxAttempts[m]
    BY <2>1 DEF AttemptsReserved
  <2> QED BY <2>2, <2>3, <2>4, <2>5, CountKeepsBudget
<1> QED BY <1>1, <1>2

(* A repair reserves all attempts it may need; nothing else was reserved.  *)
LEMMA RepairKeepsBudget ==
  ASSUME ~OutOfTurn, WInv, AttemptsReserved, NEW c \in Call, NEW seeds \in SUBSET Node, Repair(c, seeds)
  PROVE  AttemptsReserved'
<1> DEFINE I == Impacted(seeds)
<1>1. /\ Pending = {} /\ total + Cardinality(I) <= MaxTotal
      /\ status' = [n \in Node |-> IF n \in I THEN "pending" ELSE status[n]]
      /\ UNCHANGED <<tried, total>>
  BY DEF Repair, WithinBudget
<1>2. I \in SUBSET Node
  BY ImpactedFacts
<1> HIDE DEF I
<1>4. Pending' \subseteq I
  BY <1>1 DEF Pending
<1>5. IsFiniteSet(I) /\ Cardinality(I) \in Nat
  BY <1>2, GraphAssumption, FS_Subset, FS_CardinalityType
<1>6. Cardinality(Pending') <= Cardinality(I) /\ Cardinality(Pending') \in Nat
  BY <1>4, <1>5, FS_Subset, FS_CardinalityType
<1>7. total + Cardinality(Pending') <= MaxTotal
  BY <1>1, <1>5, <1>6, BudgetAssumption DEF AttemptsReserved
<1> QED BY <1>1, <1>7 DEF AttemptsReserved

LEMMA ReservedIsKept ==
  ASSUME WInv, AttemptsReserved PROVE BudgetKept
BY PendingFacts, BudgetAssumption DEF AttemptsReserved, BudgetKept, WInv, WTypes

LEMMA StepKeepsBudget ==
  ASSUME ~OutOfTurn, WInv, AttemptsReserved, [WNext]_wvars PROVE AttemptsReserved'
<1>1. ASSUME NEW c \in Call, Return(c) PROVE AttemptsReserved'
  <2>1. Pending' = {} /\ UNCHANGED <<tried, total>>
    BY <1>1 DEF Return, Closed, Pending
  <2>2. total <= MaxTotal
    BY PendingFacts, BudgetAssumption DEF AttemptsReserved, WInv, WTypes
  <2> QED BY <2>1, <2>2, FS_EmptySet DEF AttemptsReserved, WInv, WTypes
<1>2. ASSUME UNCHANGED <<status, tried, total>> PROVE AttemptsReserved'
  BY <1>2 DEF AttemptsReserved, Pending
<1>3. ASSUME TimeUp \/ (\E c \in Call : Run(c) \/ Continue(c)) \/ UNCHANGED wvars
      PROVE UNCHANGED <<status, tried, total>>
  BY <1>3 DEF TimeUp, Run, Continue, wvars
<1> QED BY <1>1, <1>2, <1>3, BatchKeepsBudget, AnswerKeepsBudget, RepairKeepsBudget
           DEF WNext, Loop, Ask

LEMMA InitReserves == ASSUME WInit PROVE AttemptsReserved
<1>1. Pending = Node /\ total = 0 /\ complete = FALSE /\ \A n \in Node : tried[n] = 0
  BY DEF WInit, Pending
<1>2. Cardinality(Node) \in Nat
  BY GraphAssumption, FS_CardinalityType
<1> QED BY <1>1, <1>2, BudgetAssumption, PolicyAssumption DEF AttemptsReserved

(* The budgets are kept although the nodes of a batch check them before    *)
(* any of them counts: every pending node has its attempt reserved, by the *)
(* definition or by the repair that made it pending.                       *)
THEOREM BudgetHolds ==
  ASSUME ~OutOfTurn
  PROVE  WSpec => []BudgetKept
<1> QED BY InitReserves, ReservedIsKept, StepKeepsBudget, WInvHolds, PTL DEF WSpec

LEMMA BetweenKept ==
  ASSUME WInv, NonePendingBetween, [WNext]_wvars PROVE NonePendingBetween'
<1>1. ASSUME NEW c \in Call, Return(c) PROVE Pending' = {}
  BY <1>1 DEF Return, Closed, Pending
<1>2. ASSUME NEW c \in Call, NEW B \in SUBSET Node, Batch(c, B) PROVE Looping(c)'
  BY <1>2 DEF Batch, BatchOver, Looping
<1>3. ASSUME NEW c \in Call, Ask(c) PROVE Looping(c)'
  BY <1>3 DEF Ask, Run, Continue, Repair, Looping, WInv, WTypes
<1>4. ASSUME NEW c \in Call, NEW n \in Node, Answer(c, n) PROVE Looping(c)'
  BY <1>4 DEF Answer, AdmitWorkspace, DenyWorkspace, Observe, Fail, Pass, Release, At, Looping
<1>5. ASSUME TimeUp \/ UNCHANGED wvars PROVE UNCHANGED <<status, complete, call>>
  BY <1>5 DEF TimeUp, wvars
<1>6. ASSUME UNCHANGED <<status, complete, call>> PROVE NonePendingBetween'
  BY <1>6 DEF NonePendingBetween, Pending, Looping
<1> QED BY <1>1, <1>2, <1>3, <1>4, <1>5, <1>6 DEF WNext, Loop, NonePendingBetween

(* Between two calls nothing is pending as long as the Host lives, so that *)
(* a repair, which counts the nodes it makes pending and no other, finds   *)
(* no node whose attempt is reserved already.  A restored scheduler must   *)
(* be let run on first: nothing in its code asks for it.                   *)
THEOREM NothingLeftPending ==
  ASSUME ~OutOfTurn
  PROVE  WSpec => []NonePendingBetween
<1>1. WInit => NonePendingBetween
  BY DEF WInit, NonePendingBetween
<1> QED BY <1>1, BetweenKept, WInvHolds, PTL DEF WSpec

-----------------------------------------------------------------------------
(* Slots *)

LEMMA SlotPairs ==
  /\ InSlot \subseteq Taking /\ Taking \subseteq Call \X Node
  /\ \A c \in Call, n \in Node :
       /\ <<c, n>> \in InSlot <=> exec[c][n].at \in {"executing", "verifying"}
       /\ <<c, n>> \in Taking <=> exec[c][n].at \in {"admitting", "executing", "verifying"}
BY DEF InSlot, Taking

(* What one node does changes its own place only. *)
LEMMA SlotChange ==
  ASSUME WInv, NEW c \in Call, NEW n \in Node, NEW e \in Work, GoesTo(c, n, e)
  PROVE  /\ InSlot' = IF e.at \in {"executing", "verifying"} THEN InSlot \cup {<<c, n>>} ELSE InSlot \ {<<c, n>>}
         /\ Taking' = IF e.at \in {"admitting", "executing", "verifying"}
                      THEN Taking \cup {<<c, n>>} ELSE Taking \ {<<c, n>>}
<1>1. /\ exec'[c][n] = e
      /\ \A d \in Call, m \in Node : d # c \/ m # n => exec'[d][m] = exec[d][m]
  BY GoesToFacts DEF WInv
<1>2. \A x \in Call \X Node : x = <<c, n>> \/ exec'[x[1]][x[2]] = exec[x[1]][x[2]]
  BY <1>1
<1>3. exec'[<<c, n>>[1]][<<c, n>>[2]] = e /\ <<c, n>> \in Call \X Node
  BY <1>1
<1> QED BY <1>2, <1>3 DEF InSlot, Taking

LEMMA BatchKeepsSlots ==
  ASSUME WInv, SlotsReserved, NEW c \in Call, NEW B \in SUBSET Node, Batch(c, B)
  PROVE  SlotsReserved'
<1> DEFINE no == {n \in B : tried[n] >= MaxAttempts[n] \/ total >= MaxTotal}
           go == (B \ no) \ Writers
           ask == (B \ no) \cap Writers
<1>1. /\ BatchOver(c) /\ active' = Minus(active, Cardinality(no)) + Cardinality(go)
      /\ exec' = [exec EXCEPT ![c] = [n \in Node |-> IF n \in go THEN Started(n)
                                                     ELSE IF n \in ask THEN Asking(n) ELSE @[n]]]
      /\ Cardinality(B) = MaxConcurrent \/ Cardinality(B) < MaxConcurrent
  BY DEF Batch
<1>2. go \subseteq B /\ ask \subseteq B /\ no \subseteq B /\ go \cup ask \subseteq B
  OBVIOUS
<1>3. /\ IsFiniteSet(B) /\ IsFiniteSet(go) /\ IsFiniteSet(go \cup ask) /\ IsFiniteSet(no)
      /\ Cardinality(go \cup ask) <= Cardinality(B)
      /\ Cardinality(go \cup ask) \in Nat /\ Cardinality(B) \in Nat /\ Cardinality(go) \in Nat
      /\ Cardinality(no) \in Nat
  BY <1>2, GraphAssumption, FS_Subset, FS_CardinalityType
<1> HIDE DEF no, go, ask
<1>4. \A d \in Call, n \in Node : exec[d][n].at = "none"
  BY <1>1, BatchOverFacts
<1>5. InSlot = {} /\ active = 0
  BY <1>4, FS_EmptySet DEF InSlot, SlotsReserved
<1>6. /\ \A n \in Node : exec'[c][n].at = IF n \in go THEN "executing" ELSE IF n \in ask THEN "admitting" ELSE "none"
      /\ \A d \in Call, n \in Node : d # c => exec'[d][n].at = "none"
  BY <1>1, <1>4, WorkFacts DEF WInv, WTypes
<1>7. Taking' = {c} \X (go \cup ask) /\ InSlot' = {c} \X go
  <2>1. \A d \in Call, n \in Node :
          /\ exec'[d][n].at \in {"admitting", "executing", "verifying"} <=> d = c /\ n \in go \cup ask
          /\ exec'[d][n].at \in {"executing", "verifying"} <=> d = c /\ n \in go
    BY <1>6
  <2>2. \A x \in Call \X Node :
          /\ exec'[x[1]][x[2]].at \in {"admitting", "executing", "verifying"} <=> x \in {c} \X (go \cup ask)
          /\ exec'[x[1]][x[2]].at \in {"executing", "verifying"} <=> x \in {c} \X go
    BY <2>1
  <2>3. {c} \X (go \cup ask) \subseteq Call \X Node /\ {c} \X go \subseteq Call \X Node
    BY <1>2
  <2> QED BY <2>2, <2>3 DEF Taking, InSlot
<1>8. /\ IsFiniteSet({c} \X (go \cup ask)) /\ Cardinality({c} \X (go \cup ask)) = 1 * Cardinality(go \cup ask)
      /\ Cardinality({c} \X go) = 1 * Cardinality(go)
  <2>1. IsFiniteSet({c}) /\ Cardinality({c}) = 1
    BY FS_Singleton
  <2>2. /\ IsFiniteSet({c} \X (go \cup ask))
        /\ Cardinality({c} \X (go \cup ask)) = Cardinality({c}) * Cardinality(go \cup ask)
    BY <1>3, <2>1, FS_Product, Zenon
  <2>3. Cardinality({c} \X go) = Cardinality({c}) * Cardinality(go)
    BY <1>3, <2>1, FS_Product, Zenon
  <2> QED BY <2>1, <2>2, <2>3
<1>9. active' = Cardinality(go)
  BY <1>1, <1>3, <1>5 DEF Minus
<1>10. Cardinality(go \cup ask) <= MaxConcurrent
  BY <1>1, <1>3, BudgetAssumption
<1> QED BY <1>3, <1>7, <1>8, <1>9, <1>10 DEF SlotsReserved

LEMMA TakingFacts ==
  ASSUME SlotsReserved
  PROVE  /\ IsFiniteSet(InSlot) /\ Cardinality(InSlot) \in Nat /\ Cardinality(Taking) \in Nat
         /\ Cardinality(InSlot) <= Cardinality(Taking)
BY SlotPairs, FS_Subset, FS_CardinalityType DEF SlotsReserved

(* Whoever leaves gives back the slot it had. *)
LEMMA LeaveKeepsSlots ==
  ASSUME WInv, SlotsReserved, NEW c \in Call, NEW n \in Node, Leave(c, n),
         exec[c][n].at \in {"executing", "verifying"}
  PROVE  SlotsReserved'
<1>1. PICK e \in Work : GoesTo(c, n, e) /\ e.at \in {"none", "releasing"}
  BY LeaveFacts
<1>2. InSlot' = InSlot \ {<<c, n>>} /\ Taking' = Taking \ {<<c, n>>}
  BY <1>1, SlotChange
<1>3. <<c, n>> \in InSlot /\ <<c, n>> \in Taking
  BY SlotPairs
<1>4. /\ Cardinality(InSlot') = Cardinality(InSlot) - 1 /\ Cardinality(InSlot') \in Nat
      /\ IsFiniteSet(Taking') /\ Cardinality(Taking') = Cardinality(Taking) - 1
  BY <1>2, <1>3, TakingFacts, FS_RemoveElement, FS_CardinalityType DEF SlotsReserved
<1>5. active' = Minus(active, 1) /\ active = Cardinality(InSlot)
  BY DEF Leave, SlotsReserved
<1>6. active' = Cardinality(InSlot')
  BY <1>4, <1>5, TakingFacts DEF Minus
<1> QED BY <1>4, <1>6, TakingFacts, BudgetAssumption DEF SlotsReserved

LEMMA AnswerKeepsSlots ==
  ASSUME WInv, SlotsReserved, NEW c \in Call, NEW n \in Node, Answer(c, n)
  PROVE  SlotsReserved'
<1>1. CASE AdmitWorkspace(c, n)
  <2> DEFINE e == [exec[c][n] EXCEPT !.at = "executing", !.from = Inputs(n)]
  <2>1. exec[c][n].at = "admitting" /\ GoesTo(c, n, e) /\ active' = active + 1
    BY <1>1 DEF AdmitWorkspace, At
  <2>2. e \in Work /\ e.at = "executing"
    <3>1. exec[c][n] \in Work /\ Inputs(n) \in [Node -> Nat]
      BY WorkUpdates, InputsFacts DEF WInv
    <3> QED BY <3>1 DEF Work
  <2> HIDE DEF e
  <2>3. InSlot' = InSlot \cup {<<c, n>>} /\ Taking' = Taking \cup {<<c, n>>}
    BY <2>1, <2>2, SlotChange
  <2>4. <<c, n>> \notin InSlot /\ <<c, n>> \in Taking
    BY <2>1, SlotPairs
  <2>5. Cardinality(InSlot') = Cardinality(InSlot) + 1 /\ Taking' = Taking
    BY <2>3, <2>4, TakingFacts, FS_AddElement
  <2> QED BY <2>1, <2>5 DEF SlotsReserved
<1>2. CASE DenyWorkspace(c, n)
  <2>1. exec[c][n].at = "admitting" /\ GoesTo(c, n, Idle) /\ Idle \in Work /\ Idle.at = "none" /\ active' = active
    BY <1>2, WorkFacts DEF DenyWorkspace, At, WInv
  <2>2. InSlot' = InSlot \ {<<c, n>>} /\ Taking' = Taking \ {<<c, n>>}
    BY <2>1, SlotChange
  <2>3. InSlot' = InSlot
    BY <2>1, <2>2, SlotPairs
  <2>4. IsFiniteSet(Taking') /\ Cardinality(Taking') <= Cardinality(Taking) /\ Cardinality(Taking') \in Nat
    BY <2>2, FS_Subset, FS_CardinalityType DEF SlotsReserved
  <2> QED BY <2>1, <2>3, <2>4, TakingFacts, BudgetAssumption DEF SlotsReserved
<1>3. CASE \E gives \in BOOLEAN : Observe(c, n, gives)
  <2>1. PICK gives \in BOOLEAN : Observe(c, n, gives)
    BY <1>3
  <2> DEFINE e == [exec[c][n] EXCEPT !.at = "verifying", !.gives = gives]
  <2>2. exec[c][n].at = "executing" /\ GoesTo(c, n, e) /\ active' = active
    BY <2>1 DEF Observe, At
  <2>3. e \in Work /\ e.at = "verifying"
    <3>1. exec[c][n] \in Work
      BY WorkUpdates DEF WInv
    <3> QED BY <3>1 DEF Work
  <2> HIDE DEF e
  <2>4. InSlot' = InSlot \cup {<<c, n>>} /\ Taking' = Taking \cup {<<c, n>>}
    BY <2>2, <2>3, SlotChange
  <2>5. InSlot' = InSlot /\ Taking' = Taking
    BY <2>2, <2>4, SlotPairs
  <2> QED BY <2>2, <2>5 DEF SlotsReserved
<1>4. CASE Pass(c, n) \/ \E why \in Reason : Fail(c, n, why)
  <2>1. Leave(c, n) /\ exec[c][n].at \in {"executing", "verifying"}
    BY <1>4 DEF Pass, Fail, At
  <2> QED BY <2>1, LeaveKeepsSlots
<1>5. CASE \E ok \in BOOLEAN : Release(c, n, ok)
  <2>1. exec[c][n].at = "releasing" /\ GoesTo(c, n, Idle) /\ Idle \in Work /\ Idle.at = "none" /\ active' = active
    BY <1>5, WorkFacts DEF Release, At, WInv
  <2>2. InSlot' = InSlot \ {<<c, n>>} /\ Taking' = Taking \ {<<c, n>>}
    BY <2>1, SlotChange
  <2>3. InSlot' = InSlot /\ Taking' = Taking
    BY <2>1, <2>2, SlotPairs
  <2> QED BY <2>1, <2>3 DEF SlotsReserved
<1> QED BY <1>1, <1>2, <1>3, <1>4, <1>5 DEF Answer

LEMMA StepKeepsSlots ==
  ASSUME WInv, SlotsReserved, [WNext]_wvars PROVE SlotsReserved'
<1>1. ASSUME UNCHANGED <<exec, active>> PROVE SlotsReserved'
  BY <1>1 DEF SlotsReserved, Taking, InSlot
<1>2. ASSUME (\E c \in Call : Return(c) \/ Ask(c)) \/ TimeUp \/ UNCHANGED wvars
      PROVE UNCHANGED <<exec, active>>
  BY <1>2 DEF Return, Ask, Run, Continue, Repair, TimeUp, wvars
<1> QED BY <1>1, <1>2, BatchKeepsSlots, AnswerKeepsSlots DEF WNext, Loop

LEMMA InitSlots == ASSUME WInit PROVE SlotsReserved
<1>1. \A c \in Call, n \in Node : exec[c][n].at = "none"
  BY DEF WInit, Idle
<1>2. Taking = {} /\ InSlot = {} /\ active = 0
  BY <1>1 DEF Taking, InSlot, WInit
<1> QED BY <1>2, FS_EmptySet, BudgetAssumption DEF SlotsReserved

LEMMA ReservedIsCounted == ASSUME SlotsReserved PROVE SlotsCounted
BY TakingFacts, BudgetAssumption DEF SlotsReserved, SlotsCounted

(* The count of the slots, which is lowered where it may be zero, is the   *)
(* number of nodes in their executions, and within the limit at all times. *)
THEOREM SlotsHold ==
  ASSUME ~OutOfTurn
  PROVE  WSpec => []SlotsCounted
<1> QED BY InitSlots, ReservedIsCounted, StepKeepsSlots, WInvHolds, PTL DEF WSpec
-----------------------------------------------------------------------------
(* Checkpoints and deaths.  A checkpoint is written after an await in which*)
(* a batch may begin; what runs by then is written as blocked.             *)

(* What a checkpoint holds once it was handed out. *)
SavedTypes ==
  /\ saved.status \in [Node -> Status \ {"running"}]
  /\ saved.tried \in [Node -> Nat]
  /\ saved.reason \in [Node -> Reason \cup {"none"}]
  /\ saved.art \in [Node -> [by: Nat, from: [Node -> Nat]]]
  /\ saved.complete \in BOOLEAN
SavedEarly == \A n \in Node : saved.status[n] = "pending" => saved.art[n].by = 0
SavedGood == (saved.taken => SavedTypes /\ SavedEarly) /\ CheckpointClosed

RInv == WInv /\ SavedGood

(* What is passed when the states are read, was built on what is passed.   *)
LEMMA SnapshotGood ==
  ASSUME WInv, saved' = Snapshot PROVE SavedGood'
<1>1. /\ saved'.status = [n \in Node |-> IF status[n] = "running" THEN "blocked" ELSE status[n]]
      /\ saved'.tried = tried /\ saved'.reason = reason /\ saved'.art = art
      /\ saved'.complete = complete
  BY DEF Snapshot
<1>2. \A n \in Node : /\ saved'.status[n] \in Status \ {"running"}
                      /\ saved'.status[n] = "passed" <=> status[n] = "passed"
                      /\ saved'.status[n] = "pending" <=> status[n] = "pending"
  BY <1>1 DEF WInv, WTypes, Status
<1>3. SavedTypes'
  BY <1>1, <1>2 DEF WInv, WTypes, SavedTypes
<1>4. SavedEarly'
  BY <1>1, <1>2 DEF WInv, NoEarlyArtifact, SavedEarly
<1>5. CheckpointClosed'
  BY <1>1, <1>2, ReadsAreDeps DEF WInv, StandsOnPassed, LineageFresh, CheckpointClosed
<1> QED BY <1>3, <1>4, <1>5 DEF SavedGood

(* The restored scheduler is one that could have run on. *)
LEMMA ResumeKeeps ==
  ASSUME RInv, Resume PROVE RInv'
<1>1. /\ saved.taken
      /\ status' = saved.status /\ tried' = saved.tried /\ reason' = saved.reason
      /\ art' = saved.art /\ complete' = saved.complete /\ active' = 0 /\ late' = FALSE
      /\ call' = [c \in Call |-> IF Looping(c) THEN "failed" ELSE call[c]]
      /\ exec' = [c \in Call |-> [n \in Node |-> Idle]] /\ saved' = saved
  BY DEF Resume, Resumable
<1>2. SavedTypes /\ SavedEarly /\ CheckpointClosed
  BY <1>1 DEF RInv, SavedGood
<1>3. Idle \in Work /\ Idle.at = "none"
  BY DEF Idle, Work, NoInputs
<1>4. /\ \A c \in Call : call'[c] # "looping" /\ \A n \in Node : exec'[c][n].at = "none"
      /\ \A n \in Node : status'[n] # "running"
  BY <1>1, <1>2, <1>3 DEF Looping, SavedTypes
<1>5. WTypes'
  <2>1. call' \in [Call -> {"new", "looping", "passed", "failed", "blocked"}]
    BY <1>1 DEF RInv, WInv, WTypes
  <2>2. exec' \in [Call -> [Node -> Work]]
    BY <1>1, <1>3
  <2> QED BY <1>1, <1>2, <2>1, <2>2 DEF WTypes, SavedTypes, Status, Work
<1>6. LoopsAlone' /\ StageFits' /\ RunningIsBusy' /\ BusyIsUnused'
  BY <1>4 DEF LoopsAlone, StageFits, RunningIsBusy, BusyIsUnused, Looping, Busy
<1>7. StandsOnPassed' /\ NoEarlyArtifact' /\ LineageFresh'
  BY <1>1, <1>2, <1>4 DEF StandsOnPassed, NoEarlyArtifact, LineageFresh, CheckpointClosed, SavedEarly
<1>8. SavedGood'
  BY <1>1 DEF RInv, SavedGood, SavedTypes, SavedEarly, CheckpointClosed
<1> QED BY <1>5, <1>6, <1>7, <1>8 DEF RInv, WInv

LEMMA SavedKept ==
  ASSUME SavedGood, saved' = saved PROVE SavedGood'
BY DEF SavedGood, SavedTypes, SavedEarly, CheckpointClosed

LEMMA StepKeepsRecovery ==
  ASSUME ~OutOfTurn, RInv, [RNext]_rvars PROVE RInv'
<1>1. CASE WNext /\ UNCHANGED <<saving, saved, deaths>>
  BY <1>1, StepKeeps, SavedKept DEF RInv
<1>2. CASE CheckpointBegin \/ CheckpointEnd
  <2>1. WInv'
    BY <1>2, StutterKeeps DEF CheckpointBegin, CheckpointEnd, RInv
  <2>2. saved' = saved \/ saved' = Snapshot
    BY <1>2 DEF CheckpointBegin, CheckpointEnd
  <2> QED BY <2>1, <2>2, SavedKept, SnapshotGood DEF RInv
<1>3. CASE Resume
  BY <1>3, ResumeKeeps
<1>4. CASE UNCHANGED rvars
  <2>1. UNCHANGED wvars /\ saved' = saved
    BY <1>4 DEF rvars, wvars
  <2> QED BY <2>1, StutterKeeps, SavedKept DEF RInv
<1> QED BY <1>1, <1>2, <1>3, <1>4 DEF RNext

LEMMA RInvHolds ==
  ASSUME ~OutOfTurn
  PROVE  RSpec => []RInv
<1>1. RInit => RInv
  BY InitKeeps DEF RInit, RInv, SavedGood, CheckpointClosed
<1> QED BY <1>1, StepKeepsRecovery, PTL DEF RSpec

(* What a checkpoint says has passed was built on what it says has passed, *)
(* of the artifacts it holds: also of a batch that began while the digests *)
(* were awaited, and after any number of deaths and resumes.               *)
THEOREM CheckpointClosedHolds ==
  ASSUME ~OutOfTurn
  PROVE  RSpec => []CheckpointClosed
<1>1. RInv => CheckpointClosed
  BY DEF RInv, SavedGood
<1> QED BY <1>1, RInvHolds, PTL

(* A scheduler that is resumed hands on nothing stale either. *)
THEOREM LineageSurvives ==
  ASSUME ~OutOfTurn
  PROVE  RSpec => []LineageFresh
<1>1. RInv => LineageFresh
  BY DEF RInv, WInv
<1> QED BY <1>1, RInvHolds, PTL

-----------------------------------------------------------------------------
(* A checkpoint that was handed out is accepted when it comes back: the    *)
(* budget it says is left is what its nodes' attempts leave, and no node   *)
(* passed without what it must give.                                       *)

(* How many attempts the nodes have made. *)
LEMMA TriedFacts ==
  ASSUME NEW t \in [Node -> Nat]
  PROVE  IsFiniteSet(Attempts(t)) /\ Tried(t) \in Nat
<1>1. \A n \in Node : IsFiniteSet({n} \X (1 .. t[n]))
  <2>1. ASSUME NEW n \in Node PROVE IsFiniteSet({n} \X (1 .. t[n]))
    <3>1. IsFiniteSet({n}) /\ t[n] \in Nat
      BY FS_Singleton
    <3>2. IsFiniteSet(1 .. t[n])
      BY <3>1, FS_Interval
    <3> QED BY <3>1, <3>2, FS_Product, Zenon
  <2> QED BY <2>1
<1> DEFINE F == [n \in Node |-> {n} \X (1 .. t[n])]
           Parts == {{n} \X (1 .. t[n]) : n \in Node}
<1>2. F \in Surjection(Node, Parts)
  BY DEF Surjection
<1> HIDE DEF F
<1>3. IsFiniteSet(Parts)
  BY <1>2, GraphAssumption, FS_Surjection
<1>4. \A T \in Parts : IsFiniteSet(T)
  BY <1>1
<1>5. IsFiniteSet(Attempts(t))
  BY <1>3, <1>4, FS_UNION, Zenon DEF Attempts
<1> QED BY <1>5, FS_CardinalityType DEF Tried

(* One more attempt of each of some nodes adds as many. *)
LEMMA TriedMore ==
  ASSUME NEW t \in [Node -> Nat], NEW go \in SUBSET Node, NEW u \in [Node -> Nat],
         \A n \in Node : u[n] = IF n \in go THEN t[n] + 1 ELSE t[n]
  PROVE  Tried(u) = Tried(t) + Cardinality(go)
<1> DEFINE N == {<<n, t[n] + 1>> : n \in go}
           f == [n \in go |-> <<n, t[n] + 1>>]
<1>1. Attempts(u) = Attempts(t) \cup N
  <2>1. ASSUME NEW n \in Node, NEW i \in 1 .. u[n] PROVE i \in 1 .. t[n] \/ (n \in go /\ i = t[n] + 1)
    OBVIOUS
  <2>2. ASSUME NEW n \in Node, NEW i \in 1 .. t[n] PROVE i \in 1 .. u[n]
    OBVIOUS
  <2>3. ASSUME NEW n \in go PROVE t[n] + 1 \in 1 .. u[n]
    OBVIOUS
  <2>4. Attempts(u) \subseteq Attempts(t) \cup N
    BY <2>1 DEF Attempts
  <2>5. Attempts(t) \subseteq Attempts(u)
    BY <2>2 DEF Attempts
  <2>6. N \subseteq Attempts(u)
    BY <2>3 DEF Attempts
  <2> QED BY <2>4, <2>5, <2>6
<1>2. Attempts(t) \cap N = {}
  <2>1. ASSUME NEW n \in Node PROVE t[n] + 1 \notin 1 .. t[n]
    OBVIOUS
  <2> QED BY <2>1 DEF Attempts
<1>3. f \in Bijection(go, N)
  BY DEF Bijection, Injection, Surjection, IsInjective
<1>4. IsFiniteSet(go)
  BY GraphAssumption, FS_Subset
<1> HIDE DEF f, N
<1>5. IsFiniteSet(N) /\ Cardinality(N) = Cardinality(go)
  BY <1>3, <1>4, FS_Bijection DEF ExistsBijection
<1>6. Cardinality(Attempts(t) \cup N) = Cardinality(Attempts(t)) + Cardinality(N) - Cardinality(Attempts(t) \cap N)
  BY <1>5, TriedFacts, FS_Union
<1>7. Cardinality({}) = 0 /\ Cardinality(N) \in Nat /\ Cardinality(Attempts(t)) \in Nat
  BY <1>5, TriedFacts, FS_CardinalityType, FS_EmptySet
<1>8. Cardinality(Attempts(t) \cup N) = Cardinality(Attempts(t)) + Cardinality(N)
  BY <1>2, <1>6, <1>7
<1> QED BY <1>1, <1>5, <1>8, Zenon DEF Tried

LEMMA StepKeepsTotal ==
  ASSUME WInv, WInv', TotalAddsUp, [WNext]_wvars PROVE TotalAddsUp'
<1>1. tried \in [Node -> Nat] /\ tried' \in [Node -> Nat]
  BY DEF WInv, WTypes
<1>2. ASSUME UNCHANGED <<tried, total>> PROVE TotalAddsUp'
  BY <1>2 DEF TotalAddsUp
<1>3. ASSUME NEW c \in Call, NEW B \in SUBSET Node, Batch(c, B) PROVE TotalAddsUp'
  <2> DEFINE no == {n \in B : tried[n] >= MaxAttempts[n] \/ total >= MaxTotal}
             go == (B \ no) \ Writers
  <2>1. /\ tried'  = [n \in Node |-> IF n \in go THEN tried[n] + 1 ELSE tried[n]]
        /\ total'  = total + Cardinality(go)
    BY <1>3 DEF Batch
  <2>2. go \in SUBSET Node
    OBVIOUS
  <2> HIDE DEF no, go
  <2>3. \A n \in Node : tried'[n] = IF n \in go THEN tried[n] + 1 ELSE tried[n]
    BY <2>1
  <2>4. Tried(tried') = Tried(tried) + Cardinality(go)
    BY <1>1, <2>2, <2>3, TriedMore
  <2> QED BY <2>1, <2>4 DEF TotalAddsUp
<1>4. ASSUME NEW c \in Call, NEW n \in Node, AdmitWorkspace(c, n) PROVE TotalAddsUp'
  <2>1. /\ exec[c][n].attempt = tried[n] + 1
        /\ tried' = [tried EXCEPT ![n] = exec[c][n].attempt] /\ total' = total + 1
    BY <1>4 DEF AdmitWorkspace, At, WInv, StageFits
  <2>2. \A m \in Node : tried'[m] = IF m \in {n} THEN tried[m] + 1 ELSE tried[m]
    BY <1>1, <2>1
  <2>3. Tried(tried') = Tried(tried) + Cardinality({n})
    BY <1>1, <2>2, TriedMore
  <2>4. Cardinality({n}) = 1
    BY FS_Singleton
  <2> QED BY <2>1, <2>3, <2>4 DEF TotalAddsUp
<1>5. ASSUME NEW c \in Call, NEW n \in Node, Answer(c, n), ~AdmitWorkspace(c, n) PROVE UNCHANGED <<tried, total>>
  BY <1>5 DEF Answer, DenyWorkspace, Observe, Fail, Pass, Release
<1>6. ASSUME NEW c \in Call, Return(c) \/ Ask(c) PROVE UNCHANGED <<tried, total>>
  BY <1>6 DEF Return, Ask, Run, Continue, Repair
<1>7. ASSUME TimeUp \/ UNCHANGED wvars PROVE UNCHANGED <<tried, total>>
  BY <1>7 DEF TimeUp, wvars
<1> QED BY <1>2, <1>3, <1>4, <1>5, <1>6, <1>7 DEF WNext, Loop

(* What a node gives is held until it has passed, and is an attempt.       *)
GivesHeld ==
  \A c \in Call, n \in Node :
    /\ exec[c][n].at # "none" => exec[c][n].attempt # 0
    /\ exec[c][n].at = "verifying" => exec[c][n].gives \/ n \in Optional
PassedGave == \A n \in Node : status[n] = "passed" /\ n \notin Optional => art[n].by # 0

(* What one node does changes its own place only. *)
LEMMA GivesChange ==
  ASSUME WTypes, GivesHeld, NEW c \in Call, NEW n \in Node, NEW e \in Work, GoesTo(c, n, e),
         e.at # "none" => e.attempt # 0, e.at = "verifying" => e.gives \/ n \in Optional
  PROVE  GivesHeld'
<1>1. /\ exec'[c][n] = e
      /\ \A d \in Call, m \in Node : d # c \/ m # n => exec'[d][m] = exec[d][m]
  BY GoesToFacts
<1> QED BY <1>1 DEF GivesHeld

Gives == GivesHeld /\ PassedGave

LEMMA AnswerKeepsGives ==
  ASSUME WInv, Gives, NEW c \in Call, NEW n \in Node, Answer(c, n) PROVE Gives'
<1> USE DEF Gives
<1>1. WTypes /\ exec[c][n] \in Work /\ (exec[c][n].at # "none" => exec[c][n].attempt # 0)
  BY WorkUpdates DEF WInv, GivesHeld
<1>2. Idle \in Work /\ Idle.at = "none"
  BY <1>1, WorkFacts
<1>3. ASSUME GoesTo(c, n, Idle) PROVE GivesHeld'
  BY <1>1, <1>2, <1>3, GivesChange
<1>4. ASSUME Leave(c, n), exec[c][n].at # "none" PROVE GivesHeld'
  <2> DEFINE e == [exec[c][n] EXCEPT !.at = "releasing"]
  <2>1. CASE GoesTo(c, n, Idle)
    BY <1>3, <2>1
  <2>2. CASE GoesTo(c, n, e)
    <3>1. e \in Work /\ e.at = "releasing" /\ e.attempt = exec[c][n].attempt
      BY <1>1, WorkUpdates
    <3> HIDE DEF e
    <3> QED BY <1>1, <1>4, <2>2, <3>1, GivesChange
  <2>3. CASE n \in Writers
    BY <1>4, <2>2, <2>3 DEF Leave
  <2>4. CASE n \notin Writers
    BY <1>4, <2>1, <2>4 DEF Leave
  <2> QED BY <2>3, <2>4
<1>5. CASE AdmitWorkspace(c, n)
  <2> DEFINE e == [exec[c][n] EXCEPT !.at = "executing", !.from = Inputs(n)]
  <2>1. /\ exec[c][n].at = "admitting" /\ GoesTo(c, n, e)
        /\ status' = [status EXCEPT ![n] = "running"] /\ art' = art
    BY <1>5 DEF AdmitWorkspace, At
  <2>2. e \in Work /\ e.at = "executing" /\ e.attempt = exec[c][n].attempt
    <3>1. Inputs(n) \in [Node -> Nat]
      BY <1>1, InputsFacts
    <3> QED BY <1>1, <3>1 DEF Work
  <2> HIDE DEF e
  <2>3. GivesHeld'
    BY <1>1, <2>1, <2>2, GivesChange
  <2>4. PassedGave'
    BY <1>1, <2>1 DEF PassedGave, WTypes
  <2> QED BY <2>3, <2>4
<1>6. CASE DenyWorkspace(c, n)
  <2>1. GoesTo(c, n, Idle) /\ status' = [status EXCEPT ![n] = "blocked"] /\ art' = art
    BY <1>6 DEF DenyWorkspace
  <2>2. PassedGave'
    BY <1>1, <2>1 DEF PassedGave, WTypes
  <2> QED BY <1>3, <2>1, <2>2
<1>7. ASSUME NEW gives \in BOOLEAN, Observe(c, n, gives) PROVE Gives'
  <2> DEFINE e == [exec[c][n] EXCEPT !.at = "verifying", !.gives = gives]
  <2>1. /\ exec[c][n].at = "executing" /\ GoesTo(c, n, e) /\ (gives \/ n \in Optional)
        /\ status' = status /\ art' = art
    BY <1>7 DEF Observe, At
  <2>2. e \in Work /\ e.at = "verifying" /\ e.attempt = exec[c][n].attempt /\ e.gives = gives
    BY <1>1 DEF Work
  <2> HIDE DEF e
  <2>3. GivesHeld'
    BY <1>1, <2>1, <2>2, GivesChange
  <2>4. PassedGave'
    BY <2>1 DEF PassedGave
  <2> QED BY <2>3, <2>4
<1>8. ASSUME NEW why \in Reason, Fail(c, n, why) PROVE Gives'
  <2>1. /\ Leave(c, n) /\ exec[c][n].at # "none"
        /\ status' = [status EXCEPT ![n] = "failed"] /\ art' = art
    BY <1>8 DEF Fail, At
  <2>2. PassedGave'
    BY <1>1, <2>1 DEF PassedGave, WTypes
  <2> QED BY <1>4, <2>1, <2>2
<1>9. CASE Pass(c, n)
  <2>1. /\ Leave(c, n) /\ status' = [status EXCEPT ![n] = "passed"]
        /\ exec[c][n].at = "verifying"
        /\ art' = IF exec[c][n].gives
                  THEN [art EXCEPT ![n] = [by |-> exec[c][n].attempt, from |-> exec[c][n].from]] ELSE art
    BY <1>9 DEF Pass, At
  <2>2. exec[c][n].attempt # 0 /\ (exec[c][n].gives \/ n \in Optional)
    BY <2>1 DEF GivesHeld
  <2>3. n \notin Optional => art'[n].by # 0
    BY <1>1, <2>1, <2>2 DEF WTypes
  <2>4. \A m \in Node \ {n} : status'[m] = status[m] /\ art'[m] = art[m]
    BY <1>1, <2>1 DEF WTypes
  <2>5. PassedGave'
    BY <2>3, <2>4 DEF PassedGave
  <2> QED BY <1>4, <2>1, <2>5
<1>10. ASSUME NEW ok \in BOOLEAN, Release(c, n, ok) PROVE Gives'
  <2>1. GoesTo(c, n, Idle) /\ status' = (IF ok THEN status ELSE [status EXCEPT ![n] = "failed"]) /\ art' = art
    BY <1>10 DEF Release
  <2>2. PassedGave'
    BY <1>1, <2>1 DEF PassedGave, WTypes
  <2> QED BY <1>3, <2>1, <2>2
<1> QED BY <1>5, <1>6, <1>7, <1>8, <1>9, <1>10 DEF Answer

LEMMA StepKeepsGives ==
  ASSUME WInv, Gives, [WNext]_wvars PROVE Gives'
<1>1. ASSUME UNCHANGED <<status, art, exec>> PROVE Gives'
  BY <1>1 DEF Gives, GivesHeld, PassedGave
<1>2. ASSUME NEW c \in Call, Return(c) PROVE Gives'
  <2>1. status' = Closed /\ UNCHANGED <<art, exec>>
    BY <1>2 DEF Return
  <2> QED BY <2>1 DEF Closed, Gives, GivesHeld, PassedGave
<1>3. ASSUME NEW c \in Call, NEW B \in SUBSET Node, Batch(c, B) PROVE Gives'
  <2> DEFINE no == {n \in B : tried[n] >= MaxAttempts[n] \/ total >= MaxTotal}
             go == (B \ no) \ Writers
             ask == (B \ no) \cap Writers
  <2>1. /\ status' = [n \in Node |-> IF n \in no THEN "failed" ELSE IF n \in go THEN "running" ELSE status[n]]
        /\ exec' = [exec EXCEPT ![c] = [n \in Node |-> IF n \in go THEN Started(n)
                                                     ELSE IF n \in ask THEN Asking(n) ELSE @[n]]]
        /\ art' = art
    BY <1>3 DEF Batch
  <2> HIDE DEF no, go, ask
  <2>2. \A n \in Node : tried[n] \in Nat /\ tried[n] + 1 # 0
    BY DEF WInv, WTypes
  <2>3. GivesHeld'
    <3> SUFFICES ASSUME NEW d \in Call, NEW n \in Node
                 PROVE  /\ exec'[d][n].at # "none" => exec'[d][n].attempt # 0
                        /\ exec'[d][n].at = "verifying" => exec'[d][n].gives \/ n \in Optional
      BY DEF GivesHeld
    <3>1. exec'[d][n] \in {Started(n), Asking(n), exec[d][n]}
      BY <2>1 DEF WInv, WTypes
    <3>2. /\ Started(n).at = "executing" /\ Started(n).attempt = tried[n] + 1
          /\ Asking(n).at = "admitting" /\ Asking(n).attempt = tried[n] + 1
      BY WorkFacts DEF WInv
    <3> QED BY <2>2, <3>1, <3>2 DEF Gives, GivesHeld
  <2>4. PassedGave'
    BY <2>1 DEF Gives, PassedGave
  <2> QED BY <2>3, <2>4 DEF Gives
<1>4. ASSUME NEW c \in Call, NEW seeds \in SUBSET Node, Repair(c, seeds) PROVE Gives'
  <2> DEFINE I == Impacted(seeds)
  <2>1. /\ status' = [n \in Node |-> IF n \in I THEN "pending" ELSE status[n]]
        /\ art' = [n \in Node |-> IF n \in I THEN NoArtifact ELSE art[n]]
        /\ exec' = exec
    BY <1>4 DEF Repair
  <2> HIDE DEF I
  <2> QED BY <2>1 DEF Gives, GivesHeld, PassedGave
<1>5. ASSUME TimeUp \/ (\E c \in Call : Run(c) \/ Continue(c)) \/ UNCHANGED wvars
      PROVE UNCHANGED <<status, art, exec>>
  BY <1>5 DEF TimeUp, Run, Continue, wvars
<1> QED BY <1>1, <1>2, <1>3, <1>4, <1>5, AnswerKeepsGives DEF WNext, Loop, Ask

(* A checkpoint keeps the reservations of what is pending in it. *)
SavedPending == {n \in Node : saved.status[n] = "pending"}
SavedAccepted ==
  saved.taken =>
    /\ saved.left = MaxTotal - Tried(saved.tried)
    /\ Tried(saved.tried) + Cardinality(SavedPending) <= MaxTotal
    /\ \A n \in Node : saved.tried[n] <= MaxAttempts[n]
    /\ \A n \in Node : saved.status[n] = "passed" /\ n \notin Optional => saved.art[n].by # 0

Live == AttemptsReserved /\ TotalAddsUp /\ Gives /\ SlotsReserved

LEMMA StepKeepsLive ==
  ASSUME ~OutOfTurn, WInv, Live, [WNext]_wvars PROVE WInv' /\ Live'
<1>1. WInv'
  BY StepKeeps
<1> QED BY <1>1, StepKeepsBudget, StepKeepsTotal, StepKeepsGives, StepKeepsSlots DEF Live

LEMMA SavedNumbers ==
  ASSUME SavedTypes
  PROVE  /\ Tried(saved.tried) \in Nat
         /\ IsFiniteSet(SavedPending) /\ Cardinality(SavedPending) \in Nat
<1>1. Tried(saved.tried) \in Nat
  BY TriedFacts DEF SavedTypes
<1>2. IsFiniteSet(SavedPending)
  BY GraphAssumption, FS_Subset DEF SavedPending
<1> QED BY <1>1, <1>2, FS_CardinalityType

LEMMA SnapshotAccepted ==
  ASSUME WInv, Live, saved' = Snapshot PROVE SavedAccepted'
<1>1. /\ saved'.status = [n \in Node |-> IF status[n] = "running" THEN "blocked" ELSE status[n]]
      /\ saved'.tried = tried /\ saved'.art = art /\ saved'.left = Minus(MaxTotal, total)
  BY DEF Snapshot
<1>2. SavedPending' = Pending
  BY <1>1 DEF SavedPending, Pending
<1>3. /\ total = Tried(tried) /\ total \in Nat /\ Cardinality(Pending) \in Nat /\ MaxTotal \in Nat
      /\ total + Cardinality(Pending) <= MaxTotal
  BY PendingFacts, BudgetAssumption DEF Live, AttemptsReserved, TotalAddsUp
<1>4. saved'.left = MaxTotal - Tried(saved'.tried)
  BY <1>1, <1>3 DEF Minus
<1>5. Tried(saved'.tried) + Cardinality(SavedPending') <= MaxTotal
  BY <1>1, <1>2, <1>3
<1>6. \A n \in Node : saved'.tried[n] <= MaxAttempts[n]
  BY <1>1 DEF Live, AttemptsReserved
<1>7. \A n \in Node : saved'.status[n] = "passed" /\ n \notin Optional => saved'.art[n].by # 0
  BY <1>1 DEF Live, Gives, PassedGave
<1> QED BY <1>4, <1>5, <1>6, <1>7 DEF SavedAccepted

LEMMA ResumeKeepsLive ==
  ASSUME RInv, SavedAccepted, Resume PROVE Live' /\ SavedAccepted'
<1>1. /\ saved.taken
      /\ status' = saved.status /\ tried' = saved.tried /\ art' = saved.art
      /\ total' = Tried(saved.tried) /\ active' = 0
      /\ exec' = [c \in Call |-> [n \in Node |-> Idle]] /\ saved' = saved
  BY DEF Resume, Resumable
<1>2. SavedTypes
  BY <1>1 DEF RInv, SavedGood
<1>3. AttemptsReserved'
  <2>1. Pending' = SavedPending
    BY <1>1 DEF Pending, SavedPending
  <2> QED BY <1>1, <1>2, <2>1, SavedNumbers DEF AttemptsReserved, SavedAccepted
<1>4. TotalAddsUp'
  BY <1>1 DEF TotalAddsUp
<1>5. \A c \in Call, n \in Node : exec'[c][n].at = "none"
  BY <1>1 DEF Idle
<1>6. Gives'
  BY <1>1, <1>5 DEF Gives, GivesHeld, PassedGave, SavedAccepted
<1>7. SlotsReserved'
  <2>1. Taking' = {} /\ InSlot' = {}
    BY <1>5 DEF Taking, InSlot
  <2> QED BY <1>1, <2>1, FS_EmptySet, BudgetAssumption DEF SlotsReserved
<1>8. SavedAccepted'
  BY <1>1 DEF SavedAccepted, SavedPending
<1> QED BY <1>3, <1>4, <1>6, <1>7, <1>8 DEF Live

RLive == RInv /\ Live /\ SavedAccepted

LEMMA StepKeepsAccepted ==
  ASSUME ~OutOfTurn, RLive, [RNext]_rvars PROVE RLive'
<1>1. RInv'
  BY StepKeepsRecovery DEF RLive
<1>2. ASSUME saved' = saved PROVE SavedAccepted'
  BY <1>2 DEF RLive, SavedAccepted, SavedPending
<1>3. CASE WNext /\ UNCHANGED <<saving, saved, deaths>>
  BY <1>1, <1>2, <1>3, StepKeepsLive DEF RLive, RInv
<1>4. CASE CheckpointBegin \/ CheckpointEnd
  <2>1. Live'
    BY <1>4, StepKeepsLive DEF CheckpointBegin, CheckpointEnd, RLive, RInv
  <2>2. saved' = saved \/ saved' = Snapshot
    BY <1>4 DEF CheckpointBegin, CheckpointEnd
  <2> QED BY <1>1, <1>2, <2>1, <2>2, SnapshotAccepted DEF RLive, RInv
<1>5. CASE Resume
  BY <1>1, <1>5, ResumeKeepsLive DEF RLive
<1>6. CASE UNCHANGED rvars
  <2>1. UNCHANGED wvars /\ saved' = saved
    BY <1>6 DEF rvars, wvars
  <2> QED BY <1>1, <1>2, <2>1, StepKeepsLive DEF RLive, RInv
<1> QED BY <1>3, <1>4, <1>5, <1>6 DEF RNext

LEMMA RLiveHolds ==
  ASSUME ~OutOfTurn
  PROVE  RSpec => []RLive
<1>1. RInit => RLive
  <2> SUFFICES ASSUME RInit PROVE RLive
    OBVIOUS
  <2>1. WInit /\ ~saved.taken
    BY DEF RInit
  <2>2. RInv
    BY <2>1, InitKeeps DEF RInit, RInv, SavedGood, CheckpointClosed
  <2>3. /\ \A c \in Call, n \in Node : exec[c][n].at = "none"
        /\ \A n \in Node : status[n] = "pending" /\ tried[n] = 0
        /\ tried = [n \in Node |-> 0] /\ total = 0 /\ active = 0
    BY <2>1 DEF WInit, Idle
  <2>4. AttemptsReserved
    BY <2>1, InitReserves
  <2>5. TotalAddsUp
    <3>1. Attempts(tried) = {}
      BY <2>3 DEF Attempts
    <3> QED BY <2>3, <3>1, FS_EmptySet DEF TotalAddsUp, Tried
  <2>6. Gives
    BY <2>3 DEF Gives, GivesHeld, PassedGave
  <2>7. SlotsReserved
    BY <2>1, InitSlots
  <2> QED BY <2>1, <2>2, <2>4, <2>5, <2>6, <2>7 DEF RLive, Live, SavedAccepted
<1> QED BY <1>1, StepKeepsAccepted, PTL DEF RSpec

(* A checkpoint that was handed out is accepted when it comes back: what it*)
(* says is left of the budget is what its nodes' attempts leave, and no    *)
(* node passed in it without what it must give; after any number of deaths,*)
(* as long as a restored scheduler is let run on before it is repaired.    *)
THEOREM CheckpointAcceptedHolds ==
  ASSUME ~OutOfTurn
  PROVE  RSpec => []CheckpointAccepted
<1>1. RLive => CheckpointAccepted
  <2> SUFFICES ASSUME RLive, saved.taken PROVE Resumable
    BY DEF CheckpointAccepted
  <2>1. SavedTypes
    BY DEF RLive, RInv, SavedGood
  <2> QED BY <2>1, SavedNumbers, BudgetAssumption DEF RLive, SavedAccepted, Resumable
<1> QED BY <1>1, RLiveHolds, PTL

(* The budgets and the slots are kept over checkpoints and deaths too. *)
THEOREM BudgetSurvives ==
  ASSUME ~OutOfTurn
  PROVE  RSpec => [](BudgetKept /\ SlotsCounted)
<1>1. RLive => BudgetKept /\ SlotsCounted
  <2>1. RLive => BudgetKept
    BY ReservedIsKept DEF RLive, RInv, Live
  <2>2. RLive => SlotsCounted
    BY ReservedIsCounted DEF RLive, Live
  <2> QED BY <2>1, <2>2
<1> QED BY <1>1, RLiveHolds, PTL
===============================================================================
