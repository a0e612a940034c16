--------------------------- MODULE RunFinalization ---------------------------
(***************************************************************************)
(* The closeout of one Task run: its record in the Host's attachment       *)
(* journal (piHostAttachment.ts), the finalization requests of the Host    *)
(* (piHostProtocol.ts), and the renderers that, one after the other, claim *)
(* the closeout, write the answer into the thread, complete the claim and  *)
(* acknowledge the record (taskRunCoordinator.ts, activeRunReattachment.ts)*)
(*                                                                         *)
(* Renderer 1 started the run; a reload kills the current renderer and     *)
(* starts the next.  Requests in flight survive their sender.  Time is the *)
(* one bit the code asks of it: whether the lease of a claim has expired.  *)
(* The retention limits of the journal are left out.                       *)
(***************************************************************************)
EXTENDS Integers, FiniteSets

CONSTANTS
  Loads,     \* bound: how many renderers there are in all
  Crashes,   \* bound: how often the Host process dies
  Faults     \* bound: missed heartbeats and steps that throw

ASSUME BoundsAssumption == Loads \in Nat \ {0} /\ Crashes \in Nat /\ Faults \in Nat

VARIABLES
  record,    \* the run's attachment record in the Host
  disk,      \* the record in the Host's state file
  learned,   \* the learning candidate was settled in the memory store
  waiting,   \* renderers whose complete request awaits that settlement
  pc,        \* what a renderer does about the run
  epoch,     \* the claimEpoch a renderer was given
  lost,      \* a renderer's heartbeat saw its claim lost
  answers,   \* answers of this run in the thread
  current,   \* the renderer that is alive
  crashes, faults

host     == <<record, waiting>>
renderer == <<epoch, lost, answers, current>>
fvars    == <<host, disk, learned, pc, renderer, crashes, faults>>

Renderer == 1..Loads
Unclaimed == [state |-> "none", by |-> 0, epoch |-> 0, expired |-> FALSE]
Finalization == [state: {"none", "claimed", "completed"}, by: 0..Loads, epoch: Nat,
                 expired: BOOLEAN]
NewRecord(status) == [status |-> status, fin |-> Unclaimed, ack |-> FALSE]
Fin == record.fin

-----------------------------------------------------------------------------
(* The attachment journal *)

Held(f) == f.state = "claimed" /\ ~f.expired
Owned(f, n, e) == f.state = "claimed" /\ f.by = n /\ f.epoch = e

NewClaim(f, n) == [state |-> "claimed", by |-> n, epoch |-> f.epoch + 1, expired |-> FALSE]

AfterClaimSteals(f, n) ==    \* mutant: the lease is not looked at
  IF f.state = "completed" THEN f ELSE NewClaim(f, n)
AfterClaimNewEpoch(f, n) ==  \* mutant: a renewal is a new claim
  IF f.state = "completed" \/ (Held(f) /\ f.by # n) THEN f ELSE NewClaim(f, n)
AfterClaimRenewed(f, n) ==   \* mutant: a status nobody knows
  IF f.state = "completed" THEN f ELSE [NewClaim(f, n) EXCEPT !.state = "renewed"]
(* claimFinalization: a completed record and another's live claim stay; a  *)
(* live claim of n is renewed; anything else becomes a new claim of n.     *)
AfterClaim(f, n) ==
  IF f.state = "completed" \/ Held(f) THEN f
  ELSE NewClaim(f, n)

AfterCompleteAnyone(f, n, e) ==   \* mutant: claimant and epoch are not compared
  IF Held(f) THEN [f EXCEPT !.state = "completed"] ELSE f
(* completeFinalization: only the live claim it names is completed. *)
AfterComplete(f, n, e) ==
  IF Held(f) /\ Owned(f, n, e) THEN [f EXCEPT !.state = "completed"] ELSE f

AfterAckAlways(rec) ==   \* mutant: the closeout is not looked at
  IF rec.status = "terminal" THEN [rec EXCEPT !.ack = TRUE] ELSE rec
(* acknowledge *)
AfterAck(rec) ==
  IF rec.status = "terminal" /\ rec.fin.state = "completed"
  THEN [rec EXCEPT !.ack = TRUE] ELSE rec

SetFin(f) == record' = [record EXCEPT !.fin = f]
Goes(n, to) == pc' = [pc EXCEPT ![n] = to]

-----------------------------------------------------------------------------
(* The Host *)

(* settle: the turn ends. *)
RunEnds ==
  /\ record.status = "active"
  /\ record' = NewRecord("terminal")
  /\ UNCHANGED <<waiting, disk, learned, pc, renderer, crashes, faults>>

(* runs/finalize-claim, the first of renderer n for this run. *)
HostClaim(n) ==
  /\ pc[n] = "claiming"
  /\ IF record.status # "terminal" THEN Goes(n, "refused") /\ UNCHANGED <<record, epoch>>
     ELSE LET f == AfterClaim(Fin, n)
          IN /\ SetFin(f)
             /\ IF f.state = "claimed" /\ f.by = n
                THEN Goes(n, "answer") /\ epoch' = [epoch EXCEPT ![n] = f.epoch]
                ELSE /\ Goes(n, IF f.state = "completed" /\ n > 1 THEN "ackable" ELSE "refused")
                     /\ UNCHANGED epoch
  /\ UNCHANGED <<waiting, disk, learned, lost, answers, current, crashes, faults>>

HostCompleteEarly(n) ==   \* mutant: completes first and settles the learning later
  /\ pc[n] = "completing" /\ n \notin waiting
  /\ SetFin(AfterComplete(Fin, n, epoch[n]))
  /\ waiting' = waiting \cup {n}
  /\ UNCHANGED <<disk, learned, pc, renderer, crashes, faults>>

(* runs/finalize-complete renews the claim, whoever asks; the owner then   *)
(* waits for the learning settlement.                                      *)
HostComplete(n) ==
  /\ pc[n] = "completing" /\ n \notin waiting
  /\ IF record.status # "terminal" THEN Goes(n, "done") /\ UNCHANGED host
     ELSE LET f == AfterClaim(Fin, n)
          IN /\ SetFin(f)
             /\ IF Owned(f, n, epoch[n]) THEN waiting' = waiting \cup {n} /\ UNCHANGED pc
                ELSE /\ Goes(n, IF f.state = "completed" THEN "ackable" ELSE "done")
                     /\ UNCHANGED waiting
  /\ UNCHANGED <<disk, learned, renderer, crashes, faults>>

(* After the await: the claim may have expired, or be another's, by now.   *)
HostLearned(n) ==
  /\ n \in waiting
  /\ waiting' = waiting \ {n}
  /\ learned' = TRUE
  /\ LET f == AfterComplete(Fin, n, epoch[n])
     IN SetFin(f) /\ Goes(n, IF f.state = "completed" THEN "ackable" ELSE "done")
  /\ UNCHANGED <<disk, renderer, crashes, faults>>

LearningFails(n) ==
  /\ n \in waiting /\ faults < Faults
  /\ faults' = faults + 1
  /\ waiting' = waiting \ {n}
  /\ Goes(n, "done")
  /\ UNCHANGED <<record, disk, learned, renderer, crashes>>

HostAck(n) ==
  /\ pc[n] = "acking"
  /\ record' = AfterAck(record)
  /\ Goes(n, "done")
  /\ UNCHANGED <<waiting, disk, learned, renderer, crashes, faults>>

(* The lease runs out.  A live owner renews it three times per lease, so *)
(* its heartbeat must have failed (a suspended machine, a broken channel). *)
Beating(n) == n = current /\ ~lost[n] /\ pc[n] \in {"answer", "close", "complete", "completing"}
LeaseExpires ==
  /\ Held(Fin)
  /\ IF Beating(Fin.by) THEN faults < Faults /\ faults' = faults + 1 ELSE UNCHANGED faults
  /\ SetFin([Fin EXCEPT !.expired = TRUE])
  /\ UNCHANGED <<waiting, disk, learned, pc, renderer, crashes>>

Save ==
  /\ disk # record
  /\ disk' = record
  /\ UNCHANGED <<host, learned, pc, renderer, crashes, faults>>

(* The requests in flight fail; a record that was active is terminal. *)
HostRestart ==
  /\ crashes < Crashes
  /\ crashes' = crashes + 1
  /\ record' = IF disk.status = "active" THEN [disk EXCEPT !.status = "terminal"] ELSE disk
  /\ waiting' = {}
  /\ pc' = [n \in Renderer |-> CASE pc[n] = "claiming" -> "refused"
                                 [] pc[n] \in {"completing", "acking"} -> "done"
                                 [] OTHER -> pc[n]]
  /\ UNCHANGED <<disk, learned, renderer, faults>>

-----------------------------------------------------------------------------
(* The renderers.  finalizeTaskRun and finalizeRecoveredPiHostRun remember *)
(* the run, so a renderer goes through this once, whatever the outcome.    *)

LocalStep(n, from, to) == n = current /\ pc[n] = from /\ Goes(n, to)

(* runTask returns to the renderer that started the run. *)
StartFinalization(n) ==
  /\ record.status # "active"
  /\ LocalStep(n, "live", "claiming")
  /\ UNCHANGED <<host, disk, learned, renderer, crashes, faults>>

(* reattachPiHostRuns, once per load. *)
Reattach(n) ==
  /\ LocalStep(n, "loading", IF record.status = "terminal" /\ ~record.ack
                             THEN "claiming" ELSE "watching")
  /\ UNCHANGED <<host, disk, learned, renderer, crashes, faults>>

(* runFinalizationSequence: first the answer ... *)
PushAnswer(n) ==
  /\ LocalStep(n, "answer", "close")
  /\ answers' = answers + 1
  /\ UNCHANGED <<host, disk, learned, epoch, lost, current, crashes, faults>>

(* ... then hooks, archive, terminal marker and metrics. *)
CloseOut(n) ==
  /\ LocalStep(n, "close", "complete")
  /\ UNCHANGED <<host, disk, learned, renderer, crashes, faults>>

(* recoverFinalizationFailure: the claim is left to expire. *)
CloseOutFails(n) ==
  /\ faults < Faults
  /\ faults' = faults + 1
  /\ LocalStep(n, "close", "failed")
  /\ UNCHANGED <<host, disk, learned, renderer, crashes>>

SendComplete(n) ==
  /\ LocalStep(n, "complete", IF lost[n] THEN "done" ELSE "completing")
  /\ UNCHANGED <<host, disk, learned, renderer, crashes, faults>>

SendAck(n) ==
  /\ LocalStep(n, "ackable", "acking")
  /\ UNCHANGED <<host, disk, learned, renderer, crashes, faults>>

(* The heartbeat: a claim like the first, so it may take a new one.        *)
Renew(n) ==
  /\ Beating(n)
  /\ LET f == IF record.status = "terminal" THEN AfterClaim(Fin, n) ELSE Fin
     IN SetFin(f) /\ lost' = [lost EXCEPT ![n] = ~Owned(f, n, epoch[n])]
  /\ UNCHANGED <<waiting, disk, learned, pc, epoch, answers, current, crashes, faults>>

Reload ==
  /\ current < Loads
  /\ current' = current + 1
  /\ Goes(current + 1, "loading")
  /\ UNCHANGED <<host, disk, learned, epoch, lost, answers, crashes, faults>>

-----------------------------------------------------------------------------
FInit ==
  /\ record = NewRecord("active")
  /\ disk = NewRecord("none")
  /\ learned = FALSE
  /\ waiting = {}
  /\ pc = [n \in Renderer |-> IF n = 1 THEN "live" ELSE "off"]
  /\ epoch = [n \in Renderer |-> 0]
  /\ lost = [n \in Renderer |-> FALSE]
  /\ answers = 0 /\ current = 1 /\ crashes = 0 /\ faults = 0

HostStep(n) == HostClaim(n) \/ HostComplete(n) \/ HostLearned(n) \/ HostAck(n)
RendererStep(n) ==
  \/ StartFinalization(n) \/ Reattach(n)
  \/ PushAnswer(n) \/ CloseOut(n) \/ SendComplete(n) \/ SendAck(n)

FNext ==
  \/ RunEnds \/ LeaseExpires \/ Save \/ HostRestart \/ Reload
  \/ \E n \in Renderer :
       HostStep(n) \/ RendererStep(n) \/ Renew(n) \/ LearningFails(n) \/ CloseOutFails(n)

FSpec == FInit /\ [][FNext]_fvars

(* The Host answers every request, a live renderer goes on, a turn ends by *)
(* its deadline and a lease by its clock.  Nobody has to reload or crash.  *)
FFairSpec ==
  /\ FSpec
  /\ WF_fvars(RunEnds) /\ WF_fvars(LeaseExpires)
  /\ \A n \in Renderer : WF_fvars(HostStep(n)) /\ WF_fvars(RendererStep(n))

-----------------------------------------------------------------------------
(* Properties *)

Record == [status: {"none", "active", "terminal"}, fin: Finalization, ack: BOOLEAN]
FTypeOK ==
  /\ record \in Record /\ disk \in Record
  /\ learned \in BOOLEAN
  /\ waiting \subseteq Renderer
  /\ pc \in [Renderer -> {"off", "live", "loading", "watching", "claiming", "refused", "answer",
                          "close", "complete", "completing", "ackable", "acking", "done", "failed"}]
  /\ epoch \in [Renderer -> Nat] /\ lost \in [Renderer -> BOOLEAN]
  /\ answers \in Nat /\ current \in Renderer /\ crashes \in Nat /\ faults \in Nat

(* Fencing: the renderer whose claim is completed did all of the closeout. *)
(* A request of a dead renderer never completes the claim of its successor *)
(* (epoch and claimant checks of completeFinalization).                    *)
ClosedOut(n) == pc[n] \in {"completing", "ackable", "acking", "done"}
FinishedByOwner == Fin.state = "completed" => ClosedOut(Fin.by)

(* A completed closeout settled its learning first: the settlement's await *)
(* lies between the check of the claim and its completion.                 *)
CompletedIsLearned == Fin.state = "completed" => learned

(* The "dangerous ack-before-finalize window" of acknowledge: a record is  *)
(* released only when the closeout is complete, in the Host and on disk,   *)
(* although a Host that dies can forget a completion it has confirmed.     *)
AckedIsCompleted ==
  /\ record.ack => Fin.state = "completed"
  /\ disk.ack => disk.fin.state = "completed"

(* Compare-and-swap: as long as the Host lives, nobody takes a claim that  *)
(* has not expired, and a completed closeout is never claimed again.       *)
ClaimIsHeld ==
  [][(crashes' = crashes /\ (Held(Fin) \/ Fin.state = "completed")) =>
       /\ record'.fin.by = Fin.by /\ record'.fin.epoch = Fin.epoch
       /\ Fin.state = "completed" => record'.fin.state = "completed"]_fvars

(* A renderer that won the claim and lives on gets the record released, if *)
(* from now on the Host stays up and no heartbeat is missed.               *)
OwnerFinishes ==
  \A n \in Renderer :
    ( /\ pc[n] = "answer" /\ current = n /\ Held(Fin) /\ Owned(Fin, n, epoch[n]) /\ ~lost[n]
      /\ crashes = Crashes /\ faults = Faults ) ~> (record.ack \/ current # n)

(* issues/12-finalization-startup-gate.md: a terminal outcome is not       *)
(* delivered twice.                                                        *)
DeliveredOnce == answers <= 1

(* taskRunCoordinator.ts: recovery takes over within one retry window from *)
(* a renderer that disappeared after it won the claim.                     *)
TakenOver ==
  \A n \in Renderer :
    (current = n /\ pc[n] = "claiming") ~> (record.ack \/ current # n)
===============================================================================
