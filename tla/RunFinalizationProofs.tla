------------------------ MODULE RunFinalizationProofs ------------------------
(***************************************************************************)
(* The safety of the closeout, for any number of renderers, of deaths of   *)
(* the Host and of faults.                                                 *)
(***************************************************************************)
EXTENDS RunFinalization, TLAPS

(* What holds of the Host's record and of its copy on disk alike.          *)
Sound(rec) ==
  /\ rec.status = "active" => rec.fin = Unclaimed
  /\ rec.fin.state # "none" => rec.fin.by \in Renderer
  /\ rec.ack => rec.fin.state = "completed"
  /\ rec.fin.state = "completed" => learned /\ ClosedOut(rec.fin.by)

FIndInv ==
  /\ FTypeOK
  /\ Sound(record)
  /\ Sound(disk)
  /\ \A n \in waiting : pc[n] = "completing"
  /\ \A n \in Renderer : n > current => pc[n] = "off"

-----------------------------------------------------------------------------
(* What the three functions of the journal do to a closeout *)

(* A claim never completes anything, and never touches a closeout that is  *)
(* completed or held (claimFinalization).                                  *)
LEMMA AfterClaimLemma ==
  ASSUME NEW f \in Finalization, NEW n \in Renderer
  PROVE  /\ AfterClaim(f, n) \in Finalization
         /\ (f.state = "completed" \/ Held(f)) => AfterClaim(f, n) = f
         /\ AfterClaim(f, n).state = "completed" => AfterClaim(f, n) = f
         /\ AfterClaim(f, n) # f => AfterClaim(f, n).by = n
BY BoundsAssumption DEF AfterClaim, NewClaim, Finalization, Renderer, Held

(* A completion only changes the state, and only of a claim that its       *)
(* sender owns (completeFinalization).                                     *)
LEMMA AfterCompleteLemma ==
  ASSUME NEW f \in Finalization, NEW n \in Renderer, NEW e \in Nat
  PROVE  /\ AfterComplete(f, n, e) \in Finalization
         /\ AfterComplete(f, n, e).by = f.by /\ AfterComplete(f, n, e).epoch = f.epoch
         /\ f.state = "completed" => AfterComplete(f, n, e) = f
         /\ AfterComplete(f, n, e) # f =>
              f.state = "claimed" /\ f.by = n /\ AfterComplete(f, n, e).state = "completed"
BY DEF AfterComplete, Finalization, Held, Owned

-----------------------------------------------------------------------------
(* Type correctness *)

LEMMA NewRecordType ==
  ASSUME NEW status \in {"none", "active", "terminal"}
  PROVE  NewRecord(status) \in Record
<1>1. Unclaimed \in Finalization
  BY BoundsAssumption DEF Unclaimed, Finalization
<1> QED BY <1>1 DEF NewRecord, Record

LEMMA FInitTypeOK == FInit => FTypeOK
<1> SUFFICES ASSUME FInit PROVE FTypeOK
  OBVIOUS
<1>1. record \in Record /\ disk \in Record
  BY NewRecordType DEF FInit
<1>2. current \in Renderer
  BY BoundsAssumption DEF FInit, Renderer
<1> QED BY <1>1, <1>2 DEF FInit, FTypeOK

LEMMA FNextTypeOK == FTypeOK /\ [FNext]_fvars => FTypeOK'
<1> SUFFICES ASSUME FTypeOK, [FNext]_fvars PROVE FTypeOK'
  OBVIOUS
<1> USE BoundsAssumption DEF FTypeOK, host, renderer
<1>1. Fin \in Finalization
  BY DEF Fin, Record
<1>2. ASSUME NEW f \in Finalization, SetFin(f) PROVE record' \in Record
  BY <1>2 DEF SetFin, Record
<1>3. CASE RunEnds
  BY <1>3, NewRecordType DEF RunEnds
<1>4. CASE LeaseExpires
  <2>1. [Fin EXCEPT !.expired = TRUE] \in Finalization
    BY <1>1 DEF Finalization
  <2> QED BY <1>2, <1>4, <2>1 DEF LeaseExpires
<1>5. CASE Save
  BY <1>5 DEF Save
<1>6. CASE HostRestart
  <2>1. record' \in Record
    BY <1>6 DEF HostRestart, Record
  <2> QED BY <1>6, <2>1 DEF HostRestart
<1>7. CASE Reload
  BY <1>7 DEF Reload, Goes, Renderer
<1>8. ASSUME NEW n \in Renderer, HostClaim(n) PROVE FTypeOK'
  <2>1. AfterClaim(Fin, n) \in Finalization
    BY <1>1, AfterClaimLemma
  <2>2. record' \in Record
    BY <1>2, <1>8, <2>1 DEF HostClaim
  <2>3. epoch' \in [Renderer -> Nat]
    BY <1>8, <2>1 DEF HostClaim, Finalization
  <2> QED BY <1>8, <2>2, <2>3 DEF HostClaim, Goes
<1>9. ASSUME NEW n \in Renderer, HostComplete(n) PROVE FTypeOK'
  <2>1. AfterClaim(Fin, n) \in Finalization
    BY <1>1, AfterClaimLemma
  <2>2. record' \in Record
    BY <1>2, <1>9, <2>1 DEF HostComplete
  <2> QED BY <1>9, <2>2 DEF HostComplete, Goes
<1>10. ASSUME NEW n \in Renderer, HostLearned(n) PROVE FTypeOK'
  <2>1. AfterComplete(Fin, n, epoch[n]) \in Finalization
    BY <1>1, AfterCompleteLemma
  <2>2. record' \in Record
    BY <1>2, <1>10, <2>1 DEF HostLearned
  <2> QED BY <1>10, <2>2 DEF HostLearned, Goes
<1>11. ASSUME NEW n \in Renderer, HostAck(n) PROVE FTypeOK'
  <2>1. AfterAck(record) \in Record
    BY DEF AfterAck, Record
  <2> QED BY <1>11, <2>1 DEF HostAck, Goes
<1>12. ASSUME NEW n \in Renderer, Renew(n) PROVE FTypeOK'
  <2>1. AfterClaim(Fin, n) \in Finalization
    BY <1>1, AfterClaimLemma
  <2>2. record' \in Record
    BY <1>1, <1>2, <1>12, <2>1 DEF Renew
  <2>3. lost' \in [Renderer -> BOOLEAN]
    BY <1>12 DEF Renew, Owned
  <2> QED BY <1>12, <2>2, <2>3 DEF Renew
<1>13. ASSUME NEW n \in Renderer, LearningFails(n) \/ CloseOutFails(n) PROVE FTypeOK'
  BY <1>13 DEF LearningFails, CloseOutFails, LocalStep, Goes
<1>14. ASSUME NEW n \in Renderer, RendererStep(n) PROVE FTypeOK'
  BY <1>14 DEF RendererStep, StartFinalization, Reattach, PushAnswer, CloseOut, SendComplete,
               SendAck, LocalStep, Goes
<1>15. CASE UNCHANGED fvars
  BY <1>15 DEF fvars
<1> QED
  BY <1>3, <1>4, <1>5, <1>6, <1>7, <1>8, <1>9, <1>10, <1>11, <1>12, <1>13, <1>14, <1>15
  DEF FNext, HostStep

(* The record of the attachment journal, its copy on disk and the          *)
(* renderers keep their types whatever fails, dies or expires.             *)
THEOREM FTypeCorrect == FSpec => []FTypeOK
BY FInitTypeOK, FNextTypeOK, PTL DEF FSpec

-----------------------------------------------------------------------------
(* The inductive invariant *)

LEMMA FInitInd == FInit => FIndInv
<1> SUFFICES ASSUME FInit PROVE FIndInv
  OBVIOUS
<1>1. FTypeOK
  BY FInitTypeOK
<1>2. Sound(record) /\ Sound(disk)
  BY DEF FInit, Sound, NewRecord, Unclaimed
<1>3. \A n \in Renderer : n > current => pc[n] = "off"
  BY BoundsAssumption DEF FInit, Renderer
<1> QED BY <1>1, <1>2, <1>3 DEF FIndInv, FInit

(* What the renderers have done is never undone: a settled learning stays  *)
(* settled, and who has closed out has closed out.  A renderer waits for   *)
(* the settlement only while its request is in flight, and a renderer that *)
(* does not exist yet does nothing.                                        *)
LEMMA RenderersInd ==
  ASSUME FIndInv, [FNext]_fvars
  PROVE  /\ learned => learned'
         /\ \A n \in Renderer : ClosedOut(n) => ClosedOut(n)'
         /\ \A n \in waiting' : pc'[n] = "completing"
         /\ \A n \in Renderer : n > current' => pc'[n] = "off"
<1> USE DEF FIndInv, FTypeOK, host, renderer, ClosedOut
<1>1. CASE RunEnds \/ LeaseExpires \/ Save
  BY <1>1 DEF RunEnds, LeaseExpires, Save
<1>2. CASE HostRestart
  BY <1>2 DEF HostRestart
<1>3. CASE Reload
  BY <1>3 DEF Reload, Goes, Renderer
<1>4. ASSUME NEW n \in Renderer, HostStep(n)
      PROVE  /\ learned => learned'
             /\ \A m \in Renderer : ClosedOut(m) => ClosedOut(m)'
             /\ \A m \in waiting' : pc'[m] = "completing"
             /\ \A m \in Renderer : m > current' => pc'[m] = "off"
  <2>1. CASE HostClaim(n)
    BY <2>1 DEF HostClaim, Goes
  <2>2. CASE HostComplete(n)
    BY <2>2 DEF HostComplete, Goes
  <2>3. CASE HostLearned(n)
    BY <2>3 DEF HostLearned, Goes
  <2>4. CASE HostAck(n)
    BY <2>4 DEF HostAck, Goes
  <2> QED BY <1>4, <2>1, <2>2, <2>3, <2>4 DEF HostStep
<1>5. ASSUME NEW n \in Renderer,
             RendererStep(n) \/ Renew(n) \/ LearningFails(n) \/ CloseOutFails(n)
      PROVE  /\ learned => learned'
             /\ \A m \in Renderer : ClosedOut(m) => ClosedOut(m)'
             /\ \A m \in waiting' : pc'[m] = "completing"
             /\ \A m \in Renderer : m > current' => pc'[m] = "off"
  <2>1. CASE RendererStep(n)
    BY <2>1 DEF RendererStep, StartFinalization, Reattach, PushAnswer, CloseOut, SendComplete,
                SendAck, LocalStep, Goes, Renderer
  <2>2. CASE Renew(n)
    BY <2>2 DEF Renew
  <2>3. CASE LearningFails(n) \/ CloseOutFails(n)
    BY <2>3 DEF LearningFails, CloseOutFails, LocalStep, Goes, Renderer
  <2> QED BY <1>5, <2>1, <2>2, <2>3
<1>6. CASE UNCHANGED fvars
  BY <1>6 DEF fvars
<1> QED BY <1>1, <1>2, <1>3, <1>4, <1>5, <1>6 DEF FNext

(* A record that is sound, or that is taken from the disk, stays sound.    *)
LEMMA RecordStaysSound ==
  ASSUME FIndInv, [FNext]_fvars, NEW rec, Sound(rec)
  PROVE  /\ rec.status = "active" => rec.fin = Unclaimed
         /\ rec.fin.state # "none" => rec.fin.by \in Renderer
         /\ rec.ack => rec.fin.state = "completed"
         /\ rec.fin.state = "completed" => learned' /\ ClosedOut(rec.fin.by)'
BY RenderersInd DEF Sound

(* The record after a step that replaces its closeout by f.                *)
LEMMA SetFinSound ==
  ASSUME FIndInv, [FNext]_fvars, NEW f \in Finalization, SetFin(f),
         record.status # "active" \/ f = Fin,
         Fin.state = "completed" => f = Fin,
         f # Fin => f.by \in Renderer,
         (f # Fin /\ f.state = "completed") => learned' /\ ClosedOut(f.by)'
  PROVE  Sound(record)'
<1>1. record'.status = record.status /\ record'.ack = record.ack /\ record'.fin = f
  BY DEF SetFin, FIndInv, FTypeOK, Record
<1>2. Sound(record)
  BY DEF FIndInv
<1>3. CASE f = Fin
  BY <1>1, <1>2, <1>3, RecordStaysSound DEF Sound, Fin
<1>4. CASE f # Fin
  <2>1. ~record.ack
    BY <1>2, <1>4 DEF Sound, Fin
  <2> QED BY <1>1, <1>4, <2>1 DEF Sound, Fin
<1> QED BY <1>3, <1>4

LEMMA RecordSound ==
  ASSUME FIndInv, [FNext]_fvars
  PROVE  Sound(record)'
<1>1. FTypeOK /\ Sound(record) /\ Sound(disk)
  BY DEF FIndInv
<1>2. Fin \in Finalization /\ (Fin.state # "none" => Fin.by \in Renderer)
  BY <1>1 DEF FTypeOK, Record, Fin, Sound
<1>3. (record.status = "active" => Fin = Unclaimed) /\ (record.ack => Fin.state = "completed")
  BY <1>1 DEF Sound, Fin
<1>4. ASSUME record' = record PROVE Sound(record)'
  BY <1>1, <1>4, RecordStaysSound DEF Sound
<1>5. CASE RunEnds
  BY <1>5 DEF RunEnds, NewRecord, Unclaimed, Sound
<1>6. CASE LeaseExpires
  <2>1. Fin # Unclaimed /\ Fin.state = "claimed"
    BY <1>6 DEF LeaseExpires, Held, Unclaimed
  <2>2. record.status # "active"
    BY <1>3, <2>1
  <2> DEFINE f == [Fin EXCEPT !.expired = TRUE]
  <2>3. f \in Finalization /\ f.by = Fin.by /\ f.state = "claimed"
    BY <1>2, <2>1 DEF Finalization
  <2>4. SetFin(f)
    BY <1>6 DEF LeaseExpires
  <2> HIDE DEF f
  <2> QED BY <1>2, <2>1, <2>2, <2>3, <2>4, SetFinSound
<1>7. CASE HostRestart
  <2>1. /\ record'.fin = disk.fin /\ record'.ack = disk.ack
        /\ record'.status # "active"
    BY <1>1, <1>7 DEF HostRestart, FTypeOK, Record
  <2> QED BY <1>1, <2>1, RecordStaysSound DEF Sound
<1>8. ASSUME NEW n \in Renderer, SetFin(AfterClaim(Fin, n)), record.status # "active"
      PROVE  Sound(record)'
  BY <1>2, <1>8, AfterClaimLemma, SetFinSound
<1>9. ASSUME NEW n \in Renderer, HostStep(n) PROVE Sound(record)'
  <2>1. CASE HostClaim(n)
    BY <1>4, <1>8, <2>1 DEF HostClaim
  <2>2. CASE HostComplete(n)
    BY <1>4, <1>8, <2>2 DEF HostComplete, host
  <2>3. CASE HostLearned(n)
    <3> DEFINE f == AfterComplete(Fin, n, epoch[n])
    <3>1. SetFin(f) /\ learned' /\ n \in waiting
      BY <2>3 DEF HostLearned
    <3>0. epoch[n] \in Nat
      BY <1>1 DEF FTypeOK
    <3>2. /\ f \in Finalization /\ f.by = Fin.by /\ f.epoch = Fin.epoch
          /\ Fin.state = "completed" => f = Fin
          /\ f # Fin => Fin.state = "claimed" /\ Fin.by = n /\ f.state = "completed"
      BY <1>2, <3>0, AfterCompleteLemma
    <3>3. f.state = "completed" => ClosedOut(n)'
      BY <1>1, <2>3 DEF HostLearned, Goes, ClosedOut, FTypeOK
    <3>4. f # Fin => record.status # "active"
      BY <1>3, <3>2 DEF Unclaimed
    <3> HIDE DEF f
    <3> QED BY <3>1, <3>2, <3>3, <3>4, SetFinSound
  <2>4. CASE HostAck(n)
    <3>1. CASE record.status = "terminal" /\ Fin.state = "completed"
      <4>1. record'.fin = record.fin /\ record'.status = record.status
        BY <1>1, <2>4 DEF HostAck, AfterAck, FTypeOK, Record
      <4> QED BY <1>1, <3>1, <4>1, RecordStaysSound DEF Sound, Fin
    <3>2. CASE ~(record.status = "terminal" /\ Fin.state = "completed")
      BY <1>4, <2>4, <3>2 DEF HostAck, AfterAck, Fin
    <3> QED BY <3>1, <3>2
  <2> QED BY <1>9, <2>1, <2>2, <2>3, <2>4 DEF HostStep
<1>10. ASSUME NEW n \in Renderer, Renew(n) PROVE Sound(record)'
  <2>1. CASE record.status = "terminal"
    BY <1>8, <1>10, <2>1 DEF Renew
  <2>2. CASE record.status # "terminal"
    <3>1. SetFin(Fin)
      BY <1>10, <2>2 DEF Renew
    <3> QED BY <1>2, <3>1, SetFinSound
  <2> QED BY <2>1, <2>2
<1>11. CASE Save \/ Reload \/ UNCHANGED fvars
  BY <1>4, <1>11 DEF Save, Reload, fvars, host
<1>12. ASSUME NEW n \in Renderer, RendererStep(n) \/ LearningFails(n) \/ CloseOutFails(n)
       PROVE  Sound(record)'
  BY <1>4, <1>12 DEF RendererStep, StartFinalization, Reattach, PushAnswer, CloseOut, SendComplete,
                     SendAck, LearningFails, CloseOutFails, host
<1> QED BY <1>5, <1>6, <1>7, <1>9, <1>10, <1>11, <1>12 DEF FNext

LEMMA DiskSound ==
  ASSUME FIndInv, [FNext]_fvars
  PROVE  Sound(disk)'
<1>1. Sound(record) /\ Sound(disk)
  BY DEF FIndInv
<1>2. disk' = disk \/ disk' = record
  BY DEF FNext, HostStep, RendererStep, RunEnds, LeaseExpires, Save, HostRestart, Reload,
         HostClaim, HostComplete, HostLearned, HostAck, StartFinalization, Reattach, PushAnswer,
         CloseOut, SendComplete, SendAck, Renew, LearningFails, CloseOutFails, fvars
<1>3. ASSUME disk' = disk PROVE Sound(disk)'
  BY <1>1, <1>3, RecordStaysSound DEF Sound
<1>4. ASSUME disk' = record PROVE Sound(disk)'
  BY <1>1, <1>4, RecordStaysSound DEF Sound
<1> QED BY <1>2, <1>3, <1>4

LEMMA FNextInd == FIndInv /\ [FNext]_fvars => FIndInv'
<1> SUFFICES ASSUME FIndInv, [FNext]_fvars PROVE FIndInv'
  OBVIOUS
<1>1. FTypeOK'
  BY FNextTypeOK DEF FIndInv
<1> QED BY <1>1, RenderersInd, RecordSound, DiskSound DEF FIndInv

(* FIndInv is the strengthening of the closeout's properties: what is true *)
(* of the Host's record must be true of the disk, for a restart swaps them.*)
THEOREM FIndInvHolds == FSpec => []FIndInv
BY FInitInd, FNextInd, PTL DEF FSpec

-----------------------------------------------------------------------------
(* Safety *)

(* Only the owner of a claim that did its whole closeout has it completed. *)
THEOREM OwnerFinishedIt == FSpec => []FinishedByOwner
<1>1. FIndInv => FinishedByOwner
  BY DEF FIndInv, Sound, FinishedByOwner, Fin
<1> QED BY <1>1, FIndInvHolds, PTL

(* A closeout completes after its learning was settled, whatever interrupts*)
(* the settlement.                                                         *)
THEOREM LearnedFirst == FSpec => []CompletedIsLearned
<1>1. FIndInv => CompletedIsLearned
  BY DEF FIndInv, Sound, CompletedIsLearned, Fin
<1> QED BY <1>1, FIndInvHolds, PTL

(* No record, in the Host or on disk, is released before its closeout.     *)
THEOREM NoEarlyAck == FSpec => []AckedIsCompleted
<1>1. FIndInv => AckedIsCompleted
  BY DEF FIndInv, Sound, AckedIsCompleted, Fin
<1> QED BY <1>1, FIndInvHolds, PTL

(* Compare-and-swap: while the Host lives, no step takes over a claim that *)
(* has not expired or a closeout that is completed.                        *)
THEOREM ClaimHeld == FSpec => ClaimIsHeld
<1> DEFINE Kept == /\ record'.fin.by = Fin.by /\ record'.fin.epoch = Fin.epoch
                   /\ Fin.state = "completed" => record'.fin.state = "completed"
<1>1. ASSUME FIndInv, [FNext]_fvars, crashes' = crashes, Held(Fin) \/ Fin.state = "completed"
      PROVE  Kept
  <2>1. FTypeOK /\ Sound(record)
    BY <1>1 DEF FIndInv
  <2>2. Fin \in Finalization /\ record.status # "active"
    BY <1>1, <2>1 DEF FTypeOK, Record, Fin, Sound, Held, Unclaimed
  <2>3. ASSUME NEW f, SetFin(f), f.by = Fin.by, f.epoch = Fin.epoch,
               Fin.state = "completed" => f.state = "completed"
        PROVE  Kept
    BY <2>1, <2>3 DEF SetFin, FTypeOK, Record
  <2>4. ASSUME record' = record PROVE Kept
    BY <2>4 DEF Fin
  <2>5. ASSUME NEW n \in Renderer, SetFin(AfterClaim(Fin, n)) PROVE Kept
    <3>1. AfterClaim(Fin, n) = Fin
      BY <1>1, <2>2, AfterClaimLemma
    <3> QED BY <2>3, <2>5, <3>1
  <2>6. CASE RunEnds
    BY <2>2, <2>6 DEF RunEnds
  <2>7. CASE LeaseExpires
    <3>1. SetFin([Fin EXCEPT !.expired = TRUE]) /\ Fin.state = "claimed"
      BY <2>7 DEF LeaseExpires, Held
    <3>2. [Fin EXCEPT !.expired = TRUE].by = Fin.by /\ [Fin EXCEPT !.expired = TRUE].epoch = Fin.epoch
      BY <2>2 DEF Finalization
    <3> QED BY <2>3, <3>1, <3>2
  <2>8. CASE HostRestart
    BY <1>1, <2>1, <2>8 DEF HostRestart, FTypeOK
  <2>9. ASSUME NEW n \in Renderer, HostStep(n) \/ Renew(n) PROVE Kept
    <3>1. CASE HostClaim(n)
      BY <2>4, <2>5, <3>1 DEF HostClaim
    <3>2. CASE HostComplete(n)
      BY <2>4, <2>5, <3>2 DEF HostComplete, host
    <3>3. CASE HostLearned(n)
      <4>1. epoch[n] \in Nat /\ SetFin(AfterComplete(Fin, n, epoch[n]))
        BY <2>1, <3>3 DEF FTypeOK, HostLearned
      <4> QED BY <2>2, <2>3, <4>1, AfterCompleteLemma
    <3>4. CASE HostAck(n)
      BY <2>1, <3>4 DEF HostAck, AfterAck, Fin, FTypeOK, Record
    <3>5. CASE Renew(n)
      <4>1. CASE record.status = "terminal"
        BY <2>5, <3>5, <4>1 DEF Renew
      <4>2. CASE record.status # "terminal"
        BY <2>3, <3>5, <4>2 DEF Renew
      <4> QED BY <4>1, <4>2
    <3> QED BY <2>9, <3>1, <3>2, <3>3, <3>4, <3>5 DEF HostStep
  <2>10. CASE Save \/ Reload \/ UNCHANGED fvars
    BY <2>4, <2>10 DEF Save, Reload, fvars, host
  <2>11. ASSUME NEW n \in Renderer, RendererStep(n) \/ LearningFails(n) \/ CloseOutFails(n)
         PROVE  Kept
    BY <2>4, <2>11 DEF RendererStep, StartFinalization, Reattach, PushAnswer, CloseOut,
                       SendComplete, SendAck, LearningFails, CloseOutFails, host
  <2> QED BY <1>1, <2>6, <2>7, <2>8, <2>9, <2>10, <2>11 DEF FNext
<1>2. FIndInv /\ [FNext]_fvars =>
        [(crashes' = crashes /\ (Held(Fin) \/ Fin.state = "completed")) => Kept]_fvars
  BY <1>1
<1> QED BY <1>2, FIndInvHolds, PTL DEF FSpec, ClaimIsHeld

===============================================================================
