--------------------------- MODULE HostRunsProofs ---------------------------
(***************************************************************************)
(* The Host drives its queue only through the methods of PiRunQueue, so    *)
(* what is proved of the queue holds in the Host; the occupancy of the     *)
(* sessions, for any number of runs, sessions and reloads; what the state  *)
(* file keeps of the turns, for any number of deaths of the Host; the      *)
(* types.  And, for Hosts whose turns carry no Goal Contract and run no    *)
(* provider stage and whose renderer does not reload, that queued work can *)
(* always be claimed, that what is running is in the hands of the pump,    *)
(* and that the Host does what SessionRuns promises.                       *)
(***************************************************************************)
EXTENDS HostRunsRestart, RunQueueProofs

-----------------------------------------------------------------------------
(* The queue in the Host *)

LEMMA HostStepIsQueueStep == QIndInv /\ [Next]_vars => [QNext]_qvars
<1> SUFFICES ASSUME QIndInv, [Next]_vars PROVE QNext \/ UNCHANGED qvars
  OBVIOUS
<1>0. NoMsg \in MsgId \cup {NoMsg} /\ SessionOf \in [RunId -> SessionId]
  BY SessionOfAssumption
<1>1. ASSUME NEW r \in RunId, EnqueueRun(r) \/ CancelRun(r) PROVE QNext
  BY <1>0, <1>1 DEF EnqueueRun, CancelRun, QNext
<1>2. ASSUME EditQueue PROVE QNext
  BY <1>2 DEF EditQueue, QNext
<1>3. ASSUME NEW r \in RunId, NEW m \in MsgId \cup {NoMsg},
             QueueFollowUp(r, m) \/ SteerFollowUp(r, m)
      PROVE  QNext
  BY <1>3 DEF QueueFollowUp, SteerFollowUp, QNext
<1>4. ASSUME NEW r \in RunId, NEW st, EndTurn(r, st) PROVE QNext \/ UNCHANGED qvars
  BY <1>0, <1>4 DEF EndTurn, QNext, qvars
<1>5. ASSUME PumpClaim PROVE QNext
  <2>1. FreeSessions \in SUBSET SessionId
    BY DEF FreeSessions
  <2> QED BY <1>5, <2>1 DEF PumpClaim, QNext
<1>6. ASSUME NEW st, PumpSettle(st) PROVE QNext \/ UNCHANGED qvars
  <2>1. CASE Settleable(pump.run) = {}
    BY <1>6, <2>1 DEF PumpSettle, qvars
  <2>2. CASE Settleable(pump.run) # {}
    <3>1. PICK i \in DOMAIN items : items[i].run = pump.run
      BY <2>2 DEF Settleable, Of
    <3>2. items[i] \in Item
      BY SeqFacts DEF QIndInv, Good
    <3>3. Settle(pump.run) /\ pump.run \in RunId
      BY <1>6, <2>2, <3>1, <3>2 DEF PumpSettle, Item
    <3> QED BY <3>3 DEF QNext
  <2> QED BY <2>1, <2>2
<1>7. ASSUME NEW r \in RunId,
             SubmitTurn(r) \/ ContractReady(r) \/ EndProviderStopped(r) \/ EndUnverifiable(r)
      PROVE  UNCHANGED qvars
  BY <1>7 DEF SubmitTurn, ContractReady, EndProviderStopped, EndUnverifiable, qvars
<1>8. ASSUME PumpSubmit \/ PumpNoTurn \/ RendererReload \/ UNCHANGED vars
      PROVE  UNCHANGED qvars
  BY <1>8 DEF PumpSubmit, PumpNoTurn, RendererReload, vars, qvars
<1> QED
  BY <1>1, <1>2, <1>3, <1>4, <1>5, <1>6, <1>7, <1>8 DEF Next

(* Whatever turns, lifecycle refusals and the pump do, the array changes   *)
(* only as PiRunQueue allows; a refused call leaves a legal step behind.   *)
THEOREM HostDrivesQueue == Spec => QSpec
<1>1. Init => QIndInv /\ QInit
  BY QInitInd DEF Init
<1>2. QIndInv /\ [Next]_vars => QIndInv'
  BY HostStepIsQueueStep, QNextInd
<1>3. Spec => []QIndInv
  BY <1>1, <1>2, PTL DEF Spec
<1>4. QIndInv /\ [Next]_vars => [QNext]_qvars
  BY HostStepIsQueueStep
<1> QED BY <1>1, <1>3, <1>4, PTL DEF Spec, QSpec

(* In the Host, too, at most Max items are queued or running, and no two   *)
(* share an identity, although a refused call leaves its change behind.    *)
COROLLARY HostQueueSafe == Spec => [](CapacityRespected /\ IdentityUnique)
BY HostDrivesQueue, CapacityHolds, IdentityHolds, PTL

-----------------------------------------------------------------------------
(* Occupancy *)

(* The pump submits a run it has claimed.                                  *)
PumpOK ==
  /\ pump \in [pc : {"idle", "claimed", "turn", "settle"}, run : RunId \cup {NoRun}]
  /\ pump.pc = "claimed" => pump.run \in RunId

(* Who occupies a session, or has its recorder, is a turn of that session  *)
(* that has not ended; a turn in progress has its attachment record; and   *)
(* without contracts, nothing lies between the look at the session and its *)
(* occupation.                                                             *)
OccInv ==
  /\ phase \in [RunId -> {"none", "admitting", "active", "unverifiable", "done"}]
  /\ attach \in [RunId -> {"none", "active", "terminal"}]
  /\ active \in [SessionId -> RunId \cup {NoRun}]
  /\ recorder \in [SessionId -> RunId \cup {NoRun}]
  /\ PumpOK
  /\ \A s \in SessionId :
       /\ active[s] # NoRun => phase[active[s]] = "active" /\ SessionOf[active[s]] = s
       /\ recorder[s] # NoRun =>
            phase[recorder[s]] \in {"active", "unverifiable"} /\ SessionOf[recorder[s]] = s
  /\ \A r \in RunId : phase[r] \in {"active", "unverifiable"} => attach[r] # "none"
  /\ \A r \in RunId : phase[r] = "admitting" => GoalContracts
  /\ \A r \in RunId : phase[r] = "active" /\ ~GoalContracts => active[SessionOf[r]] = r

LEMMA InitOcc == Init => OccInv
BY HostAssumption DEF Init, OccInv, PumpOK, IdlePump

LEMMA NextOcc == QIndInv /\ OccInv /\ [Next]_vars => OccInv'
<1> SUFFICES ASSUME QIndInv, OccInv, [Next]_vars PROVE OccInv'
  OBVIOUS
<1> USE SessionOfAssumption, HostAssumption DEF OccInv
<1>1. ASSUME UNCHANGED <<phase, attach, active, recorder>>, PumpOK' PROVE OccInv'
  BY <1>1
<1>2. ASSUME NEW r \in RunId, Admit(r), PumpOK' PROVE OccInv'
  <2>1. CASE ~GoalContracts
    BY <1>2, <2>1 DEF Admit, CanAdmit, OpenTurn, Occupy
  <2>2. CASE GoalContracts
    BY <1>2, <2>2 DEF Admit, CanAdmit
  <2> QED BY <2>1, <2>2
<1>3. ASSUME NEW r \in RunId, ContractReady(r) PROVE OccInv'
  <2>1. GoalContracts /\ PumpOK'
    BY <1>3 DEF ContractReady, PumpOK
  <2> QED BY <1>3, <2>1 DEF ContractReady, OpenTurn, Occupy
<1>4. ASSUME NEW r, pump' = PumpAfterTurn(r) PROVE PumpOK'
  BY <1>4 DEF PumpAfterTurn, PumpOK
<1>5. ASSUME NEW r \in RunId, NEW st, EndTurn(r, st) PROVE OccInv'
  BY <1>4, <1>5 DEF EndTurn, CloseTurn
<1>6. ASSUME NEW r \in RunId, EndProviderStopped(r) PROVE OccInv'
  BY <1>4, <1>6 DEF EndProviderStopped
<1>7. ASSUME NEW r \in RunId, EndUnverifiable(r) PROVE OccInv'
  BY <1>4, <1>7 DEF EndUnverifiable, CloseTurn
<1>8. ASSUME NEW r \in RunId, SubmitTurn(r) PROVE OccInv'
  BY <1>2, <1>8 DEF SubmitTurn, PumpOK
<1>9. ASSUME PumpSubmit PROVE OccInv'
  <2>1. pump.run \in RunId /\ Admit(pump.run) /\ PumpOK'
    BY <1>9 DEF PumpSubmit, PumpOK
  <2> QED BY <1>2, <2>1
<1>10. ASSUME PumpClaim PROVE OccInv'
  <2>1. Ready(FreeSessions) # {} /\ Ready(FreeSessions) \in SUBSET DOMAIN items
    BY <1>10 DEF PumpClaim, Claim, Ready
  <2>2. items[NextItem] \in Item
    BY <2>1, PositionLemma DEF NextItem
  <2>3. PumpOK'
    BY <1>10, <2>2 DEF PumpClaim, PumpOK, Item
  <2> QED BY <1>1, <1>10, <2>3 DEF PumpClaim, turns
<1>11. ASSUME NEW r \in RunId, NEW m, QueueFollowUp(r, m) \/ SteerFollowUp(r, m) PROVE OccInv'
  BY <1>1, <1>11 DEF QueueFollowUp, SteerFollowUp, journal, turns, PumpOK
<1>12. ASSUME NEW r \in RunId, EnqueueRun(r) \/ CancelRun(r) PROVE OccInv'
  BY <1>1, <1>12 DEF EnqueueRun, CancelRun, turns, PumpOK
<1>13. ASSUME NEW st, PumpSettle(st) PROVE OccInv'
  BY <1>1, <1>13 DEF PumpSettle, IdlePump, turns, PumpOK
<1>14. ASSUME EditQueue \/ PumpNoTurn \/ RendererReload \/ UNCHANGED vars PROVE OccInv'
  BY <1>1, <1>14 DEF EditQueue, PumpNoTurn, RendererReload, IdlePump, vars, journal, turns,
                   PumpOK
<1> QED
  BY <1>3, <1>5, <1>6, <1>7, <1>8, <1>9, <1>10, <1>11, <1>12, <1>13, <1>14 DEF Next

THEOREM OccInvHolds == Spec => [](QIndInv /\ OccInv)
<1>1. Init => QIndInv /\ OccInv
  BY QInitInd, InitOcc DEF Init
<1>2. (QIndInv /\ OccInv) /\ [Next]_vars => (QIndInv /\ OccInv)'
  BY HostStepIsQueueStep, QNextInd, NextOcc
<1> QED BY <1>1, <1>2, PTL DEF Spec

(* No turn leaves its session occupied, or its recorder registered, when   *)
(* it ends, however the turns of a session overlap.                        *)
THEOREM NoStaleOccupantHolds == Spec => []NoStaleOccupant
<1>1. OccInv => NoStaleOccupant
  BY HostAssumption DEF OccInv, NoStaleOccupant
<1> QED BY <1>1, OccInvHolds, PTL

(* ADR-0041 holds of turns without a Goal Contract.                        *)
THEOREM OneTurnWithoutContracts ==
  ASSUME ~GoalContracts
  PROVE  Spec => []OneTurnPerSession
<1>1. OccInv => OneTurnPerSession
  BY DEF OccInv, OneTurnPerSession
<1> QED BY <1>1, OccInvHolds, PTL

-----------------------------------------------------------------------------
(* Restarts *)

(* An attachment record that is "active" has its turn, one that waits for  *)
(* its contract has none yet, and what is on disk is never newer.          *)
AttachInv ==
  \A r \in RunId :
    /\ attach[r] = "active" => phase[r] \in {"active", "unverifiable"}
    /\ phase[r] = "admitting" => attach[r] = "none"
    /\ disk.attach[r] # "none" => attach[r] # "none"

DiskOK == Good(disk.items) /\ disk.attach \in [RunId -> {"none", "active", "terminal"}]

RInv == QIndInv /\ OccInv /\ AttachInv /\ DiskOK

LEMMA NextAttach == QIndInv /\ OccInv /\ AttachInv /\ [Next]_vars /\ UNCHANGED disk => AttachInv'
<1> SUFFICES ASSUME QIndInv, OccInv, AttachInv, [Next]_vars, UNCHANGED disk PROVE AttachInv'
  OBVIOUS
<1> USE DEF AttachInv, OccInv
<1>1. ASSUME NEW r \in RunId, Admit(r) PROVE AttachInv'
  <2>1. CASE ~GoalContracts
    BY <1>1, <2>1 DEF Admit, CanAdmit, OpenTurn, Occupy
  <2>2. CASE GoalContracts
    BY <1>1, <2>2 DEF Admit, CanAdmit
  <2> QED BY <2>1, <2>2
<1>2. ASSUME NEW r \in RunId, ContractReady(r) PROVE AttachInv'
  BY <1>2 DEF ContractReady, OpenTurn, Occupy
<1>3. ASSUME NEW r \in RunId,
             attach' = [attach EXCEPT ![r] = "terminal"], phase' = [phase EXCEPT ![r] = "done"]
      PROVE  AttachInv'
  BY <1>3
<1>4. ASSUME NEW r \in RunId, NEW st, EndTurn(r, st) PROVE AttachInv'
  BY <1>3, <1>4 DEF EndTurn, CloseTurn
<1>5. ASSUME NEW r \in RunId, EndProviderStopped(r) \/ EndUnverifiable(r) PROVE AttachInv'
  BY <1>3, <1>5 DEF EndProviderStopped, EndUnverifiable, CloseTurn
<1>6. ASSUME NEW r \in RunId, SubmitTurn(r) PROVE AttachInv'
  BY <1>1, <1>6 DEF SubmitTurn
<1>7. ASSUME PumpSubmit PROVE AttachInv'
  BY <1>1, <1>7 DEF PumpSubmit, PumpOK
<1>8. ASSUME UNCHANGED <<attach, phase>> PROVE AttachInv'
  BY <1>8
<1>9. ASSUME NEW r \in RunId, EnqueueRun(r) \/ CancelRun(r) PROVE AttachInv'
  BY <1>8, <1>9 DEF EnqueueRun, CancelRun, turns
<1>10. ASSUME NEW r \in RunId, NEW m, QueueFollowUp(r, m) \/ SteerFollowUp(r, m) PROVE AttachInv'
  BY <1>8, <1>10 DEF QueueFollowUp, SteerFollowUp, journal, turns
<1>11. ASSUME NEW st, PumpSettle(st) PROVE AttachInv'
  BY <1>8, <1>11 DEF PumpSettle, turns
<1>12. ASSUME EditQueue \/ PumpClaim \/ PumpNoTurn \/ RendererReload \/ UNCHANGED vars PROVE AttachInv'
  BY <1>8, <1>12 DEF EditQueue, PumpClaim, PumpNoTurn, RendererReload, vars, journal, turns
<1> QED
  BY <1>2, <1>4, <1>5, <1>6, <1>7, <1>9, <1>10, <1>11, <1>12 DEF Next

(* The next Host starts from a snapshot of an earlier moment.              *)
LEMMA RestartKeepsRInv == ASSUME RInv, HostRestart PROVE RInv'
<1>1. /\ items' = disk.items /\ attach' = Recovered(disk.attach)
      /\ phase' = [r \in RunId |-> IF attach'[r] = "none" THEN "none" ELSE "done"]
      /\ recorder' = [s \in SessionId |-> NoRun] /\ active' = [s \in SessionId |-> NoRun]
      /\ disk' = disk
      /\ pump' \in {IdlePump, IF pump.pc = "turn" THEN [pump EXCEPT !.pc = "settle"] ELSE pump}
  BY DEF HostRestart
<1>2. Good(items') /\ Good(disk'.items)
  BY <1>1 DEF RInv, DiskOK
<1>3. QIndInv' /\ DiskOK'
  <2>1. QIndInv'
    BY <1>2 DEF QIndInv, Good, LiveCount, Where, Distinct, Receipts, OnePicked
  <2>2. DiskOK'
    BY <1>1 DEF RInv, DiskOK, Good, LiveCount, Where, Distinct, Receipts, OnePicked
  <2> QED BY <2>1, <2>2
<1>4. \A r \in RunId : attach'[r] = IF disk.attach[r] = "active" THEN "terminal" ELSE disk.attach[r]
  BY <1>1 DEF Recovered
<1>5. attach' \in [RunId -> {"none", "active", "terminal"}]
  BY <1>1 DEF Recovered, RInv, DiskOK
<1>6. PumpOK'
  BY <1>1 DEF IdlePump, PumpOK, RInv, OccInv
<1>7. OccInv'
  BY <1>1, <1>4, <1>5, <1>6 DEF OccInv
<1>8. AttachInv'
  BY <1>1, <1>4 DEF AttachInv, RInv, DiskOK
<1> QED BY <1>3, <1>7, <1>8 DEF RInv

LEMMA RNextRInv == RInv /\ [RNext]_rvars => RInv'
<1> SUFFICES ASSUME RInv, [RNext]_rvars PROVE RInv'
  OBVIOUS
<1>1. ASSUME [Next]_vars, UNCHANGED disk PROVE RInv'
  <2>1. QIndInv'
    BY <1>1, HostStepIsQueueStep, QNextInd DEF RInv
  <2>2. OccInv'
    BY <1>1, NextOcc DEF RInv
  <2>3. AttachInv'
    BY <1>1, NextAttach DEF RInv
  <2>4. DiskOK'
    BY <1>1 DEF RInv, DiskOK, Good, LiveCount, Where, Distinct, Receipts, OnePicked
  <2> QED BY <2>1, <2>2, <2>3, <2>4 DEF RInv
<1>2. ASSUME Save PROVE RInv'
  <2>1. /\ disk'.items = items /\ disk'.attach = attach
        /\ UNCHANGED <<items, attach, phase, recorder, active, pump>>
    BY <1>2 DEF Save, Snapshot, journal, turns
  <2>2. QIndInv'
    BY <2>1 DEF RInv, QIndInv, Good, LiveCount, Where, Distinct, Receipts, OnePicked
  <2>3. DiskOK'
    BY <2>1 DEF RInv, OccInv, DiskOK, QIndInv, Good, LiveCount, Where, Distinct, Receipts, OnePicked
  <2>4. OccInv' /\ AttachInv'
    BY <2>1 DEF RInv, OccInv, PumpOK, AttachInv
  <2> QED BY <2>2, <2>3, <2>4 DEF RInv
<1>3. ASSUME UNCHANGED rvars PROVE [Next]_vars /\ UNCHANGED disk
  BY <1>3 DEF rvars
<1> QED BY <1>1, <1>2, <1>3, RestartKeepsRInv DEF RNext

LEMMA RInvHolds == RSpec => []RInv
<1>1. RInit => RInv
  <2> SUFFICES ASSUME RInit PROVE RInv
    OBVIOUS
  <2>1. QIndInv /\ OccInv
    BY QInitInd, InitOcc DEF RInit, Init
  <2>2. disk.items = items /\ disk.attach = attach
    BY DEF RInit, Snapshot
  <2>3. DiskOK
    BY <2>1, <2>2 DEF DiskOK, QIndInv, OccInv
  <2>4. AttachInv
    BY <2>2 DEF RInit, Init, AttachInv
  <2> QED BY <2>1, <2>3, <2>4 DEF RInv
<1> QED BY <1>1, RNextRInv, PTL DEF RSpec

(* A renderer that reattaches to an "active" record finds its turn, after  *)
(* any number of crashes, at whatever moment the file was last written.    *)
THEOREM ActiveHasWitnessHolds == RSpec => []ActiveHasWitness
<1>1. RInv => ActiveHasWitness
  BY DEF RInv, AttachInv, ActiveHasWitness
<1> QED BY <1>1, RInvHolds, PTL

(* A run whose turn reached the disk is executed by no later Host, though  *)
(* its item may still be queued there.                                     *)
THEOREM BegunIsNotResumedHolds == RSpec => BegunIsNotResumed
<1> DEFINE Once == \A r \in RunId : (disk.attach[r] # "none" /\ phase[r] # "active")
                                       => phase'[r] # "active"
<1>1. RInv /\ [RNext]_rvars => Once
  <2> SUFFICES ASSUME RInv, [RNext]_rvars, NEW r \in RunId, attach[r] # "none",
                      phase[r] # "active", phase[r] # "admitting"
               PROVE  phase'[r] # "active"
    BY DEF RInv, AttachInv
  <2>1. ASSUME NEW q \in RunId, Admit(q) PROVE phase'[r] # "active"
    <3>1. q # r
      BY <2>1 DEF Admit, CanAdmit
    <3> QED BY <2>1, <3>1 DEF Admit, Occupy, RInv, OccInv
  <2>2. ASSUME NEW q \in RunId, ContractReady(q) PROVE phase'[r] # "active"
    <3>1. q # r
      BY <2>2 DEF ContractReady
    <3> QED BY <2>2, <3>1 DEF ContractReady, Occupy, RInv, OccInv
  <2>3. ASSUME NEW q \in RunId, phase' = [phase EXCEPT ![q] = "done"] PROVE phase'[r] # "active"
    BY <2>3 DEF RInv, OccInv
  <2>4. ASSUME NEW q \in RunId, NEW st, EndTurn(q, st) PROVE phase'[r] # "active"
    BY <2>3, <2>4 DEF EndTurn, CloseTurn
  <2>5. ASSUME NEW q \in RunId, EndProviderStopped(q) \/ EndUnverifiable(q)
        PROVE  phase'[r] # "active"
    BY <2>3, <2>5 DEF EndProviderStopped, EndUnverifiable, CloseTurn
  <2>6. ASSUME NEW q \in RunId, SubmitTurn(q) PROVE phase'[r] # "active"
    BY <2>1, <2>6 DEF SubmitTurn
  <2>7. ASSUME PumpSubmit PROVE phase'[r] # "active"
    BY <2>1, <2>7 DEF PumpSubmit, RInv, OccInv, PumpOK
  <2>8. ASSUME NEW q \in RunId, EnqueueRun(q) \/ CancelRun(q) PROVE phase'[r] # "active"
    BY <2>8 DEF EnqueueRun, CancelRun, turns
  <2>9. ASSUME NEW q \in RunId, NEW m, QueueFollowUp(q, m) \/ SteerFollowUp(q, m)
        PROVE  phase'[r] # "active"
    BY <2>9 DEF QueueFollowUp, SteerFollowUp, turns
  <2>10. ASSUME NEW st, PumpSettle(st) PROVE phase'[r] # "active"
    BY <2>10 DEF PumpSettle, turns
  <2>11. ASSUME EditQueue \/ PumpClaim \/ PumpNoTurn \/ RendererReload PROVE phase'[r] # "active"
    BY <2>11 DEF EditQueue, PumpClaim, PumpNoTurn, RendererReload, turns
  <2>12. ASSUME Next PROVE phase'[r] # "active"
    BY <2>2, <2>4, <2>5, <2>6, <2>7, <2>8, <2>9, <2>10, <2>11, <2>12 DEF Next
  <2>13. ASSUME HostRestart PROVE phase'[r] # "active"
    BY <2>13 DEF HostRestart
  <2>14. ASSUME Save \/ UNCHANGED rvars PROVE phase'[r] # "active"
    BY <2>14 DEF Save, rvars, vars, turns
  <2> QED BY <2>12, <2>13, <2>14 DEF RNext
<1> QED BY <1>1, RInvHolds, PTL DEF RSpec, BegunIsNotResumed

-----------------------------------------------------------------------------
(* What a step of the queue does to the runs it holds *)

OnePerRun(q) == \A i, j \in DOMAIN q : q[i].run = q[j].run => i = j
SameState(a, b) == a.run = b.run /\ a.status = b.status

(* The same runs in the same states, in whatever order.                    *)
Edited(q, new) ==
  /\ OnePerRun(new)
  /\ \A j \in DOMAIN new : \E i \in DOMAIN q : SameState(new[j], q[i])
  /\ \A i \in DOMAIN q : \E j \in DOMAIN new : SameState(new[j], q[i])

(* Another run, in the state st; what was terminal may be gone.            *)
Added(q, new, r, st) ==
  /\ OnePerRun(new)
  /\ \A i \in DOMAIN q : q[i].run # r
  /\ \E j \in DOMAIN new : new[j].run = r /\ new[j].status = st
  /\ \A j \in DOMAIN new :
       \/ new[j].run = r /\ new[j].status = st
       \/ \E i \in DOMAIN q : SameState(new[j], q[i])

(* The item p is now in the state st.                                      *)
Moved(q, new, p, st) ==
  /\ p \in DOMAIN q /\ DOMAIN new = DOMAIN q /\ OnePerRun(new)
  /\ new[p].run = q[p].run /\ new[p].status = st
  /\ \A j \in DOMAIN q : j # p => new[j] = q[j]

LEMMA EditSteps ==
  ASSUME QIndInv, OnePerRun(items)
  PROVE  /\ EditQueue => Edited(items, items')
         /\ \A s \in SessionId : PauseSession(s) => Edited(items, items')
<1>0. \A i \in DOMAIN items : items[i] \in Item
  BY SeqFacts DEF QIndInv, Good
<1>1. ASSUME DOMAIN items' = DOMAIN items, \A i \in DOMAIN items : SameState(items'[i], items[i])
      PROVE  Edited(items, items')
  BY <1>1 DEF Edited, OnePerRun, SameState
<1>2. ASSUME NEW s \in SessionId, PauseSession(s) PROVE Edited(items, items')
  <2>1. DOMAIN items' = DOMAIN items
    BY <1>2 DEF PauseSession
  <2>2. \A i \in DOMAIN items : SameState(items'[i], items[i])
    BY <1>0, <1>2 DEF PauseSession, Stamped, SameState, Item
  <2> QED BY <1>1, <2>1, <2>2
<1>3. ASSUME NEW r \in RunId, Start(r) PROVE Edited(items, items')
  <2>1. DOMAIN items' = DOMAIN items
    BY <1>3 DEF Start
  <2>2. \A i \in DOMAIN items : SameState(items'[i], items[i])
    BY <1>0, <1>3 DEF Start, Stamped, Released, SameState, Item
  <2> QED BY <1>1, <2>1, <2>2
<1>4. ASSUME NEW r \in RunId, Update(r) PROVE Edited(items, items')
  <2>1. DOMAIN items' = DOMAIN items
    BY <1>4 DEF Update
  <2>2. \A i \in DOMAIN items : SameState(items'[i], items[i])
    BY <1>0, <1>4 DEF Update, Stamped, SameState, Item
  <2> QED BY <1>1, <2>1, <2>2
<1>5. ASSUME NEW s \in SessionId, Reorder(s) PROVE Edited(items, items')
  <2>1. PICK pi : /\ Embeds(pi, items', items)
                  /\ DOMAIN items' = DOMAIN items
                  /\ \A i \in DOMAIN items : items'[i].status = items[pi[i]].status
                  /\ \A i \in DOMAIN items : \E k \in DOMAIN items : pi[k] = i
    BY <1>5, ReorderLemma
  <2>2. /\ \A i \in DOMAIN items : pi[i] \in DOMAIN items /\ SameState(items'[i], items[pi[i]])
        /\ \A i, j \in DOMAIN items : pi[i] = pi[j] => i = j
    BY <2>1 DEF Embeds, SameWork, SameState
  <2>3. ASSUME NEW i \in DOMAIN items', NEW j \in DOMAIN items', items'[i].run = items'[j].run
        PROVE  i = j
    <3>1. items[pi[i]].run = items[pi[j]].run
      BY <2>1, <2>2, <2>3 DEF SameState
    <3>2. pi[i] = pi[j]
      BY <2>1, <2>2, <3>1 DEF OnePerRun
    <3> QED BY <2>1, <2>2, <3>2
  <2>4. \A i \in DOMAIN items : \E j \in DOMAIN items' : SameState(items'[j], items[i])
    BY <2>1, <2>2
  <2>5. OnePerRun(items')
    BY <2>3 DEF OnePerRun
  <2>6. \A j \in DOMAIN items' : \E i \in DOMAIN items : SameState(items'[j], items[i])
    BY <2>1, <2>2
  <2> QED BY <2>4, <2>5, <2>6 DEF Edited
<1> QED BY <1>2, <1>3, <1>4, <1>5 DEF EditQueue

LEMMA AddSteps ==
  ASSUME QIndInv, OnePerRun(items), NEW r \in RunId, NEW m \in MsgId \cup {NoMsg}
  PROVE  /\ \A act : Enqueue(r, m, act) => Added(items, items', r, "queued")
         /\ Of(items, r) = {} /\ RecordAcceptedSteer(r, m) => Added(items, items', r, "settled")
<1>1. ASSUME NEW q \in Seq(Item), NEW e, NEW pi, e.run = r, Of(items, r) = {},
             \A k \in DOMAIN q : pi[k] \in DOMAIN items /\ q[k] = items[pi[k]],
             \A k, l \in DOMAIN q : pi[k] = pi[l] => k = l,
             items' = Append(q, e)
      PROVE  Added(items, items', r, e.status)
  <2> DEFINE n == Len(q)
  <2>1. n \in Nat /\ DOMAIN q = 1..n
    BY <1>1, SeqFacts
  <2>2. /\ DOMAIN items' = 1..(n + 1) /\ items'[n + 1] = e
        /\ \A i \in 1..n : items'[i] = q[i]
    BY <1>1, <2>1
  <2>3. \A i \in DOMAIN items' : (i \in DOMAIN q /\ items'[i] = q[i]) \/ (i = n + 1 /\ items'[i] = e)
    BY <2>1, <2>2
  <2>4. \A i \in DOMAIN items : items[i].run # r
    BY <1>1 DEF Of
  <2>5. OnePerRun(items')
    BY <1>1, <2>3, <2>4 DEF OnePerRun
  <2>6. n + 1 \in DOMAIN items'
    BY <2>1, <2>2
  <2>7. \A j \in DOMAIN items' :
          \/ items'[j].run = r /\ items'[j].status = e.status
          \/ \E i \in DOMAIN items : SameState(items'[j], items[i])
    BY <1>1, <2>3 DEF SameState
  <2> HIDE DEF n
  <2> QED BY <1>1, <2>2, <2>4, <2>5, <2>6, <2>7 DEF Added
<1>2. ASSUME NEW act, Enqueue(r, m, act) PROVE Added(items, items', r, "queued")
  <2> DEFINE kept == Retained(items)
             e == NewItem(r, m, act, "queued", Revision(kept) + 1)
  <2>1. kept \in Seq(Item)
    BY RetainedLemma DEF QIndInv, Good
  <2>2. PICK pi : Embeds(pi, kept, items) /\ \A k \in DOMAIN kept : kept[k] = items[pi[k]]
    BY RetainedLemma DEF QIndInv, Good
  <2>3. Of(items, r) = {} /\ items' = Append(kept, e)
    BY <1>2 DEF Enqueue, CanEnqueue
  <2> HIDE DEF kept
  <2>4. e.run = r /\ e.status = "queued"
    BY DEF NewItem
  <2> HIDE DEF e
  <2>5. /\ \A k \in DOMAIN kept : pi[k] \in DOMAIN items /\ kept[k] = items[pi[k]]
        /\ \A k, l \in DOMAIN kept : pi[k] = pi[l] => k = l
    BY <2>2 DEF Embeds
  <2> QED BY <1>1, <2>1, <2>3, <2>4, <2>5
<1>3. ASSUME Of(items, r) = {}, RecordAcceptedSteer(r, m) PROVE Added(items, items', r, "settled")
  <2> DEFINE e == NewItem(r, m, "steer", "settled", Revision(items) + 1)
             pi == [k \in DOMAIN items |-> k]
  <2>1. items' = Append(items, e) /\ items \in Seq(Item)
    BY <1>3 DEF RecordAcceptedSteer, QIndInv, Good
  <2>2. e.run = r /\ e.status = "settled"
    BY DEF NewItem
  <2> HIDE DEF e
  <2>3. \A k \in DOMAIN items : pi[k] = k
    OBVIOUS
  <2> HIDE DEF pi
  <2> QED BY <1>1, <1>3, <2>1, <2>2, <2>3
<1> QED BY <1>2, <1>3

(* The item whose status a method changes.                                 *)
LEMMA MoveSteps ==
  ASSUME QIndInv, OnePerRun(items)
  PROVE  /\ PumpClaim => /\ Moved(items, items', NextItem, "running")
                         /\ Claimable(items[NextItem]) /\ Session(items[NextItem]) \in FreeSessions
         /\ \A r \in RunId : MarkInterrupted(r) =>
              \E p : Moved(items, items', p, "interrupted") /\ items[p].run = r /\ Queued(items[p])
         /\ \A r \in RunId : Settle(r) =>
              \E p : Moved(items, items', p, "settled") /\ items[p].run = r /\ Live(items[p])
<1>1. ASSUME NEW p \in DOMAIN items, NEW e, e.run = items[p].run,
             items' = [items EXCEPT ![p] = e]
      PROVE  Moved(items, items', p, e.status)
  BY <1>1 DEF Moved, OnePerRun
<1>2. ASSUME NEW p \in DOMAIN items, NEW st
      PROVE  LET e == Stamped([items[p] EXCEPT !.status = st])
             IN  e.run = items[p].run /\ e.status = st
  <2>1. items[p] \in Item
    BY SeqFacts DEF QIndInv, Good
  <2> QED BY <2>1 DEF Stamped, Item
<1>3. ASSUME PumpClaim
      PROVE  /\ Moved(items, items', NextItem, "running")
             /\ Claimable(items[NextItem]) /\ Session(items[NextItem]) \in FreeSessions
  <2> DEFINE p == NextItem
             e == [items[p] EXCEPT !.status = "running", !.paused = FALSE, !.manual = FALSE]
  <2>1. /\ Ready(FreeSessions) \in SUBSET DOMAIN items /\ Ready(FreeSessions) # {}
        /\ \A i \in Ready(FreeSessions) : Claimable(items[i]) /\ Session(items[i]) \in FreeSessions
    BY <1>3 DEF PumpClaim, Claim, Ready
  <2>2. p \in Ready(FreeSessions) /\ p \in DOMAIN items /\ items[p] \in Item
    BY <2>1, PositionLemma DEF NextItem
  <2>3. items' = [items EXCEPT ![p] = e]
    BY <1>3 DEF PumpClaim, Claim, ClaimAt, NextItem
  <2> HIDE DEF p
  <2>4. e.run = items[p].run /\ e.status = "running"
    BY <2>2 DEF Item
  <2> HIDE DEF e
  <2>5. Moved(items, items', p, "running")
    BY <1>1, <2>2, <2>3, <2>4
  <2> QED BY <2>1, <2>2, <2>5 DEF p
<1>4. ASSUME NEW r \in RunId, MarkInterrupted(r)
      PROVE  \E p : Moved(items, items', p, "interrupted") /\ items[p].run = r /\ Queued(items[p])
  <2> DEFINE p == FirstOf(Of(items, r))
             e == Stamped([items[p] EXCEPT !.status = "interrupted"])
  <2>1. /\ Of(items, r) \in SUBSET DOMAIN items /\ Of(items, r) # {}
        /\ Queued(items[p]) /\ items' = [items EXCEPT ![p] = e]
    BY <1>4 DEF MarkInterrupted, Of
  <2>2. p \in Of(items, r) /\ p \in DOMAIN items
    BY <2>1, PositionLemma
  <2> HIDE DEF p
  <2>3. e.run = items[p].run /\ e.status = "interrupted"
    BY <1>2, <2>2
  <2> HIDE DEF e
  <2>4. Moved(items, items', p, "interrupted")
    BY <1>1, <2>1, <2>2, <2>3
  <2>5. items[p].run = r
    BY <2>2 DEF Of
  <2> QED BY <2>1, <2>4, <2>5
<1>5. ASSUME NEW r \in RunId, Settle(r)
      PROVE  \E p : Moved(items, items', p, "settled") /\ items[p].run = r /\ Live(items[p])
  <2> DEFINE p == FirstOf(Settleable(r))
             e == Stamped([items[p] EXCEPT !.status = "settled"])
  <2>1. /\ Settleable(r) \in SUBSET DOMAIN items /\ Settleable(r) # {}
        /\ items' = [items EXCEPT ![p] = e]
    BY <1>5 DEF Settle, Settleable, Of
  <2>2. p \in Settleable(r) /\ p \in DOMAIN items
    BY <2>1, PositionLemma
  <2> HIDE DEF p
  <2>3. e.run = items[p].run /\ e.status = "settled"
    BY <1>2, <2>2
  <2> HIDE DEF e
  <2>4. Moved(items, items', p, "settled")
    BY <1>1, <2>1, <2>2, <2>3
  <2>5. items[p].run = r /\ Live(items[p])
    BY <2>2 DEF Settleable, Of
  <2> QED BY <2>4, <2>5
<1> QED BY <1>3, <1>4, <1>5

-----------------------------------------------------------------------------
(* Types *)

(* The latest pending event of a run is one of its events.                 *)
LEMMA PendingLemma ==
  ASSUME NEW e \in Seq(Event), NEW r, Pending(e, r) # {}
  PROVE  \E k \in Pending(e, r) : /\ \A l \in Pending(e, r) : l <= k
                                  /\ PreviousEvent(r, e) = e[k]
                                  /\ e[k] \in Event /\ e[k].run = r
<1>1. Len(e) \in Nat /\ DOMAIN e = 1..Len(e) /\ \A k \in DOMAIN e : e[k] \in Event
  BY SeqFacts
<1>2. Pending(e, r) \in SUBSET (1..Len(e)) /\ \A k \in Pending(e, r) : e[k].run = r
  BY <1>1 DEF Pending
<1> DEFINE k == CHOOSE k \in Pending(e, r) : \A l \in Pending(e, r) : l <= k
<1>3. k \in Pending(e, r) /\ \A l \in Pending(e, r) : l <= k
  BY <1>1, <1>2, GreatestExists
<1>4. PreviousEvent(r, e) = e[k]
  BY DEF PreviousEvent
<1> HIDE DEF k
<1> QED BY <1>1, <1>2, <1>3, <1>4

LType ==
  /\ life \in [RunId -> LifeState \cup {"none"}]
  /\ last \in [SessionId -> RunId \cup {NoRun}]
  /\ ent \in [RunId -> Seq(Event)]
  /\ deferred \in [RunId -> Seq(RunId)]
  /\ reloads \in Nat

LEMMA RecordAllType ==
  ASSUME LType, NEW s \in SessionId, NEW e \in Seq(Event), NEW d \in Seq(RunId),
         RecordAll(s, e, d)
  PROVE  /\ life' \in [RunId -> LifeState \cup {"none"}]
         /\ last' \in [SessionId -> RunId \cup {NoRun}]
<1>1. \A r \in RunId : Pending(e, r) # {} => PreviousEvent(r, e).state \in LifeState
  BY PendingLemma DEF Event
<1>2. life' \in [RunId -> LifeState \cup {"none"}]
  BY <1>1 DEF RecordAll, LType, LifeState
<1> DEFINE fl == Flushed(e, d)
           k == CHOOSE k \in fl : \A l \in fl : l <= k
<1>3. fl # {} => d[k] \in RunId
  <2>1. Len(d) \in Nat /\ fl \in SUBSET (1..Len(d)) /\ \A l \in fl : d[l] \in RunId
    BY SeqFacts DEF Flushed
  <2> HIDE DEF fl
  <2>2. ASSUME fl # {} PROVE k \in fl
    BY <2>1, <2>2, GreatestExists
  <2> QED BY <2>1, <2>2
<1>4. e # <<>> => e[Len(e)].run \in RunId
  <2>1. ASSUME e # <<>> PROVE e[Len(e)] \in Event
    BY <2>1
  <2> QED BY <2>1 DEF Event
<1>5. last' = [last EXCEPT ![s] = IF fl # {} THEN d[k]
                                  ELSE IF e # <<>> THEN e[Len(e)].run ELSE @]
  BY DEF RecordAll
<1> HIDE DEF fl, k
<1>6. last' \in [SessionId -> RunId \cup {NoRun}]
  BY <1>3, <1>4, <1>5 DEF LType
<1> QED BY <1>2, <1>6

LEMMA InitLType == Init => LType
<1> SUFFICES ASSUME Init PROVE LType
  OBVIOUS
<1>1. <<>> \in Seq(Event) /\ <<>> \in Seq(RunId)
  OBVIOUS
<1> QED BY <1>1 DEF Init, LType

LEMMA NextLType == QIndInv /\ OccInv /\ LType /\ [Next]_vars => LType'
<1> SUFFICES ASSUME QIndInv, OccInv, LType, [Next]_vars PROVE LType'
  OBVIOUS
<1> USE SessionOfAssumption
<1>1. ASSUME NEW r \in RunId, NEW st \in LifeState, NEW ok, RecordOrRefuse(r, st, ok)
      PROVE  /\ life' \in [RunId -> LifeState \cup {"none"}]
             /\ last' \in [SessionId -> RunId \cup {NoRun}]
  <2>1. Record(r, st) \/ UNCHANGED <<life, last>>
    BY <1>1, Zenon DEF RecordOrRefuse
  <2>2. CASE Record(r, st)
    BY <2>2 DEF Record, LType
  <2>3. CASE UNCHANGED <<life, last>>
    BY <2>3 DEF LType
  <2> QED BY <2>1, <2>2, <2>3
<1>2. ASSUME NEW r \in RunId, OpenTurn(r)
      PROVE  /\ ent' \in [RunId -> Seq(Event)] /\ deferred' \in [RunId -> Seq(RunId)]
  <2>1. <<[run |-> r, state |-> "running"]>> \in Seq(Event)
    BY DEF Event, LifeState
  <2>2. <<>> \in Seq(Event) /\ <<>> \in Seq(RunId)
    OBVIOUS
  <2> QED BY <1>2, <2>1, <2>2 DEF OpenTurn, LType
<1>3. ASSUME NEW r \in RunId, Admit(r), UNCHANGED <<life, last, reloads>> PROVE LType'
  BY <1>2, <1>3 DEF Admit, LType
<1>4. ASSUME NEW r \in RunId, NEW st \in TerminalState, CloseTurn(r, st), UNCHANGED reloads
      PROVE  LType'
  <2> DEFINE rec == recorder[SessionOf[r]]
             e == [run |-> r, state |-> st]
             ent1 == IF CanRecord(r, st, ent[r]) /\ rec # NoRun
                     THEN [ent EXCEPT ![rec] = Append(@, e)] ELSE ent
  <2>1. e \in Event /\ rec \in RunId \cup {NoRun}
    BY DEF Event, LifeState, OccInv
  <2>2. ent1 \in [RunId -> Seq(Event)]
    <3> HIDE DEF e, rec
    <3>1. \A q \in RunId : Append(ent[q], e) \in Seq(Event)
      BY <2>1, AppendFacts DEF LType
    <3> QED BY <2>1, <3>1 DEF LType
  <2>3. /\ RecordAll(SessionOf[r], ent1[r], deferred[r])
        /\ ent' = [ent1 EXCEPT ![r] = <<>>] /\ deferred' = [deferred EXCEPT ![r] = <<>>]
    BY <1>4 DEF CloseTurn
  <2> HIDE DEF ent1, e, rec
  <2>4. /\ life' \in [RunId -> LifeState \cup {"none"}]
        /\ last' \in [SessionId -> RunId \cup {NoRun}]
    <3>1. ent1[r] \in Seq(Event) /\ deferred[r] \in Seq(RunId) /\ SessionOf[r] \in SessionId
      BY <2>2 DEF LType
    <3> QED BY <2>3, <3>1, RecordAllType
  <2>5. <<>> \in Seq(Event) /\ <<>> \in Seq(RunId)
    OBVIOUS
  <2> QED BY <1>4, <2>2, <2>3, <2>4, <2>5 DEF LType
<1>5. ASSUME NEW r \in RunId, NEW st \in TerminalState, EndTurn(r, st) PROVE LType'
  BY <1>4, <1>5 DEF EndTurn
<1>6. ASSUME NEW r \in RunId, EndUnverifiable(r) PROVE LType'
  BY <1>4, <1>6 DEF EndUnverifiable, TerminalState
<1>7. ASSUME NEW r \in RunId, EndProviderStopped(r) PROVE LType'
  <2>1. /\ RecordAll(SessionOf[r], ent[r], <<>>)
        /\ ent' = [ent EXCEPT ![r] = <<>>] /\ deferred' = [deferred EXCEPT ![r] = <<>>]
        /\ reloads' = reloads
    BY <1>7 DEF EndProviderStopped
  <2>2. /\ ent[r] \in Seq(Event) /\ SessionOf[r] \in SessionId
        /\ <<>> \in Seq(RunId) /\ <<>> \in Seq(Event)
    BY DEF LType
  <2>3. /\ life' \in [RunId -> LifeState \cup {"none"}]
        /\ last' \in [SessionId -> RunId \cup {NoRun}]
    BY <2>1, <2>2, RecordAllType
  <2> QED BY <2>1, <2>2, <2>3 DEF LType
<1>8. ASSUME NEW r \in RunId, SubmitTurn(r) PROVE LType'
  BY <1>3, <1>8 DEF SubmitTurn
<1>9. ASSUME PumpSubmit PROVE LType'
  BY <1>3, <1>9 DEF PumpSubmit, OccInv, PumpOK
<1>10. ASSUME NEW r \in RunId, ContractReady(r) PROVE LType'
  BY <1>2, <1>10 DEF ContractReady, LType
<1>11. ASSUME NEW r \in RunId, NEW m, QueueFollowUp(r, m) PROVE LType'
  <2>1. recorder[SessionOf[r]] \in RunId
    BY <1>11 DEF QueueFollowUp, OccInv
  <2>2. \A q \in RunId : Append(deferred[q], r) \in Seq(RunId)
    BY AppendFacts DEF LType
  <2> QED BY <1>11, <2>1, <2>2 DEF QueueFollowUp, LType, journal
<1>12. ASSUME NEW r \in RunId, NEW m, SteerFollowUp(r, m) PROVE LType'
  BY <1>12 DEF SteerFollowUp, LType, journal, turns
<1>13. ASSUME NEW r \in RunId, EnqueueRun(r) \/ CancelRun(r) PROVE LType'
  <2>1. "queued" \in LifeState /\ "interrupted" \in LifeState
    BY DEF LifeState, TerminalState
  <2>2. CASE EnqueueRun(r)
    BY <2>1, <2>2 DEF EnqueueRun, Record, LType, turns
  <2>3. CASE CancelRun(r)
    BY <1>1, <2>1, <2>3 DEF CancelRun, LType, turns
  <2> QED BY <1>13, <2>2, <2>3
<1>14. ASSUME PumpClaim PROVE LType'
  <2>1. Ready(FreeSessions) # {} /\ Ready(FreeSessions) \in SUBSET DOMAIN items
    BY <1>14 DEF PumpClaim, Claim, Ready
  <2>2. items[NextItem].run \in RunId /\ "running" \in LifeState
    BY <2>1, PositionLemma DEF NextItem, Item, LifeState
  <2> QED BY <1>1, <1>14, <2>2 DEF PumpClaim, LType, turns
<1>15. ASSUME NEW st \in PumpOutcome, PumpSettle(st) PROVE LType'
  <2>1. st \in LifeState
    BY DEF PumpOutcome, LifeState, TerminalState
  <2>2. CASE Settleable(pump.run) = {}
    BY <1>15, <2>2 DEF PumpSettle, LType, turns
  <2>3. CASE Settleable(pump.run) # {}
    <3>1. PICK i \in DOMAIN items : items[i].run = pump.run
      BY <2>3 DEF Settleable, Of
    <3>2. items[i] \in Item
      BY <3>1, SeqFacts DEF QIndInv, Good
    <3>3. pump.run \in RunId
      BY <3>1, <3>2 DEF Item
    <3> QED BY <1>1, <1>15, <2>1, <2>3, <3>3 DEF PumpSettle, LType, turns
  <2> QED BY <2>2, <2>3
<1>16. ASSUME EditQueue \/ PumpNoTurn \/ RendererReload \/ UNCHANGED vars PROVE LType'
  BY <1>16 DEF EditQueue, PumpNoTurn, RendererReload, vars, journal, turns, LType
<1> QED
  BY <1>5, <1>6, <1>7, <1>8, <1>9, <1>10, <1>11, <1>12, <1>13, <1>14, <1>15, <1>16 DEF Next

DirtyOK == dirty \in BOOLEAN

LEMMA NextDirty == DirtyOK /\ [Next]_vars => DirtyOK'
<1> SUFFICES ASSUME [Next]_vars PROVE dirty' = TRUE \/ dirty' = dirty
  BY Zenon DEF DirtyOK
<1>1. CASE Next
  BY <1>1, Zenon DEF Next, EnqueueRun, CancelRun, RecordOrRefuse, EditQueue, SubmitTurn,
     ContractReady, Admit, OpenTurn, QueueFollowUp, SteerFollowUp, EndTurn, CloseTurn,
     EndProviderStopped, EndUnverifiable, PumpClaim, PumpSubmit, PumpNoTurn, PumpSettle,
     RendererReload
<1> QED BY <1>1 DEF vars

HostInv == QIndInv /\ OccInv /\ LType /\ DirtyOK

LEMMA HostInvHolds == Spec => []HostInv
<1>1. Init => HostInv
  BY QInitInd, InitOcc, InitLType DEF Init, HostInv, DirtyOK
<1>2. HostInv /\ [Next]_vars => HostInv'
  BY HostStepIsQueueStep, QNextInd, NextOcc, NextLType, NextDirty DEF HostInv
<1> QED BY <1>1, <1>2, PTL DEF Spec

(* Every variable of the Host keeps its type, whatever turns overlap and   *)
(* whatever the lifecycle table refuses.                                   *)
THEOREM HTypeCorrect == Spec => []HTypeOK
<1>1. HostInv => HTypeOK
  BY DEF HostInv, QIndInv, Good, OccInv, PumpOK, LType, DirtyOK, HTypeOK, QTypeOK
<1> QED BY <1>1, HostInvHolds, PTL

-----------------------------------------------------------------------------
(* The lifecycle table *)

LEMMA Transitions ==
  /\ "running" \in SameRunTransitions["queued"]
  /\ "queued" \notin SameRunTransitions["queued"] /\ "queued" \notin SameRunTransitions["running"]
  /\ \A st \in TerminalState : SameRunTransitions[st] = {}
BY DEF SameRunTransitions, TerminalState

(* A run that has a committed event and none pending is judged by it.      *)
LEMMA CommittedEvent ==
  ASSUME LType, NEW r \in RunId, NEW st, life[r] # "none"
  PROVE  /\ CanRecord(r, st, <<>>) => /\ st \in SameRunTransitions[life[r]]
                                      /\ life[r] \notin TerminalState /\ st # "queued"
         /\ life[r] = "queued" => CanRecord(r, "running", <<>>)
<1>1. Pending(<<>>, r) = {}
  BY DEF Pending
<1>2. PreviousEvent(r, <<>>) = [run |-> r, state |-> life[r]]
  BY <1>1 DEF PreviousEvent
<1>3. ASSUME NEW x
      PROVE  CanRecord(r, x, <<>>) <=> life[r] # x /\ x \in SameRunTransitions[life[r]]
  <2> DEFINE prev == [run |-> r, state |-> life[r]]
             next == [run |-> r, state |-> x]
  <2>1. /\ prev.run = r /\ next.run = r /\ prev.state = life[r] /\ next.state = x
        /\ prev # next <=> life[r] # x
    OBVIOUS
  <2>2. CanRecord(r, x, <<>>) <=> IsLegal(prev, next)
    BY <1>2 DEF CanRecord
  <2> HIDE DEF prev, next
  <2>3. r # NoRun
    BY HostAssumption
  <2> QED BY <2>1, <2>2, <2>3 DEF IsLegal
<1>4. life[r] \in {"queued", "running"} \cup TerminalState
  BY DEF LType, LifeState
<1>5. CanRecord(r, st, <<>>) => life[r] \notin TerminalState
  BY <1>3, Transitions
<1>6. CanRecord(r, st, <<>>) => st # "queued"
  BY <1>3, <1>4, <1>5, Transitions
<1> QED BY <1>3, <1>5, <1>6, Transitions

-----------------------------------------------------------------------------
(* Turns without contracts and provider stages, one life of the renderer *)

(* A queued run has not begun, and its "queued" event is committed or will *)
(* be, when the turn that now occupies the session ends.                   *)
Waiting(r) ==
  /\ phase[r] = "none" /\ attach[r] = "none" /\ pump.run # r
  /\ \/ life[r] = "queued"
     \/ /\ life[r] = "none" /\ active[SessionOf[r]] # NoRun
        /\ \E k \in DOMAIN deferred[active[SessionOf[r]]] : deferred[active[SessionOf[r]]][k] = r

(* The array q has an item of the run r in the state st.                   *)
Has(q, r, st) == \E i \in DOMAIN q : q[i].run = r /\ q[i].status = st

(* Where the run of an item in the state st is.                            *)
Held(r, st) ==
  /\ st = "running" => pump.run = r
  /\ st = "queued" => Waiting(r)
  /\ pump.pc = "claimed" /\ pump.run = r => st = "running"

(* Attachment and phase agree; the recorder of a turn holds at most its    *)
(* "running", and only for other runs of the session a deferred event.     *)
TurnOK(r) ==
  /\ phase[r] \in {"none", "active", "done"}
  /\ phase[r] = "none" <=> attach[r] = "none"
  /\ phase[r] = "done" <=> attach[r] = "terminal"
  /\ phase[r] = "active" => /\ life[r] \in {"none", "running"}
                            /\ ent[r] \in {<<>>, <<[run |-> r, state |-> "running"]>>}
  /\ phase[r] # "active" => ent[r] = <<>> /\ deferred[r] = <<>>
  /\ \A k \in DOMAIN deferred[r] : deferred[r][k] # r /\ SessionOf[deferred[r][k]] = SessionOf[r]

(* A claimed run is "running" and has no turn yet; then it has one, or not.*)
PumpInv ==
  /\ pump.pc = "idle" <=> pump.run = NoRun
  /\ pump.pc = "claimed" => life[pump.run] = "running" /\ phase[pump.run] = "none"
  /\ pump.pc = "turn" => phase[pump.run] = "active"
  /\ pump.pc = "settle" => phase[pump.run] # "active"

LInv ==
  /\ OnePerRun(items)
  /\ recorder = active
  /\ PumpInv
  /\ \A r \in RunId, st \in Status : Has(items, r, st) => Held(r, st)
  /\ \A r \in RunId : TurnOK(r)

LEMMA InitLInv == Init => LInv
<1> SUFFICES ASSUME Init PROVE LInv
  OBVIOUS
<1>1. items = <<>> /\ DOMAIN items = {}
  BY DEF Init, QInit
<1>2. OnePerRun(items) /\ \A r \in RunId, st \in Status : ~Has(items, r, st)
  BY <1>1 DEF OnePerRun, Has
<1>3. recorder = active /\ PumpInv
  BY DEF Init, PumpInv, IdlePump
<1>4. \A r \in RunId : TurnOK(r)
  BY DEF Init, TurnOK
<1> QED BY <1>2, <1>3, <1>4 DEF LInv

(* What the end of a turn does: the turn's own events concern no other     *)
(* run, and every deferred run that has no event gets "queued".            *)
LEMMA CloseLemma ==
  ASSUME HostInv, LInv, NEW r \in RunId, NEW st \in TerminalState, phase[r] = "active",
         active[SessionOf[r]] = r, CloseTurn(r, st)
  PROVE  /\ ent' = [ent EXCEPT ![r] = <<>>]
         /\ \A q \in RunId : q # r =>
              life'[q] = IF life[q] = "none" /\ \E k \in DOMAIN deferred[r] : deferred[r][k] = q
                         THEN "queued" ELSE life[q]
<1> DEFINE e == [run |-> r, state |-> st]
           ent1 == IF CanRecord(r, st, ent[r]) /\ r # NoRun
                   THEN [ent EXCEPT ![r] = Append(@, e)] ELSE ent
           d == deferred[r]
<1>1. /\ RecordAll(SessionOf[r], ent1[r], d)
      /\ ent' = [ent1 EXCEPT ![r] = <<>>]
  BY DEF CloseTurn, LInv
<1>2. ent' = [ent EXCEPT ![r] = <<>>]
  BY <1>1
<1>3. ent1[r] = ent[r] \/ ent1[r] = Append(ent[r], e)
  BY DEF HostInv, LType
<1>4. ent[r] \in {<<>>, <<[run |-> r, state |-> "running"]>>}
  BY DEF LInv, TurnOK
<1>5. \A k \in DOMAIN ent1[r] : ent1[r][k].run = r
  <2>1. e \in Event /\ ent[r] \in Seq(Event) /\ e.run = r
    BY DEF HostInv, LType, Event, LifeState
  <2>2. \A k \in DOMAIN ent[r] : ent[r][k].run = r
    BY <1>4
  <2>3. Len(ent[r]) \in Nat /\ DOMAIN ent[r] = 1..Len(ent[r])
    BY <2>1, SeqFacts
  <2> HIDE DEF e
  <2>4. /\ DOMAIN Append(ent[r], e) = 1..(Len(ent[r]) + 1)
        /\ Append(ent[r], e)[Len(ent[r]) + 1] = e
        /\ \A k \in 1..Len(ent[r]) : Append(ent[r], e)[k] = ent[r][k]
    BY <2>1, AppendFacts
  <2>5. \A k \in 1..(Len(ent[r]) + 1) : k = Len(ent[r]) + 1 \/ k \in 1..Len(ent[r])
    BY <2>3
  <2>6. \A k \in DOMAIN Append(ent[r], e) : Append(ent[r], e)[k].run = r
    BY <2>1, <2>2, <2>3, <2>4, <2>5
  <2> HIDE DEF ent1
  <2> QED BY <1>3, <2>2, <2>6
<1> HIDE DEF ent1, e
<1>6. \A q \in RunId : q # r => Pending(ent1[r], q) = {}
  BY <1>5 DEF Pending
<1>7. ASSUME NEW q \in RunId, q # r
      PROVE  /\ (\E k \in Flushed(ent1[r], d) : d[k] = q)
                   <=> life[q] = "none" /\ \E k \in DOMAIN d : d[k] = q
             /\ life'[q] = IF \E k \in Flushed(ent1[r], d) : d[k] = q THEN "queued" ELSE life[q]
  <2>1. Pending(ent1[r], q) = {}
    BY <1>6, <1>7
  <2>2. life'[q] = IF \E k \in Flushed(ent1[r], d) : d[k] = q THEN "queued" ELSE life[q]
    BY <1>1, <2>1 DEF RecordAll
  <2>3. (\E k \in Flushed(ent1[r], d) : d[k] = q)
          <=> life[q] = "none" /\ \E k \in DOMAIN d : d[k] = q
    BY <2>1 DEF Flushed
  <2> QED BY <2>2, <2>3
<1> QED BY <1>2, <1>7

(* What keeps a run where it is.                                           *)
LEMMA HeldKept ==
  ASSUME HostInv, NEW r \in RunId, NEW st, Held(r, st),
         phase'[r] = phase[r], attach'[r] = attach[r],
         life'[r] = life[r] \/ life'[r] = "queued",
         life'[r] = "none" => active'[SessionOf[r]] = active[SessionOf[r]],
         \A q \in RunId : \A k \in DOMAIN deferred[q] :
            life'[r] = "none" /\ active[SessionOf[r]] = q /\ deferred[q][k] = r
               => \E l \in DOMAIN deferred'[q] : deferred'[q][l] = r,
         pump'.run = pump.run, pump'.pc = "claimed" => pump.pc = "claimed"
  PROVE  Held(r, st)'
<1>1. active[SessionOf[r]] \in RunId \cup {NoRun}
  BY SessionOfAssumption DEF HostInv, OccInv
<1>2. Waiting(r) => Waiting(r)'
  BY <1>1 DEF Waiting
<1> QED BY <1>2 DEF Held

(* A step of the queue.                                                    *)
LEMMA QueueKeepsLInv ==
  ASSUME HostInv, LInv,
         UNCHANGED <<phase, attach, recorder, active, ent, pump>>,
         OnePerRun(items'),
         \A r \in RunId : phase[r] = "active" \/ pump.run = r => life'[r] = life[r],
         \A r \in RunId, st \in Status : Has(items', r, st) => Held(r, st)',
         \A r \in RunId :
           /\ phase[r] # "active" => deferred'[r] = deferred[r]
           /\ \A k \in DOMAIN deferred'[r] :
                 deferred'[r][k] # r /\ SessionOf[deferred'[r][k]] = SessionOf[r]
  PROVE  LInv'
<1>1. \A r \in RunId : TurnOK(r)'
  BY DEF LInv, TurnOK
<1>2. PumpInv'
  BY DEF LInv, PumpInv, HostInv, OccInv, PumpOK
<1>3. OnePerRun(items)'
  BY DEF OnePerRun
<1>4. \A r \in RunId, st \in Status : Has(items, r, st)' => Held(r, st)'
  BY DEF Has
<1>5. recorder' = active'
  BY DEF LInv
<1> QED BY <1>1, <1>2, <1>3, <1>4, <1>5 DEF LInv

LEMMA DeferredFacts ==
  ASSUME LInv
  PROVE  \A r \in RunId : \A k \in DOMAIN deferred[r] :
            deferred[r][k] # r /\ SessionOf[deferred[r][k]] = SessionOf[r]
BY DEF LInv, TurnOK

LEMMA EnqueueKeepsLInv == ASSUME HostInv, LInv, NEW r \in RunId, EnqueueRun(r) PROVE LInv'
<1>1. Fresh(r) /\ life' = [life EXCEPT ![r] = "queued"]
  BY CommittedEvent DEF EnqueueRun, Record, HostInv
<1>2. UNCHANGED <<phase, attach, recorder, active, ent, deferred, pump>>
  BY DEF EnqueueRun, turns
<1>3. Added(items, items', r, "queued")
  BY AddSteps DEF EnqueueRun, HostInv, LInv
<1>4. phase[r] = "none" /\ attach[r] = "none" /\ pump.run # r /\ life[r] = "none"
  BY <1>1 DEF Fresh
<1>5. life'[r] = "queued" /\ \A q \in RunId : q # r => life'[q] = life[q]
  BY <1>1 DEF HostInv, LType
<1>6. ASSUME NEW q \in RunId, NEW st \in Status, Has(items', q, st) PROVE Held(q, st)'
  <2>1. CASE q = r
    <3>1. st = "queued"
      BY <1>3, <1>6, <2>1 DEF Has, Added, SameState
    <3> QED BY <1>2, <1>4, <1>5, <2>1, <3>1 DEF Held, Waiting
  <2>2. CASE q # r
    <3>1. Has(items, q, st)
      BY <1>3, <1>6, <2>2 DEF Has, Added, SameState
    <3>2. Held(q, st)
      BY <3>1 DEF LInv
    <3> QED BY <1>2, <1>5, <2>2, <3>2, HeldKept
  <2> QED BY <2>1, <2>2
<1>7. OnePerRun(items')
  BY <1>3 DEF Added
<1>8. \A q \in RunId : phase[q] = "active" \/ pump.run = q => life'[q] = life[q]
  BY <1>4, <1>5
<1> QED BY <1>2, <1>6, <1>7, <1>8, DeferredFacts, QueueKeepsLInv

LEMMA EditKeepsLInv == ASSUME HostInv, LInv, EditQueue PROVE LInv'
<1>1. Edited(items, items') /\ UNCHANGED <<journal, turns, pump>>
  BY EditSteps DEF EditQueue, HostInv, LInv
<1>2. UNCHANGED <<life, phase, attach, recorder, active, ent, deferred, pump>>
  BY <1>1 DEF journal, turns
<1>3. ASSUME NEW q \in RunId, NEW st \in Status, Has(items', q, st) PROVE Held(q, st)'
  <2>1. Has(items, q, st)
    BY <1>1, <1>3 DEF Has, Edited, SameState
  <2>2. Held(q, st)
    BY <2>1 DEF LInv
  <2> QED BY <1>2, <2>2, HeldKept
<1>4. OnePerRun(items')
  BY <1>1 DEF Edited
<1> QED BY <1>2, <1>3, <1>4, DeferredFacts, QueueKeepsLInv

LEMMA SteerKeepsLInv ==
  ASSUME HostInv, LInv, NEW r \in RunId, NEW m \in MsgId \cup {NoMsg}, SteerFollowUp(r, m)
  PROVE  LInv'
<1>1. Added(items, items', r, "settled") /\ pump.run # r
  BY AddSteps DEF SteerFollowUp, Fresh, HostInv, LInv
<1>2. UNCHANGED <<life, phase, attach, recorder, active, ent, deferred, pump>>
  BY DEF SteerFollowUp, journal, turns
<1>3. ASSUME NEW q \in RunId, NEW st \in Status, Has(items', q, st) PROVE Held(q, st)'
  <2>1. CASE q = r
    <3>1. st = "settled"
      BY <1>1, <1>3, <2>1 DEF Has, Added, SameState
    <3> QED BY <1>1, <1>2, <2>1, <3>1 DEF Held
  <2>2. CASE q # r
    <3>1. Has(items, q, st)
      BY <1>1, <1>3, <2>2 DEF Has, Added, SameState
    <3>2. Held(q, st)
      BY <3>1 DEF LInv
    <3> QED BY <1>2, <3>2, HeldKept
  <2> QED BY <2>1, <2>2
<1>4. OnePerRun(items')
  BY <1>1 DEF Added
<1> QED BY <1>2, <1>3, <1>4, DeferredFacts, QueueKeepsLInv

LEMMA FollowUpKeepsLInv ==
  ASSUME HostInv, LInv, NEW r \in RunId, NEW m \in MsgId \cup {NoMsg}, QueueFollowUp(r, m)
  PROVE  LInv'
<1> DEFINE a == active[SessionOf[r]]
<1>1. Added(items, items', r, "queued")
  BY AddSteps DEF QueueFollowUp, HostInv, LInv
<1>2. /\ UNCHANGED <<life, phase, attach, recorder, active, ent, pump>>
      /\ deferred' = [deferred EXCEPT ![a] = Append(@, r)]
  BY DEF QueueFollowUp, journal, LInv
<1>3. phase[r] = "none" /\ attach[r] = "none" /\ pump.run # r /\ life[r] = "none"
  BY DEF QueueFollowUp, Fresh
<1>4. a \in RunId /\ a # NoRun /\ phase[a] = "active" /\ SessionOf[a] = SessionOf[r] /\ a # r
  BY <1>3, SessionOfAssumption, HostAssumption DEF QueueFollowUp, HostInv, OccInv
<1> HIDE DEF a
<1>5. /\ deferred[a] \in Seq(RunId) /\ deferred'[a] = Append(deferred[a], r)
      /\ \A q \in RunId : q # a => deferred'[q] = deferred[q]
  BY <1>2, <1>4 DEF HostInv, LType
<1>6. /\ Len(deferred[a]) \in Nat /\ DOMAIN deferred[a] = 1..Len(deferred[a])
      /\ DOMAIN deferred'[a] = 1..(Len(deferred[a]) + 1)
      /\ deferred'[a][Len(deferred[a]) + 1] = r
      /\ \A k \in 1..Len(deferred[a]) : deferred'[a][k] = deferred[a][k]
  BY <1>5, SeqFacts, AppendFacts
<1>7. /\ \E k \in DOMAIN deferred'[a] : deferred'[a][k] = r
      /\ \A k \in DOMAIN deferred'[a] :
           deferred'[a][k] = r \/ \E l \in DOMAIN deferred[a] : deferred'[a][k] = deferred[a][l]
      /\ \A l \in DOMAIN deferred[a] :
           \E k \in DOMAIN deferred'[a] : deferred'[a][k] = deferred[a][l]
  <2>1. \A k \in 1..(Len(deferred[a]) + 1) :
          k = Len(deferred[a]) + 1 \/ k \in 1..Len(deferred[a])
    BY <1>6
  <2>2. Len(deferred[a]) + 1 \in 1..(Len(deferred[a]) + 1)
    BY <1>6
  <2>3. \A k \in 1..Len(deferred[a]) : k \in 1..(Len(deferred[a]) + 1)
    BY <1>6
  <2> QED BY <1>6, <2>1, <2>2, <2>3
<1>8. ASSUME NEW q \in RunId, NEW st \in Status, Has(items', q, st) PROVE Held(q, st)'
  <2>1. CASE q = r
    <3>1. st = "queued"
      BY <1>1, <1>8, <2>1 DEF Has, Added, SameState
    <3>2. Waiting(r)'
      BY <1>2, <1>3, <1>4, <1>7 DEF Waiting, a
    <3> QED BY <1>2, <1>3, <2>1, <3>1, <3>2 DEF Held
  <2>2. CASE q # r
    <3>1. Has(items, q, st)
      BY <1>1, <1>8, <2>2 DEF Has, Added, SameState
    <3>2. Held(q, st)
      BY <3>1 DEF LInv
    <3>3. \A x \in RunId : \A k \in DOMAIN deferred[x] :
             deferred[x][k] = q => \E l \in DOMAIN deferred'[x] : deferred'[x][l] = q
      BY <1>5, <1>7
    <3> QED BY <1>2, <3>2, <3>3, HeldKept
  <2> QED BY <2>1, <2>2
<1>9. OnePerRun(items')
  BY <1>1 DEF Added
<1>10. ASSUME NEW x \in RunId
       PROVE  /\ phase[x] # "active" => deferred'[x] = deferred[x]
              /\ \A k \in DOMAIN deferred'[x] :
                    deferred'[x][k] # x /\ SessionOf[deferred'[x][k]] = SessionOf[x]
  <2>1. CASE x = a
    BY <1>4, <1>7, <2>1, DeferredFacts
  <2>2. CASE x # a
    BY <1>5, <2>2, DeferredFacts
  <2> QED BY <2>1, <2>2
<1> QED BY <1>2, <1>8, <1>9, <1>10, QueueKeepsLInv

LEMMA CancelKeepsLInv == ASSUME HostInv, LInv, NEW r \in RunId, CancelRun(r) PROVE LInv'
<1>1. PICK p : Moved(items, items', p, "interrupted") /\ items[p].run = r /\ Queued(items[p])
  BY MoveSteps DEF CancelRun, HostInv, LInv
<1>2. /\ UNCHANGED <<phase, attach, recorder, active, ent, deferred, pump>>
      /\ Record(r, "interrupted") \/ UNCHANGED <<life, last>>
  BY Zenon DEF CancelRun, RecordOrRefuse, turns
<1>3. \A q \in RunId : q # r => life'[q] = life[q]
  BY <1>2 DEF Record, HostInv, LType
<1>4. Has(items, r, "queued") /\ "queued" \in Status
  BY <1>1 DEF Moved, Has, Queued, Status
<1>5. Waiting(r)
  BY <1>4 DEF LInv, Held
<1>6. ASSUME NEW q \in RunId, NEW st \in Status, Has(items', q, st) PROVE Held(q, st)'
  <2>1. CASE q = r
    <3>1. st = "interrupted"
      BY <1>1, <1>6, <2>1 DEF Has, Moved, OnePerRun
    <3> QED BY <1>2, <1>5, <2>1, <3>1 DEF Held, Waiting
  <2>2. CASE q # r
    <3>1. Has(items, q, st)
      BY <1>1, <1>6, <2>2 DEF Has, Moved
    <3>2. Held(q, st)
      BY <3>1 DEF LInv
    <3> QED BY <1>2, <1>3, <2>2, <3>2, HeldKept
  <2> QED BY <2>1, <2>2
<1>7. OnePerRun(items')
  BY <1>1 DEF Moved
<1>8. \A q \in RunId : phase[q] = "active" \/ pump.run = q => life'[q] = life[q]
  BY <1>3, <1>5 DEF Waiting
<1> QED BY <1>2, <1>6, <1>7, <1>8, DeferredFacts, QueueKeepsLInv

(* A claim is never refused: the item that is next has its "queued".       *)
LEMMA ClaimAccepted ==
  ASSUME HostInv, LInv, PumpClaim
  PROVE  LET r == items[NextItem].run
         IN  /\ r \in RunId /\ Waiting(r) /\ life[r] = "queued"
             /\ Moved(items, items', NextItem, "running")
             /\ Record(r, "running") /\ pump' = [pc |-> "claimed", run |-> r]
             /\ UNCHANGED <<attach, turns>>
<1> DEFINE r == items[NextItem].run
<1>1. /\ Moved(items, items', NextItem, "running") /\ Queued(items[NextItem])
      /\ active[SessionOf[r]] = NoRun
  BY MoveSteps DEF HostInv, LInv, FreeSessions, Session, Claimable
<1>2. r \in RunId
  <2>1. items[NextItem] \in Item
    BY <1>1, SeqFacts DEF Moved, HostInv, QIndInv, Good
  <2> QED BY <2>1 DEF Item
<1>3. Waiting(r) /\ life[r] = "queued"
  <2>1. Has(items, r, "queued") /\ "queued" \in Status
    BY <1>1 DEF Moved, Has, Queued, Status
  <2>2. Waiting(r)
    BY <1>2, <2>1 DEF LInv, Held
  <2> QED BY <1>1, <2>2 DEF Waiting
<1>4. \E ok \in BOOLEAN :
        /\ RecordOrRefuse(r, "running", ok)
        /\ pump' = IF ok THEN [pc |-> "claimed", run |-> r] ELSE pump
  BY DEF PumpClaim
<1>5. UNCHANGED <<attach, turns>>
  BY DEF PumpClaim
<1>6. CanRecord(r, "running", <<>>)
  BY <1>2, <1>3, CommittedEvent DEF HostInv
<1> HIDE DEF r
<1>7. Record(r, "running") /\ pump' = [pc |-> "claimed", run |-> r]
  BY <1>4, <1>6, Zenon DEF RecordOrRefuse
<1> QED BY <1>1, <1>2, <1>3, <1>5, <1>7 DEF r

LEMMA ClaimKeepsLInv == ASSUME HostInv, LInv, PumpClaim PROVE LInv'
<1> DEFINE r == items[NextItem].run
           p == NextItem
<1>1. /\ r \in RunId /\ Waiting(r) /\ life[r] = "queued"
      /\ Moved(items, items', p, "running")
      /\ Record(r, "running") /\ pump' = [pc |-> "claimed", run |-> r]
  BY ClaimAccepted
<1>2. UNCHANGED <<phase, attach, recorder, active, ent, deferred>>
  BY ClaimAccepted DEF turns
<1>3. pump.pc = "idle" /\ pump.run = NoRun
  BY DEF PumpClaim, LInv, PumpInv
<1>4. items[p].run = r
  OBVIOUS
<1> HIDE DEF r, p
<1>5. life'[r] = "running" /\ \A q \in RunId : q # r => life'[q] = life[q]
  BY <1>1 DEF Record, HostInv, LType
<1>6. ASSUME NEW q \in RunId, NEW st \in Status, Has(items', q, st) PROVE Held(q, st)'
  <2>1. CASE q = r
    <3>1. st = "running"
      BY <1>1, <1>4, <1>6, <2>1 DEF Has, Moved, OnePerRun
    <3> QED BY <1>1, <2>1, <3>1 DEF Held
  <2>2. CASE q # r
    <3>1. Has(items, q, st)
      BY <1>1, <1>4, <1>6, <2>2 DEF Has, Moved
    <3>2. Held(q, st)
      BY <3>1 DEF LInv
    <3>3. st # "running"
      BY <1>3, <3>2, HostAssumption DEF Held
    <3> QED BY <1>1, <1>2, <1>5, <2>2, <3>2, <3>3 DEF Held, Waiting
  <2> QED BY <2>1, <2>2
<1>7. OnePerRun(items)' /\ recorder' = active'
  BY <1>1, <1>2 DEF Moved, OnePerRun, LInv
<1>8. PumpInv'
  BY <1>1, <1>2, <1>5, HostAssumption DEF PumpInv, Waiting
<1>9. \A q \in RunId : TurnOK(q)'
  BY <1>1, <1>2, <1>5 DEF LInv, TurnOK, Waiting
<1>10. \A q \in RunId, st \in Status : Has(items, q, st)' => Held(q, st)'
  BY <1>6 DEF Has
<1> QED BY <1>7, <1>8, <1>9, <1>10 DEF LInv

LEMMA SettleKeepsLInv == ASSUME HostInv, LInv, NEW st \in PumpOutcome, PumpSettle(st) PROVE LInv'
<1> DEFINE r == pump.run
<1>1. /\ UNCHANGED <<phase, attach, recorder, active, ent, deferred>>
      /\ pump' = IdlePump /\ pump.pc = "settle"
  BY DEF PumpSettle, turns
<1>2. r \in RunId /\ phase[r] # "active"
  BY <1>1 DEF LInv, PumpInv, HostInv, OccInv, PumpOK
<1>3. \/ Settleable(r) = {} /\ UNCHANGED <<items, life>>
      \/ Settle(r) /\ (UNCHANGED life \/ life' = [life EXCEPT ![r] = st])
  BY Zenon DEF PumpSettle, RecordOrRefuse, Record
<1>4. \A q \in RunId : q # r => life'[q] = life[q]
  BY <1>2, <1>3 DEF HostInv, LType
<1>5. /\ OnePerRun(items')
      /\ \A q \in RunId, s \in Status : Has(items', q, s) =>
           IF q = r THEN s \notin {"queued", "running"} ELSE Has(items, q, s)
  <2>1. CASE Settleable(r) = {} /\ UNCHANGED <<items, life>>
    BY <2>1 DEF LInv, Settleable, Of, Live, Has
  <2>2. CASE Settle(r)
    <3>1. PICK p : Moved(items, items', p, "settled") /\ items[p].run = r
      BY <1>2, <2>2, MoveSteps DEF HostInv, LInv
    <3> QED BY <3>1 DEF Moved, OnePerRun, Has
  <2> QED BY <1>3, <2>1, <2>2
<1> HIDE DEF r
<1>6. ASSUME NEW q \in RunId, NEW s \in Status, Has(items', q, s) PROVE Held(q, s)'
  <2>1. CASE q = r
    BY <1>1, <1>5, <1>6, <2>1 DEF Held, IdlePump
  <2>2. CASE q # r
    <3>1. Held(q, s)
      BY <1>5, <1>6, <2>2 DEF LInv
    <3>2. s # "running"
      BY <2>2, <3>1 DEF Held, r
    <3> QED BY <1>1, <1>4, <2>2, <3>1, <3>2, HostAssumption DEF Held, Waiting, IdlePump
  <2> QED BY <2>1, <2>2
<1>7. OnePerRun(items)' /\ recorder' = active' /\ PumpInv'
  BY <1>1, <1>5 DEF OnePerRun, LInv, PumpInv, IdlePump
<1>8. \A q \in RunId : TurnOK(q)'
  BY <1>1, <1>2, <1>4 DEF LInv, TurnOK
<1>9. \A q \in RunId, s \in Status : Has(items, q, s)' => Held(q, s)'
  BY <1>6 DEF Has
<1> QED BY <1>7, <1>8, <1>9 DEF LInv

(* A turn opens.                                                           *)
LEMMA AdmitFacts ==
  ASSUME HostInv, LInv, ~GoalContracts, NEW r \in RunId, Admit(r), phase[r] = "none"
  PROVE  /\ active[SessionOf[r]] = NoRun
         /\ phase' = [phase EXCEPT ![r] = "active"] /\ attach' = [attach EXCEPT ![r] = "active"]
         /\ active' = [active EXCEPT ![SessionOf[r]] = r] /\ recorder' = active'
         /\ ent'[r] \in {<<>>, <<[run |-> r, state |-> "running"]>>}
         /\ \A q \in RunId : q # r => ent'[q] = ent[q]
         /\ deferred' = deferred /\ deferred[r] = <<>>
<1>1. OpenTurn(r) /\ Occupy(r) /\ active[SessionOf[r]] \in {NoRun, r}
  BY DEF Admit, CanAdmit
<1>2. active[SessionOf[r]] = NoRun
  BY <1>1, SessionOfAssumption, HostAssumption DEF HostInv, OccInv
<1>3. deferred[r] = <<>>
  BY DEF LInv, TurnOK
<1>4. deferred' = deferred
  BY <1>1, <1>3 DEF OpenTurn, HostInv, LType
<1>5. recorder' = active'
  BY <1>1 DEF OpenTurn, Occupy, LInv
<1>6. /\ ent'[r] \in {<<>>, <<[run |-> r, state |-> "running"]>>}
      /\ \A q \in RunId : q # r => ent'[q] = ent[q]
  BY <1>1 DEF OpenTurn, HostInv, LType
<1> QED BY <1>1, <1>2, <1>3, <1>4, <1>5, <1>6 DEF OpenTurn, Occupy

LEMMA AdmitKeepsLInv ==
  ASSUME HostInv, LInv, ~GoalContracts, NEW r \in RunId, Admit(r), phase[r] = "none",
         life[r] \in {"none", "running"}, UNCHANGED <<items, life>>,
         ~Has(items, r, "queued"),
         PumpInv', pump'.run = pump.run, pump'.pc # "claimed" \/ pump' = pump
  PROVE  LInv'
<1>1. /\ active[SessionOf[r]] = NoRun
      /\ phase' = [phase EXCEPT ![r] = "active"] /\ attach' = [attach EXCEPT ![r] = "active"]
      /\ active' = [active EXCEPT ![SessionOf[r]] = r] /\ recorder' = active'
      /\ ent'[r] \in {<<>>, <<[run |-> r, state |-> "running"]>>}
      /\ \A q \in RunId : q # r => ent'[q] = ent[q]
      /\ deferred' = deferred
  BY AdmitFacts
<1>2. /\ phase'[r] = "active" /\ attach'[r] = "active"
      /\ \A q \in RunId : q # r => phase'[q] = phase[q] /\ attach'[q] = attach[q]
  BY <1>1 DEF HostInv, OccInv
<1>3. ASSUME NEW q \in RunId, NEW st \in Status, Has(items, q, st) PROVE Held(q, st)'
  <2>1. Held(q, st)
    BY <1>3 DEF LInv
  <2>2. CASE q = r
    BY <1>3, <2>1, <2>2 DEF Held
  <2>3. CASE q # r
    <3>1. active[SessionOf[q]] # NoRun => active'[SessionOf[q]] = active[SessionOf[q]]
      BY <1>1, SessionOfAssumption DEF HostInv, OccInv
    <3>2. Waiting(q) => Waiting(q)'
      BY <1>1, <1>2, <2>3, <3>1 DEF Waiting
    <3> QED BY <2>1, <3>2 DEF Held
  <2> QED BY <2>2, <2>3
<1>4. \A q \in RunId : TurnOK(q)'
  BY <1>1, <1>2 DEF LInv, TurnOK
<1>5. OnePerRun(items)'
  BY DEF LInv, OnePerRun
<1>6. \A q \in RunId, st \in Status : Has(items, q, st)' => Held(q, st)'
  BY <1>3 DEF Has
<1> QED BY <1>1, <1>4, <1>5, <1>6 DEF LInv

LEMMA SubmitKeepsLInv ==
  ASSUME HostInv, LInv, ~GoalContracts, NEW r \in RunId, SubmitTurn(r) PROVE LInv'
<1>1. /\ Admit(r) /\ phase[r] = "none" /\ life[r] = "none" /\ pump.run # r
      /\ UNCHANGED <<items, life, pump>>
  BY DEF SubmitTurn, Fresh
<1>2. ~Has(items, r, "queued")
  BY DEF SubmitTurn, Fresh, Of, Has
<1>3. phase' = [phase EXCEPT ![r] = "active"]
  BY <1>1, AdmitFacts
<1>4. PumpInv'
  BY <1>1, <1>3 DEF LInv, PumpInv, HostInv, OccInv, PumpOK
<1> QED BY <1>1, <1>2, <1>4, AdmitKeepsLInv

LEMMA PumpSubmitKeepsLInv == ASSUME HostInv, LInv, ~GoalContracts, PumpSubmit PROVE LInv'
<1> DEFINE r == pump.run
<1>1. /\ Admit(r) /\ pump.pc = "claimed" /\ pump' = [pump EXCEPT !.pc = "turn"]
      /\ UNCHANGED <<items, life>>
  BY DEF PumpSubmit
<1>2. pump'.pc = "turn" /\ pump'.run = r
  BY <1>1 DEF HostInv, OccInv, PumpOK
<1>3. r \in RunId /\ r # NoRun /\ phase[r] = "none" /\ life[r] = "running"
  BY <1>1 DEF LInv, PumpInv, HostInv, OccInv, PumpOK
<1>4. ~Has(items, r, "queued")
  BY <1>3 DEF LInv, Held, Waiting, Status
<1>5. phase'[r] = "active"
  BY <1>1, <1>3, AdmitFacts DEF HostInv, OccInv
<1>6. PumpInv'
  BY <1>2, <1>3, <1>5 DEF PumpInv
<1> QED BY <1>1, <1>2, <1>3, <1>4, <1>6, AdmitKeepsLInv

LEMMA NoTurnKeepsLInv == ASSUME HostInv, LInv, PumpNoTurn PROVE LInv'
<1>1. /\ pump.pc = "claimed" /\ pump' = [pump EXCEPT !.pc = "settle"]
      /\ UNCHANGED <<items, life, attach, phase, recorder, active, ent, deferred>>
  BY DEF PumpNoTurn, journal, turns
<1>2. pump'.pc = "settle" /\ pump'.run = pump.run
  BY <1>1 DEF HostInv, OccInv, PumpOK
<1>3. PumpInv'
  BY <1>1, <1>2 DEF LInv, PumpInv
<1>4. ASSUME NEW q \in RunId, NEW st \in Status, Has(items, q, st) PROVE Held(q, st)'
  <2>1. Held(q, st)
    BY <1>4 DEF LInv
  <2> QED BY <1>1, <1>2, <2>1, HeldKept
<1>5. \A q \in RunId, st \in Status : Has(items, q, st)' => Held(q, st)'
  BY <1>1, <1>4 DEF Has
<1>6. \A q \in RunId : TurnOK(q)'
  BY <1>1 DEF LInv, TurnOK
<1> QED BY <1>1, <1>3, <1>5, <1>6 DEF LInv, OnePerRun

(* A turn ends: what it deferred becomes "queued" as the session is freed. *)
LEMMA EndKeepsLInv ==
  ASSUME HostInv, LInv, ~GoalContracts, NEW r \in RunId, NEW st \in TerminalState, EndTurn(r, st)
  PROVE  LInv'
<1> DEFINE s == SessionOf[r]
<1>1. /\ phase[r] = "active" /\ active[s] = r /\ s \in SessionId
      /\ recorder = active
  BY SessionOfAssumption DEF EndTurn, HostInv, OccInv, LInv
<1>2. /\ CloseTurn(r, st)
      /\ deferred' = [deferred EXCEPT ![r] = <<>>] /\ attach' = [attach EXCEPT ![r] = "terminal"]
      /\ phase' = [phase EXCEPT ![r] = "done"]
      /\ active' = [active EXCEPT ![s] = NoRun] /\ recorder' = active'
      /\ pump' = PumpAfterTurn(r)
  BY <1>1 DEF EndTurn, CloseTurn
<1>3. /\ ent' = [ent EXCEPT ![r] = <<>>]
      /\ \A q \in RunId : q # r =>
           life'[q] = IF life[q] = "none" /\ \E k \in DOMAIN deferred[r] : deferred[r][k] = q
                      THEN "queued" ELSE life[q]
  BY <1>1, <1>2, CloseLemma
<1>4. /\ phase'[r] = "done" /\ attach'[r] = "terminal" /\ ent'[r] = <<>> /\ deferred'[r] = <<>>
      /\ \A q \in RunId : q # r => /\ phase'[q] = phase[q] /\ attach'[q] = attach[q]
                                   /\ ent'[q] = ent[q] /\ deferred'[q] = deferred[q]
  BY <1>2, <1>3 DEF HostInv, OccInv, LType
<1>5. /\ pump'.run = pump.run
      /\ pump'.pc = IF pump.pc = "turn" /\ pump.run = r THEN "settle" ELSE pump.pc
  <2>1. pump = [pc |-> pump.pc, run |-> pump.run]
    BY DEF HostInv, OccInv, PumpOK
  <2>2. pump = [pc |-> "turn", run |-> r] <=> pump.pc = "turn" /\ pump.run = r
    BY <2>1
  <2> QED BY <1>2, <2>1, <2>2 DEF PumpAfterTurn
<1>6. IF st = "interrupted" THEN Edited(items, items') ELSE items' = items
  BY <1>1, EditSteps DEF EndTurn, HostInv, LInv
<1>7. /\ OnePerRun(items')
      /\ \A q \in RunId, x \in Status : Has(items', q, x) => Has(items, q, x)
  BY <1>6 DEF Edited, SameState, Has, LInv
<1> HIDE DEF s
<1>8. ASSUME NEW q \in RunId, NEW x \in Status, Has(items, q, x) PROVE Held(q, x)'
  <2>1. Held(q, x)
    BY <1>8 DEF LInv
  <2>2. x = "queued" => Waiting(q)'
    <3> SUFFICES ASSUME Waiting(q) PROVE Waiting(q)'
      BY <2>1 DEF Held
    <3>1. q # r /\ phase'[q] = "none" /\ attach'[q] = "none" /\ pump'.run # q
      BY <1>1, <1>4, <1>5 DEF Waiting
    <3>2. CASE life[q] = "queued"
      BY <1>3, <3>1, <3>2 DEF Waiting
    <3>3. CASE life[q] # "queued"
      <4> DEFINE a == active[SessionOf[q]]
      <4>1. life[q] = "none" /\ a # NoRun /\ \E k \in DOMAIN deferred[a] : deferred[a][k] = q
        BY <3>3 DEF Waiting
      <4>2. CASE SessionOf[q] = s
        BY <1>1, <1>3, <3>1, <4>1, <4>2 DEF Waiting
      <4>3. CASE SessionOf[q] # s
        <5>1. a \in RunId /\ a # r /\ active'[SessionOf[q]] = a
          <6>1. SessionOf[q] \in SessionId
            BY SessionOfAssumption
          <6>2. a \in RunId /\ SessionOf[a] = SessionOf[q]
            BY <4>1, <6>1 DEF HostInv, OccInv
          <6>3. a # r
            BY <4>3, <6>2 DEF s
          <6>4. active'[SessionOf[q]] = a
            BY <1>2, <4>3, <6>1 DEF HostInv, OccInv
          <6> QED BY <6>2, <6>3, <6>4
        <5>2. deferred'[a] = deferred[a]
          BY <1>4, <5>1
        <5>3. life'[q] = "none" \/ life'[q] = "queued"
          BY <1>3, <3>1, <4>1
        <5> QED BY <3>1, <4>1, <5>1, <5>2, <5>3 DEF Waiting
      <4> QED BY <4>2, <4>3
    <3> QED BY <3>2, <3>3
  <2> QED BY <1>5, <2>1, <2>2 DEF Held
<1>9. \A q \in RunId, x \in Status : Has(items, q, x)' => Held(q, x)'
  BY <1>7, <1>8 DEF Has
<1>10. PumpInv'
  <2>1. pump.pc = "claimed" => pump.run \in RunId /\ pump.run # r /\ life'[pump.run] = "running"
    BY <1>1, <1>3 DEF LInv, PumpInv, HostInv, OccInv, PumpOK
  <2>2. pump.run \in RunId \cup {NoRun}
    BY DEF HostInv, OccInv, PumpOK
  <2> QED BY <1>1, <1>4, <1>5, <2>1, <2>2 DEF LInv, PumpInv
<1>11. \A q \in RunId : TurnOK(q)'
  <2> SUFFICES ASSUME NEW q \in RunId PROVE TurnOK(q)'
    OBVIOUS
  <2>1. TurnOK(q)
    BY DEF LInv
  <2>2. CASE q = r
    BY <1>4, <2>2 DEF TurnOK
  <2>3. CASE q # r
    <3>1. life'[q] = life[q] \/ phase[q] # "active"
      <4> SUFFICES ASSUME phase[q] = "active" PROVE life'[q] = life[q]
        OBVIOUS
      <4>1. active[SessionOf[q]] = q
        BY DEF HostInv, OccInv
      <4>2. \A k \in DOMAIN deferred[r] : deferred[r][k] # q
        BY <1>1, <2>3, <4>1, DeferredFacts DEF s
      <4> QED BY <1>3, <2>3, <4>2
    <3> QED BY <1>4, <2>1, <2>3, <3>1 DEF TurnOK
  <2> QED BY <2>2, <2>3
<1> QED BY <1>2, <1>7, <1>9, <1>10, <1>11 DEF LInv, OnePerRun

LEMMA NextLInv ==
  ASSUME ~GoalContracts, ~ProviderStage, Reloads = 0
  PROVE  HostInv /\ LInv /\ reloads = 0 /\ [Next]_vars => LInv' /\ reloads' = 0
<1> SUFFICES ASSUME HostInv, LInv, reloads = 0, [Next]_vars PROVE LInv' /\ reloads' = 0
  OBVIOUS
<1>1. ASSUME NEW r \in RunId, EnqueueRun(r) \/ CancelRun(r) \/ SubmitTurn(r)
      PROVE  LInv' /\ reloads' = reloads
  BY <1>1, EnqueueKeepsLInv, CancelKeepsLInv, SubmitKeepsLInv
     DEF EnqueueRun, CancelRun, SubmitTurn
<1>2. ASSUME EditQueue PROVE LInv' /\ reloads' = reloads
  BY <1>2, EditKeepsLInv DEF EditQueue
<1>3. ASSUME NEW r \in RunId, ContractReady(r) PROVE FALSE
  BY <1>3 DEF ContractReady, HostInv, OccInv
<1>4. ASSUME NEW r \in RunId, NEW m \in MsgId \cup {NoMsg},
             QueueFollowUp(r, m) \/ SteerFollowUp(r, m)
      PROVE  LInv' /\ reloads' = reloads
  BY <1>4, FollowUpKeepsLInv, SteerKeepsLInv DEF QueueFollowUp, SteerFollowUp
<1>5. ASSUME NEW r \in RunId, NEW st \in TerminalState, EndTurn(r, st)
      PROVE  LInv' /\ reloads' = reloads
  BY <1>5, EndKeepsLInv DEF EndTurn
<1>6. ASSUME NEW r \in RunId, EndProviderStopped(r) \/ EndUnverifiable(r) PROVE FALSE
  BY <1>6 DEF EndProviderStopped, EndUnverifiable, LInv, TurnOK
<1>7. ASSUME PumpClaim \/ PumpSubmit \/ PumpNoTurn PROVE LInv' /\ reloads' = reloads
  BY <1>7, ClaimKeepsLInv, PumpSubmitKeepsLInv, NoTurnKeepsLInv
     DEF PumpClaim, PumpSubmit, PumpNoTurn
<1>8. ASSUME NEW st \in PumpOutcome, PumpSettle(st) PROVE LInv' /\ reloads' = reloads
  BY <1>8, SettleKeepsLInv DEF PumpSettle
<1>9. ASSUME RendererReload PROVE FALSE
  BY <1>9 DEF RendererReload
<1>10. CASE UNCHANGED vars
  BY <1>10 DEF vars, journal, turns, LInv, OnePerRun, PumpInv, Has, Held, Waiting, TurnOK
<1> QED
  BY <1>1, <1>2, <1>3, <1>4, <1>5, <1>6, <1>7, <1>8, <1>9, <1>10 DEF Next

LEMMA ItemRuns == ASSUME HostInv PROVE \A i \in DOMAIN items : items[i].run \in RunId
<1>1. \A i \in DOMAIN items : items[i] \in Item
  BY SeqFacts DEF HostInv, QIndInv, Good
<1> QED BY <1>1 DEF Item

LEMMA LInvHolds ==
  ASSUME ~GoalContracts, ~ProviderStage, Reloads = 0
  PROVE  Spec => [](HostInv /\ LInv)
<1>1. Init => LInv /\ reloads = 0
  BY InitLInv DEF Init
<1>2. HostInv /\ (LInv /\ reloads = 0) /\ [Next]_vars => (LInv /\ reloads = 0)'
  BY NextLInv
<1> QED BY <1>1, <1>2, HostInvHolds, PTL DEF Spec

(* Whatever a session queued can be claimed as soon as no turn occupies    *)
(* it: its lifecycle event, deferred by the turn that was active, is there.*)
THEOREM QueuedCanResumeHolds ==
  ASSUME ~GoalContracts, ~ProviderStage, Reloads = 0
  PROVE  Spec => []QueuedCanResume
<1>1. HostInv /\ LInv => QueuedCanResume
  <2> SUFFICES ASSUME HostInv, LInv, NEW i \in DOMAIN items, Claimable(items[i]),
                      active[Session(items[i])] = NoRun
               PROVE  CanRecord(items[i].run, "running", <<>>)
    BY DEF QueuedCanResume
  <2>1. items[i].run \in RunId
    BY ItemRuns
  <2>2. Has(items, items[i].run, "queued") /\ "queued" \in Status
    BY DEF Has, Claimable, Queued, Status
  <2>3. life[items[i].run] = "queued"
    BY <2>1, <2>2 DEF LInv, Held, Waiting, Session
  <2> QED BY <2>1, <2>3, CommittedEvent DEF HostInv
<1> QED BY <1>1, LInvHolds, PTL

(* Nothing is left "running" without the pump that will settle it.         *)
THEOREM NoOrphanRunningHolds ==
  ASSUME ~GoalContracts, ~ProviderStage, Reloads = 0
  PROVE  Spec => []NoOrphanRunning
<1>1. HostInv /\ LInv => NoOrphanRunning
  <2> SUFFICES ASSUME HostInv, LInv, NEW i \in DOMAIN items, items[i].status = "running"
               PROVE  pump.run = items[i].run
    BY DEF NoOrphanRunning
  <2>1. items[i].run \in RunId
    BY ItemRuns
  <2>2. Has(items, items[i].run, "running") /\ "running" \in Status
    BY DEF Has, Status
  <2> QED BY <2>1, <2>2 DEF LInv, Held
<1> QED BY <1>1, LInvHolds, PTL

(* The terminal event of a run is its last one: late settlements, retried  *)
(* calls, cancellations and the end of other turns leave it alone.         *)
THEOREM TerminalIsFinalHolds ==
  ASSUME ~GoalContracts, ~ProviderStage, Reloads = 0
  PROVE  Spec => TerminalIsFinal
<1> DEFINE Final == \A r \in RunId : life[r] \in TerminalState => life'[r] = life[r]
<1>1. HostInv /\ LInv /\ [Next]_vars => Final
  <2> SUFFICES ASSUME HostInv, LInv, [Next]_vars, NEW r \in RunId, life[r] \in TerminalState
               PROVE  life'[r] = life[r]
    OBVIOUS
  <2>0. life[r] # "none" /\ life[r] \notin {"none", "running"}
    BY DEF TerminalState
  <2>1. ASSUME NEW q \in RunId, NEW st, CanRecord(q, st, <<>>), Record(q, st)
        PROVE  life'[r] = life[r]
    <3>1. q # r
      BY <2>0, <2>1, CommittedEvent DEF HostInv
    <3> QED BY <2>1, <3>1 DEF Record, HostInv, LType
  <2>2. ASSUME NEW q \in RunId, NEW st, NEW ok, RecordOrRefuse(q, st, ok) PROVE life'[r] = life[r]
    <3>1. (CanRecord(q, st, <<>>) /\ Record(q, st)) \/ UNCHANGED life
      BY <2>2, Zenon DEF RecordOrRefuse
    <3> QED BY <2>1, <3>1
  <2>3. ASSUME NEW q \in RunId, EnqueueRun(q) PROVE life'[r] = life[r]
    BY <2>1, <2>3 DEF EnqueueRun
  <2>4. ASSUME NEW q \in RunId, CancelRun(q) PROVE life'[r] = life[r]
    <3>1. PICK ok \in BOOLEAN : RecordOrRefuse(q, "interrupted", ok)
      BY <2>4 DEF CancelRun
    <3> QED BY <2>2, <3>1
  <2>5. ASSUME PumpClaim PROVE life'[r] = life[r]
    <3>1. /\ items[NextItem].run \in RunId /\ life[items[NextItem].run] = "queued"
          /\ Record(items[NextItem].run, "running")
      BY <2>5, ClaimAccepted
    <3>2. items[NextItem].run # r
      BY <3>1 DEF TerminalState
    <3> QED BY <3>1, <3>2 DEF Record, HostInv, LType
  <2>6. ASSUME NEW st \in PumpOutcome, PumpSettle(st) PROVE life'[r] = life[r]
    <3>1. pump.run \in RunId
      BY <2>6 DEF PumpSettle, LInv, PumpInv, HostInv, OccInv, PumpOK
    <3>2. UNCHANGED life \/ \E ok \in BOOLEAN : RecordOrRefuse(pump.run, st, ok)
      BY <2>6, Zenon DEF PumpSettle
    <3> QED BY <2>2, <3>1, <3>2
  <2>7. ASSUME NEW q \in RunId, NEW st \in TerminalState, EndTurn(q, st) PROVE life'[r] = life[r]
    <3>1. phase[q] = "active" /\ active[SessionOf[q]] = q /\ CloseTurn(q, st)
      BY <2>7 DEF EndTurn, HostInv, OccInv
    <3>2. q # r
      BY <2>0, <3>1 DEF LInv, TurnOK
    <3> QED BY <2>0, <3>1, <3>2, CloseLemma
  <2>8. ASSUME NEW q \in RunId, EndProviderStopped(q) \/ EndUnverifiable(q) PROVE FALSE
    BY <2>8 DEF EndProviderStopped, EndUnverifiable, LInv, TurnOK
  <2>9. ASSUME NEW q \in RunId, SubmitTurn(q) \/ ContractReady(q) PROVE life'[r] = life[r]
    BY <2>9 DEF SubmitTurn, ContractReady
  <2>10. ASSUME NEW q \in RunId, NEW m, QueueFollowUp(q, m) \/ SteerFollowUp(q, m)
         PROVE  life'[r] = life[r]
    BY <2>10 DEF QueueFollowUp, SteerFollowUp, journal
  <2>11. ASSUME EditQueue \/ PumpSubmit \/ PumpNoTurn \/ RendererReload \/ UNCHANGED vars
         PROVE  life'[r] = life[r]
    BY <2>11 DEF EditQueue, PumpSubmit, PumpNoTurn, RendererReload, vars, journal
  <2> QED
    BY <2>3, <2>4, <2>5, <2>6, <2>7, <2>8, <2>9, <2>10, <2>11 DEF Next
<1> QED BY <1>1, LInvHolds, PTL DEF Spec, TerminalIsFinal

-----------------------------------------------------------------------------
(* What a client sees, and what SessionRuns promises.  The promise is      *)
(* about runs the queue still remembers: retention drops the receipt of a  *)
(* run that was withdrawn without a lifecycle event, and the client sees a *)
(* new run.  Up to 4 * Max runs, nothing is dropped.                       *)

FewRuns == IsFiniteSet(RunId) /\ Cardinality(RunId) <= 4 * Max

View(r) ==
  IF phase[r] = "active" THEN "executing"
  ELSE IF attach[r] = "terminal" \/ Has(items, r, "settled") \/ Has(items, r, "interrupted")
       THEN "finished"
  ELSE IF phase[r] # "none" \/ Has(items, r, "queued") \/ Has(items, r, "running") THEN "waiting"
  ELSE IF life[r] \in TerminalState THEN "finished" ELSE "new"

Shows == RunView = [r \in RunId |-> View(r)]

LEMMA ViewLemma == HostInv => Shows
<1> SUFFICES ASSUME HostInv, NEW r \in RunId PROVE RunView[r] = View(r)
  BY DEF RunView, Shows
<1>1. \A i \in DOMAIN items : items[i].status \in Status
  <2>1. \A i \in DOMAIN items : items[i] \in Item
    BY SeqFacts DEF HostInv, QIndInv, Good
  <2> QED BY <2>1 DEF Item
<1>2. (\E i \in Of(items, r) : Terminal(items[i]))
        <=> Has(items, r, "settled") \/ Has(items, r, "interrupted")
  BY DEF Of, Has, Terminal
<1>3. Of(items, r) # {} <=> \/ Has(items, r, "settled") \/ Has(items, r, "interrupted")
                           \/ Has(items, r, "queued") \/ Has(items, r, "running")
  BY <1>1 DEF Of, Has, Status
<1> QED BY <1>2, <1>3 DEF RunView, View

LEMMA NextViewLemma == HostInv' => Shows'
BY ViewLemma, PTL

(* The whole array fits the retention threshold.                           *)
LEMMA NothingDropped ==
  ASSUME FewRuns, HostInv, LInv, NEW r \in RunId, Of(items, r) = {}
  PROVE  Dropped(items) = {}
<1> DEFINE n == Len(items)
           f == [i \in DOMAIN items |-> items[i].run]
<1>1. n \in Nat /\ DOMAIN items = 1..n /\ items \in Seq(Item)
  BY SeqFacts DEF HostInv, QIndInv, Good
<1>2. f \in Injection(DOMAIN items, RunId \ {r})
  BY ItemRuns DEF LInv, OnePerRun, Of, Injection, IsInjective
<1>3. IsFiniteSet(RunId \ {r}) /\ Cardinality(RunId \ {r}) = Cardinality(RunId) - 1
  BY FS_RemoveElement DEF FewRuns
<1>4. Cardinality(DOMAIN items) <= Cardinality(RunId) - 1
  BY <1>2, <1>3, FS_Injection
<1>5. Cardinality(DOMAIN items) = n
  BY <1>1, FS_Interval
<1>6. Cardinality(RunId) \in Nat
  BY FS_CardinalityType DEF FewRuns
<1>7. n < 4 * Max
  BY <1>1, <1>4, <1>5, <1>6, MaxAssumption DEF FewRuns
<1> QED BY <1>7 DEF Dropped

(* Then what was in the array stays there when a run is added.             *)
LEMMA AddedKeeps ==
  ASSUME FewRuns, HostInv, LInv, NEW r \in RunId, NEW m \in MsgId \cup {NoMsg}
  PROVE  /\ \A act : Enqueue(r, m, act) =>
              \A i \in DOMAIN items : \E j \in DOMAIN items' : items'[j] = items[i]
         /\ RecordAcceptedSteer(r, m) =>
              \A i \in DOMAIN items : \E j \in DOMAIN items' : items'[j] = items[i]
<1>0. items \in Seq(Item)
  BY DEF HostInv, QIndInv, Good
<1>1. ASSUME NEW q \in Seq(Item), NEW e, items' = Append(q, e),
             \A i \in DOMAIN items : \E k \in DOMAIN q : q[k] = items[i]
      PROVE  \A i \in DOMAIN items : \E j \in DOMAIN items' : items'[j] = items[i]
  <2>1. Len(q) \in Nat /\ DOMAIN q = 1..Len(q)
    BY <1>1, SeqFacts
  <2>2. DOMAIN items' = 1..(Len(q) + 1) /\ \A k \in 1..Len(q) : items'[k] = q[k]
    BY <1>1, <2>1
  <2>3. \A k \in DOMAIN q : k \in DOMAIN items' /\ items'[k] = q[k]
    BY <2>1, <2>2
  <2> QED BY <1>1, <2>3
<1>2. ASSUME NEW act, Enqueue(r, m, act)
      PROVE  \A i \in DOMAIN items : \E j \in DOMAIN items' : items'[j] = items[i]
  <2> DEFINE kept == Retained(items)
             e == NewItem(r, m, act, "queued", Revision(kept) + 1)
             K == DOMAIN items
  <2>1. items' = Append(kept, e) /\ Of(items, r) = {}
    BY <1>2 DEF Enqueue, CanEnqueue
  <2>2. kept = KeepOnly(items, K)
    BY <2>1, NothingDropped DEF Retained
  <2> HIDE DEF e, kept, K
  <2>3. kept \in Seq(Item) /\ \A i \in DOMAIN items : \E k \in DOMAIN kept : kept[k] = items[i]
    <3>1. K \in SUBSET DOMAIN items
      BY DEF K
    <3>2. PICK pi : /\ \A k \in DOMAIN KeepOnly(items, K) : KeepOnly(items, K)[k] = items[pi[k]]
                    /\ \A i \in K : \E k \in DOMAIN KeepOnly(items, K) : pi[k] = i
      BY <1>0, <3>1, KeepOnlyLemma
    <3>3. KeepOnly(items, K) \in Seq(Item)
      BY <1>0, <3>1, KeepOnlyLemma
    <3> QED BY <2>2, <3>2, <3>3 DEF K
  <2> QED BY <1>1, <2>1, <2>3
<1>3. ASSUME RecordAcceptedSteer(r, m)
      PROVE  \A i \in DOMAIN items : \E j \in DOMAIN items' : items'[j] = items[i]
  BY <1>0, <1>1, <1>3 DEF RecordAcceptedSteer
<1> QED BY <1>2, <1>3

(* A run of which nothing visible changes looks the same.                  *)
Unseen(r) ==
  /\ phase'[r] = phase[r] /\ attach'[r] = attach[r]
  /\ life'[r] \in TerminalState <=> life[r] \in TerminalState
  /\ \A st \in Status : Has(items', r, st) <=> Has(items, r, st)

LEMMA UnseenLemma == ASSUME NEW r, Unseen(r) PROVE View(r)' = View(r)
<1>1. /\ Has(items, r, "settled")' <=> Has(items, r, "settled")
      /\ Has(items, r, "interrupted")' <=> Has(items, r, "interrupted")
      /\ Has(items, r, "queued")' <=> Has(items, r, "queued")
      /\ Has(items, r, "running")' <=> Has(items, r, "running")
  BY DEF Unseen, Has, Status
<1> QED BY <1>1 DEF Unseen, View

LEMMA BecomesLemma ==
  ASSUME HostInv, HostInv', NEW r \in RunId, NEW b, View(r)' = b,
         \A q \in RunId : q # r => Unseen(q)
  PROVE  Promise!Becomes(r, b)
<1>1. RunView = [q \in RunId |-> View(q)]
  BY ViewLemma DEF Shows
<1>2. RunView' = [q \in RunId |-> View(q)]'
  BY NextViewLemma DEF Shows
<1>3. \A q \in RunId : q # r => View(q)' = View(q)
  BY UnseenLemma
<1>4. RunView' = [RunView EXCEPT ![r] = b]
  BY <1>1, <1>2, <1>3
<1> QED BY <1>4 DEF Promise!Becomes

LEMMA SameLemma ==
  ASSUME HostInv, HostInv', \A q \in RunId : Unseen(q) PROVE RunView' = RunView
<1>1. RunView = [q \in RunId |-> View(q)]
  BY ViewLemma DEF Shows
<1>2. RunView' = [q \in RunId |-> View(q)]'
  BY NextViewLemma DEF Shows
<1>3. \A q \in RunId : View(q)' = View(q)
  BY UnseenLemma
<1> QED BY <1>1, <1>2, <1>3

(* What a step of the queue changes for its clients.                       *)
LEMMA AddShows ==
  ASSUME NEW r \in RunId, NEW st, Added(items, items', r, st),
         \A i \in DOMAIN items : \E j \in DOMAIN items' : items'[j] = items[i]
  PROVE  \A q \in RunId, x \in Status :
            Has(items', q, x) <=> IF q = r THEN x = st ELSE Has(items, q, x)
<1> SUFFICES ASSUME NEW q \in RunId, NEW x \in Status
             PROVE  Has(items', q, x) <=> IF q = r THEN x = st ELSE Has(items, q, x)
  OBVIOUS
<1>1. CASE q = r
  BY <1>1 DEF Added, Has, SameState
<1>2. CASE q # r
  <2>1. Has(items', q, x) => Has(items, q, x)
    BY <1>2 DEF Added, Has, SameState
  <2>2. Has(items, q, x) => Has(items', q, x)
    BY DEF Has
  <2> QED BY <1>2, <2>1, <2>2
<1> QED BY <1>1, <1>2

LEMMA MoveShows ==
  ASSUME LInv, NEW r \in RunId, NEW p, NEW st, Moved(items, items', p, st), items[p].run = r
  PROVE  \A q \in RunId, x \in Status :
            /\ Has(items', q, x) <=> IF q = r THEN x = st ELSE Has(items, q, x)
            /\ q = r => (Has(items, q, x) <=> x = items[p].status)
<1> SUFFICES ASSUME NEW q \in RunId, NEW x \in Status
             PROVE  /\ Has(items', q, x) <=> IF q = r THEN x = st ELSE Has(items, q, x)
                    /\ q = r => (Has(items, q, x) <=> x = items[p].status)
  OBVIOUS
<1>1. CASE q = r
  BY <1>1 DEF LInv, Moved, OnePerRun, Has
<1>2. CASE q # r
  BY <1>2 DEF Moved, Has
<1> QED BY <1>1, <1>2

LEMMA EditShows ==
  ASSUME NEW q, NEW x, Edited(items, items') PROVE Has(items', q, x) <=> Has(items, q, x)
BY DEF Edited, Has, SameState

(* A fresh run is new to its client.                                       *)
LEMMA FreshIsNew ==
  ASSUME HostInv, NEW r \in RunId, Fresh(r) PROVE RunView[r] = "new" /\ View(r) = "new"
<1>1. \A x : ~Has(items, r, x)
  BY DEF Fresh, Of, Has
<1>2. View(r) = "new"
  BY <1>1 DEF Fresh, View, TerminalState
<1> QED BY <1>2, ViewLemma DEF Shows

LEMMA AcceptShows ==
  ASSUME FewRuns, HostInv, LInv, HostInv', NEW r \in RunId,
         EnqueueRun(r) \/ \E m \in MsgId \cup {NoMsg} : QueueFollowUp(r, m)
  PROVE  Promise!Accept(r)
<1>1. Fresh(r) /\ \A q \in RunId : q # r => life'[q] = life[q]
  BY CommittedEvent DEF EnqueueRun, Record, QueueFollowUp, journal, HostInv, LType
<1>2. UNCHANGED <<phase, attach>>
  BY DEF EnqueueRun, QueueFollowUp, journal, turns
<1>3. \E m \in MsgId \cup {NoMsg} : \E act : Enqueue(r, m, act)
  BY DEF EnqueueRun, QueueFollowUp
<1>4. \A q \in RunId, x \in Status :
            Has(items', q, x) <=> IF q = r THEN x = "queued" ELSE Has(items, q, x)
  <2>1. Added(items, items', r, "queued")
    BY <1>3, AddSteps DEF HostInv, LInv
  <2>2. \A i \in DOMAIN items : \E j \in DOMAIN items' : items'[j] = items[i]
    BY <1>3, AddedKeeps
  <2> QED BY <2>1, <2>2, AddShows
<1>5. \A q \in RunId : q # r => Unseen(q)
  BY <1>1, <1>2, <1>4 DEF Unseen
<1>6. View(r)' = "waiting"
  <2>1. /\ Has(items, r, "queued")'
        /\ ~Has(items, r, "settled")' /\ ~Has(items, r, "interrupted")'
    BY <1>4 DEF Has, Status
  <2>2. phase'[r] = "none" /\ attach'[r] = "none"
    BY <1>1, <1>2 DEF Fresh
  <2> QED BY <2>1, <2>2 DEF View
<1> QED BY <1>1, <1>5, <1>6, BecomesLemma, FreshIsNew DEF Promise!Accept

LEMMA SteerShows ==
  ASSUME FewRuns, HostInv, LInv, HostInv', NEW r \in RunId, NEW m \in MsgId \cup {NoMsg},
         SteerFollowUp(r, m)
  PROVE  Promise!Withdraw(r)
<1>1. Fresh(r) /\ RecordAcceptedSteer(r, m) /\ UNCHANGED <<life, phase, attach>>
  BY DEF SteerFollowUp, journal, turns
<1>2. \A q \in RunId, x \in Status :
            Has(items', q, x) <=> IF q = r THEN x = "settled" ELSE Has(items, q, x)
  <2>1. Added(items, items', r, "settled")
    BY <1>1, AddSteps DEF HostInv, LInv, Fresh
  <2> QED BY <1>1, <2>1, AddShows, AddedKeeps
<1>3. \A q \in RunId : q # r => Unseen(q)
  BY <1>1, <1>2 DEF Unseen
<1>4. View(r)' = "finished"
  <2>1. Has(items, r, "settled")'
    BY <1>2 DEF Has, Status
  <2>2. phase'[r] = "none"
    BY <1>1 DEF Fresh
  <2> QED BY <2>1, <2>2 DEF View
<1> QED BY <1>1, <1>3, <1>4, BecomesLemma, FreshIsNew DEF Promise!Withdraw

LEMMA CancelShows ==
  ASSUME HostInv, LInv, HostInv', NEW r \in RunId, CancelRun(r) PROVE Promise!Withdraw(r)
<1>1. PICK p : Moved(items, items', p, "interrupted") /\ items[p].run = r /\ Queued(items[p])
  BY MoveSteps DEF CancelRun, HostInv, LInv
<1>2. /\ UNCHANGED <<phase, attach>>
      /\ Record(r, "interrupted") \/ UNCHANGED <<life, last>>
  BY Zenon DEF CancelRun, RecordOrRefuse, turns
<1>3. \A q \in RunId, x \in Status :
            /\ Has(items', q, x) <=> IF q = r THEN x = "interrupted" ELSE Has(items, q, x)
            /\ q = r => (Has(items, q, x) <=> x = "queued")
  BY <1>1, MoveShows DEF Queued
<1>4. Waiting(r)
  BY <1>3 DEF LInv, Held, Status
<1>5. \A q \in RunId : q # r => Unseen(q)
  BY <1>2, <1>3 DEF Unseen, Record, HostInv, LType
<1>6. View(r) = "waiting"
  <2>1. ~Has(items, r, "settled") /\ ~Has(items, r, "interrupted") /\ Has(items, r, "queued")
    BY <1>3 DEF Status
  <2> QED BY <1>4, <2>1 DEF View, Waiting
<1>7. View(r)' = "finished"
  <2>1. Has(items, r, "interrupted")' /\ phase'[r] = "none"
    BY <1>2, <1>3, <1>4 DEF Has, Status, Waiting
  <2> QED BY <2>1 DEF View
<1> QED BY <1>5, <1>6, <1>7, BecomesLemma, ViewLemma DEF Shows, Promise!Withdraw

LEMMA ExecuteShows ==
  ASSUME HostInv, LInv, HostInv', ~GoalContracts, NEW r \in RunId, Admit(r), phase[r] = "none",
         UNCHANGED <<items, life>>, View(r) \in {"new", "waiting"}
  PROVE  Promise!Execute(r)
<1>1. /\ active[SessionOf[r]] = NoRun
      /\ phase' = [phase EXCEPT ![r] = "active"] /\ attach' = [attach EXCEPT ![r] = "active"]
  BY AdmitFacts
<1>2. \A q \in RunId : q # r => Unseen(q)
  BY <1>1 DEF Unseen, HostInv, OccInv
<1>3. View(r)' = "executing"
  BY <1>1 DEF View, HostInv, OccInv
<1>4. ASSUME NEW q \in RunId, SessionOf[q] = SessionOf[r] PROVE RunView[q] # "executing"
  <2>1. phase[q] # "active"
    BY <1>1, <1>4, HostAssumption DEF HostInv, OccInv
  <2>2. View(q) # "executing"
    BY <2>1 DEF View
  <2> QED BY <2>2, ViewLemma DEF Shows
<1> QED BY <1>2, <1>3, <1>4, BecomesLemma, ViewLemma DEF Shows, Promise!Execute

LEMMA SubmitShows ==
  ASSUME HostInv, LInv, HostInv', ~GoalContracts, NEW r \in RunId, SubmitTurn(r)
  PROVE  Promise!Execute(r)
<1>1. Fresh(r) /\ Admit(r) /\ UNCHANGED <<items, life>> /\ phase[r] = "none"
  BY DEF SubmitTurn, Fresh
<1> QED BY <1>1, ExecuteShows, FreshIsNew

LEMMA PumpSubmitShows ==
  ASSUME HostInv, LInv, HostInv', ~GoalContracts, PumpSubmit PROVE Promise!Execute(pump.run)
<1> DEFINE r == pump.run
<1>1. Admit(r) /\ UNCHANGED <<items, life>> /\ pump.pc = "claimed"
  BY DEF PumpSubmit
<1>2. r \in RunId /\ phase[r] = "none" /\ life[r] = "running"
  BY <1>1 DEF LInv, PumpInv, HostInv, OccInv, PumpOK
<1>3. attach[r] = "none"
  BY <1>2 DEF LInv, TurnOK
<1>4. ~Has(items, r, "settled") /\ ~Has(items, r, "interrupted")
  BY <1>1, <1>2 DEF LInv, Held, Status
<1>5. View(r) \in {"new", "waiting"}
  BY <1>2, <1>3, <1>4 DEF View, TerminalState
<1> QED BY <1>1, <1>2, <1>5, ExecuteShows

LEMMA EndShows ==
  ASSUME HostInv, LInv, HostInv', ~GoalContracts, NEW r \in RunId, NEW st \in TerminalState,
         EndTurn(r, st)
  PROVE  Promise!Finish(r)
<1>1. phase[r] = "active" /\ active[SessionOf[r]] = r /\ CloseTurn(r, st)
  BY DEF EndTurn, HostInv, OccInv
<1>2. /\ attach' = [attach EXCEPT ![r] = "terminal"] /\ phase' = [phase EXCEPT ![r] = "done"]
  BY <1>1 DEF CloseTurn
<1>3. \A q \in RunId : q # r => life'[q] = life[q] \/ (life[q] = "none" /\ life'[q] = "queued")
  BY <1>1, CloseLemma
<1>4. \A q \in RunId, x \in Status : Has(items', q, x) <=> Has(items, q, x)
  <2>1. IF st = "interrupted" THEN Edited(items, items') ELSE items' = items
    BY SessionOfAssumption, EditSteps DEF EndTurn, HostInv, LInv
  <2> QED BY <2>1, EditShows
<1>5. ASSUME NEW q \in RunId, q # r PROVE Unseen(q)
  BY <1>2, <1>3, <1>4, <1>5 DEF Unseen, TerminalState, HostInv, OccInv
<1>6. View(r) = "executing" /\ View(r)' = "finished"
  BY <1>1, <1>2 DEF View, HostInv, OccInv
<1> QED BY <1>5, <1>6, BecomesLemma, ViewLemma DEF Shows, Promise!Finish

LEMMA ClaimShows == ASSUME HostInv, LInv, HostInv', PumpClaim PROVE RunView' = RunView
<1>1. PICK r \in RunId : r = items[NextItem].run
  BY ClaimAccepted
<1>2. PICK p : p = NextItem
  OBVIOUS
<1>3. /\ Waiting(r) /\ life[r] = "queued" /\ items[p].run = r /\ items[p].status = "queued"
      /\ Moved(items, items', p, "running") /\ Record(r, "running")
      /\ UNCHANGED <<attach, turns>>
  BY <1>1, <1>2, ClaimAccepted, MoveSteps DEF HostInv, LInv, Claimable, Queued
<1>4. \A q \in RunId, x \in Status :
            /\ Has(items', q, x) <=> IF q = r THEN x = "running" ELSE Has(items, q, x)
            /\ q = r => (Has(items, q, x) <=> x = "queued")
  BY <1>3, MoveShows
<1>5. UNCHANGED <<phase, attach>>
  BY <1>3 DEF turns
<1>6. \A q \in RunId : q # r => Unseen(q)
  BY <1>3, <1>4, <1>5 DEF Unseen, Record, HostInv, LType
<1>7. View(r) = "waiting"
  <2>1. ~Has(items, r, "settled") /\ ~Has(items, r, "interrupted") /\ Has(items, r, "queued")
    BY <1>4 DEF Status
  <2> QED BY <1>3, <2>1 DEF View, Waiting
<1>8. View(r)' = "waiting"
  <2>1. ~Has(items, r, "settled")' /\ ~Has(items, r, "interrupted")' /\ Has(items, r, "running")'
    BY <1>4 DEF Status, Has
  <2> QED BY <1>3, <1>5, <2>1 DEF View, Waiting
<1>9. \A q \in RunId : View(q)' = View(q)
  BY <1>6, <1>7, <1>8, UnseenLemma
<1> QED BY <1>9, ViewLemma, NextViewLemma DEF Shows

LEMMA SettleShows ==
  ASSUME HostInv, LInv, HostInv', NEW st \in PumpOutcome, PumpSettle(st)
  PROVE  Promise!Withdraw(pump.run) \/ RunView' = RunView
<1>0. pump.run \in RunId /\ phase[pump.run] # "active"
  BY DEF PumpSettle, LInv, PumpInv, HostInv, OccInv, PumpOK
<1>1. PICK r \in RunId : r = pump.run
  BY <1>0
<1>2. /\ UNCHANGED <<phase, attach>>
      /\ \/ UNCHANGED <<items, life>>
         \/ Settle(r) /\ (UNCHANGED life \/ life' = [life EXCEPT ![r] = st])
  BY <1>1, Zenon DEF PumpSettle, RecordOrRefuse, Record, turns
<1>3. CASE UNCHANGED <<items, life>>
  <2>1. \A q \in RunId : Unseen(q)
    BY <1>2, <1>3 DEF Unseen
  <2> QED BY <2>1, SameLemma
<1>4. CASE Settle(r) /\ (UNCHANGED life \/ life' = [life EXCEPT ![r] = st])
  <2>1. PICK p : Moved(items, items', p, "settled") /\ items[p].run = r /\ Live(items[p])
    BY <1>4, MoveSteps DEF HostInv, LInv
  <2>2. \A q \in RunId, x \in Status :
            /\ Has(items', q, x) <=> IF q = r THEN x = "settled" ELSE Has(items, q, x)
            /\ q = r => (Has(items, q, x) <=> x = items[p].status)
    BY <2>1, MoveShows
  <2>3. \A q \in RunId : q # r => Unseen(q)
    BY <1>2, <1>4, <2>2 DEF Unseen, HostInv, LType
  <2>4. View(r)' = "finished"
    <3>1. Has(items, r, "settled")' /\ phase'[r] # "active"
      BY <1>0, <1>1, <1>2, <2>2 DEF Has, Status
    <3> QED BY <3>1 DEF View
  <2>5. \/ phase[r] = "none" /\ attach[r] = "none"
        \/ phase[r] = "done" /\ attach[r] = "terminal"
    BY <1>0, <1>1 DEF LInv, TurnOK
  <2>6. CASE phase[r] = "none" /\ attach[r] = "none"
    <3>1. /\ ~Has(items, r, "settled") /\ ~Has(items, r, "interrupted")
          /\ Has(items, r, "queued") \/ Has(items, r, "running")
      BY <2>1, <2>2 DEF Live, Status
    <3>2. View(r) = "waiting"
      BY <2>6, <3>1 DEF View
    <3>3. RunView[r] = "waiting"
      BY <3>2, ViewLemma DEF Shows
    <3> QED BY <1>1, <2>3, <2>4, <3>3, BecomesLemma DEF Promise!Withdraw
  <2>7. CASE phase[r] = "done" /\ attach[r] = "terminal"
    <3>1. View(r) = "finished"
      BY <2>7 DEF View
    <3>2. \A q \in RunId : View(q)' = View(q)
      BY <2>3, <2>4, <3>1, UnseenLemma
    <3> QED BY <3>2, ViewLemma, NextViewLemma DEF Shows
  <2> QED BY <2>5, <2>6, <2>7
<1> QED BY <1>2, <1>3, <1>4

LEMMA StepKeepsPromise ==
  ASSUME ~GoalContracts, ~ProviderStage, Reloads = 0, FewRuns,
         HostInv, LInv, reloads = 0, HostInv', [Next]_vars
  PROVE  [Promise!Next]_RunView
<1>1. ASSUME NEW r \in RunId, EnqueueRun(r) \/ CancelRun(r) \/ SubmitTurn(r) PROVE Promise!Next
  BY <1>1, AcceptShows, CancelShows, SubmitShows DEF Promise!Next
<1>2. ASSUME EditQueue PROVE RunView' = RunView
  <2>1. UNCHANGED <<phase, attach, life>> /\ Edited(items, items')
    BY <1>2, EditSteps DEF EditQueue, HostInv, LInv, journal, turns
  <2>2. \A q \in RunId : Unseen(q)
    BY <2>1, EditShows DEF Unseen
  <2> QED BY <2>2, SameLemma
<1>3. ASSUME NEW r \in RunId, ContractReady(r) PROVE FALSE
  BY <1>3 DEF ContractReady, HostInv, OccInv
<1>4. ASSUME NEW r \in RunId, NEW m \in MsgId \cup {NoMsg},
             QueueFollowUp(r, m) \/ SteerFollowUp(r, m)
      PROVE  Promise!Next
  BY <1>4, AcceptShows, SteerShows DEF Promise!Next
<1>5. ASSUME NEW r \in RunId, NEW st \in TerminalState, EndTurn(r, st) PROVE Promise!Next
  BY <1>5, EndShows DEF Promise!Next
<1>6. ASSUME NEW r \in RunId, EndProviderStopped(r) \/ EndUnverifiable(r) PROVE FALSE
  BY <1>6 DEF EndProviderStopped, EndUnverifiable, LInv, TurnOK
<1>7. ASSUME PumpClaim PROVE RunView' = RunView
  BY <1>7, ClaimShows
<1>8. ASSUME PumpSubmit PROVE Promise!Next
  <2>1. pump.run \in RunId
    BY <1>8 DEF PumpSubmit, HostInv, OccInv, PumpOK
  <2> QED BY <1>8, <2>1, PumpSubmitShows DEF Promise!Next
<1>9. ASSUME NEW st \in PumpOutcome, PumpSettle(st) PROVE Promise!Next \/ RunView' = RunView
  <2>1. pump.run \in RunId
    BY <1>9 DEF PumpSettle, LInv, PumpInv, HostInv, OccInv, PumpOK
  <2> QED BY <1>9, <2>1, SettleShows DEF Promise!Next
<1>10. ASSUME RendererReload PROVE FALSE
  BY <1>10 DEF RendererReload
<1>11. ASSUME PumpNoTurn \/ UNCHANGED vars PROVE RunView' = RunView
  <2>1. UNCHANGED <<phase, attach, life, items>>
    BY <1>11 DEF PumpNoTurn, vars, journal, turns
  <2>2. \A q \in RunId : Unseen(q)
    BY <2>1 DEF Unseen
  <2> QED BY <2>2, SameLemma
<1> QED
  BY <1>1, <1>2, <1>3, <1>4, <1>5, <1>6, <1>7, <1>8, <1>9, <1>10, <1>11 DEF Next

(* Every behaviour of the Host is one that SessionRuns allows: a run is    *)
(* executed at most once, the runs of a session one at a time, and what is *)
(* withdrawn or finished never comes back, whatever is queued, steered,    *)
(* cancelled and reordered meanwhile.                                      *)
THEOREM HostKeepsPromise ==
  ASSUME ~GoalContracts, ~ProviderStage, Reloads = 0, FewRuns
  PROVE  Spec => KeepsPromise
<1>1. Init => HostInv /\ LInv /\ reloads = 0
  BY QInitInd, InitOcc, InitLType, InitLInv DEF Init, HostInv, DirtyOK
<1>2. HostInv /\ LInv /\ reloads = 0 /\ [Next]_vars
        => (HostInv /\ LInv /\ reloads = 0)'
  <2>1. HostInv /\ [Next]_vars => HostInv'
    BY HostStepIsQueueStep, QNextInd, NextOcc, NextLType, NextDirty DEF HostInv
  <2> QED BY <2>1, NextLInv
<1>3. Init => Promise!Init
  <2> SUFFICES ASSUME Init PROVE Promise!Init
    OBVIOUS
  <2>1. \A r \in RunId : RunView[r] = "new"
    <3> SUFFICES ASSUME NEW r \in RunId PROVE RunView[r] = "new"
      OBVIOUS
    <3>1. items = <<>> /\ DOMAIN items = {}
      BY DEF Init, QInit
    <3>2. Fresh(r)
      <4>1. Of(items, r) = {}
        BY <3>1 DEF Of
      <4> QED BY <4>1, HostAssumption DEF Init, Fresh, IdlePump
    <3> QED BY <1>1, <3>2, FreshIsNew
  <2>2. RunView = [r \in RunId |-> RunView[r]]
    BY DEF RunView
  <2> QED BY <2>1, <2>2 DEF Promise!Init
<1>4. (HostInv /\ LInv /\ reloads = 0) /\ HostInv' /\ [Next]_vars => [Promise!Next]_RunView
  BY StepKeepsPromise
<1> QED BY <1>1, <1>2, <1>3, <1>4, PTL DEF Spec, KeepsPromise, Promise!Spec

=============================================================================
