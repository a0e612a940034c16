------------------------------ MODULE HostRuns ------------------------------
(***************************************************************************)
(* Task runs in the Pi Core Host: the run queue (RunQueue), the runs/*     *)
(* methods of piHostRunDomain.ts, admission and settlement of turns in     *)
(* piHostProtocol.ts, the agent lifecycle recorded for every run           *)
(* (agentLifecycle.ts, piAgentLifecycleRecord.ts), and the renderer's pump *)
(* (hostAgentQueuePump.ts) that drains the queue.                          *)
(*                                                                         *)
(* A step is what the Host does between two awaits that really wait; the   *)
(* handlers of different messages interleave at those points.  PiRunQueue  *)
(* copies the array but shares its items with the live snapshot, so a      *)
(* method that changed an item and then refuses still leaves the change in *)
(* `items`, without a commit.                                              *)
(***************************************************************************)
EXTENDS RunQueue

CONSTANTS
  NoRun,        \* no run
  GoalContracts,  \* TRUE: turns carry a Goal Contract, whose digest is awaited
  ProviderStage,  \* TRUE: turns may run a sub-design provider stage first
  MaxRev,       \* bound: users edit the queue below this revision
  Reloads       \* bound: how often the renderer reloads

ASSUME HostAssumption ==
  /\ NoRun \notin RunId
  /\ GoalContracts \in BOOLEAN /\ ProviderStage \in BOOLEAN
  /\ MaxRev \in Nat /\ Reloads \in Nat

VARIABLES
  life,         \* latest committed lifecycle state of a run, or "none"
  last,         \* run of the latest committed lifecycle event of a session
  attach,       \* attachment journal: "none", "active" or "terminal"
  phase,        \* where the turn/submit of a run is
  recorder,     \* activeTurnRecorders: the run whose recorder is registered
  active,       \* activeSessionRuns: the run that occupies a session
  ent,          \* lifecycle events in a run's recorder, not yet committed
  deferred,     \* deferredLifecycle of a run's recorder: runs to be "queued"
  pump,         \* the renderer's pump
  dirty,        \* a commit has not been written to disk
  reloads

journal == <<life, last, attach>>
turns   == <<phase, recorder, active, ent, deferred>>
vars    == <<items, journal, turns, pump, dirty, reloads>>

-----------------------------------------------------------------------------
(* Lifecycle events *)

TerminalState == {"completed", "failed", "cancelled", "interrupted"}
LifeState == {"queued", "running"} \cup TerminalState
Event == [run: RunId, state: LifeState]
RunsOf(s) == {r \in RunId : SessionOf[r] = s}

SameRunTransitions ==
  [admitted |-> {"queued", "running", "cancelled", "interrupted", "failed"},
   queued   |-> {"running", "cancelled", "interrupted", "failed"},
   running  |-> TerminalState,
   completed |-> {}, failed |-> {}, cancelled |-> {}, interrupted |-> {}]

IsLegalAnyChange(prev, next) ==   \* mutant: terminal states are not final
  /\ prev # next
  /\ \/ prev.run \in {next.run, NoRun}
     \/ next.state = "queued"
     \/ next.state = "running" /\ prev.state \in TerminalState

(* isLegalAgentLifecycleTransition, with an event that names a run. *)
IsLegal(prev, next) ==
  /\ prev # next
  /\ CASE prev.run = next.run -> next.state \in SameRunTransitions[prev.state]
       [] prev.run = NoRun    -> next.state \in {"queued", "running"}
       [] OTHER -> \/ next.state = "queued"
                   \/ next.state = "running" /\ prev.state \in TerminalState

(* A session starts with the event "admitted", which names no run. *)
LastEvent(s) ==
  IF last[s] = NoRun THEN [run |-> NoRun, state |-> "admitted"]
                     ELSE [run |-> last[s], state |-> life[last[s]]]

(* agentLifecycleEventForSession: the previous event of the run, else of   *)
(* the session, among the committed events followed by the pending ones.   *)
Pending(e, r) == {k \in DOMAIN e : e[k].run = r}
PreviousEvent(r, e) ==
  IF Pending(e, r) # {} THEN e[CHOOSE k \in Pending(e, r) : \A l \in Pending(e, r) : l <= k]
  ELSE IF life[r] # "none" THEN [run |-> r, state |-> life[r]]
  ELSE IF e # <<>> THEN e[Len(e)]
  ELSE LastEvent(SessionOf[r])

CanRecord(r, st, e) == IsLegal(PreviousEvent(r, e), [run |-> r, state |-> st])

(* recordAgentLifecycle: commits one event at once. *)
Record(r, st) ==
  /\ life' = [life EXCEPT ![r] = st]
  /\ last' = [last EXCEPT ![SessionOf[r]] = r]

(* The committed states after the events e of session s and then "queued"  *)
(* for those runs of the sequence d that have no event yet.                *)
Flushed(e, d) == {k \in DOMAIN d : life[d[k]] = "none" /\ Pending(e, d[k]) = {}}
RecordAllUnflushed(s, e, d) ==   \* mutant: deferred events are lost
  /\ life' = [r \in RunId |-> IF Pending(e, r) # {} THEN PreviousEvent(r, e).state ELSE life[r]]
  /\ last' = [last EXCEPT ![s] = IF e # <<>> THEN e[Len(e)].run ELSE @]
RecordAll(s, e, d) ==
  LET fl == Flushed(e, d)
  IN /\ life' = [r \in RunId |->
                   IF \E k \in fl : d[k] = r THEN "queued"
                   ELSE IF Pending(e, r) # {} THEN PreviousEvent(r, e).state
                   ELSE life[r]]
     /\ last' = [last EXCEPT ![s] =
                   IF fl # {} THEN d[CHOOSE k \in fl : \A l \in fl : l <= k]
                   ELSE IF e # <<>> THEN e[Len(e)].run ELSE @]

-----------------------------------------------------------------------------
(* runs/* *)

IdlePump == [pc |-> "idle", run |-> NoRun]

(* The senders of turns make a new run identity. *)
Fresh(r) ==
  /\ life[r] = "none" /\ attach[r] = "none" /\ phase[r] = "none"
  /\ Of(items, r) = {} /\ pump.run # r

(* A runs/enqueue may be a retry of one that was accepted before. *)
EnqueueRun(r) ==
  /\ Fresh(r) \/ life[r] # "none"
  /\ Enqueue(r, NoMsg, "none")
  /\ CanRecord(r, "queued", <<>>)
  /\ Record(r, "queued")
  /\ dirty' = TRUE
  /\ UNCHANGED <<attach, turns, pump, reloads>>

(* A lifecycle event the table refuses turns the call into an error after  *)
(* the item was changed.                                                   *)
RecordOrRefuse(r, st, accepted) ==
  \/ /\ CanRecord(r, st, <<>>)
     /\ Record(r, st)
     /\ dirty' = TRUE
     /\ accepted
  \/ /\ ~CanRecord(r, st, <<>>)
     /\ UNCHANGED <<life, last, dirty>>
     /\ ~accepted

CancelRun(r) ==
  /\ Revision(items) < MaxRev
  /\ MarkInterrupted(r)
  /\ \E ok \in BOOLEAN : RecordOrRefuse(r, "interrupted", ok)
  /\ UNCHANGED <<attach, turns, pump, reloads>>

EditQueue ==
  /\ Revision(items) < MaxRev
  /\ \/ \E r \in RunId : Start(r)
     \/ \E r \in RunId : Update(r)
     \/ \E s \in SessionId : Reorder(s)
  /\ dirty' = TRUE
  /\ UNCHANGED <<journal, turns, pump, reloads>>

-----------------------------------------------------------------------------
(* Turns *)

(* The turn of r opens: journal, recorder, and "running" if the committed  *)
(* events allow it (a claimed run already is).                             *)
OpenTurn(r) ==
  LET s == SessionOf[r]
  IN /\ attach' = [attach EXCEPT ![r] = "active"]
     /\ recorder' = [recorder EXCEPT ![s] = r]
     /\ ent' = [ent EXCEPT ![r] = IF CanRecord(r, "running", <<>>)
                                  THEN <<[run |-> r, state |-> "running"]>> ELSE <<>>]
     /\ deferred' = [deferred EXCEPT ![r] = <<>>]
     /\ dirty' = TRUE

OccupyBySession(r) ==   \* mutant: the session's id instead of the run's
  /\ phase' = [phase EXCEPT ![r] = "active"]
  /\ active' = [active EXCEPT ![SessionOf[r]] = SessionOf[r]]
Occupy(r) ==
  /\ phase' = [phase EXCEPT ![r] = "active"]
  /\ active' = [active EXCEPT ![SessionOf[r]] = r]

(* admitPiHostTurnRequest, then either the wait for the contract's digest  *)
(* or, without a contract, the rest of submitPiHostTurn.                   *)
CanAdmitBusy(r) == attach[r] = "none"   \* mutant: the session's turn is not looked up
CanAdmit(r) == attach[r] = "none" /\ active[SessionOf[r]] \in {NoRun, r}
Admit(r) ==
  /\ CanAdmit(r)
  /\ \/ /\ ~GoalContracts
        /\ OpenTurn(r)
        /\ Occupy(r)
     \/ /\ GoalContracts
        /\ phase' = [phase EXCEPT ![r] = "admitting"]
        /\ UNCHANGED <<attach, recorder, active, ent, deferred, dirty>>

SubmitTurn(r) ==
  /\ Fresh(r)
  /\ Admit(r)
  /\ UNCHANGED <<items, life, last, pump, reloads>>

(* The digest is there.  A contract without an executable criterion ends   *)
(* the turn after one more wait, in which the session is not occupied.     *)
ContractReady(r) ==
  /\ phase[r] = "admitting"
  /\ OpenTurn(r)
  /\ \/ Occupy(r)
     \/ phase' = [phase EXCEPT ![r] = "unverifiable"] /\ UNCHANGED active
  /\ UNCHANGED <<items, life, last, pump, reloads>>

(* handleActiveQueue: a message for a busy session becomes a queued run;   *)
(* its lifecycle event waits in the recorder for the end of the turn.      *)
QueueFollowUp(r, m) ==
  LET s == SessionOf[r]
  IN /\ Fresh(r)
     /\ active[s] # NoRun /\ recorder[s] # NoRun
     /\ CanRecord(r, "queued", ent[recorder[s]])
     /\ Enqueue(r, m, "queue")
     /\ deferred' = [deferred EXCEPT ![recorder[s]] = Append(@, r)]
     /\ dirty' = TRUE
     /\ UNCHANGED <<journal, phase, recorder, active, ent, pump, reloads>>

(* handleActiveSteer: the message joins the active turn. *)
SteerFollowUp(r, m) ==
  /\ Fresh(r)
  /\ active[SessionOf[r]] # NoRun
  /\ RecordAcceptedSteer(r, m)
  /\ dirty' = TRUE
  /\ UNCHANGED <<journal, turns, pump, reloads>>

PumpAfterTurn(r) ==
  IF pump = [pc |-> "turn", run |-> r] THEN [pump EXCEPT !.pc = "settle"] ELSE pump

(* The end of the turn of r: its terminal event goes to whatever recorder  *)
(* the session has, its own recorder is committed, deferred events follow. *)
CloseTurn(r, st) ==
  LET s    == SessionOf[r]
      rec  == recorder[s]
      e    == [run |-> r, state |-> st]
      ok   == CanRecord(r, st, ent[r]) /\ rec # NoRun
      ent1 == IF ok THEN [ent EXCEPT ![rec] = Append(@, e)] ELSE ent
  IN /\ RecordAll(s, ent1[r], deferred[r])
     /\ ent' = [ent1 EXCEPT ![r] = <<>>]
     /\ deferred' = [deferred EXCEPT ![r] = <<>>]
     /\ attach' = [attach EXCEPT ![r] = "terminal"]
     /\ phase' = [phase EXCEPT ![r] = "done"]
     /\ recorder' = [recorder EXCEPT ![s] = IF @ = r THEN NoRun ELSE @]
     /\ pump' = PumpAfterTurn(r)
     /\ dirty' = TRUE

EndTurnKeepsSession(r, st) ==   \* mutant: the session stays occupied
  /\ phase[r] = "active"
  /\ CloseTurn(r, st)
  /\ IF st = "interrupted" THEN PauseSession(SessionOf[r]) ELSE UNCHANGED items
  /\ UNCHANGED <<active, reloads>>
EndTurn(r, st) ==
  /\ phase[r] = "active"
  /\ CloseTurn(r, st)
  /\ active' = [active EXCEPT ![SessionOf[r]] = IF @ = r THEN NoRun ELSE @]
  /\ IF st = "interrupted" THEN PauseSession(SessionOf[r]) ELSE UNCHANGED items
  /\ UNCHANGED reloads

(* A provider stage that ends the turn: the record is committed, but with  *)
(* neither a terminal lifecycle event nor the deferred ones.               *)
EndProviderStopped(r) ==
  LET s == SessionOf[r]
  IN /\ ProviderStage
     /\ phase[r] = "active"
     /\ RecordAll(s, ent[r], <<>>)
     /\ ent' = [ent EXCEPT ![r] = <<>>]
     /\ deferred' = [deferred EXCEPT ![r] = <<>>]
     /\ attach' = [attach EXCEPT ![r] = "terminal"]
     /\ phase' = [phase EXCEPT ![r] = "done"]
     /\ recorder' = [recorder EXCEPT ![s] = IF @ = r THEN NoRun ELSE @]
     /\ active' = [active EXCEPT ![s] = IF @ = r THEN NoRun ELSE @]
     /\ pump' = PumpAfterTurn(r)
     /\ dirty' = TRUE
     /\ UNCHANGED <<items, reloads>>

EndUnverifiable(r) ==
  /\ phase[r] = "unverifiable"
  /\ CloseTurn(r, "completed")
  /\ UNCHANGED <<items, active, reloads>>

-----------------------------------------------------------------------------
(* The renderer's pump: list, claim, run the task, settle; one at a time.  *)

AnySession == SessionId                              \* mutant of FreeSessions
(* canClaim in handleRunRequest: an active session is skipped. *)
FreeSessions == {s \in SessionId : active[s] = NoRun}
NextItem == FirstOf(Ready(FreeSessions))

PumpClaim ==
  LET r == items[NextItem].run
  IN /\ pump.pc = "idle"
     /\ Claim(FreeSessions)
     /\ \E ok \in BOOLEAN :
          /\ RecordOrRefuse(r, "running", ok)
          /\ pump' = IF ok THEN [pc |-> "claimed", run |-> r] ELSE pump
     /\ UNCHANGED <<attach, turns, reloads>>

(* runTask submits the claimed run as a turn ... *)
PumpSubmit ==
  /\ pump.pc = "claimed"
  /\ Admit(pump.run)
  /\ pump' = [pump EXCEPT !.pc = "turn"]
  /\ UNCHANGED <<items, life, last, reloads>>

(* ... or runs an external CLI, or gives up before any turn. *)
PumpNoTurn ==
  /\ pump.pc = "claimed"
  /\ pump' = [pump EXCEPT !.pc = "settle"]
  /\ UNCHANGED <<items, journal, turns, dirty, reloads>>

(* runs/settle with the task's outcome, which need not be the turn's.      *)
PumpSettle(st) ==
  LET r == pump.run
  IN /\ pump.pc = "settle"
     /\ pump' = IdlePump
     /\ IF Settleable(r) = {} THEN UNCHANGED <<items, life, last, dirty>>
        ELSE /\ Settle(r)
             /\ IF life[r] = st THEN dirty' = TRUE /\ UNCHANGED <<life, last>>
                ELSE \E ok \in BOOLEAN : RecordOrRefuse(r, st, ok)
     /\ UNCHANGED <<attach, turns, reloads>>

(* The renderer reloads: a new pump starts; the Host goes on. *)
RendererReload ==
  /\ reloads < Reloads
  /\ reloads' = reloads + 1
  /\ pump' = IdlePump
  /\ UNCHANGED <<items, journal, turns, dirty>>

-----------------------------------------------------------------------------
Init ==
  /\ QInit
  /\ life = [r \in RunId |-> "none"]
  /\ last = [s \in SessionId |-> NoRun]
  /\ attach = [r \in RunId |-> "none"]
  /\ phase = [r \in RunId |-> "none"]
  /\ recorder = [s \in SessionId |-> NoRun]
  /\ active = [s \in SessionId |-> NoRun]
  /\ ent = [r \in RunId |-> <<>>]
  /\ deferred = [r \in RunId |-> <<>>]
  /\ pump = IdlePump
  /\ dirty = FALSE
  /\ reloads = 0

PumpOutcome == {"completed", "interrupted", "failed"}

Next ==
  \/ \E r \in RunId : EnqueueRun(r)
  \/ \E r \in RunId : CancelRun(r)
  \/ EditQueue
  \/ \E r \in RunId : SubmitTurn(r)
  \/ \E r \in RunId : ContractReady(r)
  \/ \E r \in RunId, m \in MsgId \cup {NoMsg} : QueueFollowUp(r, m)
  \/ \E r \in RunId, m \in MsgId \cup {NoMsg} : SteerFollowUp(r, m)
  \/ \E r \in RunId, st \in TerminalState : EndTurn(r, st)
  \/ \E r \in RunId : EndProviderStopped(r)
  \/ \E r \in RunId : EndUnverifiable(r)
  \/ PumpClaim
  \/ PumpSubmit
  \/ PumpNoTurn
  \/ \E st \in PumpOutcome : PumpSettle(st)
  \/ RendererReload

Spec == Init /\ [][Next]_vars

(* The pump wakes on every queue and lifecycle event and after each of its *)
(* own runs, a turn ends by its deadline at the latest, and the digest of  *)
(* a contract is computed.                                                 *)
Fairness ==
  /\ WF_vars(PumpClaim)
  /\ WF_vars(PumpSubmit \/ PumpNoTurn)
  /\ WF_vars(\E st \in PumpOutcome : PumpSettle(st))
  /\ \A r \in RunId : WF_vars(\E st \in TerminalState : EndTurn(r, st))
  /\ \A r \in RunId : WF_vars(ContractReady(r)) /\ WF_vars(EndUnverifiable(r))

FairSpec == Spec /\ Fairness

-----------------------------------------------------------------------------
(* Properties *)

HTypeOK ==
  /\ QTypeOK
  /\ life \in [RunId -> LifeState \cup {"none"}]
  /\ last \in [SessionId -> RunId \cup {NoRun}]
  /\ attach \in [RunId -> {"none", "active", "terminal"}]
  /\ phase \in [RunId -> {"none", "admitting", "active", "unverifiable", "done"}]
  /\ recorder \in [SessionId -> RunId \cup {NoRun}]
  /\ active \in [SessionId -> RunId \cup {NoRun}]
  /\ ent \in [RunId -> Seq(Event)]
  /\ deferred \in [RunId -> Seq(RunId)]
  /\ pump \in [pc : {"idle", "claimed", "turn", "settle"}, run : RunId \cup {NoRun}]
  /\ dirty \in BOOLEAN
  /\ reloads \in Nat

(* ADR-0041: one Pi session admits only one active Task run at a time.     *)
OneTurnPerSession ==
  \A r, q \in RunId :
    (phase[r] = "active" /\ phase[q] = "active" /\ SessionOf[r] = SessionOf[q]) => r = q

(* No session stays occupied, and no recorder registered, after the turn   *)
(* that did it: every later turn of the session would be refused.          *)
NoStaleOccupant ==
  \A s \in SessionId :
    /\ active[s] # NoRun => phase[active[s]] = "active" /\ SessionOf[active[s]] = s
    /\ recorder[s] # NoRun => phase[recorder[s]] \in {"active", "unverifiable"}

(* Whatever a session queues can be claimed as soon as its turn is over:   *)
(* the lifecycle table then accepts "running" for it.  A refused claim     *)
(* would leave the item "running" with nobody to run it.                   *)
QueuedCanResume ==
  \A i \in DOMAIN items :
    (Claimable(items[i]) /\ active[Session(items[i])] = NoRun)
      => CanRecord(items[i].run, "running", <<>>)

(* ADR-0042: queued Task runs resume after a restart.  The item the next   *)
(* claim selects is one whose lifecycle accepts "running".  It does not    *)
(* hold: with the item on disk and its lifecycle event lost, or after a    *)
(* turn that a provider stage ended, the claim is refused.                 *)
NextClaimAccepted ==
  Ready(FreeSessions) # {} => CanRecord(items[NextItem].run, "running", <<>>)

(* An item that is "running" is in the hands of the pump, which settles it *)
(* at the end; it would otherwise take a place in the queue for ever.      *)
NoOrphanRunning ==
  \A i \in DOMAIN items : items[i].status = "running" => pump.run = items[i].run

(* "Host-queued items may be edited or cancelled", whatever the session's  *)
(* turn does (interactive-follow-up-queue-and-steer/spec.md).              *)
CancellationAvailable ==
  \A i \in DOMAIN items : Queued(items[i]) => CanRecord(items[i].run, "interrupted", <<>>)

(* The lifecycle of a run has one terminal event: a late settlement, a     *)
(* retried enqueue or a second turn never replaces it.                     *)
TerminalIsFinal ==
  [][\A r \in RunId : life[r] \in TerminalState => life'[r] = life[r]]_vars

(* Work that is queued and not paused does not wait for ever. *)
DrainsQueue ==
  \A r \in RunId :
    (\E i \in Of(items, r) : Claimable(items[i])) ~> ~(\E i \in Of(items, r) : Claimable(items[i]))

(* What a client of the Host sees of a run. *)
RunView ==
  [r \in RunId |->
     IF phase[r] = "active" THEN "executing"
     ELSE IF attach[r] = "terminal" \/ \E i \in Of(items, r) : Terminal(items[i]) THEN "finished"
     ELSE IF Of(items, r) # {} \/ phase[r] # "none" THEN "waiting"
     ELSE IF life[r] \in TerminalState THEN "finished" ELSE "new"]

Promise == INSTANCE SessionRuns WITH run <- RunView

(* Every behaviour of the Host is one SessionRuns allows: each run is      *)
(* executed at most once, one at a time in its session, and a withdrawn or *)
(* finished run never comes back.                                          *)
KeepsPromise == Promise!Spec
=============================================================================
