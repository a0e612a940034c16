----------------------------- MODULE RendererQueue -----------------------------
(***************************************************************************)
(* The renderer's queue of runs that found no capacity: the array and the  *)
(* drain of app/src/agent/runQueue.ts, the markers of runJournal.ts, and   *)
(* the admission of a run by runTask (taskRunCoordinator.ts) to the slots  *)
(* of agentStore.ts.  Modelled are runs that end with their renderer; the  *)
(* closeout of the Host's own is RunFinalization.                          *)
(*                                                                         *)
(* A run is executed on behalf of a call: of an ingress ("direct") or of   *)
(* the drain.  A step lies between two awaits.  Every change of the array  *)
(* is written to localStorage in the step that makes it, so the array in   *)
(* memory and the one on disk are one variable.                            *)
(***************************************************************************)
EXTENDS ArrayFilter, SequencesExt

CONSTANTS
  Run, ThreadOf, NoThread,  \* runs, and the thread a run reuses
  Queueing, Steering,       \* runs whose busy policy is to queue, or to take over
  Late,         \* runs that are queued when their reservation fails
  Delegate,     \* runs of Sub Agents
  Guarded,      \* runs whose trigger or connector snapshot may be refused
  Limit,        \* settings.maxConcurrentRuns
  MaxQueue,     \* MAX_RUN_QUEUE
  Submits,      \* bound: how often each run is submitted
  Reloads       \* bound: reloads and crashes of the renderer

ASSUME QueueAssumption ==
  /\ Limit \in Nat \ {0} /\ MaxQueue \in Nat \ {0} /\ Submits \in [Run -> Nat \ {0}]
  /\ Queueing \cup Late \cup Delegate \cup Guarded \subseteq Run /\ Steering \subseteq Run \ Queueing

VARIABLES
  queue,      \* queue: items
  marker,     \* journal entries of kind "queue"
  entry,      \* journal entries of kind "run": none, admitted, ended
  reserved,   \* reservedRuns
  pc,         \* what the calls of runTask do
  drain,      \* off, asking for slots, or waiting for its batch
  batch,      \* the items it waits for
  boot,       \* RunQueueBootstrap has not drained yet
  made,       \* submissions of a run
  accepted,   \* items reported as queued
  cancelled,  \* items settled as cancelled
  rejected,   \* items settled because their trigger or snapshot was refused
  disabled,   \* items dropped because Sub Agents were off
  started,    \* how often a run was executed
  reloads

refused == <<rejected, disabled>>
qvars == <<queue, marker, entry, reserved, pc, drain, batch, boot, made, accepted,
           cancelled, refused, started, reloads>>

Kind == {"direct", "drain"}
Item == UNION {[run: {r}, no: 1..Submits[r]] : r \in Run}
Undecided == {"deciding", "checking", "stopping", "reserving"}
Active == Undecided \cup {"running", "finished", "kicked"}
Stage == Active \cup {"none", "called", "busy", "done"}

Mark(S, m) == [i \in Item |-> IF i \in S THEN m ELSE marker[i]]
Without(q, S) == KeepOnly(q, {i \in DOMAIN q : q[i] \notin S})
RunsOf(q) == {i.run : i \in ToSet(q)}

(* canStartRun, canStartRun(runId, threadId) *)
SlotFree == Cardinality(reserved) < Limit
CanStart(r) ==
  \/ r \in reserved
  \/ SlotFree /\ \A s \in reserved : ThreadOf[r] = NoThread \/ ThreadOf[s] # ThreadOf[r]

(* coordinatingRunIds *)
Coordinating(r) == \E k \in Kind : pc[k][r] \in Active

NotRunning(r) == ~Coordinating(r)   \* mutant: hasJournalledEnding is not asked
NotRepeated(r) == entry[r] # "ended" /\ ~Coordinating(r)

At(k, r, st) == pc[k][r] = st
Goes(k, r, st) == pc' = [pc EXCEPT ![k][r] = st]
GoesTo(k, r, st) ==
  /\ Goes(k, r, st)
  /\ UNCHANGED <<queue, marker, entry, reserved, drain, batch, boot, made, accepted, cancelled, refused, started, reloads>>
(* A call of the drain is answered when the drain reads its result. *)
AnswersNobody(k, r, result) == Goes(k, r, "none")   \* mutant: the drain does not get it
Answers(k, r, result) == Goes(k, r, IF k = "direct" THEN "none" ELSE result)

-----------------------------------------------------------------------------
(* runTask *)

Submit(r) ==
  /\ made[r] < Submits[r] /\ At("direct", r, "none")
  /\ made' = [made EXCEPT ![r] = @ + 1]
  /\ IF NotRepeated(r) THEN Goes("direct", r, "deciding") ELSE UNCHANGED pc
  /\ UNCHANGED <<queue, marker, entry, reserved, drain, batch, boot, accepted, cancelled, refused, started, reloads>>

(* The drain's call reaches the guards of runTask. *)
Begin(r) ==
  /\ At("drain", r, "called")
  /\ Goes("drain", r, IF NotRepeated(r) THEN "deciding" ELSE "done")
  /\ UNCHANGED <<queue, marker, entry, reserved, drain, batch, boot, made, accepted, cancelled, refused, started, reloads>>

(* enqueueExternalRun: what exceeds the bound is settled as cancelled. *)
Overflow(q) == {q[i] : i \in 1..(Len(q) - MaxQueue)}
Enqueue(r) ==
  LET item == [run |-> r, no |-> made[r]]
      all == Append(queue, item)
      drop == Overflow(all)
  IN  /\ queue' = Without(all, drop)
      /\ marker' = [Mark(drop, "terminal") EXCEPT ![item] = "queued"]
      /\ accepted' = accepted \cup {item}
      /\ cancelled' = cancelled \cup drop

(* No capacity: a submission may be queued, the answer is busy. *)
Refuse(k, r, queued) ==
  /\ IF k = "direct" /\ r \in queued /\ r \notin RunsOf(queue)
     THEN Enqueue(r) ELSE UNCHANGED <<queue, marker, accepted, cancelled>>
  /\ Answers(k, r, "busy")
  /\ UNCHANGED <<entry, reserved, drain, batch, boot, made, refused, started, reloads>>

(* decideInitialTaskRunAdmission.  The user may switch Sub Agents off, and *)
(* on, at any time: a delegate that is drained while they are off has      *)
(* failed, its item is dropped, and nobody is told.                        *)
Dispatched(k, r) == IF k = "drain" THEN {i \in batch : i.run = r} ELSE {}
Admissions(k, r) ==
  IF k = "direct" /\ r \in RunsOf(queue) THEN {"queued-duplicate"}
  ELSE {IF r \in reserved THEN "active-duplicate" ELSE "proceed"}
       \cup (IF r \in Delegate THEN {"delegate-disabled"} ELSE {})
Decide(k, r) ==
  /\ At(k, r, "deciding")
  /\ \E decision \in Admissions(k, r) :
       /\ IF decision = "proceed" THEN Goes(k, r, "checking") ELSE Answers(k, r, "done")
       /\ disabled' = disabled \cup (IF decision = "delegate-disabled" THEN Dispatched(k, r) ELSE {})
  /\ UNCHANGED <<queue, marker, entry, reserved, drain, batch, boot, made, accepted, cancelled, rejected, started, reloads>>

(* rejectBeforeStart, and a missing snapshot of the connectors: whether    *)
(* the schedule still claims the trigger is left open.  The caller is told *)
(* by onSettled.  A submission that only suggests an automation ends here. *)
Reject(k, r) ==
  /\ At(k, r, "checking") /\ r \in Guarded
  /\ Answers(k, r, "done")
  /\ rejected' = rejected \cup Dispatched(k, r)
  /\ UNCHANGED <<queue, marker, entry, reserved, drain, batch, boot, made, accepted, cancelled, disabled, started, reloads>>

(* The capacity.  A follow-up to the run of its thread may be the Host's   *)
(* to answer; a takeover stops the run in its way, if one can be stopped.  *)
InTheWay(r) == {s \in reserved : ThreadOf[r] \in {NoThread, ThreadOf[s]}}
FollowsUp(k, r) == k = "direct" /\ ThreadOf[r] # NoThread /\ InTheWay(r) # {}
TakesOver(k, r) == k = "direct" /\ r \in Steering /\ InTheWay(r) # {}
Check(k, r) ==
  /\ At(k, r, "checking")
  /\ \/ CanStart(r) /\ GoesTo(k, r, "reserving")
     \/ ~CanStart(r) /\ TakesOver(k, r) /\ GoesTo(k, r, "stopping")
     \/ ~CanStart(r) /\ FollowsUp(k, r) /\ Refuse(k, r, {})
     \/ ~CanStart(r) /\ Refuse(k, r, Queueing)

(* The run that was told to stop has stopped, or outlives the second that  *)
(* it is waited for.                                                       *)
TakeOver(k, r) ==
  /\ At(k, r, "stopping")
  /\ \/ CanStart(r) /\ GoesTo(k, r, "reserving")
     \/ ~CanStart(r) /\ Refuse(k, r, Run)

(* reserveRun, recordRunAdmitted and _onAdmitted of a drained item *)
ReserveUnchecked(k, r) ==    \* mutant: the capacity was checked before the await
  /\ At(k, r, "reserving")
  /\ reserved' = reserved \cup {r} /\ entry' = [entry EXCEPT ![r] = "admitted"]
  /\ queue' = Without(queue, Dispatched(k, r)) /\ marker' = Mark(Dispatched(k, r), "dispatching")
  /\ started' = [started EXCEPT ![r] = @ + 1]
  /\ Goes(k, r, "running")
  /\ UNCHANGED <<drain, batch, boot, made, accepted, cancelled, refused, reloads>>
Reserve(k, r) ==
  /\ At(k, r, "reserving")
  /\ IF CanStart(r)
     THEN /\ reserved' = reserved \cup {r}
          /\ entry' = [entry EXCEPT ![r] = "admitted"]
          /\ queue' = Without(queue, Dispatched(k, r))
          /\ marker' = Mark(Dispatched(k, r), "dispatching")
          /\ started' = [started EXCEPT ![r] = @ + 1]
          /\ Goes(k, r, "running")
          /\ UNCHANGED <<drain, batch, boot, made, accepted, cancelled, refused, reloads>>
     ELSE Refuse(k, r, Late)

(* finalizeTaskRun: the journal, onSettled, the release of the slot *)
Finish(k, r) ==
  /\ At(k, r, "running") /\ Goes(k, r, "finished")
  /\ entry' = [entry EXCEPT ![r] = "ended"]
  /\ reserved' = reserved \ {r}
  /\ UNCHANGED <<queue, marker, drain, batch, boot, made, accepted, cancelled, refused, started, reloads>>

(* drainExternalRunQueue returns at once while another drain is going on. *)
StartDrain == drain' = IF drain = "off" /\ queue # <<>> THEN "asking" ELSE drain
Kick(k, r) ==
  /\ At(k, r, "finished") /\ Goes(k, r, "kicked")
  /\ StartDrain
  /\ UNCHANGED <<queue, marker, entry, reserved, batch, boot, made, accepted, cancelled, refused, started, reloads>>
Return(k, r) ==
  /\ At(k, r, "kicked") /\ Answers(k, r, "done")
  /\ UNCHANGED <<queue, marker, entry, reserved, drain, batch, boot, made, accepted, cancelled, refused, started, reloads>>

-----------------------------------------------------------------------------
(* The drain *)

Least(a, b) == IF a < b THEN a ELSE b
Slots == IF SlotFree THEN Limit - Cardinality(reserved) ELSE 0
Candidates == {queue[i] : i \in 1..Least(Slots, Len(queue))}
DrainBatch ==
  /\ drain = "asking"
  /\ batch' = Candidates
  /\ drain' = IF Candidates = {} THEN "off" ELSE "waiting"
  /\ pc' = [pc EXCEPT !["drain"] = [r \in Run |-> IF \E i \in Candidates : i.run = r THEN "called" ELSE @[r]]]
  /\ UNCHANGED <<queue, marker, entry, reserved, boot, made, accepted, cancelled, refused, started, reloads>>

BusyItems == {i \in batch : At("drain", i.run, "busy")}
Marked == [i \in Item |-> IF i \in BusyItems THEN "queued" ELSE IF i \in batch THEN "terminal" ELSE marker[i]]
(* A busy item was not admitted, hence never left the array. *)
Collect ==
  /\ drain = "waiting" /\ \A i \in batch : pc["drain"][i.run] \in {"busy", "done"}
  /\ queue' = Without(queue, batch \ BusyItems)
  /\ marker' = Marked
  /\ drain' = IF BusyItems # {} \/ queue' = <<>> THEN "off" ELSE "asking"
  /\ batch' = {} /\ pc' = [pc EXCEPT !["drain"] = [r \in Run |-> "none"]]
  /\ UNCHANGED <<entry, reserved, boot, made, accepted, cancelled, refused, started, reloads>>

-----------------------------------------------------------------------------
(* The user *)

(* removeQueuedRun of one item, clearRunQueue of all *)
Cancel(S) ==
  /\ S # {} /\ (S = ToSet(queue) \/ \E i \in ToSet(queue) : S = {i})
  /\ queue' = Without(queue, S)
  /\ marker' = Mark(S, "terminal")
  /\ cancelled' = cancelled \cup S
  /\ UNCHANGED <<entry, reserved, pc, drain, batch, boot, made, accepted, refused, started, reloads>>

(* moveQueuedRun *)
Swapped(q, i) == [q EXCEPT ![i] = q[i + 1], ![i + 1] = q[i]]
Move(i) ==
  /\ i \in 1..(Len(queue) - 1) /\ queue' = Swapped(queue, i)
  /\ UNCHANGED <<marker, entry, reserved, pc, drain, batch, boot, made, accepted, cancelled, refused, started, reloads>>

-----------------------------------------------------------------------------
(* The renderer goes and comes back: reconcileStartup marks what was in    *)
(* progress as interrupted, hydrateRunQueue takes the items whose marker   *)
(* still says queued.                                                      *)

Reborn(entries, markers) ==
  /\ reloads < Reloads /\ reloads' = reloads + 1
  /\ entry' = [r \in Run |-> IF entries[r] = "admitted" THEN "ended" ELSE entries[r]]
  /\ marker' = [i \in Item |-> IF markers[i] = "dispatching" THEN "terminal" ELSE markers[i]]
  /\ queue' = Without(queue, {i \in Item : marker'[i] \notin {"none", "queued"}})
  /\ reserved' = {} /\ batch' = {} /\ drain' = "off" /\ boot' = TRUE
  /\ pc' = [k \in Kind |-> [r \in Run |-> "none"]]
  /\ UNCHANGED <<made, accepted, cancelled, refused, started>>

Reload == Reborn(entry, marker)
(* It dies between the two writes of an admission, which has then executed *)
(* nothing: the run's owner is written first.                              *)
DieMarkedFirst(k, r) ==    \* mutant: the item's marker is written first
  At(k, r, "reserving") /\ CanStart(r) /\ Reborn(entry, Mark(Dispatched(k, r), "dispatching"))
DieInAdmission(k, r) ==
  At(k, r, "reserving") /\ CanStart(r) /\ Reborn([entry EXCEPT ![r] = "admitted"], marker)

(* RunQueueBootstrap drains once there is a slot, or gives up after twelve *)
(* attempts without.                                                       *)
Boot ==
  /\ boot /\ boot' = FALSE
  /\ IF SlotFree THEN StartDrain ELSE UNCHANGED drain
  /\ UNCHANGED <<queue, marker, entry, reserved, pc, batch, made, accepted, cancelled, refused, started, reloads>>

QInit ==
  /\ queue = <<>> /\ marker = [i \in Item |-> "none"] /\ entry = [r \in Run |-> "none"]
  /\ reserved = {} /\ pc = [k \in Kind |-> [r \in Run |-> "none"]]
  /\ drain = "off" /\ batch = {} /\ boot = FALSE /\ reloads = 0
  /\ made = [r \in Run |-> 0] /\ started = [r \in Run |-> 0]
  /\ accepted = {} /\ cancelled = {} /\ rejected = {} /\ disabled = {}

Proceed(k, r) ==
  \/ Decide(k, r) \/ Reject(k, r) \/ Check(k, r) \/ TakeOver(k, r)
  \/ Reserve(k, r) \/ Kick(k, r) \/ Return(k, r)
QNext ==
  \/ \E r \in Run : Submit(r) \/ Begin(r)
  \/ \E k \in Kind, r \in Run : Proceed(k, r) \/ Finish(k, r) \/ DieInAdmission(k, r)
  \/ DrainBatch \/ Collect \/ Boot \/ Reload
  \/ \E S \in SUBSET ToSet(queue) : Cancel(S)
  \/ \E i \in 1..MaxQueue : Move(i)

QSpec == QInit /\ [][QNext]_qvars
(* The renderer goes on; a run that executes ends, by its deadlines. *)
GoesOn(k, r) == Proceed(k, r) \/ Finish(k, r) \/ (k = "drain" /\ Begin(r))
QFairSpec ==
  /\ QSpec /\ WF_qvars(DrainBatch \/ Collect) /\ WF_qvars(Boot)
  /\ \A k \in Kind, r \in Run : WF_qvars(GoesOn(k, r))

-----------------------------------------------------------------------------
(* Properties *)

QTypeOK ==
  /\ queue \in Seq(Item) /\ Len(queue) <= MaxQueue
  /\ marker \in [Item -> {"none", "queued", "dispatching", "terminal"}]
  /\ entry \in [Run -> {"none", "admitted", "ended"}]
  /\ reserved \subseteq Run /\ batch \subseteq Item
  /\ pc \in [Kind -> [Run -> Stage]] /\ drain \in {"off", "asking", "waiting"}
  /\ rejected \cup disabled \subseteq Item

(* Between the check of the capacity and the reservation others may take   *)
(* the slots: still there are never more runs than slots, nor two runs of  *)
(* one thread.                                                             *)
CapacityKept ==
  /\ Cardinality(reserved) <= Limit
  /\ \A r, s \in reserved : ThreadOf[r] = ThreadOf[s] /\ ThreadOf[r] # NoThread => r = s

(* A run is executed at most once, whatever is submitted again, drained    *)
(* again or hydrated after a crash.                                        *)
RunsOnce == \A r \in Run : started[r] <= 1

(* What waits in the queue would be taken up by the next renderer. *)
SurvivesReload == \A i \in ToSet(queue) : marker[i] = "queued"

(* What was reported as queued is queued, being dispatched, settled as     *)
(* cancelled or refused, or its run has been recorded: the drain, which    *)
(* works on a snapshot of the array, loses nothing that was submitted      *)
(* once, but a delegate it dispatched while Sub Agents were off.           *)
Accounted(i) ==
  \/ i \in ToSet(queue) \cup batch \cup cancelled \cup rejected
  \/ entry[i.run] # "none" \/ Coordinating(i.run)
NothingLost == \A i \in accepted : made[i.run] = 1 => Accounted(i) \/ i \in disabled

(* "never silent-drop schedule jobs": nor what was submitted again. *)
NeverDropped == \A i \in accepted : Accounted(i)

(* "Complete a queued run that will never be admitted." *)
NeverAdmitted == \A i \in cancelled : started[i.run] = 0

(* The guard against nested drains is given up. *)
DrainEnds == drain # "off" ~> drain = "off"

(* With every slot free, what is queued is taken up. *)
QueueMoves == (queue # <<>> /\ reserved = {}) ~> (queue = <<>> \/ reserved # {})
===============================================================================
