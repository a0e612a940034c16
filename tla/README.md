# A TLA+ model of AgentTeam's Task runs

AgentTeam is an Electron application in which a user (or an automation) starts *Task runs*: turns
of a Pi agent session.  Runs are executed by the **Pi Core Host** (a utility process,
`app/electron/`), asked for by the **renderer** (`app/src/agent/`), and supervised by the **main
process**, which restarts the Host when it dies.  The three share no memory: they exchange requests
and events, and the Host writes its state to a file after the fact.  What makes the system hard is
what lies between those messages: two turns of one session, a renderer that reloads, a Host that
dies between a response and the write that would have made it true.  This directory models that
part, checks it with TLC and proves parts of it with TLAPS.

## Inventory

| Component | State it keeps | Operations | Correct if |
|---|---|---|---|
| Host run queue, `piRunQueue.ts` | array of items: run, message, status, pause and manual flags, revision | enqueue, claim, pause, start, interrupt, settle, update, reorder, steer receipt | capacity, unique identities, FIFO up to visible edits, live work is never evicted |
| Run domain, `piHostRunDomain.ts` | the Host snapshot's queue | `runs/enqueue … runs/reorder` | a refused call leaves nothing behind; retries are idempotent |
| Agent lifecycle, `agentLifecycle.ts`, `piAgentLifecycleRecord.ts` | the lifecycle events in the session records | record an event, if the transition table allows it | one terminal event per run; queued work can start |
| Turn admission and settlement, `piHostProtocol.ts` | `activeSessionRuns`, `activeTurnRecorders`, deferred lifecycle events | `turn/submit`, steer, queue, cancel; the end of a turn | one turn per session; the end of a turn gives everything back |
| Queue pump, `hostAgentQueuePump.ts` | one claimed run | claim, run, settle, on events | every claimable item is claimed at last |
| Attachment journal, `piHostAttachment.ts` | one record per run: status, finalization claim, acknowledgement | begin, settle, claim, complete, acknowledge, recover | release only after the closeout; one owner at a time |
| Finalization, `taskRunCoordinator.ts`, `activeRunReattachment.ts` | per-renderer memo of closeouts, heartbeat | claim, write the answer, archive, complete, acknowledge | every run is closed out, once |
| Host state file, `piHostState.ts`, `piHostEntry.ts` | last snapshot written | asynchronous write, load | recovery from any earlier snapshot is sound |
| Workflow scheduler, `workflowScheduler.ts`, `workflowGraph.ts` | node statuses, attempts, budgets, artifacts | dispatch, observe, verify, retry, repair | dependencies, budgets, no result of a failed node |
| Renderer run queue and journal, `runQueue.ts`, `runJournal.ts`, `runLifecycle.ts` | local queue, active set, journal | admit, enqueue, drain, settle, reload | capacity, no lost submission |
| Agent communication, `piAgentCommunicationDomain.ts`, `piAgentWorkspaceAuthority.ts` | child sessions, mailboxes and leases, all as events of the session records; waiters | spawn, send, follow-up, acknowledge, wait, interrupt, resolve, close | a follow-up is given once; overlapping writers stay apart; the parent is told how a run ended |
| Reattachment, `reattachReconcile.ts` | snapshot and buffered entries | merge | no entry lost, doubled or out of order |
| Host storage, `piHostStorage.ts` | state file, database, backup | staged cutover | every crash point recovers |

How they interact: the renderer calls the Host (requests), the Host answers and emits events
(`host/queue`, `host/agent-lifecycle`), the pump reacts to the events.  Inside the Host the queue,
the lifecycle records and the attachment journal share one snapshot; a handler runs without
interruption between two awaits, and only an await that really waits (the digest of a Goal
Contract, the turn itself, the learning settlement) lets another handler in.

Hard behaviours: the interleaving of handlers at those awaits; follow-ups accepted during a turn
whose lifecycle events are deferred to its end; a renderer reload with requests in flight; leases
and heartbeats; the Host's death between a response and the write of the snapshot, which loses
queue items, lifecycle events and attachment records at different moments; retention limits.
`PROJECT.json` lists them as hazards, each at its line.

## Modules

| Module | Models | State ↔ code |
|---|---|---|
| `ArrayFilter` | `Array.prototype.filter` by positions | the array of the items kept, in their order; `RunQueue` and `RendererQueue` use it |
| `RunQueue` | class `PiRunQueue` | `items` is the array, one action per method; `Revision` is `revision()`. A run's session is the constant `SessionOf`. |
| `SessionRuns` | abstract specification | what a client may rely on: a run is accepted, executes at most once, alone in its session, and is finished for good |
| `HostRuns` (extends `RunQueue`) | `runs/*`, turns, lifecycle, pump | `life`/`last`: latest committed lifecycle event of a run/session; `ent`: events in a turn's recorder, not committed yet; `deferred`: `deferredLifecycle`; `active`, `recorder`: `activeSessionRuns`, `activeTurnRecorders`; `attach`: the record's status; `phase`: where `submitPiHostTurn` stands; `pump`: the local state of `pump()` |
| `HostRunsRestart` (extends `HostRuns`) | state file, death and restart of the Host | `disk`: last snapshot written; `dirty` (of `HostRuns`): a commit is not written |
| `RunFinalization` | closeout of one run | `record`, `disk`: the attachment record in memory and on disk; `waiting`: requests in the learning await; `pc`, `epoch`, `lost`: what a renderer does; `answers`: bubbles in the thread |
| `WorkflowGraphRun` | abstract specification | what a dependency graph promises: a node works only on done dependencies, what is done is reopened only with what depends on it |
| `WorkflowScheduler` | class `WorkflowScheduler` | `status`, `tried`, `total`, `active`, `reason`, `art`, `complete`: the maps and counters of the object; `exec`: where each call's `executeOne` of a node stands; `late`: the wall clock |
| `WorkflowRecovery` (extends `WorkflowScheduler`) | `checkpoint()`, `resume()`, the Host's death | `saving`: a checkpoint awaits its digests; `saved`: the last one handed out |
| `RendererQueue` | `runQueue.ts`, `runJournal.ts`, admission in `runTask`, slots of `agentStore.ts` | `queue`: the array and its copy in localStorage; `marker`, `entry`: journal entries; `reserved`: `reservedRuns`; `pc`: where each call of `runTask` stands; `drain`, `batch`: the drain; `cancelled`, `rejected`, `disabled`: the items that ended without being executed |
| `AgentCollaboration` | `agents/*`, leases, the children's claims, turns and settlements | `record`: the fold of the events in the session records (`lifecycleOf`, `projectedMailbox`, leases, resolutions); `entries`: a turn's recorder; `sessions`, `queue`: the snapshot's arrays; `held`: the arrays a waiter kept; `turn`: `activeSessionRuns`; `phase`: the pump that claimed a run |
| `StorageMigration` | `openPiHostStorage`, `migrateLegacy` | `state`, `backup`, `staged`, `marker`, `rows`: the files and the database; `pc`, `src`: each Host's place and its source; `old`: what a release from before the cutover works on; `owed`: contents that nothing superseded |
| `ArrayFilterProofs`, `RunQueueProofs`, `HostRunsProofs` (also of `HostRunsRestart`), `RunFinalizationProofs`, `RendererQueueProofs`, `WorkflowSchedulerProofs` (also of `WorkflowRecovery`), `AgentCollaborationProofs`, `StorageMigrationProofs` | theorems about the modules they are named for | |
| `MCRunQueue`, `MCHostRuns`, `MCHostRunsRestart`, `MCWorkflow`, `MCWorkflowRecovery`, `MCRendererQueue`, `MCAgentCollaboration` | instances for TLC | bounds on the array and the revision, sessions, symmetry |

A step of `HostRuns` is what the Host does between two awaits that really wait.  `PiRunQueue`
copies the array but shares the items with the live snapshot, so a handler that changes an item and
is then refused by the lifecycle table leaves the change in memory without a commit:
`RecordOrRefuse` is that case.  `GoalContracts` and `ProviderStage` switch on the turns that await
a contract's digest and the ones a sub-design provider stage can end.

In `RunFinalization` a reload kills the current renderer; its requests in flight are still
processed.  Time is one bit, whether the lease has expired: the lease of a dead owner may expire at
any moment, the lease of a live one only if its heartbeat fails, which costs one of `Faults`.

In `WorkflowScheduler` several calls drive loops over the same object; a step is what a call does
between two awaits that wait (a workspace, an execution, a verification). A batch checks all its
budgets before any of its nodes counts an attempt, so `Batch` is one action. An artifact is the
attempt that made it together with the attempts of the inputs it was made from, which is what a
repair must keep consistent. The product's own runtime passes no workspace authority and repairs
only between runs; `Writers` and `OutOfTurn` are the scheduler's interface, and each run says which of
it it uses.

In `AgentCollaboration` an agent's state is what its record says, and an event of an agent that is in
a turn is put into the turn's recorder, which nobody but the lifecycle check reads before the turn has
ended. The handlers are synchronous, with one exception: a waiter holds the two arrays until it is
woken. Arrays are replaced by every commit and their items shared, hence `Live` (the array is still
the snapshot's) and the frozen copy in `held`. Scopes are the relation `Overlap`. A child moved to a
worktree, or whose narrowed scope meets no other's, is `apart` (`MoveApart`); a scope may also be
narrowed to one that overlaps as before, and then the child gets its lease only if every owner has given
it back (`Narrow`). A narrowing that removes some overlaps and leaves others is not modelled.

In `RendererQueue` a run may be executed by an ingress or by the drain, which is why `pc` has two
rows. Three awaits lie between a submission and the reservation: a call first decides whether
it is a duplicate or a delegate while Sub Agents are off (`Decide`), then has its trigger and its
connector snapshot verified (`Reject`) and meets the capacity (`Check`), may stop the run in its way
(`TakeOver`), and at last reserves, which asks for capacity again (`Reserve`). A run without a slot is
queued or turned away, by its busy policy; a follow-up may be taken by the Host instead, which ends
the call. The schedule store, which may refuse a trigger, and the switch of Sub Agents are not state of the
model: `Guarded` runs may be refused and `Delegate` runs find the switch off at any time. What a refusal
ends is told through `onSettled` (`rejected`); what the switch ends is told to nobody (`disabled`).
The renderer writes its array with every change of it; a reload therefore keeps array and
journal and loses the rest. `Submits` counts how often an identity is submitted.

In `StorageMigration` every file operation is a step, because nothing keeps two Hosts from starting
(`sqliteDurableMemoryStore.ts` says that they may) and a release from before the cutover from running
beside them. That release is not in the repository; it is taken from `piHostState.ts` and from
`cutover-recovery.md`: it reads what it cannot read as a fresh state and writes by a rename, which fails
on a directory. A content is a number, for the state file and the memories in it alike.

Operators whose comment says *mutant* are plausible bugs, kept beside the definition they replace;
`PROJECT.json` pairs each with the property that must refute it.

## Runs

| Run | Instance | Shows |
|---|---|---|
| `queue` | 3 runs in 2 sessions, one message id, capacity 3; every call on arrays ≤ 3 with revision ≤ 5, and arrays up to the retention threshold of 12 filled with receipts | identities, manual start, pause, visible reorders, revisions; eviction spares live work |
| `host` | 3 runs of one session, capacity 2, `FairSpec` | one turn at a time; what is queued during a turn can be claimed after it; nothing is left running; terminal states are final; `SessionRuns` is implemented; claimable work is claimed |
| `contracts` | 3 runs in 2 sessions, Goal Contracts, provider stages, one reload | however a turn ends, no stale occupant or recorder is left |
| `restart` | 2 runs, Goal Contracts, provider stages, one reload, 2 deaths of the Host | records say active of live turns only; a turn on disk is not executed again |
| `closeout` | 2 renderers, 2 deaths, 2 faults, `FFairSpec` | fencing, learning before completion, release after completion, progress |
| `workflow` | two nodes and a join, one writer, 3 attempts each, 4 in total, three calls one after the other, `WFairSpec` | budgets, slots, fresh lineage, `WorkflowGraphRun` implemented, calls return |
| `workflow_resume` | the same with 2 attempts each, a checkpoint at any time, one death | a checkpoint is accepted, with the budget that was left, and closed under dependencies |
| `renderer` | 4 runs, two of one thread: one takes over, one is submitted twice, one is a delegate whose trigger may be refused, one is turned away without a slot; 2 slots, queue of 2, a reload or crash, `QFairSpec` | capacity and thread exclusion, at most one execution, nothing lost but a delegate dispatched while Sub Agents were off, drains end |
| `agents` | a child and a child of it, overlapping scopes, a follow-up, a message, a wait, 3 calls, queue of 2 that another run may half fill | a follow-up is steered or run, once; the parent is told what the record says; overlapping writers stay apart |
| `storage` | 2 Hosts, a release from before the cutover, 3 writes, 2 deaths, `SFairSpec` | no memory lost or imported twice; a Host gets into service |
| `contract_gap`, `agents_wait` | | disagreements between the code and its documents, below |

Bounds. `MaxLen`, `MaxRev` bound the array and how often users edit it (a revision counts the
edits): three items and five revisions are enough for two sessions to be paused, reordered, started by
hand and claimed in every order. Retention starts at `4 * Max = 12` items: `RetentionBound` lets an
array grow to it whose items, besides the first two and the newest, are receipts of the run `Steered`,
with `MaxEdits` revisions beyond one per item. In `agents` spawns, turns and settlements are free and `MaxCalls` bounds what users and agents do
beside them: three calls are a resolution or an interrupt, a wait and a turn of the root, or a
follow-up, its reading and its acknowledgement; a fourth was tried with one outcome of turns and
showed nothing new. `Outcome` leaves out turns that fail (a settlement as failed is in) and
`Waiters` waits of the children. Three runs of a session let one execute, one be claimed and one be queued or submitted at the same
time; `contracts` adds a second session beside it. In `renderer` four runs are the
fewest for a batch of two behind two that execute; the queue fills but never overflows, which takes a fifth
(the theorems about it know no such bound). `Crashes`, `Reloads`, `Loads`, `Faults` bound the failures; two of each let a failure
hit the recovery from the first. Deadlock is not checked: every model stops when its bounds or runs
are used up.

Fairness. `FairSpec` lets the pump claim (it is woken by every queue and lifecycle event and after
each of its own runs), submit and settle; a turn ends, by its deadline at the latest
(`armTurnDeadline`); the digest of a contract is computed. Nothing is assumed of users. `WFairSpec`
lets a call's loop go on and what a node waits for answer; `QFairSpec` lets the renderer go on and runs
end. `SFairSpec` lets a Host that is starting go on and one that ended be started again (the supervisor
does it three times, then the user). `FFairSpec`
lets the Host answer, a live renderer continue, and a lease expire. Reloads, crashes and writes to
disk are never forced.

### Disagreements found

* `contract_gap`: ADR-0041 promises one active Task run per session; the session is occupied only
  after the digest of the Goal Contract was awaited, so two turns can be admitted.
* `agents_wait`: a wait commits the arrays it read when it began. Queue items and children accepted
  during the wait leave the snapshot when it ends; ADR-0040 says queued work is never evicted.

Stated beside the models and known not to hold, without a run:

* `NextClaimAccepted` (`HostRuns`): after a restart the first queued item may be one whose claim
  is refused (its lifecycle event was not on disk), which leaves it `running` for ever. ADR-0042 says
  queued runs resume.
* `OneExecutionPerNode` (`WorkflowScheduler`, with `OutOfTurn`): the flag that tells a repair
  that the initial run is over is set when that run starts; a repair in the middle of it executes a node
  twice at once.
* `BudgetKept` and `CheckpointAccepted` (`WorkflowRecovery`, with `OutOfTurn`): the same flag is restored
  from a checkpoint that was written in the middle of the initial run. A repair before `continueRun()`
  is then accepted although nodes are pending, and reserves attempts only for those it resets: two
  nodes of one batch that both find one attempt left (`workflowScheduler.ts:416`) take two. The total exceeds
  `maxTotalAttempts`, and the next checkpoint is refused for ever (`:149`). TLC finds it with two independent
  nodes, one of them a writer, and a total of 2. The proof of `CheckpointAccepted` showed it: a
  total that all attempts fit into had hidden it from the run.
* `CancellationAvailable` (`HostRuns`): a follow-up queued behind an active turn cannot be cancelled
  before the turn ends, because its `queued` lifecycle event is still deferred.
* `TakenOver` (`RunFinalization`): a renderer that meets its dead predecessor's lease is refused once and
  then asks only its own memory, while `taskRunCoordinator.ts:204` speaks of a takeover.
* `DeliveredOnce` (`RunFinalization`): the answer is written before the claim is completed, and is
  written again by the next renderer after a reload in between.
* `SavedAtBoundary` (`WorkflowRecovery`): a checkpoint checks that no node runs, awaits digests, then
  reads the states.
* `NeverDropped` (`RendererQueue`): a replay of a queued run that is still being coordinated makes the
  drain's own dispatch a duplicate; the drain drops the item, and nobody is told.
  A second loss needs no replay: `decideInitialTaskRunAdmission` answers a delegate that the drain
  dispatches while Sub Agents are off as failed (`taskRunAdmission.ts:25`), without `onSettled` and
  without a journal entry, and `runQueue.ts:666` drops the item, although `runQueue.ts:487` speaks of
  completing "a queued run that will never be admitted". `NothingLost` therefore excepts `disabled`. At
  this commit it takes a delegate that is submitted to `runTask` directly or was persisted: the one caller
  in the repository (`app/src/agent/hostAgentQueuePump.ts:126`) passes `_fromQueue`, and such a call is never queued here.
* `NeverAdmitted`: an item stays in the array while the drain dispatches it; cancelled then, it is
  reported as cancelled and executed.
* `QueueMoves`: the drain calls of the last finalizations are turned away by a drain that is about to
  give up on a busy item. The queue waits for the next submission.

* `NothingForgotten` (`StorageMigration`, with `Gaps` TRUE): the cutover refuses a state that "changed
  during the migration" (`piHostStorage.ts:69`), but compares it before an await and renames it after:
  what the older release writes in between is moved to the backup and never imported. A Host that is
  slow to write the backup may then even overwrite it.

Also seen, and listed as hazards without a run of their own: `NextClaimAccepted` fails without any
crash when `ProviderStage` is TRUE (a provider stage that stops a turn records no terminal lifecycle
event); the revision is a maximum over the items and may repeat after an eviction; a direct turn
submitted while the session's last lifecycle event is a queued run of another records neither
`running` nor a terminal event.

Of the children, seen while modelling: a follow-up to a blocked child, or to one whose lease was
released, runs without a lease; an acknowledgement is undone by a `consume` of the same turn; a
follow-up retried during a turn is steered twice, because the duplicate check reads the record only; a
settlement with another outcome than the turn recorded is refused, also when the pump tries again: the
parent is not told, and a child serialized behind this one is not resumed; `serialize` chosen after the
owner has settled waits for ever; `release-lease` while the owner is in its turn records the release in
the owner's recorder and so always fails.

## Proofs

`RunQueueProofs` proves every property the runs check of the queue for all values of the constants,
assuming what `RunQueue` declares: `SessionOf` is a function, `Max` is at least 1, `NoMsg` is no
message.

* *Positions.* `Array.find`, `revision()` and the filter of the retention are CHOOSEs in the model.
  A set of positions has a least one (`LeastExists`, from the well-foundedness of `<`), an array that
  is not empty has an item of the largest revision (`TopExists`, by a least counterexample), and
  every rank below the number of kept positions is taken exactly once (`RankExists`,
  `RankInjective`, with `FilterLemma` in `ArrayFilterProofs`). Hence `KeepOnlyLemma`: the kept items
  are items of the old array, each once, in their order, and (`RetainedLemma`) no live one is missing.
* *Invariant.* `QIndInv` joins capacity, identities and the manual start with `Receipts`: a steer
  receipt is settled for ever. None is inductive alone: `Start` marks *every* queued item whose run
  is the picked one, and there is only one because admitted runs are unique and receipts, which may
  share a run, are never queued. `Embeds` describes the arrays the methods build; `EmbedLemma`,
  `InPlaceLemma` and `AppendLemma` say what such an array inherits, and there is one `...Good` lemma
  per method.
* *Steps.* `LiveWorkIsKept`, `OrderIsNotSilent`, `PauseEndsOnlyByStart` and `EditsAreVisible` are
  action properties. They follow the place of an item through a step: unchanged (`InPlaceSteps`),
  shifted by the retention (`AddingSteps`), or permuted (`ReorderLemma`).

`HostRunsProofs` first shows that the Host implements `RunQueue` (`HostDrivesQueue`): every step of
`HostRuns`, also one whose call is refused, changes the array as a method of `PiRunQueue` does or
leaves it alone.  The step of `runs/settle` needs the array's type, hence `QIndInv` as the invariant.
All theorems about the queue so hold in the Host.  `OccInv` then says who may occupy a session: a turn
of that session that is active, and a recorder only of a turn that has not ended.  It also keeps that
a turn in progress has its attachment record, which is why `turn/submit` never admits it again, and
that without Goal Contracts an active turn occupies its session.  `NoStaleOccupant` and, if
`GoalContracts` is FALSE, `OneTurnPerSession` follow; the run `contract_gap` shows that the hypothesis
is needed.  A further part is about restarts, with any number of deaths and without hypotheses: the
record of a run that is on disk is one the Host had made (`AttachInv`), so whatever snapshot the next
Host reads, `ActiveHasWitness` and `BegunIsNotResumed` hold.

The last part of `HostRunsProofs` is about what the lifecycle table accepts.  `HTypeCorrect` holds for all
constants.  The others assume that turns carry no Goal Contract and run no provider stage and that the
renderer does not reload (`~GoalContracts`, `~ProviderStage`, `Reloads = 0`); the run
`contract_gap` and the entries under "Disagreements" show what happens otherwise.

* *Invariant.* `LInv` says of each item what its status means (`Held`): a queued run has not begun, and
  its "queued" event is committed or deferred by the very turn that occupies its session (`Waiting`);
  a running one is in the pump's hands.  `TurnOK` says what a turn's recorder may hold and that what it
  deferred is of its session, `PumpInv` where the pump's run stands.  None of this is visible in
  `QueuedCanResume` or `NoOrphanRunning`: a claim is accepted only because the deferred events were
  committed in the step that freed the session (`CloseLemma`).
* *Implementation.* `HostKeepsPromise` maps what a client sees of a run to `SessionRuns`, one lemma per
  action.  It assumes `FewRuns`, at most 4 * Max runs, so that retention never drops an item.  Beyond
  that the promise is broken by the code: the receipt of a steered run, or of one cancelled before it
  had an event, is the only memory of it, and once it is evicted the run is new again (the hazard at
  `piRunQueue.ts:34`).

`RunFinalizationProofs` proves the safety of the closeout for any number of renderers, deaths and
faults, assuming only that there is a renderer (`BoundsAssumption`). `FIndInv` states the same four
facts (`Sound`) of the Host's record and of its copy on disk, because a restart puts the second in
the place of the first: an active record has no claim, a claim has an owner, a released record is
completed, and a completed one was learned and closed out by its owner. It adds that a renderer
waits for the learning only with its request in flight and that a renderer not yet loaded does
nothing, so that what a renderer has done is never undone (`RenderersInd`). `FinishedByOwner`,
`CompletedIsLearned`, `AckedIsCompleted` and `ClaimIsHeld` follow.

`RendererQueueProofs` proves the three safety properties of the run `renderer` for any runs, threads,
limits and number of reloads, in three layers (`QueueAssumption` only).

* `CapacityInv`: the reserved runs are finite, within the limit and of distinct threads. It needs
  nothing else because `Reserve` asks again.
* `OnceInv`: at most one call coordinates a run (`OneCoordinator`), a call that has not decided finds
  no entry (`FreshIfUndecided`), an admitted entry has a call that executes it (`AdmittedRuns`), and
  calls of the drain exist only while it waits for their items (`CallsOfBatch`). The last keeps a new
  batch from overwriting a call of the old one. `RunsOnce` follows.
* `LossInv`: items leave the array by a cancellation, by an entry, because they were refused, or as
  delegates dispatched while Sub Agents were off (`AcceptedKept`), what waits is marked so on disk
  (`SurvivesReload`), and the drain is told "done" only of what is in the journal, was refused or dropped
  in this way, or was submitted again (`DoneExplained`). `NothingLost` follows; `FilterLemma` says what filter() leaves.

`WorkflowSchedulerProofs` proves all safety properties of the run `workflow` for any graph, budget,
retry policy and writers, provided that calls come one after the other and that a restored scheduler
is let run on before it is repaired (`~OutOfTurn`); progress is model-checked.
`WInv` relates where a call stands with a node to the node's status (`StageFits`, `RunningIsBusy`), and
says that nothing is built on a node that is in a call's hands (`BusyIsUnused`): a release that fails
withdraws a passed node, and this is why it withdraws it before its use. All steps of `executeOne`
are instances of one lemma (`NodeStepKeeps`). `SchedulerImplementsGraph` maps each step to a step of
`WorkflowGraphRun` or a stutter, `BudgetHolds` adds that every pending node has its attempt reserved
(`AttemptsReserved`, which a repair renews because nothing is pending between calls:
`NothingLeftPending` proves that of a scheduler that was not restored), `SlotsHold` that
the nodes admitted and executing are at most a batch. Its last part extends this over
checkpoints and deaths: what `checkpoint()` reads after its await satisfies `SavedGood`, and that is
what a resumed scheduler needs for `WInv`. For `CheckpointAccepted` the total must be the sum that
`resume()` recomputes (`StepKeepsTotal`; the sum is the number of pairs of a node and an attempt of it, so that
`TriedMore` needs no induction), the checkpoint must keep the reservations of what is pending in it
(`SavedAccepted`), and a node that passed must have given what it has to (`Gives`).

`AgentCollaborationProofs` is about the children, for any tree of them, any overlaps, messages and
calls (`CollaborationAssumption` only).

* *Arrays and folds.* What a record says is a fold of events, and a handler that walks the sessions is a
  fold of host states. `AlongArray` and `CarriedExists` (`ArrayFilterProofs`) show that such a function of
  positions exists and carries a property from one position to the next; `ResumeInduction` and
  `StopInduction` are their instances. An operation's effect is stated once, as a predicate on the host
  before and after it (`Calm`: the mailboxes stay, `Silent`: no follow-up is marked as started,
  `Grows`: nothing is forgotten), and every handler has a lemma that says which states it can build
  (`...Made`).
* *Types.* `AInv` splits `ATypeOK` into the records (`Filed`), the sessions (`Listed`), the queue
  (`QueueOK`) and the waiter (`HeldOK`), and adds what makes it inductive: a listed child has a record, so
  that a spawn never lists it twice; a recorder holds events only during a turn; the sessions a waiter
  kept are among those listed. `ATypeCorrect` follows. The
  queue a waiter has kept is sound because it was the snapshot's, and because items are shared: what
  changes in it is a status, and an item never becomes live again.
* *Follow-ups.* `GivenOnce` says of a follow-up that has been steered that nothing can make it a run any
  more: it is in no queue, its turn has not begun (`Begun`), and the agent's record, once the recorder
  is flushed, has it as started and keeps its mail (`Sealed`). `FollowUpOnceHolds` follows.
* *Leases.* `WritersDisjoint` speaks of two children in their turns, but exclusion is decided when
  they are queued. A child is at work (`Working`) from the first event of its first run until the pump's
  part in that run is over. `LeaseInv` says, of every child but the ones `WritersDisjoint` excludes (`Exempt`),
  that it holds its lease as long as it works (`Lone`), that of two children with overlapping scopes one does not
  work (`Pairs`), that a child in conflict works only after the decision (`Ruled`), and that the
  pump and the agent agree on who is in a turn (`TurnPhases`). `Lone` also says that a run that has been in
  a queue, has been claimed or has begun shows it in the record, beneath whatever the recorder still holds
  (`Underway`): so the lifecycle table refuses to queue the child again, an array a waiter puts back cannot make it work
  twice, and a claim finds the child already working. Handlers that resume, release, decide
  and drain are folds over `Orderly`, the hosts in which this holds; `Keen` is the relation of two
  hosts between which nothing changed of a child's work and lease. `WritersDisjointHolds` follows.
* *Reports.* `SettlementAgrees` compares what a parent is told of a run with how the child's record says
  it ended, both as they will be once the recorders are flushed. It is not inductive: a run can be told
  of by its settlement, by an interrupt and by a decision on its conflict, and only the queue, the pump
  and the decisions keep two of them from saying different things. `ReportInv` says of every run that a
  run which was claimed no longer waits in the queue, and an agent that has done nothing has no turn (`Place`);
  that a run of which the parent was told nothing may be anything, but what it was told is how the run
  ended, and that a waiting, claimed or begun run shows just that, with no event in a recorder the pump
  does not wait for (`Plain`); that a child whose conflict was decided by cancelling it is in no queue
  (`CalledOff`), and that an undecided one is in none yet (`Dealt`). After a wait has put an old
  queue back none of this is claimed, and of a child whose conflict was decided in two ways only `Place`
  and `Dealt`: a decision sits in the recorder of a party in its turn, where neither
  `findConflictResolution` nor the check for a completion already recorded
  (`piAgentCommunicationDomain.ts:274`) looks, so a cancelled child can be queued by a second decision.
  Handlers are folds over `Concord`, the hosts in which `ReportInv` holds beside the queue to be
  written; `Still` is the relation of two hosts between which nothing changed of a run, and each handler
  lemma (`...Accord`) says which runs it leaves still and why the others stay in accord. The proof needs
  `AInv` (types) and `LeaseInv` (`TurnPhases`: who is in a turn). `SettlementAgreesHolds` follows.

`StorageMigrationProofs` proves `NothingForgotten` for any number of Hosts, writes and deaths, assuming
`~Gaps`. The invariant says that a Host past the migration has the source whose memories the database
holds (`InService`), and that the older release always writes from what the state file holds, also
when a Host is about to rename that file (`OldKnows`, which needs `~Gaps`). So what is retired is what was
imported.

Only model-checked: the lifecycle properties of `HostRuns` with contracts, provider stages or reloads,
liveness (`DrainsQueue`, `OwnerFinishes`, `CallReturns`, `DrainEnds`,
`ComesUp`), and the disagreements.

## Not modelled, and why

The content of turns, tools, prompts, packages, settings and the user interface: I/O and
presentation. Retention of attachment records (256 records, 24 hours): the model has one record.
Of the renderer's queue: the schedule store, and the text a follow-up or a suggestion is answered with.
Of child agents: narrowings that keep some overlaps, the limits of tree, mailbox and retention, policies, detached children, `recover()` at
the start of the Host, the retry of a spawn with the same identity, and the files that a lease
protects. The components listed as `not_modelled` in `PROJECT.json`: planned below or out of scope.

## Plan

1. Done: `RunQueue`, `HostRuns` with `SessionRuns`, `HostRunsRestart`, `RunFinalization`, and the
   theorems about `RunQueue`, `RunFinalization` and the occupancy of `HostRuns`.
2. Done: `WorkflowScheduler` with `WorkflowGraphRun` and `WorkflowRecovery`, `RendererQueue`, and the
   theorems about them; `AgentCollaboration`.
3. Done: `StorageMigration` and its theorem. Left: `ReattachReconcile`, the merge as an operator, checked
   against a reference over bounded inputs.
4. Done: the lifecycle properties of `HostRuns`, that it implements `SessionRuns`, and the properties
   of `HostRunsRestart`. Types, follow-ups, leases and
   reports of `AgentCollaboration`. Left: the lifecycle with contracts.
