------------------------------ MODULE RunQueue ------------------------------
(***************************************************************************)
(* The Host's bounded run queue: class PiRunQueue of                       *)
(* app/electron/piRunQueue.ts.                                             *)
(*                                                                         *)
(* `items` is the array of the class, and every public method that changes *)
(* it is an action.  A call that the method refuses leaves the array as it *)
(* was, so it is not a step.                                               *)
(*                                                                         *)
(* A run belongs to one session for its whole life, so the field sessionId *)
(* is the constant function SessionOf.  Prompts, profiles and timestamps   *)
(* are left out: no operation reads them.                                  *)
(***************************************************************************)
EXTENDS ArrayFilter

CONSTANTS
  RunId,        \* identities of runs
  SessionId,    \* identities of Pi sessions
  SessionOf,    \* the session every run belongs to
  MsgId,        \* clientMessageIds: the renderer's submission identities
  NoMsg,        \* an item without a clientMessageId
  Max           \* capacity; 24 in the program

ASSUME SessionOfAssumption == SessionOf \in [RunId -> SessionId]
ASSUME MaxAssumption       == Max \in Nat \ {0}
ASSUME NoMsgAssumption     == NoMsg \notin MsgId

VARIABLE items

qvars == <<items>>

-----------------------------------------------------------------------------
(* Items *)

Status == {"queued", "running", "interrupted", "settled"}
Action == {"none", "queue", "steer"}

Item == [run: RunId, msg: MsgId \cup {NoMsg}, action: Action, status: Status,
         paused: BOOLEAN, manual: BOOLEAN, rev: Nat]

NewItem(r, m, act, st, rev) ==
  [run |-> r, msg |-> m, action |-> act, status |-> st,
   paused |-> FALSE, manual |-> FALSE, rev |-> rev]

Session(item) == SessionOf[item.run]
Live(item) == item.status \in {"queued", "running"}
Terminal(item) == item.status \in {"settled", "interrupted"}
Queued(item) == item.status = "queued"
Claimable(item) == Queued(item) /\ ~item.paused

(* Positions of the array; Array.find returns the first of them. *)
Where(q, P(_)) == {i \in DOMAIN q : P(q[i])}
FirstOf(S) == CHOOSE i \in S : \A j \in S : i <= j
Of(q, r) == {i \in DOMAIN q : q[i].run = r}
Movable(q, s) == {i \in DOMAIN q : Session(q[i]) = s /\ Queued(q[i])}
LiveCount(q) == Cardinality(Where(q, Live))

(* revision(): the largest revision among the items. *)
Revision(q) ==
  IF q = <<>> THEN 0
  ELSE LET top == CHOOSE i \in DOMAIN q : \A j \in DOMAIN q : q[j].rev <= q[i].rev
       IN  q[top].rev

Stamped(item) == [item EXCEPT !.rev = Revision(items) + 1]

-----------------------------------------------------------------------------
(* Retention: an array of 4 * Max items loses its oldest terminal items,   *)
(* at most Len - 3 * Max of them.                                          *)

DroppedOldest(q) ==   \* mutant: live items are not spared
  IF Len(q) < 4 * Max THEN {} ELSE {i \in DOMAIN q : i <= Len(q) - 3 * Max}
Dropped(q) ==
  IF Len(q) < 4 * Max THEN {}
  ELSE LET T == Where(q, Terminal)
       IN  {i \in T : Rank(T, i) <= Len(q) - 3 * Max}
Retained(q) == KeepOnly(q, DOMAIN q \ Dropped(q))

-----------------------------------------------------------------------------
(* Actions: one per method. start, update and reorder carry the            *)
(* expectedRevision of their client and are refused unless it is           *)
(* Revision(items); the accepted call is the step.                         *)

NewMsg(m) == m # NoMsg => \A i \in DOMAIN items : items[i].msg # m
CanEnqueueAnyMessage(r, m) == Of(items, r) = {} /\ LiveCount(items) < Max                 \* mutant
CanEnqueue(r, m) ==
  Of(items, r) = {} /\ NewMsg(m) /\ LiveCount(items) < Max

Enqueue(r, m, act) ==
  LET kept == Retained(items)
  IN  /\ CanEnqueue(r, m)
      /\ items' = Append(kept, NewItem(r, m, act, "queued", Revision(kept) + 1))

(* dequeue(): a manually started item first, then the first claimable one, *)
(* of the sessions S.                                                      *)
Ready(S) ==
  LET ok == {i \in DOMAIN items : Claimable(items[i]) /\ Session(items[i]) \in S}
      hand == {i \in ok : items[i].manual}
  IN  IF hand # {} THEN hand ELSE ok

ClaimAt(i) ==
  items' = [items EXCEPT ![i] = [@ EXCEPT !.status = "running", !.paused = FALSE, !.manual = FALSE]]

Claim(S) == Ready(S) # {} /\ ClaimAt(FirstOf(Ready(S)))

(* claim(runId) *)
ClaimRun(r) ==
  LET ready == {i \in Of(items, r) : Claimable(items[i])}
  IN  ready # {} /\ ClaimAt(FirstOf(ready))

(* pauseSession: no step if there is nothing to pause. *)
Pausable(s) == {i \in DOMAIN items : Session(items[i]) = s /\ Claimable(items[i])}
PauseSessionSilently(s) ==   \* mutant: no new revision
  items' = [i \in DOMAIN items |->
              IF i \in Pausable(s) THEN [items[i] EXCEPT !.paused = TRUE] ELSE items[i]]
PauseSessionKeepsPick(s) ==  \* mutant: the pick outlives the pause
  items' = [i \in DOMAIN items |->
              IF i \in Pausable(s) THEN Stamped([items[i] EXCEPT !.paused = TRUE]) ELSE items[i]]
PauseSession(s) ==
  items' = [i \in DOMAIN items |->
              IF i \in Pausable(s)
              THEN Stamped([items[i] EXCEPT !.paused = TRUE, !.manual = FALSE]) ELSE items[i]]

(* start: releases the queue of the session, r first. *)
ReleasedOne(item, r) ==    \* mutant: releases the picked run only
  IF item.run = r THEN [item EXCEPT !.paused = FALSE, !.manual = TRUE] ELSE item
ReleasedId(item, r) ==     \* mutant: the flag holds the picked run
  [item EXCEPT !.paused = FALSE, !.manual = r]
Released(item, r) ==
  [item EXCEPT !.paused = FALSE, !.manual = (item.run = r)]

Start(r) ==
  /\ \E i \in Of(items, r) : Queued(items[i]) /\ items[i].paused
  /\ items' = [i \in DOMAIN items |->
                 IF i \in Movable(items, SessionOf[r]) THEN Stamped(Released(items[i], r)) ELSE items[i]]

(* Its only caller, runs/cancel, has checked that the item is queued. *)
MarkInterrupted(r) ==
  LET i == FirstOf(Of(items, r))
  IN  /\ Of(items, r) # {} /\ Queued(items[i])
      /\ items' = [items EXCEPT ![i] = Stamped([@ EXCEPT !.status = "interrupted"])]

Settleable(r) == {i \in Of(items, r) : Live(items[i])}
Settle(r) ==
  /\ Settleable(r) # {}
  /\ items' = [items EXCEPT ![FirstOf(Settleable(r))] = Stamped([@ EXCEPT !.status = "settled"])]

(* update: a new prompt. *)
Update(r) ==
  LET editable == {i \in Of(items, r) : Queued(items[i])}
  IN  editable # {} /\ items' = [items EXCEPT ![FirstOf(editable)] = Stamped(@)]

(* reorder: a permutation of the session's queued items. *)
Orders(M) == {p \in [M -> M] : \A i, j \in M : p[i] = p[j] => i = j}
ReorderSilently(s) ==   \* mutant: no new revision
  /\ Movable(items, s) # {}
  /\ \E p \in Orders(Movable(items, s)) :
       items' = [i \in DOMAIN items |-> IF i \in DOMAIN p THEN items[p[i]] ELSE items[i]]
Reorder(s) ==
  /\ Movable(items, s) # {}
  /\ \E p \in Orders(Movable(items, s)) :
       items' = [i \in DOMAIN items |-> IF i \in DOMAIN p THEN Stamped(items[p[i]]) ELSE items[i]]

RecordAcceptedSteer(r, m) ==
  /\ NewMsg(m)
  /\ items' = Append(items, NewItem(r, m, "steer", "settled", Revision(items) + 1))

QInit == items = <<>>

QNext ==
  \/ \E r \in RunId, m \in MsgId \cup {NoMsg}, act \in {"none", "queue"} : Enqueue(r, m, act)
  \/ \E S \in SUBSET SessionId : Claim(S)
  \/ \E r \in RunId : ClaimRun(r)
  \/ \E s \in SessionId : PauseSession(s)
  \/ \E r \in RunId : Start(r)
  \/ \E r \in RunId : MarkInterrupted(r)
  \/ \E r \in RunId : Settle(r)
  \/ \E r \in RunId : Update(r)
  \/ \E s \in SessionId : Reorder(s)
  \/ \E r \in RunId, m \in MsgId \cup {NoMsg} : RecordAcceptedSteer(r, m)

QSpec == QInit /\ [][QNext]_qvars

-----------------------------------------------------------------------------
(* Properties *)

QTypeOK == items \in Seq(Item)

(* queue_full: retention, steer receipts and restarts of paused work never *)
(* let more than Max items be queued or running.                           *)
CapacityRespected == LiveCount(items) <= Max

(* A runId is the dedupe identity of admitted work and a clientMessageId   *)
(* that of a submission: no two items share either, however they entered   *)
(* (a steer receipt is not admitted work: only its message counts).        *)
IdentityUnique ==
  \A i, j \in DOMAIN items : i # j =>
     /\ (items[i].action # "steer" /\ items[j].action # "steer") => items[i].run # items[j].run
     /\ items[i].msg # NoMsg => items[i].msg # items[j].msg

(* At most one queued item of a session was picked by hand, and it is not  *)
(* paused: otherwise dequeue() would jump the FIFO twice for one start.    *)
OneManualStart ==
  \A i \in DOMAIN items : (Queued(items[i]) /\ items[i].manual) =>
     /\ ~items[i].paused
     /\ \A j \in DOMAIN items :
          (Queued(items[j]) /\ items[j].manual /\ Session(items[j]) = Session(items[i])) => j = i

SameWork(a, b) == a.run = b.run /\ a.msg = b.msg /\ a.action = b.action

(* Queued or running work is never evicted: the retention of enqueue only  *)
(* ever drops terminal items, whatever their position in the array.        *)
LiveWorkKept ==
  [][\A i \in DOMAIN items : Live(items[i]) =>
        \E j \in DOMAIN items' : SameWork(items[i], items'[j])]_qvars

(* Items i, j of q stand in the other order in the queue r. *)
Swapped(q, r, i, j) ==
  \E k, l \in DOMAIN r : k < l /\ SameWork(r[k], q[j]) /\ SameWork(r[l], q[i])

(* Queued work is never silently reordered: if two live items change their *)
(* order, one of them belongs to a session all of whose queued items carry *)
(* a revision no client has seen.                                          *)
NoSilentReorder ==
  [][\A i, j \in DOMAIN items :
        (i < j /\ Live(items[i]) /\ Live(items[j]) /\ Swapped(items, items', i, j)) =>
           \E s \in {Session(items[i]), Session(items[j])} :
              \A k \in Movable(items', s) : items'[k].rev > Revision(items)]_qvars

(* An item paused by an interrupted turn leaves the pause only by a start  *)
(* of its session, which releases every queued item of the session at once *)
(* and picks exactly one of them to go first.                              *)
PauseEndsByStart ==
  [][\A i \in DOMAIN items, j \in DOMAIN items' :
        ( /\ Queued(items[i]) /\ items[i].paused /\ SameWork(items[i], items'[j])
          /\ Live(items'[j]) /\ ~items'[j].paused ) =>
             /\ Queued(items'[j])
             /\ \A k \in Movable(items', Session(items[i])) : ~items'[k].paused
             /\ \E k \in Movable(items', Session(items[i])) : items'[k].manual]_qvars

(* Every accepted change other than a claim raises revision(), so that a   *)
(* client that edits a stale view is refused.  Stated for the steps that   *)
(* add nothing: an enqueue that evicts the newest revision may reuse it.   *)
EditsRaiseRevision ==
  [][ \/ items' = items
      \/ Len(items') # Len(items) \/ \E i \in DOMAIN items : ~SameWork(items[i], items'[i])
      \/ \E i \in DOMAIN items : Queued(items[i]) /\ items'[i].status = "running"
      \/ Revision(items') > Revision(items)]_qvars
=============================================================================
