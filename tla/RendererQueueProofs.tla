-------------------------- MODULE RendererQueueProofs --------------------------
(***************************************************************************)
(* The safety of the renderer's admission, for any runs, threads, slots    *)
(* and length of the queue: the slots are never overspent, and a run is    *)
(* executed at most once, whatever the queue holds; and nothing that the   *)
(* queue accepted is lost, which needs to know what filter() leaves.       *)
(***************************************************************************)
EXTENDS RendererQueue, ArrayFilterProofs

(* The inductive invariant, in parts *)

QTypes ==
  /\ pc \in [Kind -> [Run -> Stage]]
  /\ entry \in [Run -> {"none", "admitted", "ended"}]
  /\ started \in [Run -> Nat]
  /\ reserved \subseteq Run

(* Two calls never coordinate one run. *)
OneCoordinator == \A r \in Run : ~(pc["direct"][r] \in Active /\ pc["drain"][r] \in Active)

(* A run that is about to be admitted has not been. *)
FreshIfUndecided ==
  \A k \in Kind, r \in Run : pc[k][r] \in Undecided => entry[r] = "none"

(* The journal says that a run goes on while a call executes it. *)
AdmittedRuns == \A r \in Run : entry[r] = "admitted" => \E k \in Kind : pc[k][r] = "running"

(* An execution leaves an entry. *)
StartLeavesEntry == \A r \in Run : started[r] <= 1 /\ (entry[r] = "none" => started[r] = 0)

(* The drain has calls only while it waits for them, one for an item. *)
CallsOfBatch ==
  \A r \in Run : pc["drain"][r] # "none" => drain = "waiting" /\ \E i \in batch : i.run = r

OnceInv ==
  QTypes /\ OneCoordinator /\ FreshIfUndecided /\ AdmittedRuns /\ StartLeavesEntry /\ CallsOfBatch

FiniteSlots == reserved \subseteq Run /\ IsFiniteSet(reserved)
CapacityInv == FiniteSlots /\ CapacityKept

-----------------------------------------------------------------------------
(* Once *)

LEMMA OnceInit == QInit => OnceInv
BY DEF QInit, OnceInv, QTypes, OneCoordinator, FreshIfUndecided, AdmittedRuns, StartLeavesEntry,
       CallsOfBatch, Kind, Stage, Active, Undecided

(* A call that coordinates nothing begins to, if the guards let it. *)
LEMMA BeginKeepsOnce ==
  ASSUME OnceInv, NEW r \in Run, Submit(r) \/ Begin(r) PROVE OnceInv'
BY DEF OnceInv, QTypes, OneCoordinator, FreshIfUndecided, AdmittedRuns, StartLeavesEntry,
       CallsOfBatch, Kind, Stage, Active, Undecided, Submit, Begin, At, Goes, NotRepeated, Coordinating

(* A call that does not execute its run goes on, or is answered. *)
Moves(k, r) ==
  /\ pc[k][r] \in Active \ {"running"}
  /\ \E st \in Stage : /\ Goes(k, r, st)
                       /\ st \in Undecided => pc[k][r] \in Undecided
                       /\ k = "drain" => st # "none"
  /\ drain' # drain => drain = "off"
  /\ UNCHANGED <<entry, reserved, batch, started>>

LEMMA MoveKeepsOnce ==
  ASSUME OnceInv, NEW k \in Kind, NEW r \in Run, Moves(k, r) PROVE OnceInv'
BY DEF OnceInv, QTypes, OneCoordinator, FreshIfUndecided, AdmittedRuns, StartLeavesEntry,
       CallsOfBatch, Kind, Stage, Active, Undecided, Moves, Goes

LEMMA GoesToMoves ==
  ASSUME NEW k \in Kind, NEW r \in Run, NEW st \in Undecided,
         pc[k][r] \in Undecided, GoesTo(k, r, st)
  PROVE  Moves(k, r)
BY DEF GoesTo, Moves, Active, Stage, Undecided

LEMMA AnswersMoves ==
  ASSUME NEW k \in Kind, NEW r \in Run, NEW result \in {"busy", "done"},
         pc[k][r] \in Active \ {"running"}, Answers(k, r, result),
         UNCHANGED <<drain, entry, reserved, batch, started>>
  PROVE  Moves(k, r)
<1> DEFINE st == IF k = "direct" THEN "none" ELSE result
<1>1. /\ Goes(k, r, st) /\ st \in Stage /\ st \notin Undecided
      /\ k = "drain" => st # "none"
  BY DEF Answers, Stage, Undecided
<1> HIDE DEF st
<1> QED BY <1>1 DEF Moves

LEMMA RefuseMoves ==
  ASSUME NEW k \in Kind, NEW r \in Run, NEW Q, pc[k][r] \in Undecided, Refuse(k, r, Q)
  PROVE  Moves(k, r)
<1>1. pc[k][r] \in Active \ {"running"}
  BY DEF Active, Undecided
<1> QED BY <1>1, AnswersMoves DEF Refuse

LEMMA ProceedMoves ==
  ASSUME OnceInv, NEW k \in Kind, NEW r \in Run,
         \/ Decide(k, r) \/ Reject(k, r) \/ Check(k, r) \/ TakeOver(k, r)
         \/ Kick(k, r) \/ Return(k, r)
  PROVE  Moves(k, r)
<1>1. CASE Decide(k, r)
  <2>1. /\ pc[k][r] = "deciding" /\ UNCHANGED <<drain, entry, reserved, batch, started>>
        /\ Goes(k, r, "checking") \/ Answers(k, r, "done")
    BY <1>1 DEF Decide, At
  <2>2. pc[k][r] \in Active \ {"running"} /\ pc[k][r] \in Undecided /\ "checking" \in Stage \ {"none"}
    BY <2>1 DEF Active, Undecided, Stage
  <2> QED BY <2>1, <2>2, AnswersMoves DEF Moves
<1>2. CASE Reject(k, r)
  BY <1>2, AnswersMoves DEF Reject, At, Active, Undecided
<1>3. CASE Check(k, r)
  BY <1>3, GoesToMoves, RefuseMoves DEF Check, At, Undecided
<1>4. CASE TakeOver(k, r)
  BY <1>4, GoesToMoves, RefuseMoves DEF TakeOver, At, Undecided
<1>5. CASE Kick(k, r)
  BY <1>5 DEF Kick, StartDrain, At, Goes, Moves, Active, Stage, Undecided, Kind
<1>6. CASE Return(k, r)
  BY <1>6, AnswersMoves DEF Return, At, Active, Undecided
<1> QED BY <1>1, <1>2, <1>3, <1>4, <1>5, <1>6

(* The slot is taken, or others took it since the check. *)
LEMMA ReserveKeepsOnce ==
  ASSUME OnceInv, NEW k \in Kind, NEW r \in Run, Reserve(k, r) PROVE OnceInv'
<1>1. CASE CanStart(r)
  BY <1>1 DEF OnceInv, QTypes, OneCoordinator, FreshIfUndecided, AdmittedRuns, StartLeavesEntry,
              CallsOfBatch, Kind, Stage, Active, Undecided, Reserve, At, Goes
<1>2. CASE ~CanStart(r)
  <2>1. Moves(k, r)
    BY <1>2, RefuseMoves DEF Reserve, At, Undecided
  <2> QED BY <2>1, MoveKeepsOnce
<1> QED BY <1>1, <1>2

LEMMA FinishKeepsOnce ==
  ASSUME OnceInv, NEW k \in Kind, NEW r \in Run, Finish(k, r) PROVE OnceInv'
BY DEF OnceInv, QTypes, OneCoordinator, FreshIfUndecided, AdmittedRuns, StartLeavesEntry,
       CallsOfBatch, Kind, Stage, Active, Undecided, Finish, At, Goes

(* A new batch finds no call of the last one: none is forgotten. *)
LEMMA BatchKeepsOnce ==
  ASSUME OnceInv, DrainBatch PROVE OnceInv'
BY DEF OnceInv, QTypes, OneCoordinator, FreshIfUndecided, AdmittedRuns, StartLeavesEntry,
       CallsOfBatch, Kind, Stage, Active, Undecided, DrainBatch

(* The drain reads its results when no call of it executes. *)
LEMMA CollectKeepsOnce ==
  ASSUME OnceInv, Collect PROVE OnceInv'
<1>1. \A r \in Run : pc["drain"][r] \in {"none", "busy", "done"}
  BY DEF OnceInv, CallsOfBatch, Collect
<1> QED
  BY <1>1 DEF OnceInv, QTypes, OneCoordinator, FreshIfUndecided, AdmittedRuns, StartLeavesEntry,
              CallsOfBatch, Kind, Stage, Active, Undecided, Collect

(* The journal of the next renderer shows nothing in progress. *)
LEMMA RebornKeepsOnce ==
  ASSUME OnceInv, NEW entries \in [Run -> {"none", "admitted", "ended"}], NEW markers,
         \A r \in Run : entries[r] = "none" => entry[r] = "none",
         Reborn(entries, markers)
  PROVE  OnceInv'
BY DEF OnceInv, QTypes, OneCoordinator, FreshIfUndecided, AdmittedRuns, StartLeavesEntry,
       CallsOfBatch, Kind, Stage, Active, Undecided, Reborn

(* What the user does to the array, and the first drain. *)
LEMMA ArrayKeepsOnce ==
  ASSUME OnceInv, drain' # drain => drain = "off",
         UNCHANGED <<pc, entry, reserved, batch, started>>
  PROVE  OnceInv'
BY DEF OnceInv, QTypes, OneCoordinator, FreshIfUndecided, AdmittedRuns, StartLeavesEntry,
       CallsOfBatch, Kind, Stage, Active, Undecided

LEMMA StepKeepsOnce ==
  ASSUME OnceInv, [QNext]_qvars PROVE OnceInv'
<1>1. ASSUME NEW r \in Run, Submit(r) \/ Begin(r) PROVE OnceInv'
  BY <1>1, BeginKeepsOnce
<1>2. ASSUME NEW k \in Kind, NEW r \in Run,
             \/ Decide(k, r) \/ Reject(k, r) \/ Check(k, r) \/ TakeOver(k, r)
             \/ Kick(k, r) \/ Return(k, r)
      PROVE OnceInv'
  BY <1>2, ProceedMoves, MoveKeepsOnce
<1>3. ASSUME NEW k \in Kind, NEW r \in Run, Reserve(k, r) PROVE OnceInv'
  BY <1>3, ReserveKeepsOnce
<1>4. ASSUME NEW k \in Kind, NEW r \in Run, Finish(k, r) PROVE OnceInv'
  BY <1>4, FinishKeepsOnce
<1>5. ASSUME NEW k \in Kind, NEW r \in Run, DieInAdmission(k, r) PROVE OnceInv'
  <2> DEFINE written == [entry EXCEPT ![r] = "admitted"]
  <2>1. /\ written \in [Run -> {"none", "admitted", "ended"}]
        /\ \A s \in Run : written[s] = "none" => entry[s] = "none"
    BY DEF OnceInv, QTypes
  <2>2. Reborn(written, marker)
    BY <1>5 DEF DieInAdmission
  <2> QED BY <2>1, <2>2, RebornKeepsOnce
<1>6. ASSUME Reload PROVE OnceInv'
  BY <1>6, RebornKeepsOnce DEF Reload, OnceInv, QTypes
<1>7. ASSUME Boot PROVE OnceInv'
  BY <1>7, ArrayKeepsOnce DEF Boot, StartDrain
<1>8. ASSUME NEW S, Cancel(S) PROVE OnceInv'
  BY <1>8, ArrayKeepsOnce DEF Cancel
<1>9. ASSUME NEW i, Move(i) PROVE OnceInv'
  BY <1>9, ArrayKeepsOnce DEF Move
<1>10. ASSUME UNCHANGED qvars PROVE OnceInv'
  BY <1>10, ArrayKeepsOnce DEF qvars
<1> QED
  BY <1>1, <1>2, <1>3, <1>4, <1>5, <1>6, <1>7, <1>8, <1>9, <1>10,
     BatchKeepsOnce, CollectKeepsOnce DEF QNext, Proceed

(* What the journal, the calls and the drain know of a run agree at all    *)
(* times, through every interleaving of submissions, drains and reloads.   *)
THEOREM OnceInvariant == QSpec => []OnceInv
BY OnceInit, StepKeepsOnce, PTL DEF QSpec

(* However often a run is submitted, drained again or hydrated after a     *)
(* crash, and whatever the queue is: it is executed at most once.          *)
THEOREM RunsOnceHolds == QSpec => []RunsOnce
<1>1. OnceInv => RunsOnce
  BY DEF OnceInv, StartLeavesEntry, RunsOnce
<1> QED BY <1>1, OnceInvariant, PTL

-----------------------------------------------------------------------------
(* Capacity *)

LEMMA ReserveKeepsCapacity ==
  ASSUME CapacityInv, NEW k \in Kind, NEW r \in Run, Reserve(k, r) PROVE CapacityInv'
<1>1. CASE CanStart(r)
  <2>1. reserved' = reserved \cup {r}
    BY <1>1 DEF Reserve
  <2>2. CASE r \in reserved
    BY <2>1, <2>2 DEF CapacityInv, FiniteSlots, CapacityKept
  <2>3. CASE r \notin reserved
    <3>1. /\ Cardinality(reserved) < Limit
          /\ \A s \in reserved : ThreadOf[r] = NoThread \/ ThreadOf[s] # ThreadOf[r]
      BY <1>1, <2>3 DEF CanStart, SlotFree
    <3>2. /\ IsFiniteSet(reserved') /\ Cardinality(reserved') = Cardinality(reserved) + 1
          /\ Cardinality(reserved) \in Nat
      BY <2>1, <2>3, FS_AddElement, FS_CardinalityType DEF CapacityInv, FiniteSlots
    <3>3. Cardinality(reserved') <= Limit
      BY <3>1, <3>2, QueueAssumption
    <3>4. \A p, s \in reserved' : ThreadOf[p] = ThreadOf[s] /\ ThreadOf[p] # NoThread => p = s
      BY <2>1, <3>1 DEF CapacityInv, CapacityKept
    <3> QED BY <2>1, <3>2, <3>3, <3>4 DEF CapacityInv, FiniteSlots, CapacityKept
  <2> QED BY <2>2, <2>3
<1>2. CASE ~CanStart(r)
  BY <1>2 DEF Reserve, Refuse, CapacityInv, FiniteSlots, CapacityKept
<1> QED BY <1>1, <1>2

(* A set of slots that shrinks keeps what it had. *)
LEMMA ShrinkKeepsCapacity ==
  ASSUME CapacityInv, reserved' \subseteq reserved PROVE CapacityInv'
<1>1. /\ IsFiniteSet(reserved') /\ Cardinality(reserved') <= Cardinality(reserved)
      /\ Cardinality(reserved) \in Nat /\ Cardinality(reserved') \in Nat
  BY FS_Subset, FS_CardinalityType DEF CapacityInv, FiniteSlots
<1>2. Cardinality(reserved') <= Limit
  BY <1>1, QueueAssumption DEF CapacityInv, CapacityKept
<1> QED BY <1>1, <1>2 DEF CapacityInv, FiniteSlots, CapacityKept

LEMMA StepKeepsCapacity ==
  ASSUME CapacityInv, [QNext]_qvars PROVE CapacityInv'
<1>1. ASSUME NEW k \in Kind, NEW r \in Run, Reserve(k, r) PROVE CapacityInv'
  BY <1>1, ReserveKeepsCapacity
<1>2. ASSUME NEW r \in Run, Submit(r) \/ Begin(r) PROVE reserved' \subseteq reserved
  BY <1>2 DEF Submit, Begin
<1>3. ASSUME NEW k \in Kind, NEW r \in Run,
             \/ Decide(k, r) \/ Reject(k, r) \/ Check(k, r) \/ TakeOver(k, r)
             \/ Kick(k, r) \/ Return(k, r) \/ Finish(k, r)
      PROVE reserved' \subseteq reserved
  BY <1>3 DEF Decide, Reject, Check, TakeOver, GoesTo, Refuse, Kick, Return, Finish
<1>4. ASSUME Reload \/ \E k \in Kind, r \in Run : DieInAdmission(k, r)
      PROVE reserved' \subseteq reserved
  BY <1>4 DEF Reload, DieInAdmission, Reborn
<1>5. ASSUME DrainBatch \/ Collect \/ Boot \/ UNCHANGED qvars PROVE reserved' \subseteq reserved
  BY <1>5 DEF DrainBatch, Collect, Boot, qvars
<1>6. ASSUME (\E S : Cancel(S)) \/ (\E i : Move(i)) PROVE reserved' \subseteq reserved
  BY <1>6 DEF Cancel, Move
<1> QED
  BY <1>1, <1>2, <1>3, <1>4, <1>5, <1>6, ShrinkKeepsCapacity DEF QNext, Proceed

LEMMA CapacityInvariant == QSpec => []CapacityInv
<1>1. QInit => CapacityInv
  BY FS_EmptySet, QueueAssumption DEF QInit, CapacityInv, FiniteSlots, CapacityKept
<1> QED BY <1>1, StepKeepsCapacity, PTL DEF QSpec

(* Others may take the slots between the check of the capacity and the     *)
(* reservation: still the slots are never overspent, and a thread never    *)
(* has two runs, for any limit.                                            *)
THEOREM CapacityHolds == QSpec => []CapacityKept
<1>1. CapacityInv => CapacityKept
  BY DEF CapacityInv
<1> QED BY <1>1, CapacityInvariant, PTL

-----------------------------------------------------------------------------
(* Nothing is lost *)

ArrayTypes ==
  /\ queue \in Seq(Item) /\ accepted \subseteq Item
  /\ marker \in [Item -> {"none", "queued", "dispatching", "terminal"}]
  /\ made \in [Run -> Nat] /\ \A r \in Run : made[r] <= Submits[r]

(* Only what was accepted waits or is drained; what waits says so on disk. *)
QueueOfAccepted == ToSet(queue) \cup batch \subseteq accepted

(* Whoever was accepted once has no call of an ingress left. *)
AcceptedCalls ==
  /\ \A i \in accepted : made[i.run] >= 1
  /\ \A r \in Run : pc["direct"][r] # "none" => made[r] >= 1
  /\ \A i \in accepted : made[i.run] = 1 => pc["direct"][i.run] = "none"

(* An execution, and a slot, are journalled. *)
Journalled ==
  /\ \A r \in reserved : entry[r] # "none"
  /\ \A k \in Kind, r \in Run : pc[k][r] \in {"running", "finished", "kicked"} => entry[r] # "none"

(* A drained item of one submission that is over is in the journal, or was *)
(* refused.                                                                *)
DoneExplained ==
  \A i \in batch : made[i.run] = 1 /\ pc["drain"][i.run] = "done"
                   => entry[i.run] # "none" \/ i \in rejected \cup disabled

(* An item leaves the array by a cancellation, a refusal or an entry. *)
Kept(i) ==
  i \in ToSet(queue) \cup cancelled \cup rejected \cup disabled \/ entry[i.run] # "none"
AcceptedKept == \A i \in accepted : made[i.run] = 1 => Kept(i)

LossInv ==
  /\ ArrayTypes /\ QueueOfAccepted /\ SurvivesReload /\ AcceptedCalls /\ Journalled
  /\ DoneExplained /\ AcceptedKept

LEMMA ItemFacts ==
  /\ \A i \in Item : i.run \in Run /\ i.no \in 1..Submits[i.run]
  /\ \A r \in Run, n \in Nat : 1 <= n /\ n <= Submits[r] => [run |-> r, no |-> n] \in Item
<1>1. ASSUME NEW i \in Item PROVE i.run \in Run /\ i.no \in 1..Submits[i.run]
  <2>1. PICK r \in Run : i \in [run : {r}, no : 1..Submits[r]]
    BY DEF Item
  <2> QED BY <2>1
<1>2. ASSUME NEW r \in Run, NEW n \in Nat, 1 <= n, n <= Submits[r]
      PROVE [run |-> r, no |-> n] \in Item
  <2>1. n \in 1..Submits[r]
    BY <1>2, QueueAssumption
  <2>2. [run |-> r, no |-> n] \in [run : {r}, no : 1..Submits[r]]
    BY <2>1
  <2> QED BY <2>2 DEF Item
<1> QED BY <1>1, <1>2

LEMMA ToSetFacts ==
  ASSUME NEW q \in Seq(Item)
  PROVE  /\ Len(q) \in Nat /\ DOMAIN q = 1..Len(q) /\ ToSet(q) \subseteq Item
         /\ \A x : x \in ToSet(q) <=> \E i \in 1..Len(q) : q[i] = x
BY SeqFacts DEF ToSet

(* filter() by the items leaves the others. *)
LEMMA WithoutLemma ==
  ASSUME NEW q \in Seq(Item), NEW S
  PROVE  Without(q, S) \in Seq(Item) /\ ToSet(Without(q, S)) = ToSet(q) \ S
<1> DEFINE K == {i \in DOMAIN q : q[i] \notin S}
           kept == KeepOnly(q, K)
<1>1. K \in SUBSET DOMAIN q
  OBVIOUS
<1> HIDE DEF K
<1>2. kept \in Seq(Item)
  BY <1>1, FilterLemma
<1>3. PICK pi \in [DOMAIN kept -> DOMAIN q] :
        /\ \A k \in DOMAIN kept : pi[k] \in K /\ kept[k] = q[pi[k]]
        /\ \A i \in K : \E k \in DOMAIN kept : pi[k] = i
  BY <1>1, FilterLemma
<1> HIDE DEF kept
<1>4. \A x : x \in ToSet(kept) <=> x \in ToSet(q) /\ x \notin S
  <2>1. ASSUME NEW x \in ToSet(kept) PROVE x \in ToSet(q) /\ x \notin S
    <3>1. PICK k \in DOMAIN kept : kept[k] = x
      BY DEF ToSet
    <3>2. pi[k] \in DOMAIN q /\ q[pi[k]] = x /\ pi[k] \in K
      BY <1>3, <3>1
    <3> QED BY <3>2 DEF ToSet, K
  <2>2. ASSUME NEW x \in ToSet(q), x \notin S PROVE x \in ToSet(kept)
    <3>1. PICK i \in DOMAIN q : q[i] = x
      BY DEF ToSet
    <3>2. PICK k \in DOMAIN kept : pi[k] = i
      BY <1>3, <2>2, <3>1 DEF K
    <3>3. kept[k] = x
      BY <1>3, <3>1, <3>2
    <3> QED BY <3>3 DEF ToSet
  <2> QED BY <2>1, <2>2
<1>5. Without(q, S) = kept
  BY DEF Without, kept, K
<1> QED BY <1>2, <1>4, <1>5

LEMMA AppendToSet ==
  ASSUME NEW q \in Seq(Item), NEW x \in Item
  PROVE  Append(q, x) \in Seq(Item) /\ ToSet(Append(q, x)) = ToSet(q) \cup {x}
<1> DEFINE all == Append(q, x)
<1>1. /\ all \in Seq(Item) /\ DOMAIN all = 1..(Len(q) + 1) /\ Len(q) \in Nat
      /\ all[Len(q) + 1] = x /\ \A i \in 1..Len(q) : all[i] = q[i]
  BY AppendFacts, SeqFacts
<1> HIDE DEF all
<1>2. 1..(Len(q) + 1) = 1..Len(q) \cup {Len(q) + 1}
  BY <1>1
<1>3. \A y : y \in ToSet(all) <=> y \in ToSet(q) \/ y = x
  BY <1>1, <1>2, SeqFacts DEF ToSet
<1> QED BY <1>1, <1>3 DEF all

(* Two neighbours change places: the same items wait. *)
LEMMA SwappedToSet ==
  ASSUME NEW q \in Seq(Item), NEW i \in 1..(Len(q) - 1)
  PROVE  Swapped(q, i) \in Seq(Item) /\ ToSet(Swapped(q, i)) = ToSet(q)
<1>1. /\ Len(q) \in Nat /\ DOMAIN q = 1..Len(q) /\ \A j \in 1..Len(q) : q[j] \in Item
      /\ i \in 1..Len(q) /\ i + 1 \in 1..Len(q) /\ i # i + 1
  BY SeqFacts
<1>2. /\ DOMAIN Swapped(q, i) = 1..Len(q)
      /\ Swapped(q, i)[i] = q[i + 1] /\ Swapped(q, i)[i + 1] = q[i]
      /\ \A j \in 1..Len(q) : j # i /\ j # i + 1 => Swapped(q, i)[j] = q[j]
  BY <1>1 DEF Swapped
<1>3. Swapped(q, i) \in Seq(Item)
  <2>1. Swapped(q, i) \in [1..Len(q) -> Item]
    BY <1>1 DEF Swapped
  <2> QED BY <1>1, <2>1, FunctionIsSeq
<1>4. ToSet(Swapped(q, i)) = ToSet(q)
  <2>1. \A j \in 1..Len(q) : \E l \in 1..Len(q) : Swapped(q, i)[j] = q[l]
    BY <1>1, <1>2
  <2>2. \A j \in 1..Len(q) : \E l \in 1..Len(q) : q[j] = Swapped(q, i)[l]
    BY <1>1, <1>2
  <2> HIDE DEF Swapped
  <2>3. \A x : x \in ToSet(Swapped(q, i)) <=> \E j \in 1..Len(q) : Swapped(q, i)[j] = x
    BY <1>2 DEF ToSet
  <2>4. \A x : x \in ToSet(q) <=> \E j \in 1..Len(q) : q[j] = x
    BY <1>1 DEF ToSet
  <2> QED BY <2>1, <2>2, <2>3, <2>4
<1> QED BY <1>3, <1>4

LEMMA LossInit == QInit => LossInv
BY ToSetFacts, QueueAssumption
   DEF QInit, LossInv, ArrayTypes, QueueOfAccepted, SurvivesReload, AcceptedCalls, Journalled,
       DoneExplained, AcceptedKept, Kind, ToSet

(* A submission counts: what was accepted before it is no longer the only one. *)
LEMMA SubmitLoses ==
  ASSUME OnceInv, LossInv, NEW r \in Run, Submit(r) PROVE LossInv'
<1>1. \A i \in accepted : i.run \in Run
  BY ItemFacts DEF LossInv, ArrayTypes
<1>2. ArrayTypes'
  <2>0. made \in [Run -> Nat] /\ made[r] < Submits[r]
    BY DEF LossInv, ArrayTypes, Submit
  <2>1. made[r] \in Nat /\ Submits[r] \in Nat /\ made[r] + 1 <= Submits[r]
    <3>1. made[r] \in Nat /\ Submits[r] \in Nat
      BY <2>0, QueueAssumption
    <3> QED BY <2>0, <3>1
  <2>2. made' \in [Run -> Nat] /\ \A x \in Run : made'[x] <= Submits[x]
    BY <2>0, <2>1 DEF LossInv, ArrayTypes, Submit
  <2> QED BY <2>2 DEF LossInv, ArrayTypes, Submit
<1>3. \A i \in accepted : made'[i.run] = 1 => i.run # r /\ made[i.run] = 1
  BY <1>1 DEF LossInv, ArrayTypes, AcceptedCalls, Submit
<1>4. AcceptedCalls'
  BY <1>1, <1>3 DEF OnceInv, QTypes, LossInv, ArrayTypes, AcceptedCalls, Submit, Goes, Kind
<1>5. DoneExplained' /\ AcceptedKept'
  BY <1>1, <1>3 DEF OnceInv, QTypes, LossInv, QueueOfAccepted, DoneExplained, AcceptedKept, Kept, Submit, Goes, Kind, refused
<1>6. Journalled' /\ QueueOfAccepted' /\ SurvivesReload'
  BY DEF OnceInv, QTypes, LossInv, Journalled, QueueOfAccepted, SurvivesReload, Submit, Goes, Kind
<1> QED BY <1>2, <1>4, <1>5, <1>6 DEF LossInv

(* A call that only goes on: the drain is told "done" of a run that is in  *)
(* the journal, that is refused, or that another ingress submitted.        *)
LEMMA GoOnLoses ==
  ASSUME OnceInv, LossInv, NEW k \in Kind, NEW r \in Run, NEW st \in Stage, Goes(k, r, st),
         UNCHANGED <<queue, marker, entry, reserved, batch, made, accepted, cancelled>>,
         rejected \subseteq rejected', disabled \subseteq disabled',
         k = "direct" => st = "none" \/ pc[k][r] # "none",
         st \in {"running", "finished", "kicked"} => entry[r] # "none",
         k = "drain" /\ st = "done" =>
            \/ entry[r] # "none"
            \/ Dispatched(k, r) \subseteq rejected' \cup disabled'
            \/ \A i \in accepted : i.run = r => made[i.run] # 1
  PROVE  LossInv'
<1>1. \A i \in accepted : i.run \in Run
  BY ItemFacts DEF LossInv, ArrayTypes
<1>2. ArrayTypes' /\ QueueOfAccepted' /\ SurvivesReload'
  BY DEF LossInv, ArrayTypes, QueueOfAccepted, SurvivesReload
<1>3. AcceptedCalls'
  BY <1>1 DEF OnceInv, QTypes, LossInv, AcceptedCalls, Goes, Kind
<1>4. Journalled'
  BY <1>1 DEF OnceInv, QTypes, LossInv, Journalled, Goes, Kind
<1>5. DoneExplained'
  <2> SUFFICES ASSUME NEW i \in batch, made[i.run] = 1, pc'["drain"][i.run] = "done"
               PROVE  entry[i.run] # "none" \/ i \in rejected' \cup disabled'
    BY DEF DoneExplained
  <2>1. i \in accepted /\ i.run \in Run
    BY <1>1 DEF LossInv, QueueOfAccepted
  <2>2. CASE k = "drain" /\ i.run = r
    <3>1. st = "done" /\ i \in Dispatched(k, r)
      BY <2>1, <2>2 DEF OnceInv, QTypes, Goes, Kind, Dispatched
    <3> QED BY <2>1, <2>2, <3>1
  <2>3. CASE ~(k = "drain" /\ i.run = r)
    <3>1. pc["drain"][i.run] = "done"
      BY <2>1, <2>3 DEF OnceInv, QTypes, Goes, Kind
    <3> QED BY <3>1 DEF LossInv, DoneExplained
  <2> QED BY <2>2, <2>3
<1>6. AcceptedKept'
  BY <1>1 DEF LossInv, AcceptedKept, Kept
<1> QED BY <1>2, <1>3, <1>4, <1>5, <1>6 DEF LossInv

LEMMA BeginLoses ==
  ASSUME OnceInv, LossInv, NEW r \in Run, Begin(r) PROVE LossInv'
<1> DEFINE st == IF NotRepeated(r) THEN "deciding" ELSE "done"
<1>1. st \in Stage /\ Goes("drain", r, st) /\ "drain" \in Kind
  BY DEF Begin, Stage, Active, Undecided, Kind
<1>2. UNCHANGED <<queue, marker, entry, reserved, batch, made, accepted, cancelled, rejected, disabled>>
  BY DEF Begin, refused
<1>3. ASSUME st = "done", entry[r] = "none", NEW i \in accepted, i.run = r PROVE made[i.run] # 1
  <2>1. Coordinating(r)
    BY <1>3 DEF NotRepeated
  <2>2. pc["direct"][r] # "none"
    BY <2>1 DEF Coordinating, Active, Undecided, Kind, Begin, At
  <2> QED BY <1>3, <2>2 DEF LossInv, AcceptedCalls
<1>4. st \notin {"running", "finished", "kicked"}
  OBVIOUS
<1> HIDE DEF st
<1> QED BY <1>1, <1>2, <1>3, <1>4, GoOnLoses

(* What is accepted waits, or the bound drops it and says so. *)
LEMMA EnqueueLoses ==
  ASSUME OnceInv, LossInv, NEW r \in Run, pc["direct"][r] \in Undecided,
         Enqueue(r), Goes("direct", r, "none"), UNCHANGED <<entry, reserved, batch, made, rejected, disabled>>
  PROVE  LossInv'
<1> DEFINE item == [run |-> r, no |-> made[r]]
           all == Append(queue, item)
           drop == Overflow(all)
<1>0. pc["direct"][r] # "none"
  BY DEF Undecided
<1>1. item \in Item /\ item.run = r /\ queue \in Seq(Item)
  <2>1. made[r] \in Nat /\ made[r] >= 1 /\ made[r] <= Submits[r]
    BY <1>0 DEF LossInv, ArrayTypes, AcceptedCalls
  <2> QED BY <2>1, ItemFacts DEF LossInv, ArrayTypes
<1>2. all \in Seq(Item) /\ ToSet(all) = ToSet(queue) \cup {item}
  BY <1>1, AppendToSet
<1>3. /\ queue' = Without(all, drop) /\ marker' = [Mark(drop, "terminal") EXCEPT ![item] = "queued"]
      /\ accepted' = accepted \cup {item} /\ cancelled' = cancelled \cup drop
  BY DEF Enqueue
<1> HIDE DEF item, all, drop
<1>4. queue' \in Seq(Item) /\ ToSet(queue') = (ToSet(queue) \cup {item}) \ drop
  BY <1>2, <1>3, WithoutLemma
<1>5. /\ marker' \in [Item -> {"none", "queued", "dispatching", "terminal"}]
      /\ marker'[item] = "queued"
      /\ \A i \in Item : i \notin drop /\ i # item => marker'[i] = marker[i]
  BY <1>1, <1>3 DEF LossInv, ArrayTypes, Mark
<1>6. \A i \in accepted : i \in Item /\ i.run \in Run
  BY ItemFacts DEF LossInv, ArrayTypes
<1>7. ArrayTypes' /\ QueueOfAccepted' /\ SurvivesReload'
  <2>1. ArrayTypes'
    BY <1>1, <1>3, <1>4, <1>5 DEF LossInv, ArrayTypes
  <2>2. QueueOfAccepted'
    BY <1>3, <1>4 DEF LossInv, QueueOfAccepted
  <2>3. SurvivesReload'
    BY <1>4, <1>5, <1>6 DEF LossInv, SurvivesReload, QueueOfAccepted
  <2> QED BY <2>1, <2>2, <2>3
<1>8. pc'["direct"][r] = "none" /\ \A k \in Kind, x \in Run : pc'[k][x] = pc[k][x] \/ (k = "direct" /\ x = r)
  BY DEF OnceInv, QTypes, Goes, Kind
<1>9. AcceptedCalls'
  BY <1>0, <1>1, <1>3, <1>6, <1>8 DEF LossInv, ArrayTypes, AcceptedCalls, Kind
<1>10. Journalled'
  BY <1>8 DEF LossInv, Journalled, Kind
<1>11. made[r] = 1 => pc["drain"][r] # "done"
  <2>1. ASSUME NEW i \in batch, i.run = r PROVE made[r] # 1
    BY <1>0, <2>1 DEF LossInv, QueueOfAccepted, AcceptedCalls
  <2> QED BY <2>1 DEF OnceInv, CallsOfBatch
<1>12. DoneExplained'
  BY <1>1, <1>3, <1>6, <1>8, <1>11 DEF LossInv, QueueOfAccepted, DoneExplained, Kind
<1>13. AcceptedKept'
  BY <1>1, <1>3, <1>4 DEF LossInv, AcceptedKept, Kept
<1> QED BY <1>7, <1>9, <1>10, <1>12, <1>13 DEF LossInv

LEMMA RefuseLoses ==
  ASSUME OnceInv, LossInv, NEW k \in Kind, NEW r \in Run, NEW Q, Refuse(k, r, Q),
         pc[k][r] \in Undecided
  PROVE  LossInv'
<1>1. CASE k = "direct" /\ r \in Q /\ r \notin RunsOf(queue)
  <2>1. /\ Enqueue(r) /\ Goes("direct", r, "none")
        /\ UNCHANGED <<entry, reserved, batch, made, rejected, disabled>>
    BY <1>1 DEF Refuse, Answers, refused
  <2> QED BY <1>1, <2>1, EnqueueLoses
<1>2. CASE ~(k = "direct" /\ r \in Q /\ r \notin RunsOf(queue))
  <2> DEFINE st == IF k = "direct" THEN "none" ELSE "busy"
  <2>1. Goes(k, r, st) /\ st \in Stage /\ st \notin {"running", "finished", "kicked", "done"}
    BY DEF Refuse, Answers, Stage
  <2>2. UNCHANGED <<queue, marker, entry, reserved, batch, made, accepted, cancelled, rejected, disabled>>
    BY <1>2 DEF Refuse, refused
  <2>3. k = "direct" => st = "none"
    OBVIOUS
  <2> HIDE DEF st
  <2> QED BY <2>1, <2>2, <2>3, GoOnLoses
<1> QED BY <1>1, <1>2

LEMMA GoesToLoses ==
  ASSUME OnceInv, LossInv, NEW k \in Kind, NEW r \in Run, NEW st \in Undecided,
         pc[k][r] \in Undecided, GoesTo(k, r, st)
  PROVE  LossInv'
<1>1. st \in Stage /\ st \notin {"running", "finished", "kicked", "done"} /\ pc[k][r] # "none"
  BY DEF Undecided, Active, Stage
<1>2. /\ Goes(k, r, st)
      /\ UNCHANGED <<queue, marker, entry, reserved, batch, made, accepted, cancelled, rejected, disabled>>
  BY DEF GoesTo, refused
<1> QED BY <1>1, <1>2, GoOnLoses

(* The first checks: what is dropped has been noted, or is in the journal. *)
LEMMA DecideLoses ==
  ASSUME OnceInv, LossInv, NEW k \in Kind, NEW r \in Run, Decide(k, r) PROVE LossInv'
<1> DEFINE told == IF k = "direct" THEN "none" ELSE "done"
<1>1. told \in Stage /\ told \notin {"running", "finished", "kicked"}
      /\ (k = "direct" => told = "none") /\ "checking" \in Stage
  BY DEF Stage, Active, Undecided
<1>2. PICK decision \in Admissions(k, r) :
        /\ IF decision = "proceed" THEN Goes(k, r, "checking") ELSE Goes(k, r, told)
        /\ disabled' = disabled \cup (IF decision = "delegate-disabled" THEN Dispatched(k, r) ELSE {})
  BY DEF Decide, Answers
<1>3. /\ pc[k][r] = "deciding"
      /\ UNCHANGED <<queue, marker, entry, reserved, batch, made, accepted, cancelled, rejected>>
  BY DEF Decide, At
<1>4. k = "drain" /\ decision # "proceed" =>
        entry[r] # "none" \/ Dispatched(k, r) \subseteq rejected' \cup disabled'
  BY <1>2 DEF Admissions, LossInv, Journalled
<1> HIDE DEF told
<1>5. CASE decision = "proceed"
  BY <1>1, <1>2, <1>3, <1>5, GoOnLoses
<1>6. CASE decision # "proceed"
  BY <1>1, <1>2, <1>3, <1>4, <1>6, GoOnLoses
<1> QED BY <1>5, <1>6

LEMMA RejectLoses ==
  ASSUME OnceInv, LossInv, NEW k \in Kind, NEW r \in Run, Reject(k, r) PROVE LossInv'
<1> DEFINE told == IF k = "direct" THEN "none" ELSE "done"
<1>1. told \in Stage /\ told \notin {"running", "finished", "kicked"}
      /\ (k = "direct" => told = "none")
  BY DEF Stage
<1>2. /\ Goes(k, r, told) /\ rejected' = rejected \cup Dispatched(k, r)
      /\ UNCHANGED <<queue, marker, entry, reserved, batch, made, accepted, cancelled, disabled>>
  BY DEF Reject, Answers
<1> HIDE DEF told
<1> QED BY <1>1, <1>2, GoOnLoses

(* The calls that execute nothing. *)
LEMMA ProceedLoses ==
  ASSUME OnceInv, LossInv, NEW k \in Kind, NEW r \in Run,
         Check(k, r) \/ TakeOver(k, r) \/ Kick(k, r) \/ Return(k, r)
  PROVE  LossInv'
<1> DEFINE told == IF k = "direct" THEN "none" ELSE "done"
<1>1. told \in Stage /\ told \notin {"running", "finished", "kicked"}
      /\ (k = "direct" => told = "none")
  BY DEF Stage
<1>2. CASE Check(k, r)
  BY <1>2, GoesToLoses, RefuseLoses DEF Check, At, Undecided
<1>3. CASE TakeOver(k, r)
  BY <1>3, GoesToLoses, RefuseLoses DEF TakeOver, At, Undecided
<1>4. CASE Kick(k, r)
  <2>1. /\ Goes(k, r, "kicked") /\ pc[k][r] = "finished" /\ "kicked" \in Stage
        /\ UNCHANGED <<queue, marker, entry, reserved, batch, made, accepted, cancelled, rejected, disabled>>
    BY <1>4 DEF Kick, At, Stage, Active, refused
  <2>2. entry[r] # "none"
    BY <2>1 DEF LossInv, Journalled
  <2> QED BY <2>1, <2>2, GoOnLoses
<1>5. CASE Return(k, r)
  <2>1. /\ Goes(k, r, told) /\ pc[k][r] = "kicked"
        /\ UNCHANGED <<queue, marker, entry, reserved, batch, made, accepted, cancelled, rejected, disabled>>
    BY <1>5 DEF Return, Answers, At, refused
  <2>2. entry[r] # "none"
    BY <2>1 DEF LossInv, Journalled
  <2> HIDE DEF told
  <2> QED BY <1>1, <2>1, <2>2, GoOnLoses
<1> QED BY <1>2, <1>3, <1>4, <1>5

(* A drained item leaves the array in the step that journals its run. *)
LEMMA ReserveLoses ==
  ASSUME OnceInv, LossInv, NEW k \in Kind, NEW r \in Run, Reserve(k, r) PROVE LossInv'
<1>1. CASE CanStart(r)
  <2> DEFINE S == Dispatched(k, r)
  <2>1. /\ pc[k][r] = "reserving" /\ Goes(k, r, "running")
        /\ queue' = Without(queue, S) /\ marker' = Mark(S, "dispatching")
        /\ entry' = [entry EXCEPT ![r] = "admitted"] /\ reserved' = reserved \cup {r}
        /\ UNCHANGED <<batch, made, accepted, cancelled, rejected, disabled>>
    BY <1>1 DEF Reserve, At, refused
  <2>2. \A i \in S : i.run = r
    BY DEF Dispatched
  <2> HIDE DEF S
  <2>3. queue' \in Seq(Item) /\ ToSet(queue') = ToSet(queue) \ S
    BY <2>1, WithoutLemma DEF LossInv, ArrayTypes
  <2>4. \A i \in accepted : i \in Item /\ i.run \in Run
    BY ItemFacts DEF LossInv, ArrayTypes
  <2>5. entry'[r] # "none" /\ \A x \in Run : entry[x] # "none" => entry'[x] # "none"
    BY <2>1 DEF OnceInv, QTypes
  <2>6. ArrayTypes' /\ QueueOfAccepted' /\ SurvivesReload'
    BY <2>1, <2>3, <2>4 DEF LossInv, ArrayTypes, QueueOfAccepted, SurvivesReload, Mark
  <2>7. AcceptedCalls'
    BY <2>1, <2>4 DEF OnceInv, QTypes, LossInv, AcceptedCalls, Goes, Kind
  <2>8. Journalled'
    BY <2>1, <2>5 DEF OnceInv, QTypes, LossInv, Journalled, Goes, Kind
  <2>9. DoneExplained'
    BY <2>1, <2>4, <2>5 DEF OnceInv, QTypes, LossInv, QueueOfAccepted, DoneExplained, Goes, Kind
  <2>10. AcceptedKept'
    BY <2>1, <2>2, <2>3, <2>4, <2>5 DEF LossInv, AcceptedKept, Kept
  <2> QED BY <2>6, <2>7, <2>8, <2>9, <2>10 DEF LossInv
<1>2. CASE ~CanStart(r)
  BY <1>2, RefuseLoses DEF Reserve, At, Undecided
<1> QED BY <1>1, <1>2

LEMMA FinishLoses ==
  ASSUME OnceInv, LossInv, NEW k \in Kind, NEW r \in Run, Finish(k, r) PROVE LossInv'
<1>1. \A i \in accepted : i \in Item /\ i.run \in Run
  BY ItemFacts DEF LossInv, ArrayTypes
<1>2. entry'[r] # "none" /\ \A x \in Run : entry[x] # "none" => entry'[x] # "none"
  BY DEF OnceInv, QTypes, Finish
<1>3. ArrayTypes' /\ QueueOfAccepted' /\ SurvivesReload'
  BY DEF LossInv, ArrayTypes, QueueOfAccepted, SurvivesReload, Finish
<1>4. AcceptedCalls'
  BY <1>1 DEF OnceInv, QTypes, LossInv, AcceptedCalls, Finish, Goes, At, Kind
<1>5. Journalled'
  BY <1>2 DEF OnceInv, QTypes, LossInv, Journalled, Finish, Goes, Kind
<1>6. DoneExplained' /\ AcceptedKept'
  BY <1>1, <1>2 DEF OnceInv, QTypes, LossInv, QueueOfAccepted, DoneExplained, AcceptedKept, Kept, Finish, Goes, Kind, refused
<1> QED BY <1>3, <1>4, <1>5, <1>6 DEF LossInv

LEMMA BatchLoses ==
  ASSUME OnceInv, CapacityInv, LossInv, DrainBatch PROVE LossInv'
<1>1. \A i \in accepted : i \in Item /\ i.run \in Run
  BY ItemFacts DEF LossInv, ArrayTypes
<1>2. Candidates \subseteq ToSet(queue)
  <2>1. ASSUME NEW i \in 1..Least(Slots, Len(queue)) PROVE queue[i] \in ToSet(queue)
    <3>1. Len(queue) \in Nat /\ DOMAIN queue = 1..Len(queue)
      BY SeqFacts DEF LossInv, ArrayTypes
    <3>2. Slots \in Int
      BY FS_CardinalityType, QueueAssumption DEF Slots, CapacityInv, FiniteSlots
    <3>3. i \in DOMAIN queue
      BY <3>1, <3>2 DEF Least
    <3> QED BY <3>3 DEF ToSet
  <2> QED BY <2>1 DEF Candidates
<1>3. /\ pc'["direct"] = pc["direct"]
      /\ \A r \in Run : pc'["drain"][r] = "called" \/ pc'["drain"][r] = pc["drain"][r]
  BY DEF OnceInv, QTypes, DrainBatch, Kind
<1>4. ArrayTypes' /\ QueueOfAccepted' /\ SurvivesReload'
  BY <1>2 DEF LossInv, ArrayTypes, QueueOfAccepted, SurvivesReload, DrainBatch
<1>5. AcceptedCalls'
  BY <1>3 DEF LossInv, AcceptedCalls, DrainBatch
<1>6. Journalled'
  BY <1>3 DEF LossInv, Journalled, DrainBatch, Kind
<1>7. DoneExplained'
  <2>1. \A i \in Candidates : i.run \in Run /\ pc'["drain"][i.run] = "called"
    BY <1>1, <1>2 DEF OnceInv, QTypes, LossInv, QueueOfAccepted, DrainBatch, Kind
  <2> QED BY <2>1 DEF DoneExplained, DrainBatch
<1>8. AcceptedKept'
  BY <1>1 DEF LossInv, AcceptedKept, Kept, DrainBatch, refused
<1> QED BY <1>4, <1>5, <1>6, <1>7, <1>8 DEF LossInv

(* What the drain drops from the array was done, and what it puts back was *)
(* in the array still.                                                     *)
LEMMA CollectLoses ==
  ASSUME OnceInv, LossInv, Collect PROVE LossInv'
<1> DEFINE gone == batch \ BusyItems
<1>1. \A i \in accepted : i \in Item /\ i.run \in Run
  BY ItemFacts DEF LossInv, ArrayTypes
<1>2. \A i \in gone : pc["drain"][i.run] = "done"
  BY DEF BusyItems, Collect, At
<1>3. /\ queue' = Without(queue, gone) /\ marker' = Marked /\ batch' = {}
      /\ pc' = [pc EXCEPT !["drain"] = [r \in Run |-> "none"]]
      /\ UNCHANGED <<entry, reserved, made, accepted, cancelled, rejected, disabled>>
  BY DEF Collect, refused
<1>4. batch \subseteq accepted /\ BusyItems \subseteq batch
  BY DEF LossInv, QueueOfAccepted, BusyItems
<1>5. /\ Marked \in [Item -> {"none", "queued", "dispatching", "terminal"}]
      /\ \A i \in Item : i \notin gone => Marked[i] \in {"queued", marker[i]}
  BY DEF Marked, LossInv, ArrayTypes
<1>12. gone \subseteq batch
  OBVIOUS
<1> HIDE DEF gone
<1>6. queue' \in Seq(Item) /\ ToSet(queue') = ToSet(queue) \ gone
  BY <1>3, WithoutLemma DEF LossInv, ArrayTypes
<1>7. ArrayTypes' /\ QueueOfAccepted'
  BY <1>3, <1>5, <1>6 DEF LossInv, ArrayTypes, QueueOfAccepted
<1>8. SurvivesReload'
  BY <1>1, <1>3, <1>5, <1>6 DEF LossInv, QueueOfAccepted, SurvivesReload
<1>9. /\ pc'["direct"] = pc["direct"] /\ \A r \in Run : pc'["drain"][r] = "none"
  BY <1>3 DEF OnceInv, QTypes, Kind
<1>10. AcceptedCalls' /\ Journalled' /\ DoneExplained'
  BY <1>1, <1>3, <1>9 DEF LossInv, AcceptedCalls, Journalled, DoneExplained, Kind
<1>11. AcceptedKept'
  <2>1. ASSUME NEW i \in gone, made[i.run] = 1
        PROVE  entry[i.run] # "none" \/ i \in rejected \cup disabled
    BY <1>2, <1>12, <2>1 DEF LossInv, DoneExplained
  <2> QED BY <1>3, <1>6, <2>1 DEF LossInv, AcceptedKept, Kept
<1> QED BY <1>7, <1>8, <1>10, <1>11 DEF LossInv

LEMMA CancelLoses ==
  ASSUME OnceInv, LossInv, NEW S, Cancel(S) PROVE LossInv'
<1>1. queue' \in Seq(Item) /\ ToSet(queue') = ToSet(queue) \ S
  BY WithoutLemma DEF Cancel, LossInv, ArrayTypes
<1>2. ArrayTypes' /\ QueueOfAccepted'
  BY <1>1 DEF LossInv, ArrayTypes, QueueOfAccepted, Cancel, Mark
<1>3. SurvivesReload'
  BY <1>1, ToSetFacts DEF LossInv, ArrayTypes, SurvivesReload, Cancel, Mark
<1>4. AcceptedCalls' /\ Journalled' /\ DoneExplained'
  BY DEF LossInv, AcceptedCalls, Journalled, DoneExplained, Cancel, refused
<1>5. AcceptedKept'
  BY <1>1 DEF LossInv, AcceptedKept, Kept, Cancel, refused
<1> QED BY <1>2, <1>3, <1>4, <1>5 DEF LossInv

(* Steps that leave the items and all that is known of them. *)
LEMMA SameItemsLoses ==
  ASSUME OnceInv, LossInv, queue' \in Seq(Item), ToSet(queue') = ToSet(queue),
         UNCHANGED <<marker, entry, reserved, pc, batch, made, accepted, cancelled, rejected, disabled>>
  PROVE  LossInv'
BY DEF LossInv, ArrayTypes, QueueOfAccepted, SurvivesReload, AcceptedCalls, Journalled,
       DoneExplained, AcceptedKept, Kept

LEMMA MoveLoses ==
  ASSUME OnceInv, LossInv, NEW i, Move(i) PROVE LossInv'
<1>1. queue' \in Seq(Item) /\ ToSet(queue') = ToSet(queue)
  BY SwappedToSet DEF Move, LossInv, ArrayTypes
<1> QED BY <1>1, SameItemsLoses DEF Move, refused

(* The next renderer finds on disk all that waited. *)
LEMMA RebornLoses ==
  ASSUME OnceInv, LossInv, NEW entries \in [Run -> {"none", "admitted", "ended"}],
         \A r \in Run : entry[r] # "none" => entries[r] # "none",
         Reborn(entries, marker)
  PROVE  LossInv'
<1> DEFINE S == {i \in Item : marker'[i] \notin {"none", "queued"}}
<1>1. /\ marker' \in [Item -> {"none", "queued", "dispatching", "terminal"}]
      /\ \A i \in Item : marker[i] = "queued" => marker'[i] = "queued"
  BY DEF Reborn, LossInv, ArrayTypes
<1>2. queue' \in Seq(Item) /\ ToSet(queue') = ToSet(queue) \ S
  BY WithoutLemma DEF Reborn, LossInv, ArrayTypes
<1>3. \A i \in ToSet(queue) : i \in Item /\ marker'[i] = "queued"
  BY <1>1, ToSetFacts DEF LossInv, ArrayTypes, SurvivesReload
<1>4. ToSet(queue') = ToSet(queue)
  BY <1>2, <1>3
<1>5. \A r \in Run : entry[r] # "none" => entry'[r] # "none"
  BY DEF Reborn
<1>6. \A i \in accepted : i \in Item /\ i.run \in Run
  BY ItemFacts DEF LossInv, ArrayTypes
<1> HIDE DEF S
<1>7. ArrayTypes' /\ QueueOfAccepted' /\ SurvivesReload'
  BY <1>1, <1>2, <1>3, <1>4 DEF LossInv, ArrayTypes, QueueOfAccepted, SurvivesReload, Reborn
<1>8. \A k \in Kind, r \in Run : pc'[k][r] = "none"
  BY DEF Reborn
<1>9. AcceptedCalls' /\ Journalled' /\ DoneExplained'
  BY <1>6, <1>8 DEF LossInv, AcceptedCalls, Journalled, DoneExplained, Reborn, Kind
<1>10. AcceptedKept'
  BY <1>4, <1>5, <1>6 DEF LossInv, AcceptedKept, Kept, Reborn, refused
<1> QED BY <1>7, <1>9, <1>10 DEF LossInv

LEMMA StepLoses ==
  ASSUME OnceInv, CapacityInv, LossInv, [QNext]_qvars PROVE LossInv'
<1>1. ASSUME NEW r \in Run, Submit(r) \/ Begin(r) PROVE LossInv'
  BY <1>1, SubmitLoses, BeginLoses
<1>2. ASSUME NEW k \in Kind, NEW r \in Run, Proceed(k, r) \/ Finish(k, r) PROVE LossInv'
  BY <1>2, DecideLoses, RejectLoses, ProceedLoses, ReserveLoses, FinishLoses DEF Proceed
<1>3. ASSUME NEW k \in Kind, NEW r \in Run, DieInAdmission(k, r) PROVE LossInv'
  <2> DEFINE written == [entry EXCEPT ![r] = "admitted"]
  <2>1. /\ written \in [Run -> {"none", "admitted", "ended"}]
        /\ \A s \in Run : entry[s] # "none" => written[s] # "none"
    BY DEF OnceInv, QTypes
  <2>2. Reborn(written, marker)
    BY <1>3 DEF DieInAdmission
  <2> QED BY <2>1, <2>2, RebornLoses
<1>4. ASSUME Reload PROVE LossInv'
  BY <1>4, RebornLoses DEF Reload, OnceInv, QTypes
<1>5. ASSUME Boot \/ UNCHANGED qvars PROVE LossInv'
  <2>1. /\ queue' = queue
        /\ UNCHANGED <<marker, entry, reserved, pc, batch, made, accepted, cancelled, rejected, disabled>>
    BY <1>5 DEF Boot, qvars, refused
  <2> QED BY <2>1, SameItemsLoses DEF LossInv, ArrayTypes
<1>6. ASSUME (\E S : Cancel(S)) \/ (\E i : Move(i)) PROVE LossInv'
  BY <1>6, CancelLoses, MoveLoses
<1> QED
  BY <1>1, <1>2, <1>3, <1>4, <1>5, <1>6, BatchLoses, CollectLoses DEF QNext

(* What waits in the array is marked so on disk, always: whatever renderer *)
(* comes next takes it up.                                                 *)
THEOREM SurvivesReloadHolds == QSpec => []SurvivesReload
<1>1. QSpec => []LossInv
  BY LossInit, StepLoses, OnceInvariant, CapacityInvariant, PTL DEF QSpec
<1>2. LossInv => SurvivesReload
  BY DEF LossInv
<1> QED BY <1>1, <1>2, PTL

(* What was submitted once and reported as queued is never lost: it waits, *)
(* was settled as cancelled or refused, or its run is in the journal; but  *)
(* a delegate that is drained while Sub Agents are off goes without a      *)
(* word.  The drain works on a snapshot, the user moves and cancels items  *)
(* under it, and the renderer may die at any step.                         *)
THEOREM NothingLostHolds == QSpec => []NothingLost
<1>1. QSpec => []LossInv
  BY LossInit, StepLoses, OnceInvariant, CapacityInvariant, PTL DEF QSpec
<1>2. LossInv => NothingLost
  BY DEF LossInv, AcceptedKept, Kept, NothingLost, Accounted
<1> QED BY <1>1, <1>2, PTL
================================================================================
