--------------------------- MODULE RunQueueProofs ---------------------------
(***************************************************************************)
(* The safety of the run queue, for any number of runs, sessions and       *)
(* messages and any capacity.  The first part shows that the operators     *)
(* that pick a position (the first, the newest, the k-th that is kept)     *)
(* really have one to pick; the second part that every method keeps the    *)
(* invariants.                                                             *)
(***************************************************************************)
EXTENDS RunQueue, ArrayFilterProofs

-----------------------------------------------------------------------------
(* Numbers and positions *)

(* Array.find: the first of some positions.                                *)
LEMMA FirstOfLemma ==
  ASSUME NEW S \in SUBSET Nat, S # {}
  PROVE  FirstOf(S) \in S /\ \A j \in S : FirstOf(S) <= j
BY LeastExists DEF FirstOf

(* A queue that is not empty has an item of the largest revision.          *)
LEMMA TopExists ==
  ASSUME NEW q \in Seq(Item), q # <<>>
  PROVE  \E i \in DOMAIN q : \A j \in DOMAIN q : q[j].rev <= q[i].rev
<1> DEFINE HasTop(n) == \E i \in 1..n : \A j \in 1..n : q[j].rev <= q[i].rev
           Bad == {n \in 1..Len(q) : ~HasTop(n)}
<1>1. /\ Len(q) \in Nat \ {0} /\ DOMAIN q = 1..Len(q)
      /\ \A i \in 1..Len(q) : q[i] \in Item
  BY EmptySeq, LenProperties, ElementOfSeq
<1>2. \A i \in 1..Len(q) : q[i].rev \in Nat
  BY <1>1 DEF Item
<1>3. HasTop(1)
  BY <1>1, <1>2
<1>4. ASSUME NEW n \in 2..Len(q), HasTop(n - 1) PROVE HasTop(n)
  <2>1. n \in 1..Len(q) /\ \A j \in 1..n : j = n \/ j \in 1..(n - 1)
    BY <1>1, <1>4
  <2>2. PICK i \in 1..(n - 1) : \A j \in 1..(n - 1) : q[j].rev <= q[i].rev
    BY <1>4
  <2>3. i \in 1..n /\ i \in 1..Len(q) /\ n \in 1..n /\ 1..(n - 1) \subseteq 1..Len(q)
    BY <1>1, <1>4, <2>2
  <2>4. CASE q[n].rev <= q[i].rev
    BY <2>1, <2>2, <2>3, <2>4
  <2>5. CASE ~(q[n].rev <= q[i].rev)
    <3>1. q[n].rev \in Nat /\ q[i].rev \in Nat
      BY <1>2, <2>1, <2>3
    <3>2. q[i].rev <= q[n].rev /\ q[n].rev <= q[n].rev
      BY <2>5, <3>1
    <3>3. \A j \in 1..n : q[j].rev <= q[n].rev
      <4> SUFFICES ASSUME NEW j \in 1..(n - 1) PROVE q[j].rev <= q[n].rev
        BY <2>1, <3>2
      <4>1. q[j].rev \in Nat /\ q[j].rev <= q[i].rev
        BY <1>2, <2>2, <2>3
      <4> QED BY <3>1, <3>2, <4>1
    <3> QED BY <2>3, <3>3
  <2> QED BY <2>4, <2>5
<1> HIDE DEF HasTop
<1>5. Bad \in SUBSET Nat
  BY <1>1
<1>6. ASSUME Bad # {} PROVE FALSE
  <2>1. PICK n \in Bad : \A m \in Bad : n <= m
    BY <1>5, <1>6, LeastExists
  <2>2. n \in 2..Len(q) /\ (n - 1) \in 1..Len(q) /\ ~(n <= n - 1)
    BY <1>1, <1>3, <2>1
  <2>3. HasTop(n - 1)
    BY <2>1, <2>2
  <2> QED BY <1>4, <2>1, <2>2, <2>3
<1>7. HasTop(Len(q))
  BY <1>1, <1>6
<1> QED BY <1>1, <1>7 DEF HasTop

(* revision() is a number, and no item has a larger one.                   *)
LEMMA RevisionLemma ==
  ASSUME NEW q \in Seq(Item)
  PROVE  Revision(q) \in Nat /\ \A i \in DOMAIN q : q[i].rev <= Revision(q)
<1>1. CASE q = <<>>
  BY <1>1 DEF Revision
<1>2. CASE q # <<>>
  <2> DEFINE top == CHOOSE i \in DOMAIN q : \A j \in DOMAIN q : q[j].rev <= q[i].rev
  <2>1. top \in DOMAIN q /\ \A j \in DOMAIN q : q[j].rev <= q[top].rev
    BY <1>2, TopExists
  <2>2. Revision(q) = q[top].rev
    BY <1>2 DEF Revision
  <2> HIDE DEF top
  <2>3. q[top] \in Item
    BY <2>1
  <2> QED BY <2>1, <2>2, <2>3 DEF Item
<1> QED BY <1>1, <1>2

-----------------------------------------------------------------------------
(* Retention *)

(* r is made of items of q: pi[k] is the place in q of the k-th item of r, *)
(* no item of q is used twice, and the work it stands for is the same.     *)
Embeds(pi, r, q) ==
  /\ pi \in [DOMAIN r -> DOMAIN q]
  /\ \A k, l \in DOMAIN r : pi[k] = pi[l] => k = l
  /\ \A k \in DOMAIN r : SameWork(r[k], q[pi[k]])

(* The array that filter() leaves: the items at the positions K, each of   *)
(* them once.                                                              *)
LEMMA KeepOnlyLemma ==
  ASSUME NEW q \in Seq(Item), NEW K \in SUBSET DOMAIN q
  PROVE  /\ KeepOnly(q, K) \in Seq(Item)
         /\ \E pi : /\ Embeds(pi, KeepOnly(q, K), q)
                    /\ \A k \in DOMAIN KeepOnly(q, K) : KeepOnly(q, K)[k] = q[pi[k]]
                    /\ \A i \in K : \E k \in DOMAIN KeepOnly(q, K) : pi[k] = i
                    /\ \A k, l \in DOMAIN KeepOnly(q, K) : k < l => pi[k] < pi[l]
<1>1. KeepOnly(q, K) \in Seq(Item)
  BY FilterLemma
<1>2. PICK pi \in [DOMAIN KeepOnly(q, K) -> DOMAIN q] :
        /\ \A k \in DOMAIN KeepOnly(q, K) : pi[k] \in K /\ KeepOnly(q, K)[k] = q[pi[k]]
        /\ \A k, l \in DOMAIN KeepOnly(q, K) : pi[k] = pi[l] => k = l
        /\ \A i \in K : \E k \in DOMAIN KeepOnly(q, K) : pi[k] = i
        /\ \A k, l \in DOMAIN KeepOnly(q, K) : k < l => pi[k] < pi[l]
  BY FilterLemma
<1>3. Embeds(pi, KeepOnly(q, K), q)
  BY <1>2 DEF Embeds, SameWork
<1> QED BY <1>1, <1>2, <1>3

(* enqueue's retention keeps every item that is queued or running.         *)
LEMMA RetainedLemma ==
  ASSUME NEW q \in Seq(Item)
  PROVE  /\ Retained(q) \in Seq(Item)
         /\ \E pi : /\ Embeds(pi, Retained(q), q)
                    /\ \A k \in DOMAIN Retained(q) : Retained(q)[k] = q[pi[k]]
                    /\ \A i \in DOMAIN q :
                         Live(q[i]) => \E k \in DOMAIN Retained(q) : pi[k] = i
                    /\ \A k, l \in DOMAIN Retained(q) : k < l => pi[k] < pi[l]
<1> DEFINE K == DOMAIN q \ Dropped(q)
<1>1. K \in SUBSET DOMAIN q
  OBVIOUS
<1>2. \A i \in DOMAIN q : Live(q[i]) => i \in K
  BY DEF Dropped, Where, Terminal, Live
<1>3. Retained(q) = KeepOnly(q, K)
  BY DEF Retained
<1> HIDE DEF K
<1> QED BY <1>1, <1>2, <1>3, KeepOnlyLemma

-----------------------------------------------------------------------------
(* The invariants, as predicates of an array *)

Distinct(q) ==
  \A i, j \in DOMAIN q : i # j =>
     /\ (q[i].action # "steer" /\ q[j].action # "steer") => q[i].run # q[j].run
     /\ q[i].msg # NoMsg => q[i].msg # q[j].msg

(* The receipt of a steer is born settled and stays so: it is never work.  *)
Receipts(q) == \A i \in DOMAIN q : q[i].action = "steer" => q[i].status = "settled"

Picked(item) == Queued(item) /\ item.manual
OnePicked(q) ==
  \A i \in DOMAIN q : Picked(q[i]) =>
     /\ ~q[i].paused
     /\ \A j \in DOMAIN q : (Picked(q[j]) /\ Session(q[j]) = Session(q[i])) => j = i

Good(q) == /\ q \in Seq(Item) /\ LiveCount(q) <= Max
           /\ Distinct(q) /\ Receipts(q) /\ OnePicked(q)
QIndInv == Good(items)

(* An array whose items are items of q, with no new life and no receipt    *)
(* reopened, has the identities, the receipts and the capacity of q.       *)
LEMMA EmbedLemma ==
  ASSUME NEW q \in Seq(Item), NEW r \in Seq(Item), NEW pi, Embeds(pi, r, q),
         Distinct(q), Receipts(q), LiveCount(q) <= Max,
         \A k \in DOMAIN r : Live(r[k]) => Live(q[pi[k]]),
         \A k \in DOMAIN r : q[pi[k]].status = "settled" => r[k].status = "settled"
  PROVE  Distinct(r) /\ Receipts(r) /\ LiveCount(r) <= LiveCount(q) /\ LiveCount(r) <= Max
<1>1. Distinct(r)
  BY DEF Distinct, Embeds, SameWork
<1>2. Receipts(r)
  BY DEF Receipts, Embeds, SameWork
<1>3. LiveCount(r) <= LiveCount(q) /\ LiveCount(q) \in Nat /\ LiveCount(r) \in Nat
  <2> DEFINE A == {k \in DOMAIN r : Live(r[k])}
             B == {i \in DOMAIN q : Live(q[i])}
             f == [k \in A |-> pi[k]]
  <2>1. IsFiniteSet(A) /\ IsFiniteSet(B)
    BY SeqFacts, FS_Subset
  <2>2. f \in Injection(A, B)
    BY DEF Embeds, Injection, IsInjective
  <2>3. Cardinality(A) <= Cardinality(B)
    BY <2>1, <2>2, FS_Injection
  <2>4. Cardinality(A) \in Nat /\ Cardinality(B) \in Nat
    BY <2>1, FS_CardinalityType
  <2> QED BY <2>3, <2>4 DEF LiveCount, Where
<1> QED BY <1>1, <1>2, <1>3, MaxAssumption

(* If, besides, no item becomes picked and a picked one is not paused.     *)
LEMMA PickedLemma ==
  ASSUME NEW q, NEW r, NEW pi, Embeds(pi, r, q), OnePicked(q),
         \A k \in DOMAIN r : Picked(r[k]) =>
            Picked(q[pi[k]]) /\ (r[k].paused => q[pi[k]].paused)
  PROVE  OnePicked(r)
BY DEF OnePicked, Embeds, SameWork, Session

LEMMA SameDomainEmbeds ==
  ASSUME NEW q, NEW r, DOMAIN r = DOMAIN q, \A i \in DOMAIN q : SameWork(r[i], q[i])
  PROVE  \E pi : Embeds(pi, r, q) /\ \A i \in DOMAIN r : pi[i] = i
<1> DEFINE pi == [i \in DOMAIN r |-> i]
<1>1. Embeds(pi, r, q) /\ \A i \in DOMAIN r : pi[i] = i
  BY DEF Embeds
<1> QED BY <1>1

(* The methods that change items in place.                                 *)
LEMMA InPlaceLemma ==
  ASSUME NEW q, Good(q), NEW r \in Seq(Item), DOMAIN r = DOMAIN q,
         \A i \in DOMAIN q :
            /\ SameWork(r[i], q[i])
            /\ Live(r[i]) => Live(q[i])
            /\ q[i].status = "settled" => r[i].status = "settled"
  PROVE  /\ Distinct(r) /\ Receipts(r) /\ LiveCount(r) <= Max
         /\ (\A i \in DOMAIN q : Picked(r[i]) => Picked(q[i]) /\ (r[i].paused => q[i].paused))
               => Good(r)
<1>1. PICK pi : Embeds(pi, r, q) /\ \A i \in DOMAIN r : pi[i] = i
  BY SameDomainEmbeds
<1>2. Distinct(r) /\ Receipts(r) /\ LiveCount(r) <= Max
  BY <1>1, EmbedLemma DEF Good
<1>3. ASSUME \A i \in DOMAIN q : Picked(r[i]) => Picked(q[i]) /\ (r[i].paused => q[i].paused)
      PROVE  OnePicked(r)
  BY <1>1, <1>3, PickedLemma DEF Good
<1> QED BY <1>2, <1>3 DEF Good

(* The methods that add an item at the end.                                *)
LEMMA AppendLemma ==
  ASSUME NEW q, Good(q), NEW e \in Item,
         \A i \in DOMAIN q : e.msg # NoMsg => q[i].msg # e.msg,
         e.action # "steer" => \A i \in DOMAIN q : q[i].run # e.run,
         e.action = "steer" => e.status = "settled",
         Live(e) => LiveCount(q) < Max,
         ~e.manual
  PROVE  Good(Append(q, e))
<1> DEFINE r == Append(q, e)
           n == Len(q)
<1>1. /\ n \in Nat /\ DOMAIN q = 1..n
      /\ r \in Seq(Item) /\ DOMAIN r = 1..(n + 1) /\ r[n + 1] = e
      /\ \A i \in 1..n : r[i] = q[i]
  BY SeqFacts, AppendFacts DEF Good
<1> HIDE DEF r, n
<1>2. \A i \in DOMAIN r : (i \in DOMAIN q /\ r[i] = q[i]) \/ (i = n + 1 /\ r[i] = e)
  BY <1>1
<1>3. Distinct(r)
  BY <1>2 DEF Good, Distinct
<1>4. Receipts(r)
  BY <1>2 DEF Good, Receipts
<1>5. OnePicked(r)
  BY <1>2 DEF Good, OnePicked, Picked
<1>6. LiveCount(r) <= Max
  <2> DEFINE A == {i \in DOMAIN q : Live(q[i])}
             B == {i \in DOMAIN r : Live(r[i])}
  <2>1. IsFiniteSet(A) /\ Cardinality(A) \in Nat /\ Cardinality(A) = LiveCount(q)
    BY <1>1, PositionsLemma DEF LiveCount, Where
  <2>2. n + 1 \notin A
    BY <1>1
  <2>3. B = IF Live(e) THEN A \cup {n + 1} ELSE A
    BY <1>1, <1>2
  <2>4. Cardinality(A \cup {n + 1}) = Cardinality(A) + 1
    BY <2>1, <2>2, FS_AddElement
  <2>5. Cardinality(B) <= Max
    <3>1. CASE Live(e)
      <4>1. Cardinality(B) = LiveCount(q) + 1
        BY <2>1, <2>3, <2>4, <3>1
      <4>2. LiveCount(q) < Max /\ LiveCount(q) \in Nat
        BY <2>1, <3>1
      <4> HIDE DEF B
      <4> QED BY <4>1, <4>2, MaxAssumption
    <3>2. CASE ~Live(e)
      BY <2>1, <2>3, <3>2 DEF Good
    <3> QED BY <3>1, <3>2
  <2> QED BY <2>5 DEF LiveCount, Where
<1>7. r \in Seq(Item)
  BY <1>1
<1> QED BY <1>3, <1>4, <1>5, <1>6, <1>7 DEF Good, r

-----------------------------------------------------------------------------
(* The methods *)

LEMMA StampedLemma ==
  ASSUME QIndInv, NEW item \in Item
  PROVE  /\ Stamped(item) \in Item /\ SameWork(Stamped(item), item)
         /\ Stamped(item).status = item.status /\ Stamped(item).paused = item.paused
         /\ Stamped(item).manual = item.manual /\ Stamped(item).rev = Revision(items) + 1
<1>1. Revision(items) + 1 \in Nat
  BY RevisionLemma DEF QIndInv, Good
<1> QED BY <1>1 DEF Stamped, Item, SameWork

(* One item is replaced.                                                   *)
LEMMA ExceptLemma ==
  ASSUME QIndInv, NEW i \in DOMAIN items, NEW e \in Item, SameWork(e, items[i]),
         Live(e) => Live(items[i]), items[i].status = "settled" => e.status = "settled",
         Picked(e) => Picked(items[i]) /\ (e.paused => items[i].paused),
         items' = [items EXCEPT ![i] = e]
  PROVE  Good(items')
<1>1. items \in Seq(Item) /\ i \in 1..Len(items) /\ DOMAIN items = 1..Len(items)
  BY SeqFacts DEF QIndInv, Good
<1>2. /\ items' \in Seq(Item) /\ DOMAIN items' = DOMAIN items
      /\ \A j \in DOMAIN items : items'[j] = IF j = i THEN e ELSE items[j]
  BY <1>1, ExceptSeq, LenProperties
<1>3. \A j \in DOMAIN items : SameWork(items[j], items[j])
  BY DEF SameWork
<1> QED BY <1>2, <1>3, InPlaceLemma DEF QIndInv

LEMMA ClaimAtLemma ==
  ASSUME QIndInv, NEW i \in DOMAIN items, Claimable(items[i]), ClaimAt(i)
  PROVE  Good(items')
<1> DEFINE e == [items[i] EXCEPT !.status = "running", !.paused = FALSE, !.manual = FALSE]
<1>1. items[i] \in Item
  BY SeqFacts DEF QIndInv, Good
<1>2. /\ e \in Item /\ SameWork(e, items[i]) /\ ~Picked(e)
      /\ Live(items[i]) /\ items[i].status # "settled"
  BY <1>1 DEF Item, Status, SameWork, Claimable, Queued, Live, Picked
<1>3. items' = [items EXCEPT ![i] = e]
  BY DEF ClaimAt
<1> HIDE DEF e
<1> QED BY <1>2, <1>3, ExceptLemma

LEMMA PositionLemma ==
  ASSUME QIndInv, NEW S \in SUBSET DOMAIN items, S # {}
  PROVE  FirstOf(S) \in S /\ FirstOf(S) \in DOMAIN items /\ items[FirstOf(S)] \in Item
<1>1. /\ DOMAIN items = 1..Len(items) /\ Len(items) \in Nat
      /\ \A i \in DOMAIN items : items[i] \in Item
  BY SeqFacts DEF QIndInv, Good
<1>2. S \in SUBSET Nat
  BY <1>1
<1>3. FirstOf(S) \in S
  BY <1>2, FirstOfLemma
<1> QED BY <1>1, <1>3

LEMMA ClaimGood == ASSUME QIndInv, NEW S \in SUBSET SessionId, Claim(S) PROVE Good(items')
<1>1. /\ Ready(S) \in SUBSET DOMAIN items /\ Ready(S) # {}
      /\ \A i \in Ready(S) : Claimable(items[i])
  BY DEF Claim, Ready
<1>2. FirstOf(Ready(S)) \in Ready(S) /\ FirstOf(Ready(S)) \in DOMAIN items
  BY <1>1, PositionLemma
<1> QED BY <1>1, <1>2, ClaimAtLemma DEF Claim

LEMMA ClaimRunGood == ASSUME QIndInv, NEW r \in RunId, ClaimRun(r) PROVE Good(items')
<1> DEFINE ready == {i \in Of(items, r) : Claimable(items[i])}
<1>1. ready \in SUBSET DOMAIN items /\ ready # {} /\ ClaimAt(FirstOf(ready))
  BY DEF ClaimRun, Of
<1>2. FirstOf(ready) \in ready /\ FirstOf(ready) \in DOMAIN items
  BY <1>1, PositionLemma
<1> QED BY <1>1, <1>2, ClaimAtLemma

LEMMA MarkInterruptedGood ==
  ASSUME QIndInv, NEW r \in RunId, MarkInterrupted(r) PROVE Good(items')
<1> DEFINE i == FirstOf(Of(items, r))
           e == Stamped([items[i] EXCEPT !.status = "interrupted"])
<1>1. /\ Of(items, r) \in SUBSET DOMAIN items /\ Of(items, r) # {}
      /\ Queued(items[i]) /\ items' = [items EXCEPT ![i] = e]
  BY DEF MarkInterrupted, Of
<1>2. i \in DOMAIN items /\ items[i] \in Item
  BY <1>1, PositionLemma
<1> HIDE DEF i
<1>3. [items[i] EXCEPT !.status = "interrupted"] \in Item
  BY <1>2 DEF Item, Status
<1>4. /\ e \in Item /\ SameWork(e, items[i]) /\ e.status = "interrupted"
  BY <1>2, <1>3, StampedLemma DEF SameWork, Item
<1> HIDE DEF e
<1>5. ~Live(e) /\ ~Picked(e) /\ items[i].status # "settled"
  BY <1>1, <1>4 DEF Live, Picked, Queued
<1> QED BY <1>1, <1>2, <1>4, <1>5, ExceptLemma

LEMMA SettleGood == ASSUME QIndInv, NEW r \in RunId, Settle(r) PROVE Good(items')
<1> DEFINE i == FirstOf(Settleable(r))
           e == Stamped([items[i] EXCEPT !.status = "settled"])
<1>1. /\ Settleable(r) \in SUBSET DOMAIN items /\ Settleable(r) # {}
      /\ items' = [items EXCEPT ![i] = e]
  BY DEF Settle, Settleable, Of
<1>2. i \in DOMAIN items /\ items[i] \in Item
  BY <1>1, PositionLemma
<1> HIDE DEF i
<1>3. [items[i] EXCEPT !.status = "settled"] \in Item
  BY <1>2 DEF Item, Status
<1>4. /\ e \in Item /\ SameWork(e, items[i]) /\ e.status = "settled"
  BY <1>2, <1>3, StampedLemma DEF SameWork, Item
<1> HIDE DEF e
<1>5. ~Live(e) /\ ~Picked(e)
  BY <1>4 DEF Live, Picked, Queued
<1> QED BY <1>1, <1>2, <1>4, <1>5, ExceptLemma

LEMMA UpdateGood == ASSUME QIndInv, NEW r \in RunId, Update(r) PROVE Good(items')
<1> DEFINE editable == {i \in Of(items, r) : Queued(items[i])}
           i == FirstOf(editable)
           e == Stamped(items[i])
<1>1. /\ editable \in SUBSET DOMAIN items /\ editable # {}
      /\ items' = [items EXCEPT ![i] = e]
  BY DEF Update, Of
<1>2. i \in DOMAIN items /\ items[i] \in Item
  BY <1>1, PositionLemma
<1> HIDE DEF i
<1>3. /\ e \in Item /\ SameWork(e, items[i]) /\ e.status = items[i].status
      /\ e.manual = items[i].manual /\ e.paused = items[i].paused
  BY <1>2, StampedLemma
<1> HIDE DEF e
<1> QED BY <1>1, <1>2, <1>3, ExceptLemma DEF Live, Picked, Queued

(* Some items of one session are replaced.                                 *)
LEMMA RewriteType ==
  ASSUME QIndInv, NEW r, DOMAIN r = DOMAIN items, r = [i \in DOMAIN items |-> r[i]],
         \A i \in DOMAIN items : r[i] \in Item
  PROVE  r \in Seq(Item)
<1>1. DOMAIN items = 1..Len(items) /\ Len(items) \in Nat
  BY SeqFacts DEF QIndInv, Good
<1>2. r \in [1..Len(items) -> Item]
  BY <1>1
<1> QED BY <1>1, <1>2, FunctionIsSeq

LEMMA PauseSessionGood ==
  ASSUME QIndInv, NEW s \in SessionId, PauseSession(s) PROVE Good(items')
<1> DEFINE p(i) == [items[i] EXCEPT !.paused = TRUE, !.manual = FALSE]
<1>1. \A i \in DOMAIN items : items[i] \in Item
  BY SeqFacts DEF QIndInv, Good
<1>2. ASSUME NEW i \in DOMAIN items
      PROVE  /\ Stamped(p(i)) \in Item /\ SameWork(Stamped(p(i)), items[i])
             /\ Stamped(p(i)).status = items[i].status /\ ~Stamped(p(i)).manual
  <2>1. p(i) \in Item /\ SameWork(p(i), items[i]) /\ p(i).status = items[i].status /\ ~p(i).manual
    BY <1>1 DEF Item, SameWork
  <2> HIDE DEF p
  <2> QED BY <2>1, StampedLemma DEF SameWork
<1>3. /\ DOMAIN items' = DOMAIN items /\ items' = [i \in DOMAIN items |-> items'[i]]
      /\ \A i \in DOMAIN items : items'[i] = IF i \in Pausable(s) THEN Stamped(p(i)) ELSE items[i]
  BY DEF PauseSession
<1> HIDE DEF p
<1>4. \A i \in DOMAIN items : items'[i] \in Item
  BY <1>1, <1>2, <1>3
<1>5. items' \in Seq(Item)
  BY <1>3, <1>4, RewriteType
<1>6. ASSUME NEW i \in DOMAIN items
      PROVE  /\ SameWork(items'[i], items[i]) /\ items'[i].status = items[i].status
             /\ Picked(items'[i]) => items'[i] = items[i]
  BY <1>2, <1>3 DEF SameWork, Picked
<1>7. \A i \in DOMAIN items :
         /\ Live(items'[i]) => Live(items[i])
         /\ items[i].status = "settled" => items'[i].status = "settled"
         /\ Picked(items'[i]) => Picked(items[i]) /\ (items'[i].paused => items[i].paused)
  BY <1>6 DEF Live
<1> QED BY <1>3, <1>5, <1>6, <1>7, InPlaceLemma DEF QIndInv

(* After a start the picked run is the only one of its session that is     *)
(* picked: no other queued item has its runId, for only receipts share one.*)
LEMMA StartGood == ASSUME QIndInv, NEW r \in RunId, Start(r) PROVE Good(items')
<1> DEFINE M == Movable(items, SessionOf[r])
           e(i) == Released(items[i], r)
<1>1. \A i \in DOMAIN items : items[i] \in Item
  BY SeqFacts DEF QIndInv, Good
<1>2. ASSUME NEW i \in DOMAIN items
      PROVE  /\ Stamped(e(i)) \in Item /\ SameWork(Stamped(e(i)), items[i])
             /\ Stamped(e(i)).status = items[i].status /\ ~Stamped(e(i)).paused
             /\ Stamped(e(i)).manual = (items[i].run = r)
  <2>1. /\ e(i) \in Item /\ SameWork(e(i), items[i]) /\ e(i).status = items[i].status
        /\ ~e(i).paused /\ e(i).manual = (items[i].run = r)
    BY <1>1 DEF Item, SameWork, Released
  <2> HIDE DEF e
  <2> QED BY <2>1, StampedLemma DEF SameWork
<1>3. /\ DOMAIN items' = DOMAIN items /\ items' = [i \in DOMAIN items |-> items'[i]]
      /\ \A i \in DOMAIN items : items'[i] = IF i \in M THEN Stamped(e(i)) ELSE items[i]
  BY DEF Start
<1> HIDE DEF e
<1>4. \A i \in DOMAIN items : items'[i] \in Item
  BY <1>1, <1>2, <1>3
<1>5. items' \in Seq(Item)
  BY <1>3, <1>4, RewriteType
<1>6. \A i \in DOMAIN items : SameWork(items'[i], items[i]) /\ items'[i].status = items[i].status
  BY <1>2, <1>3 DEF SameWork
<1>7. Distinct(items') /\ Receipts(items') /\ LiveCount(items') <= Max
  BY <1>3, <1>5, <1>6, InPlaceLemma DEF QIndInv, Live
<1>8. OnePicked(items')
  <2>1. \A i \in DOMAIN items :
           i \in M <=> Session(items'[i]) = SessionOf[r] /\ Queued(items'[i])
    BY <1>6 DEF Movable, Session, Queued, SameWork
  <2>2. ASSUME NEW i \in M, Picked(items'[i])
        PROVE  ~items'[i].paused /\ items'[i].run = r /\ items'[i].action # "steer"
    <3>1. items'[i] = Stamped(e(i)) /\ i \in DOMAIN items
      BY <1>3 DEF Movable
    <3>2. items'[i].run = r
      BY <1>2, <2>2, <3>1 DEF Picked, SameWork
    <3>3. items'[i].action # "steer"
      BY <1>3, <1>7, <2>2, <3>1 DEF Receipts, Picked, Queued
    <3> QED BY <1>2, <3>1, <3>2, <3>3
  <2>3. ASSUME NEW i \in DOMAIN items, i \notin M, Picked(items'[i])
        PROVE  Picked(items[i]) /\ items'[i] = items[i] /\ Session(items[i]) # SessionOf[r]
    <3>1. items'[i] = items[i]
      BY <1>3, <2>3
    <3> QED BY <2>1, <2>3, <3>1 DEF Picked
  <2>4. ASSUME NEW i \in DOMAIN items, Picked(items'[i]) PROVE ~items'[i].paused
    BY <2>2, <2>3, <2>4 DEF QIndInv, Good, OnePicked
  <2>5. ASSUME NEW i \in DOMAIN items, Picked(items'[i]),
               NEW j \in DOMAIN items, Picked(items'[j]),
               Session(items'[j]) = Session(items'[i])
        PROVE  j = i
    <3>1. i \in M <=> j \in M
      BY <2>1, <2>5 DEF Picked
    <3>2. CASE i \in M
      <4>1. items'[i].run = items'[j].run /\ items'[i].action # "steer" /\ items'[j].action # "steer"
        BY <2>2, <2>5, <3>1, <3>2
      <4> QED BY <1>3, <1>7, <4>1 DEF Distinct
    <3>3. CASE i \notin M
      BY <2>3, <2>5, <3>1, <3>3 DEF QIndInv, Good, OnePicked
    <3> QED BY <3>2, <3>3
  <2> QED BY <1>3, <2>4, <2>5 DEF OnePicked
<1> QED BY <1>5, <1>7, <1>8 DEF Good

(* A reorder is a permutation of the whole array.                          *)
LEMMA ReorderLemma ==
  ASSUME QIndInv, NEW s \in SessionId, Reorder(s)
  PROVE  \E pi : /\ Embeds(pi, items', items)
                 /\ DOMAIN items' = DOMAIN items
                 /\ items' \in Seq(Item)
                 /\ \A i \in DOMAIN items : /\ items'[i].status = items[pi[i]].status
                                            /\ items'[i].paused = items[pi[i]].paused
                                            /\ items'[i].manual = items[pi[i]].manual
                 /\ \A i \in DOMAIN items : \E k \in DOMAIN items : pi[k] = i
                 /\ \A i \in DOMAIN items : i \notin Movable(items, s) => pi[i] = i
                 /\ \A i \in Movable(items, s) :
                      pi[i] \in Movable(items, s) /\ items'[i].rev = Revision(items) + 1
<1> DEFINE M == Movable(items, s)
<1>1. PICK p \in Orders(M) :
         items' = [i \in DOMAIN items |-> IF i \in DOMAIN p THEN Stamped(items[p[i]]) ELSE items[i]]
  BY DEF Reorder
<1>2. M \in SUBSET DOMAIN items /\ p \in [M -> M] /\ \A i, j \in M : p[i] = p[j] => i = j
  BY DEF Orders, Movable
<1> DEFINE pi == [i \in DOMAIN items |-> IF i \in M THEN p[i] ELSE i]
<1>3. /\ pi \in [DOMAIN items -> DOMAIN items]
      /\ \A i \in M : pi[i] = p[i] /\ p[i] \in M
      /\ \A i \in DOMAIN items \ M : pi[i] = i
  BY <1>2
<1> HIDE DEF pi, M
<1>4. \A i, j \in DOMAIN items : pi[i] = pi[j] => i = j
  BY <1>2, <1>3
<1>5. \A i \in DOMAIN items : items[i] \in Item
  BY SeqFacts DEF QIndInv, Good
<1>6. /\ DOMAIN items' = DOMAIN items /\ items' = [i \in DOMAIN items |-> items'[i]]
      /\ \A i \in DOMAIN items :
            items'[i] = IF i \in M THEN Stamped(items[pi[i]]) ELSE items[pi[i]]
  BY <1>1, <1>2, <1>3
<1>7. ASSUME NEW i \in DOMAIN items
      PROVE  /\ items'[i] \in Item /\ SameWork(items'[i], items[pi[i]])
             /\ items'[i].status = items[pi[i]].status /\ items'[i].paused = items[pi[i]].paused
             /\ items'[i].manual = items[pi[i]].manual
  <2>1. pi[i] \in DOMAIN items /\ items[pi[i]] \in Item
    BY <1>3, <1>5
  <2> QED BY <1>6, <2>1, StampedLemma DEF SameWork
<1>8. items' \in Seq(Item)
  BY <1>6, <1>7, RewriteType
<1>9. Embeds(pi, items', items)
  BY <1>3, <1>4, <1>6, <1>7 DEF Embeds
<1>10. \A i \in DOMAIN items : \E k \in DOMAIN items : pi[k] = i
  <2>1. IsFiniteSet(DOMAIN items)
    BY SeqFacts DEF QIndInv, Good
  <2>2. pi \in Injection(DOMAIN items, DOMAIN items)
    BY <1>3, <1>4 DEF Injection, IsInjective
  <2>3. pi \in Surjection(DOMAIN items, DOMAIN items)
    BY <2>1, <2>2, FS_Injection
  <2> QED BY <2>3 DEF Surjection
<1>11. \A i \in M : pi[i] \in M /\ items'[i].rev = Revision(items) + 1
  <2> SUFFICES ASSUME NEW i \in M PROVE pi[i] \in M /\ items'[i].rev = Revision(items) + 1
    OBVIOUS
  <2>1. i \in DOMAIN items /\ pi[i] \in M /\ items[pi[i]] \in Item
    BY <1>2, <1>3, <1>5
  <2> QED BY <1>6, <2>1, StampedLemma
<1>12. \A i \in DOMAIN items : /\ items'[i].status = items[pi[i]].status
                               /\ items'[i].paused = items[pi[i]].paused
                               /\ items'[i].manual = items[pi[i]].manual
  BY <1>7
<1>13. \A i \in DOMAIN items : i \notin M => pi[i] = i
  BY <1>3
<1>14. DOMAIN items' = DOMAIN items
  BY <1>6
<1> USE DEF M
<1> QED BY <1>8, <1>9, <1>10, <1>11, <1>12, <1>13, <1>14, Zenon

LEMMA ReorderGood == ASSUME QIndInv, NEW s \in SessionId, Reorder(s) PROVE Good(items')
<1>1. PICK pi : /\ Embeds(pi, items', items)
                /\ DOMAIN items' = DOMAIN items
                /\ items' \in Seq(Item)
                /\ \A i \in DOMAIN items : /\ items'[i].status = items[pi[i]].status
                                           /\ items'[i].paused = items[pi[i]].paused
                                           /\ items'[i].manual = items[pi[i]].manual
  BY ReorderLemma
<1>2. Distinct(items') /\ Receipts(items') /\ LiveCount(items') <= Max
  BY <1>1, EmbedLemma DEF QIndInv, Good, Live
<1>3. OnePicked(items')
  BY <1>1, PickedLemma DEF QIndInv, Good, Picked, Queued
<1> QED BY <1>1, <1>2, <1>3 DEF Good

LEMMA RecordAcceptedSteerGood ==
  ASSUME QIndInv, NEW r \in RunId, NEW m \in MsgId \cup {NoMsg}, RecordAcceptedSteer(r, m)
  PROVE  Good(items')
<1> DEFINE e == NewItem(r, m, "steer", "settled", Revision(items) + 1)
<1>1. Revision(items) + 1 \in Nat
  BY RevisionLemma DEF QIndInv, Good
<1>2. /\ e \in Item /\ e.msg = m /\ e.action = "steer" /\ e.status = "settled"
      /\ ~Live(e) /\ ~e.manual
  BY <1>1 DEF NewItem, Item, Action, Status, Live
<1>3. items' = Append(items, e) /\ \A i \in DOMAIN items : e.msg # NoMsg => items[i].msg # e.msg
  BY <1>2 DEF RecordAcceptedSteer, NewMsg
<1> HIDE DEF e
<1> QED BY <1>2, <1>3, AppendLemma DEF QIndInv

LEMMA EnqueueGood ==
  ASSUME QIndInv, NEW r \in RunId, NEW m \in MsgId \cup {NoMsg}, NEW act \in {"none", "queue"},
         Enqueue(r, m, act)
  PROVE  Good(items')
<1> DEFINE kept == Retained(items)
           e == NewItem(r, m, act, "queued", Revision(kept) + 1)
<1>1. kept \in Seq(Item)
  BY RetainedLemma DEF QIndInv, Good
<1>2. PICK pi : Embeds(pi, kept, items) /\ \A k \in DOMAIN kept : kept[k] = items[pi[k]]
  BY RetainedLemma DEF QIndInv, Good
<1>3. CanEnqueue(r, m) /\ items' = Append(kept, e)
  BY DEF Enqueue
<1>4. Revision(kept) + 1 \in Nat
  BY <1>1, RevisionLemma
<1> HIDE DEF kept
<1>5. /\ e \in Item /\ e.msg = m /\ e.run = r /\ e.action # "steer" /\ ~e.manual
  BY <1>4 DEF NewItem, Item, Action, Status
<1> HIDE DEF e
<1>6. Distinct(kept) /\ Receipts(kept) /\ LiveCount(kept) <= LiveCount(items) /\ LiveCount(kept) <= Max
  BY <1>1, <1>2, EmbedLemma DEF QIndInv, Good
<1>7. OnePicked(kept)
  BY <1>2, PickedLemma DEF QIndInv, Good
<1>8. LiveCount(kept) < Max
  <2>1. LiveCount(kept) \in Nat /\ LiveCount(items) \in Nat
    <3>1. \A q \in Seq(Item) : LiveCount(q) \in Nat
      <4> TAKE q \in Seq(Item)
      <4>1. IsFiniteSet({i \in DOMAIN q : Live(q[i])})
        BY SeqFacts, FS_Subset
      <4> QED BY <4>1, FS_CardinalityType DEF LiveCount, Where
    <3> QED BY <1>1, <3>1 DEF QIndInv, Good
  <2> QED BY <1>3, <1>6, <2>1, MaxAssumption DEF CanEnqueue
<1>9. \A k \in DOMAIN kept : pi[k] \in DOMAIN items /\ kept[k] = items[pi[k]]
  BY <1>2 DEF Embeds
<1>10. \A k \in DOMAIN kept : kept[k].run # e.run /\ (e.msg # NoMsg => kept[k].msg # e.msg)
  BY <1>3, <1>5, <1>9 DEF CanEnqueue, Of, NewMsg
<1> QED BY <1>1, <1>3, <1>5, <1>6, <1>7, <1>8, <1>10, AppendLemma DEF Good

-----------------------------------------------------------------------------
(* The theorems *)

LEMMA QInitInd == QInit => QIndInv
<1> SUFFICES ASSUME QInit PROVE Good(<<>>)
  BY DEF QInit, QIndInv
<1>1. <<>> \in Seq(Item) /\ DOMAIN <<>> = {}
  BY EmptySeq, SeqFacts
<1>2. LiveCount(<<>>) = 0
  <2>1. {i \in DOMAIN <<>> : Live(<<>>[i])} = {}
    BY <1>1
  <2> QED BY <2>1, FS_EmptySet DEF LiveCount, Where
<1>3. Distinct(<<>>) /\ Receipts(<<>>) /\ OnePicked(<<>>)
  BY <1>1 DEF Distinct, Receipts, OnePicked
<1> QED BY <1>1, <1>2, <1>3, MaxAssumption DEF Good

LEMMA QNextInd == QIndInv /\ [QNext]_qvars => QIndInv'
<1> SUFFICES ASSUME QIndInv, [QNext]_qvars PROVE Good(items')
  BY DEF QIndInv, Good, LiveCount, Where, Distinct, Receipts, OnePicked
<1>1. CASE UNCHANGED qvars
  BY <1>1 DEF qvars, QIndInv
<1>2. ASSUME NEW r \in RunId, NEW m \in MsgId \cup {NoMsg},
             (\E act \in {"none", "queue"} : Enqueue(r, m, act)) \/ RecordAcceptedSteer(r, m)
      PROVE  Good(items')
  BY <1>2, EnqueueGood, RecordAcceptedSteerGood
<1>3. ASSUME NEW r \in RunId, ClaimRun(r) \/ MarkInterrupted(r) \/ Settle(r) \/ Update(r)
      PROVE  Good(items')
  BY <1>3, ClaimRunGood, MarkInterruptedGood, SettleGood, UpdateGood
<1>4. ASSUME NEW r \in RunId, Start(r) PROVE Good(items')
  BY <1>4, StartGood
<1>5. ASSUME NEW s \in SessionId, PauseSession(s) \/ Reorder(s) PROVE Good(items')
  BY <1>5, PauseSessionGood, ReorderGood
<1>6. ASSUME NEW S \in SUBSET SessionId, Claim(S) PROVE Good(items')
  BY <1>6, ClaimGood
<1> QED BY <1>1, <1>2, <1>3, <1>4, <1>5, <1>6 DEF QNext

(* QIndInv adds to the properties what they need of each other: that a     *)
(* receipt is never queued is why a start picks a single item.             *)
THEOREM QIndInvHolds == QSpec => []QIndInv
BY QInitInd, QNextInd, PTL DEF QSpec

(* Every method leaves an array of well-formed items.                      *)
THEOREM QTypeCorrect == QSpec => []QTypeOK
<1>1. QIndInv => QTypeOK
  BY DEF QIndInv, Good, QTypeOK
<1> QED BY <1>1, QIndInvHolds, PTL

(* Never more than Max items are queued or running (queue_full).           *)
THEOREM CapacityHolds == QSpec => []CapacityRespected
<1>1. QIndInv => CapacityRespected
  BY DEF QIndInv, Good, CapacityRespected
<1> QED BY <1>1, QIndInvHolds, PTL

(* No two items share their admitted run, or their message.                *)
THEOREM IdentityHolds == QSpec => []IdentityUnique
<1>1. QIndInv => IdentityUnique
  BY DEF QIndInv, Good, Distinct, IdentityUnique
<1> QED BY <1>1, QIndInvHolds, PTL

(* dequeue() prefers at most one item of a session, and it is not paused.  *)
THEOREM OneManualStartHolds == QSpec => []OneManualStart
<1>1. QIndInv => OneManualStart
  BY DEF QIndInv, Good, OnePicked, Picked, OneManualStart
<1> QED BY <1>1, QIndInvHolds, PTL

-----------------------------------------------------------------------------
(* What a step does to the work that is there *)

(* The methods that neither add nor permute keep every item in its place.  *)
InPlace == /\ DOMAIN items' = DOMAIN items
           /\ \A i \in DOMAIN items : SameWork(items[i], items'[i])

LEMMA InPlaceSteps ==
  ASSUME QIndInv
  PROVE  /\ \A S \in SUBSET SessionId : Claim(S) => InPlace
         /\ \A s \in SessionId : PauseSession(s) => InPlace
         /\ \A r \in RunId :
              ClaimRun(r) \/ Start(r) \/ MarkInterrupted(r) \/ Settle(r) \/ Update(r) => InPlace
<1>1. \A i \in DOMAIN items : items[i] \in Item
  BY SeqFacts DEF QIndInv, Good
<1>2. ASSUME NEW i, ClaimAt(i) PROVE InPlace
  BY <1>1, <1>2 DEF ClaimAt, InPlace, SameWork, Item
<1>3. ASSUME NEW r \in RunId, MarkInterrupted(r) \/ Settle(r) \/ Update(r) PROVE InPlace
  <2>1. ASSUME NEW i, NEW e, items' = [items EXCEPT ![i] = e],
               i \in DOMAIN items => SameWork(e, items[i])
        PROVE  InPlace
    BY <2>1 DEF InPlace, SameWork
  <2>2. ASSUME NEW i \in DOMAIN items, NEW st
        PROVE  /\ SameWork(Stamped([items[i] EXCEPT !.status = st]), items[i])
               /\ SameWork(Stamped(items[i]), items[i])
    BY <1>1 DEF Stamped, SameWork, Item
  <2> QED BY <1>3, <2>1, <2>2 DEF MarkInterrupted, Settle, Update
<1>4. ASSUME NEW r \in RunId, Start(r) PROVE InPlace
  BY <1>1, <1>4 DEF Start, Stamped, Released, InPlace, SameWork, Item
<1>5. ASSUME NEW s \in SessionId, PauseSession(s) PROVE InPlace
  BY <1>1, <1>5 DEF PauseSession, Stamped, InPlace, SameWork, Item
<1> QED BY <1>2, <1>3, <1>4, <1>5 DEF Claim, ClaimRun

(* Retention never evicts queued or running work, wherever it stands.      *)
THEOREM LiveWorkIsKept == QSpec => LiveWorkKept
<1> DEFINE Kept == \A i \in DOMAIN items : Live(items[i]) =>
                     \E j \in DOMAIN items' : SameWork(items[i], items'[j])
<1>1. ASSUME QIndInv, QNext PROVE Kept
  <2>1. ASSUME InPlace PROVE Kept
    BY <2>1 DEF InPlace
  <2>2. ASSUME NEW s \in SessionId, Reorder(s) PROVE Kept
    <3>1. PICK pi : /\ Embeds(pi, items', items)
                    /\ DOMAIN items' = DOMAIN items
                    /\ \A i \in DOMAIN items : \E k \in DOMAIN items : pi[k] = i
      BY <1>1, <2>2, ReorderLemma
    <3> QED BY <3>1 DEF Embeds, SameWork
  <2>3. ASSUME NEW r \in RunId, NEW m \in MsgId \cup {NoMsg}, RecordAcceptedSteer(r, m)
        PROVE  Kept
    <3>1. Len(items) \in Nat /\ DOMAIN items = 1..Len(items)
      BY <1>1, SeqFacts DEF QIndInv, Good
    <3>2. DOMAIN items' = 1..(Len(items) + 1) /\ \A i \in DOMAIN items : items'[i] = items[i]
      BY <1>1, <2>3, <3>1 DEF RecordAcceptedSteer, QIndInv, Good
    <3> QED BY <3>1, <3>2 DEF SameWork
  <2>4. ASSUME NEW r \in RunId, NEW m \in MsgId \cup {NoMsg}, NEW act, Enqueue(r, m, act)
        PROVE  Kept
    <3> DEFINE kept == Retained(items)
               e == NewItem(r, m, act, "queued", Revision(kept) + 1)
    <3>1. kept \in Seq(Item) /\ items' = Append(kept, e)
      BY <1>1, <2>4, RetainedLemma DEF Enqueue, QIndInv, Good
    <3>2. PICK pi : /\ \A k \in DOMAIN kept : kept[k] = items[pi[k]]
                    /\ \A i \in DOMAIN items : Live(items[i]) => \E k \in DOMAIN kept : pi[k] = i
      BY <1>1, RetainedLemma DEF QIndInv, Good
    <3> HIDE DEF kept, e
    <3>3. Len(kept) \in Nat /\ DOMAIN kept = 1..Len(kept)
      BY <3>1, SeqFacts
    <3>4. DOMAIN items' = 1..(Len(kept) + 1) /\ \A k \in DOMAIN kept : items'[k] = kept[k]
      BY <3>1, <3>3
    <3>5. \A k \in DOMAIN kept : k \in DOMAIN items' /\ items'[k] = items[pi[k]]
      BY <3>2, <3>3, <3>4
    <3> QED BY <3>2, <3>5 DEF SameWork
  <2> QED BY <1>1, <2>1, <2>2, <2>3, <2>4, InPlaceSteps DEF QNext
<1>2. QIndInv /\ [QNext]_qvars => [Kept]_qvars
  BY <1>1
<1> QED BY <1>2, QIndInvHolds, PTL DEF QSpec, LiveWorkKept

(* Work that is alive is nobody's receipt, so its run names one item.      *)
LEMMA SameLiveWork ==
  ASSUME QIndInv, NEW i \in DOMAIN items, NEW j \in DOMAIN items, Live(items[i]),
         items[j].run = items[i].run, items[j].action = items[i].action
  PROVE  j = i
BY DEF QIndInv, Good, Distinct, Receipts, Live

(* A step that adds an item leaves the live ones unchanged and in order:   *)
(* pos[j] is where the j-th item was, or a place past the end if it is new.*)
LEMMA AddingSteps ==
  ASSUME QIndInv, NEW r \in RunId, NEW m \in MsgId \cup {NoMsg},
         (\E act \in {"none", "queue"} : Enqueue(r, m, act)) \/ RecordAcceptedSteer(r, m)
  PROVE  \E pos : /\ \A j, k \in DOMAIN items' : j < k => pos[j] < pos[k]
                  /\ \A i \in DOMAIN items, j \in DOMAIN items' :
                       (Live(items[i]) /\ SameWork(items[i], items'[j])) =>
                          pos[j] = i /\ items'[j] = items[i]
<1>1. Len(items) \in Nat /\ DOMAIN items = 1..Len(items)
  BY SeqFacts DEF QIndInv, Good
<1>2. ASSUME NEW kept \in Seq(Item), NEW e, NEW pi, items' = Append(kept, e),
             \A k \in DOMAIN kept : pi[k] \in DOMAIN items /\ kept[k] = items[pi[k]],
             \A k, l \in DOMAIN kept : k < l => pi[k] < pi[l],
             \A i \in DOMAIN items : Live(items[i]) => ~SameWork(items[i], e)
      PROVE  \E pos : /\ \A j, k \in DOMAIN items' : j < k => pos[j] < pos[k]
                      /\ \A i \in DOMAIN items, j \in DOMAIN items' :
                           (Live(items[i]) /\ SameWork(items[i], items'[j])) =>
                              pos[j] = i /\ items'[j] = items[i]
  <2>1. Len(kept) \in Nat /\ DOMAIN kept = 1..Len(kept)
    BY SeqFacts
  <2>2. /\ DOMAIN items' = 1..(Len(kept) + 1) /\ items'[Len(kept) + 1] = e
        /\ \A k \in DOMAIN kept : items'[k] = kept[k]
    BY <1>2, <2>1
  <2> DEFINE pos == [k \in DOMAIN items' |-> IF k \in DOMAIN kept THEN pi[k] ELSE Len(items) + 1]
  <2>3. \A k \in DOMAIN kept : pos[k] = pi[k]
    BY <2>1, <2>2
  <2>4. pos[Len(kept) + 1] = Len(items) + 1
    BY <2>1, <2>2
  <2>5. \A k \in DOMAIN items' : k \in DOMAIN kept \/ k = Len(kept) + 1
    BY <2>1, <2>2
  <2> HIDE DEF pos
  <2>6. ASSUME NEW j \in DOMAIN items', NEW k \in DOMAIN items', j < k PROVE pos[j] < pos[k]
    <3>1. j \in DOMAIN kept /\ pi[j] \in 1..Len(items) /\ pos[j] = pi[j]
      BY <1>1, <1>2, <2>1, <2>2, <2>3, <2>5, <2>6
    <3>2. CASE k \in DOMAIN kept
      BY <1>2, <2>3, <2>6, <3>1, <3>2
    <3>3. CASE k = Len(kept) + 1
      BY <1>1, <2>4, <3>1, <3>3
    <3> QED BY <2>5, <3>2, <3>3
  <2>7. ASSUME NEW i \in DOMAIN items, NEW j \in DOMAIN items',
               Live(items[i]), SameWork(items[i], items'[j])
        PROVE  pos[j] = i /\ items'[j] = items[i]
    <3>1. j \in DOMAIN kept
      BY <1>2, <2>2, <2>5, <2>7
    <3>2. pi[j] \in DOMAIN items /\ items'[j] = items[pi[j]]
      BY <1>2, <2>2, <3>1
    <3>3. pi[j] = i
      BY <2>7, <3>2, SameLiveWork DEF SameWork
    <3> QED BY <2>3, <3>1, <3>2, <3>3
  <2> QED BY <2>6, <2>7
<1>3. CASE RecordAcceptedSteer(r, m)
  <2> DEFINE e == NewItem(r, m, "steer", "settled", Revision(items) + 1)
             pi == [k \in DOMAIN items |-> k]
  <2>1. \A i \in DOMAIN items : Live(items[i]) => ~SameWork(items[i], e)
    BY DEF QIndInv, Good, Receipts, NewItem, SameWork, Live
  <2>2. items' = Append(items, e) /\ items \in Seq(Item)
    BY <1>3 DEF RecordAcceptedSteer, QIndInv, Good
  <2>3. /\ \A k \in DOMAIN items : pi[k] \in DOMAIN items /\ items[k] = items[pi[k]]
        /\ \A k, l \in DOMAIN items : k < l => pi[k] < pi[l]
    OBVIOUS
  <2> HIDE DEF e, pi
  <2> QED BY <1>2, <2>1, <2>2, <2>3
<1>4. ASSUME NEW act \in {"none", "queue"}, Enqueue(r, m, act)
      PROVE  \E pos : /\ \A j, k \in DOMAIN items' : j < k => pos[j] < pos[k]
                      /\ \A i \in DOMAIN items, j \in DOMAIN items' :
                           (Live(items[i]) /\ SameWork(items[i], items'[j])) =>
                              pos[j] = i /\ items'[j] = items[i]
  <2> DEFINE kept == Retained(items)
             e == NewItem(r, m, act, "queued", Revision(kept) + 1)
  <2>1. kept \in Seq(Item) /\ items' = Append(kept, e)
    BY <1>4, RetainedLemma DEF Enqueue, QIndInv, Good
  <2>2. PICK pi : /\ Embeds(pi, kept, items)
                  /\ \A k \in DOMAIN kept : kept[k] = items[pi[k]]
                  /\ \A k, l \in DOMAIN kept : k < l => pi[k] < pi[l]
    BY RetainedLemma DEF QIndInv, Good
  <2>3. \A i \in DOMAIN items : ~SameWork(items[i], e)
    BY <1>4 DEF Enqueue, CanEnqueue, Of, SameWork, NewItem
  <2> HIDE DEF kept, e
  <2>4. \A k \in DOMAIN kept : pi[k] \in DOMAIN items
    BY <2>2 DEF Embeds
  <2> QED BY <1>2, <2>1, <2>2, <2>3, <2>4
<1> QED BY <1>3, <1>4

(* A step that keeps the places keeps the place of live work.              *)
LEMMA InPlaceFinds ==
  ASSUME QIndInv, InPlace, NEW i \in DOMAIN items, NEW j \in DOMAIN items',
         Live(items[i]), SameWork(items[i], items'[j])
  PROVE  j = i
BY SameLiveWork DEF InPlace, SameWork

(* Live items change their order only by a reorder of a session of one of  *)
(* them, which gives all its queued items a revision no client has seen.   *)
THEOREM OrderIsNotSilent == QSpec => NoSilentReorder
<1> DEFINE Told == \A i, j \in DOMAIN items :
             (i < j /\ Live(items[i]) /\ Live(items[j]) /\ Swapped(items, items', i, j)) =>
                \E s \in {Session(items[i]), Session(items[j])} :
                   \A k \in Movable(items', s) : items'[k].rev > Revision(items)
<1>1. ASSUME QIndInv, QNext PROVE Told
  <2> SUFFICES ASSUME NEW i \in DOMAIN items, NEW j \in DOMAIN items, i < j,
                      Live(items[i]), Live(items[j]),
                      NEW k \in DOMAIN items', NEW l \in DOMAIN items', k < l,
                      SameWork(items'[k], items[j]), SameWork(items'[l], items[i])
               PROVE  \E s \in {Session(items[i]), Session(items[j])} :
                         \A n \in Movable(items', s) : items'[n].rev > Revision(items)
    BY DEF Swapped
  <2>1. DOMAIN items = 1..Len(items) /\ Len(items) \in Nat /\ Revision(items) \in Nat
    BY <1>1, SeqFacts, RevisionLemma DEF QIndInv, Good
  <2>2. SameWork(items[j], items'[k]) /\ SameWork(items[i], items'[l])
    BY DEF SameWork
  <2>3. ASSUME InPlace PROVE FALSE
    <3>1. k = j /\ l = i
      BY <1>1, <2>2, <2>3, InPlaceFinds
    <3> QED BY <2>1, <3>1
  <2>4. ASSUME NEW r \in RunId, NEW m \in MsgId \cup {NoMsg},
               (\E act \in {"none", "queue"} : Enqueue(r, m, act)) \/ RecordAcceptedSteer(r, m)
        PROVE  FALSE
    <3>1. PICK pos : /\ \A a, b \in DOMAIN items' : a < b => pos[a] < pos[b]
                     /\ \A a \in DOMAIN items, b \in DOMAIN items' :
                          (Live(items[a]) /\ SameWork(items[a], items'[b])) => pos[b] = a
      BY <1>1, <2>4, AddingSteps
    <3>2. pos[k] = j /\ pos[l] = i /\ pos[k] < pos[l]
      BY <2>2, <3>1
    <3> QED BY <2>1, <3>2
  <2>5. ASSUME NEW s \in SessionId, Reorder(s)
        PROVE  \E t \in {Session(items[i]), Session(items[j])} :
                  \A n \in Movable(items', t) : items'[n].rev > Revision(items)
    <3>1. PICK pi : /\ Embeds(pi, items', items)
                    /\ DOMAIN items' = DOMAIN items
                    /\ \A a \in DOMAIN items : items'[a].status = items[pi[a]].status
                    /\ \A a \in DOMAIN items : a \notin Movable(items, s) => pi[a] = a
                    /\ \A a \in Movable(items, s) :
                         pi[a] \in Movable(items, s) /\ items'[a].rev = Revision(items) + 1
      BY <1>1, <2>5, ReorderLemma
    <3>2. /\ pi[k] \in DOMAIN items /\ pi[l] \in DOMAIN items
          /\ SameWork(items'[k], items[pi[k]]) /\ SameWork(items'[l], items[pi[l]])
      BY <3>1 DEF Embeds
    <3>3. pi[k] = j /\ pi[l] = i
      BY <1>1, <3>2, SameLiveWork DEF SameWork
    <3>4. k \in Movable(items, s) \/ l \in Movable(items, s)
      BY <2>1, <3>1, <3>3
    <3>5. s \in {Session(items[i]), Session(items[j])}
      BY <3>1, <3>3, <3>4 DEF Movable
    <3>6. ASSUME NEW n \in Movable(items', s) PROVE items'[n].rev > Revision(items)
      <4>1. /\ n \in DOMAIN items /\ Session(items'[n]) = s /\ Queued(items'[n])
            /\ SameWork(items'[n], items[pi[n]]) /\ items'[n].status = items[pi[n]].status
            /\ pi[n] \in DOMAIN items
        BY <3>1, <3>6 DEF Movable, Embeds
      <4>2. pi[n] \in Movable(items, s)
        BY <4>1 DEF Movable, Session, Queued, SameWork
      <4>3. n \in Movable(items, s)
        BY <3>1, <4>1, <4>2
      <4> QED BY <2>1, <3>1, <4>3
    <3> QED BY <3>5, <3>6
  <2> QED BY <1>1, <2>3, <2>4, <2>5, InPlaceSteps DEF QNext
<1>2. QIndInv /\ [QNext]_qvars => [Told]_qvars
  BY <1>1
<1> QED BY <1>2, QIndInvHolds, PTL DEF QSpec, NoSilentReorder

(* A paused item leaves its pause only by a start of its session, which    *)
(* releases every queued item of the session and picks one of them.        *)
THEOREM PauseEndsOnlyByStart == QSpec => PauseEndsByStart
<1> DEFINE AllReleased(i, j) ==
             /\ Queued(items'[j])
             /\ \A k \in Movable(items', Session(items[i])) : ~items'[k].paused
             /\ \E k \in Movable(items', Session(items[i])) : items'[k].manual
           Ends == \A i \in DOMAIN items, j \in DOMAIN items' :
             ( /\ Queued(items[i]) /\ items[i].paused /\ SameWork(items[i], items'[j])
               /\ Live(items'[j]) /\ ~items'[j].paused ) => AllReleased(i, j)
<1>1. ASSUME QIndInv, QNext PROVE Ends
  <2> SUFFICES ASSUME NEW i \in DOMAIN items, NEW j \in DOMAIN items',
                      Queued(items[i]), items[i].paused, SameWork(items[i], items'[j]),
                      Live(items'[j]), ~items'[j].paused
               PROVE  AllReleased(i, j)
    OBVIOUS
  <2>1. Live(items[i])
    BY DEF Live, Queued
  <2>2. \A n \in DOMAIN items : items[n] \in Item
    BY <1>1, SeqFacts DEF QIndInv, Good
  <2>3. ASSUME InPlace PROVE j = i
    BY <1>1, <2>1, <2>3, InPlaceFinds
  <2>4. ASSUME NEW r \in RunId, NEW m \in MsgId \cup {NoMsg},
               (\E act \in {"none", "queue"} : Enqueue(r, m, act)) \/ RecordAcceptedSteer(r, m)
        PROVE  FALSE
    <3>1. items'[j] = items[i]
      BY <1>1, <2>1, <2>4, AddingSteps
    <3> QED BY <3>1
  <2>5. ASSUME NEW n \in DOMAIN items, Claimable(items[n]), ClaimAt(n), j = i PROVE FALSE
    <3>1. n # i
      BY <2>5 DEF Claimable
    <3>2. items'[i] = items[i]
      BY <2>5, <3>1 DEF ClaimAt
    <3> QED BY <2>5, <3>2
  <2>6. ASSUME NEW S \in SUBSET SessionId, Claim(S) PROVE FALSE
    <3>1. j = i
      BY <1>1, <2>3, <2>6, InPlaceSteps
    <3>2. /\ Ready(S) \in SUBSET DOMAIN items /\ Ready(S) # {}
          /\ \A n \in Ready(S) : Claimable(items[n])
      BY <2>6 DEF Claim, Ready
    <3>3. FirstOf(Ready(S)) \in Ready(S)
      BY <1>1, <3>2, PositionLemma
    <3> QED BY <2>5, <2>6, <3>1, <3>2, <3>3 DEF Claim
  <2>7. ASSUME NEW r \in RunId, ClaimRun(r) PROVE FALSE
    <3>1. j = i
      BY <1>1, <2>3, <2>7, InPlaceSteps
    <3> DEFINE ready == {n \in Of(items, r) : Claimable(items[n])}
    <3>2. ready \in SUBSET DOMAIN items /\ ready # {} /\ ClaimAt(FirstOf(ready))
      BY <2>7 DEF ClaimRun, Of
    <3>3. FirstOf(ready) \in ready
      BY <1>1, <3>2, PositionLemma
    <3> QED BY <2>5, <3>1, <3>2, <3>3
  <2>8. ASSUME NEW s \in SessionId, PauseSession(s) PROVE FALSE
    <3>1. j = i
      BY <1>1, <2>3, <2>8, InPlaceSteps
    <3>2. items'[i].paused = TRUE
      <4>1. items'[i] = IF i \in Pausable(s)
                        THEN Stamped([items[i] EXCEPT !.paused = TRUE, !.manual = FALSE])
                        ELSE items[i]
        BY <2>8 DEF PauseSession
      <4>2. [items[i] EXCEPT !.paused = TRUE, !.manual = FALSE] \in Item
        BY <2>2 DEF Item
      <4> QED BY <2>2, <4>1, <4>2 DEF Stamped, Item
    <3> QED BY <3>1, <3>2
  <2>9. ASSUME NEW r \in RunId, MarkInterrupted(r) \/ Settle(r) PROVE FALSE
    <3>1. j = i
      BY <1>1, <2>3, <2>9, InPlaceSteps
    <3>2. ASSUME NEW n, NEW st \in {"interrupted", "settled"},
                 items' = [items EXCEPT ![n] = Stamped([items[n] EXCEPT !.status = st])]
          PROVE  FALSE
      <4>1. n # i
        <5> SUFFICES ASSUME n = i PROVE FALSE
          OBVIOUS
        <5>1. items'[i] = Stamped([items[i] EXCEPT !.status = st])
          BY <3>2
        <5>2. items'[i].status = st
          BY <2>2, <5>1 DEF Stamped, Item
        <5> QED BY <3>1, <5>2 DEF Live
      <4>2. items'[i] = items[i]
        BY <3>2, <4>1
      <4> QED BY <3>1, <4>2
    <3> QED BY <2>9, <3>2 DEF MarkInterrupted, Settle
  <2>10. ASSUME NEW r \in RunId, Update(r) PROVE FALSE
    <3>1. j = i
      BY <1>1, <2>3, <2>10, InPlaceSteps
    <3>2. PICK n : items' = [items EXCEPT ![n] = Stamped(items[n])]
      BY <2>10 DEF Update
    <3>3. items'[i] = items[i] \/ items'[i] = Stamped(items[i])
      BY <3>2
    <3> QED BY <2>2, <3>1, <3>3 DEF Stamped, Item
  <2>11. ASSUME NEW s \in SessionId, Reorder(s) PROVE FALSE
    <3>1. PICK pi : /\ Embeds(pi, items', items)
                    /\ DOMAIN items' = DOMAIN items
                    /\ \A a \in DOMAIN items : items'[a].paused = items[pi[a]].paused
      BY <1>1, <2>11, ReorderLemma
    <3>2. pi[j] = i
      BY <1>1, <2>1, <3>1, SameLiveWork DEF Embeds, SameWork
    <3> QED BY <3>1, <3>2
  <2>12. ASSUME NEW r \in RunId, Start(r) PROVE AllReleased(i, j)
    <3> DEFINE M == Movable(items, SessionOf[r])
    <3>1. j = i
      BY <1>1, <2>3, <2>12, InPlaceSteps
    <3>2. /\ DOMAIN items' = DOMAIN items
          /\ \A n \in DOMAIN items :
               items'[n] = IF n \in M THEN Stamped(Released(items[n], r)) ELSE items[n]
      BY <2>12 DEF Start
    <3>3. ASSUME NEW n \in M
          PROVE  /\ ~items'[n].paused /\ items'[n].manual = (items[n].run = r)
                 /\ items'[n].status = items[n].status /\ items'[n].run = items[n].run
      BY <2>2, <3>2 DEF Movable, Stamped, Released, Item
    <3>4. i \in M
      BY <3>1, <3>2
    <3>5. Session(items[i]) = SessionOf[r] /\ Queued(items'[j])
      BY <3>1, <3>3, <3>4 DEF Movable, Queued
    <3>6. Movable(items', SessionOf[r]) = M
      <4>1. ASSUME NEW n \in DOMAIN items
            PROVE  n \in Movable(items', SessionOf[r]) <=> n \in M
        <5>1. CASE n \in M
          BY <3>2, <3>3, <5>1 DEF Movable, Session, Queued
        <5>2. CASE n \notin M
          BY <3>2, <5>2 DEF Movable, Session, Queued
        <5> QED BY <5>1, <5>2
      <4> QED BY <3>2, <4>1 DEF Movable
    <3>7. PICK n \in Of(items, r) : Queued(items[n])
      BY <2>12 DEF Start
    <3>8. n \in M /\ items'[n].manual
      <4>1. n \in M
        BY <3>7 DEF Of, Movable, Session
      <4> QED BY <3>3, <3>7, <4>1 DEF Of
    <3> QED BY <3>3, <3>5, <3>6, <3>8
  <2> QED
    BY <1>1, <2>4, <2>6, <2>7, <2>8, <2>9, <2>10, <2>11, <2>12 DEF QNext
<1>2. QIndInv /\ [QNext]_qvars => [Ends]_qvars
  BY <1>1
<1> QED BY <1>2, QIndInvHolds, PTL DEF QSpec, PauseEndsByStart

(* Every accepted change of the items that are there, other than a claim,  *)
(* raises revision(), so that an edit of a stale view is refused.          *)
THEOREM EditsAreVisible == QSpec => EditsRaiseRevision
<1> DEFINE Visible == \/ items' = items
                      \/ Len(items') # Len(items)
                      \/ \E i \in DOMAIN items : ~SameWork(items[i], items'[i])
                      \/ \E i \in DOMAIN items : Queued(items[i]) /\ items'[i].status = "running"
                      \/ Revision(items') > Revision(items)
<1>1. ASSUME QIndInv, QIndInv', QNext PROVE Visible
  <2>1. /\ DOMAIN items = 1..Len(items) /\ Len(items) \in Nat /\ Revision(items) \in Nat
        /\ \A i \in DOMAIN items : items[i] \in Item
    BY <1>1, SeqFacts, RevisionLemma DEF QIndInv, Good
  <2>2. /\ items' \in Seq(Item) /\ DOMAIN items' = 1..Len(items') /\ Len(items') \in Nat
        /\ Revision(items') \in Nat /\ \A i \in DOMAIN items' : items'[i].rev <= Revision(items')
        /\ \A i \in DOMAIN items' : items'[i] \in Item
    <3>1. items' \in Seq(Item)
      BY <1>1 DEF QIndInv, Good
    <3> QED BY <3>1, SeqFacts, RevisionLemma
  <2>3. ASSUME NEW i \in DOMAIN items', items'[i].rev = Revision(items) + 1 PROVE Visible
    <3>1. items'[i].rev <= Revision(items')
      BY <2>2
    <3>2. Revision(items') > Revision(items)
      BY <2>1, <2>2, <2>3, <3>1
    <3> QED BY <3>2
  <2>4. ASSUME NEW S \in SUBSET SessionId, Claim(S) PROVE Visible
    <3>1. /\ Ready(S) \in SUBSET DOMAIN items /\ Ready(S) # {}
          /\ \A n \in Ready(S) : Claimable(items[n])
      BY <2>4 DEF Claim, Ready
    <3>2. FirstOf(Ready(S)) \in Ready(S)
      BY <1>1, <3>1, PositionLemma
    <3>3. Queued(items[FirstOf(Ready(S))]) /\ items'[FirstOf(Ready(S))].status = "running"
      BY <2>1, <2>4, <3>1, <3>2 DEF Claim, ClaimAt, Claimable, Item
    <3> QED BY <3>1, <3>2, <3>3
  <2>5. ASSUME NEW r \in RunId, ClaimRun(r) PROVE Visible
    <3> DEFINE ready == {n \in Of(items, r) : Claimable(items[n])}
    <3>1. ready \in SUBSET DOMAIN items /\ ready # {} /\ ClaimAt(FirstOf(ready))
      BY <2>5 DEF ClaimRun, Of
    <3>2. FirstOf(ready) \in ready
      BY <1>1, <3>1, PositionLemma
    <3> HIDE DEF ready
    <3>3. \A n \in ready : n \in DOMAIN items /\ Queued(items[n])
      BY DEF ready, Claimable, Of
    <3>4. items'[FirstOf(ready)].status = "running"
      BY <2>1, <3>1, <3>2, <3>3 DEF ClaimAt, Item
    <3> QED BY <3>2, <3>3, <3>4
  <2>6. ASSUME NEW s \in SessionId, PauseSession(s) PROVE Visible
    <3>1. /\ DOMAIN items' = DOMAIN items /\ items' = [i \in DOMAIN items |-> items'[i]]
          /\ \A i \in DOMAIN items : i \notin Pausable(s) => items'[i] = items[i]
      BY <2>6 DEF PauseSession
    <3>2. CASE Pausable(s) = {}
      <4>1. \A i \in DOMAIN items : items'[i] = items[i]
        BY <3>1, <3>2
      <4>2. items' = items
        <5>1. items' = [i \in DOMAIN items |-> items[i]]
          BY <3>1, <4>1
        <5>2. items = [i \in DOMAIN items |-> items[i]]
          BY <1>1 DEF QIndInv, Good
        <5> QED BY <5>1, <5>2
      <4> QED BY <4>2
    <3>3. ASSUME NEW i \in Pausable(s) PROVE Visible
      <4>1. i \in DOMAIN items
        BY DEF Pausable
      <4>2. [items[i] EXCEPT !.paused = TRUE, !.manual = FALSE] \in Item
        BY <2>1, <4>1 DEF Item
      <4>3. items'[i] = Stamped([items[i] EXCEPT !.paused = TRUE, !.manual = FALSE])
        BY <2>6, <4>1 DEF PauseSession
      <4> QED BY <1>1, <2>3, <3>1, <4>1, <4>2, <4>3, StampedLemma
    <3> QED BY <3>2, <3>3
  <2>7. ASSUME NEW r \in RunId, Start(r) PROVE Visible
    <3>1. PICK i \in Of(items, r) : Queued(items[i])
      BY <2>7 DEF Start
    <3>2. i \in Movable(items, SessionOf[r]) /\ i \in DOMAIN items
      BY <3>1 DEF Of, Movable, Session
    <3>3. Released(items[i], r) \in Item
      BY <2>1, <3>2 DEF Released, Item
    <3>4. DOMAIN items' = DOMAIN items /\ items'[i] = Stamped(Released(items[i], r))
      BY <2>7, <3>2 DEF Start
    <3> QED BY <1>1, <2>3, <3>2, <3>3, <3>4, StampedLemma
  <2>8. ASSUME NEW i \in DOMAIN items, NEW e \in Item, items' = [items EXCEPT ![i] = Stamped(e)]
        PROVE  Visible
    <3>1. DOMAIN items' = DOMAIN items /\ items'[i] = Stamped(e)
      BY <2>8
    <3> QED BY <1>1, <2>3, <3>1, StampedLemma
  <2>9. ASSUME NEW r \in RunId, MarkInterrupted(r) PROVE Visible
    <3> DEFINE i == FirstOf(Of(items, r))
    <3>1. /\ Of(items, r) \in SUBSET DOMAIN items /\ Of(items, r) # {}
          /\ items' = [items EXCEPT ![i] = Stamped([items[i] EXCEPT !.status = "interrupted"])]
      BY <2>9 DEF MarkInterrupted, Of
    <3>2. i \in DOMAIN items
      BY <1>1, <3>1, PositionLemma
    <3> HIDE DEF i
    <3>3. [items[i] EXCEPT !.status = "interrupted"] \in Item
      BY <2>1, <3>2 DEF Item, Status
    <3> QED BY <2>8, <3>1, <3>2, <3>3
  <2>10. ASSUME NEW r \in RunId, Settle(r) PROVE Visible
    <3> DEFINE i == FirstOf(Settleable(r))
    <3>1. /\ Settleable(r) \in SUBSET DOMAIN items /\ Settleable(r) # {}
          /\ items' = [items EXCEPT ![i] = Stamped([items[i] EXCEPT !.status = "settled"])]
      BY <2>10 DEF Settle, Settleable, Of
    <3>2. i \in DOMAIN items
      BY <1>1, <3>1, PositionLemma
    <3> HIDE DEF i
    <3>3. [items[i] EXCEPT !.status = "settled"] \in Item
      BY <2>1, <3>2 DEF Item, Status
    <3> QED BY <2>8, <3>1, <3>2, <3>3
  <2>11. ASSUME NEW r \in RunId, Update(r) PROVE Visible
    <3> DEFINE editable == {i \in Of(items, r) : Queued(items[i])}
               i == FirstOf(editable)
    <3>1. /\ editable \in SUBSET DOMAIN items /\ editable # {}
          /\ items' = [items EXCEPT ![i] = Stamped(items[i])]
      BY <2>11 DEF Update, Of
    <3>2. i \in DOMAIN items
      BY <1>1, <3>1, PositionLemma
    <3> HIDE DEF i
    <3> QED BY <2>1, <2>8, <3>1, <3>2
  <2>12. ASSUME NEW s \in SessionId, Reorder(s) PROVE Visible
    <3>1. PICK pi : /\ DOMAIN items' = DOMAIN items
                    /\ \A a \in Movable(items, s) : items'[a].rev = Revision(items) + 1
      BY <1>1, <2>12, ReorderLemma
    <3>2. PICK i \in Movable(items, s) : TRUE
      BY <2>12 DEF Reorder
    <3>3. i \in DOMAIN items' /\ items'[i].rev = Revision(items) + 1
      BY <3>1, <3>2 DEF Movable
    <3> QED BY <2>3, <3>3
  <2>13. ASSUME NEW r \in RunId, NEW m, RecordAcceptedSteer(r, m) PROVE Visible
    <3>1. Len(items') = Len(items) + 1
      BY <1>1, <2>13 DEF RecordAcceptedSteer, QIndInv, Good
    <3>2. \A n \in Nat : n + 1 # n
      OBVIOUS
    <3>3. Len(items') # Len(items)
      BY <2>1, <3>1, <3>2, Zenon
    <3> QED BY <3>3
  <2>14. ASSUME NEW r \in RunId, NEW m, NEW act, Enqueue(r, m, act) PROVE Visible
    <3> DEFINE kept == Retained(items)
               e == NewItem(r, m, act, "queued", Revision(kept) + 1)
    <3>1. kept \in Seq(Item) /\ items' = Append(kept, e)
      BY <1>1, <2>14, RetainedLemma DEF Enqueue, QIndInv, Good
    <3>2. \A i \in DOMAIN items : items[i].run # r
      BY <2>14 DEF Enqueue, CanEnqueue, Of
    <3>3. e.run = r
      BY DEF NewItem
    <3> HIDE DEF kept, e
    <3>4. Len(kept) \in Nat /\ Len(items') = Len(kept) + 1 /\ items'[Len(kept) + 1] = e
      BY <3>1, SeqFacts
    <3>5. CASE Len(items') = Len(items)
      <4>1. Len(items) \in DOMAIN items /\ items'[Len(items)] = e
        BY <2>1, <3>4, <3>5
      <4>2. ~SameWork(items[Len(items)], items'[Len(items)])
        BY <3>2, <3>3, <4>1 DEF SameWork
      <4> QED BY <4>1, <4>2
    <3> QED BY <3>5
  <2> QED
    BY <1>1, <2>4, <2>5, <2>6, <2>7, <2>9, <2>10, <2>11, <2>12, <2>13, <2>14 DEF QNext
<1>2. QIndInv /\ QIndInv' /\ [QNext]_qvars => [Visible]_qvars
  BY <1>1
<1> QED BY <1>2, QIndInvHolds, PTL DEF QSpec, EditsRaiseRevision

=============================================================================
