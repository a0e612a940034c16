---------------------------- MODULE MCRunQueue ----------------------------
(***************************************************************************)
(* Model-checking instance of RunQueue: every call on arrays of at most    *)
(* MaxLen items and revisions up to MaxRev; and longer arrays up to the    *)
(* retention threshold, whose items are receipts of the run Steered but    *)
(* for the two oldest and the newest, with MaxEdits edits.                 *)
(***************************************************************************)
EXTENDS RunQueue, TLC

CONSTANTS r1, r2, r3, s1, s2, m1, MaxLen, MaxRev, MaxEdits, Steered

MCTwoSessions == r1 :> s1 @@ r2 :> s1 @@ r3 :> s2
MCOneSession  == [r \in RunId |-> s1]

OrderBound ==
  Len(items) <= MaxLen /\ Revision(items) <= MaxRev

RetentionBound ==
  /\ Len(items) <= 4 * Max
  /\ \A i \in DOMAIN items :
       /\ items[i].msg = NoMsg /\ items[i].rev <= i + MaxEdits
       /\ items[i].action = IF items[i].run = Steered THEN "steer" ELSE "none"
       /\ items[i].run # Steered => i \in {1, 2, Len(items)}

MCBound == OrderBound \/ RetentionBound
MCNext == QNext /\ MCBound'
MCSpec == QInit /\ [][MCNext]_qvars
===========================================================================
