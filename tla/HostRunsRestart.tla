--------------------------- MODULE HostRunsRestart ---------------------------
(***************************************************************************)
(* HostRuns with its state file: a commit schedules a write of the whole   *)
(* snapshot (piHostEntry.ts, piHostState.ts) and the response does not     *)
(* wait for it; when the Host process dies, the next one starts from the   *)
(* last write that was completed.  A write that fails is only logged, so   *)
(* Save is never forced.  A write is one step: it stores the snapshot of   *)
(* the moment it is serialised, or nothing if the process dies before the  *)
(* rename.                                                                 *)
(***************************************************************************)
EXTENDS HostRuns

CONSTANT Crashes   \* bound: how often the Host process dies

ASSUME CrashesAssumption == Crashes \in Nat

VARIABLES
  disk,       \* the state file: queue, lifecycle, attachment records
  crashes

rvars == <<vars, disk, crashes>>

Snapshot == [items |-> items, life |-> life, last |-> last, attach |-> attach]

Save ==
  /\ dirty
  /\ disk' = Snapshot
  /\ dirty' = FALSE
  /\ UNCHANGED <<items, journal, turns, pump, reloads, crashes>>

RecoveredNot(a) == a   \* mutant: no recovery
RecoveredForgotten(a) == [r \in RunId |-> IF a[r] = "active" THEN "none" ELSE a[r]]   \* mutant

(* recoverOrphanedActive: a turn without a live witness was interrupted. *)
Recovered(a) == [r \in RunId |-> IF a[r] = "active" THEN "terminal" ELSE a[r]]

(* The renderer either lives on, and sees its call fail, or starts anew.   *)
(* The recovery of piAgentCommunicationDomain.ts touches child sessions    *)
(* only; those of this model are root sessions.                            *)
HostRestart ==
  /\ crashes < Crashes
  /\ crashes' = crashes + 1
  /\ items' = disk.items
  /\ life' = disk.life
  /\ last' = disk.last
  /\ attach' = Recovered(disk.attach)
  /\ phase' = [r \in RunId |-> IF attach'[r] = "none" THEN "none" ELSE "done"]
  /\ recorder' = [s \in SessionId |-> NoRun]
  /\ active' = [s \in SessionId |-> NoRun]
  /\ ent' = [r \in RunId |-> <<>>]
  /\ deferred' = [r \in RunId |-> <<>>]
  /\ pump' \in {IdlePump, IF pump.pc = "turn" THEN [pump EXCEPT !.pc = "settle"] ELSE pump}
  /\ dirty' = (attach' # disk.attach)
  /\ UNCHANGED <<disk, reloads>>

RInit == Init /\ crashes = 0 /\ disk = Snapshot

RNext ==
  \/ Next /\ UNCHANGED <<disk, crashes>>
  \/ Save
  \/ HostRestart

RSpec == RInit /\ [][RNext]_rvars

-----------------------------------------------------------------------------
(* Properties *)

(* The attachment journal says "active" of live turns only, so a renderer  *)
(* that reattaches never waits for a turn that died with its Host.         *)
ActiveHasWitness ==
  \A r \in RunId : attach[r] = "active" => phase[r] \in {"active", "unverifiable"}

(* A run whose turn is on disk, begun or ended, is never executed (again)  *)
(* by a later Host: its last side effect may be uncertain (ADR-0042).      *)
BegunIsNotResumed ==
  [][\A r \in RunId : (disk.attach[r] # "none" /\ phase[r] # "active")
                         => phase'[r] # "active"]_rvars
===============================================================================
