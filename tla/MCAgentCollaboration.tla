------------------------ MODULE MCAgentCollaboration ------------------------
(***************************************************************************)
(* A child c1 of the root and a child c2 of c1 with overlapping scopes; a  *)
(* follow-up for c2 and a message for the root.                            *)
(***************************************************************************)
EXTENDS AgentCollaboration, TLC
CONSTANTS c1, c2, f1, n1
MCParentOf == c1 :> Root @@ c2 :> c1
MCOverlap  == {<<c1, c2>>, <<c2, c1>>}
MCReceiver == f1 :> c2 @@ n1 :> Root
=============================================================================
