\* Turns that carry a Goal Contract: ADR-0041 on one active run.
CONSTANTS
  r1 = r1  r2 = r2  r3 = r3  s1 = s1  s2 = s2  m1 = m1
  NoRun = NoRun  NoMsg = NoMsg
  RunId = {r1, r2, r3}
  SessionId = {s1}
  SessionOf <- MCOneSession
  MsgId = {}
  Max = 2
  MaxRev = 4
  GoalContracts = TRUE
  ProviderStage = FALSE
  Reloads = 0
SPECIFICATION Spec
INVARIANTS OneTurnPerSession
CHECK_DEADLOCK FALSE
