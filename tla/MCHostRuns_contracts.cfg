\* Goal Contracts, provider stages and a renderer reload in two sessions.
CONSTANTS
  r1 = r1  r2 = r2  r3 = r3  s1 = s1  s2 = s2  m1 = m1
  NoRun = NoRun  NoMsg = NoMsg
  RunId = {r1, r2, r3}
  SessionId = {s1, s2}
  SessionOf <- MCTwoSessions
  MsgId = {}
  Max = 2
  MaxRev = 3
  GoalContracts = TRUE
  ProviderStage = TRUE
  Reloads = 1
SPECIFICATION Spec
INVARIANTS NoStaleOccupant
CHECK_DEADLOCK FALSE
