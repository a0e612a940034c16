\* Two runs, Goal Contracts, provider stages, a renderer reload, two deaths of the Host.
CONSTANTS
  r1 = r1  r2 = r2  r3 = r3  s1 = s1
  NoRun = NoRun  NoMsg = NoMsg
  RunId = {r1, r2}
  SessionId = {s1}
  SessionOf <- MCSessionOf
  MsgId = {}
  Max = 2
  MaxRev = 3
  GoalContracts = TRUE
  ProviderStage = TRUE
  Reloads = 1
  Crashes = 2
SPECIFICATION RSpec
SYMMETRY MCSymmetry
INVARIANTS ActiveHasWitness
PROPERTIES BegunIsNotResumed
CHECK_DEADLOCK FALSE
