\* Three runs of one session, room for two live items, one revision of slack.
CONSTANTS
  r1 = r1  r2 = r2  r3 = r3  s1 = s1  s2 = s2  m1 = m1
  NoRun = NoRun  NoMsg = NoMsg
  RunId = {r1, r2, r3}
  SessionId = {s1}
  SessionOf <- MCOneSession
  MsgId = {}
  Max = 2
  MaxRev = 3
  GoalContracts = FALSE
  ProviderStage = FALSE
  Reloads = 0
SPECIFICATION FairSpec
INVARIANTS HTypeOK OneTurnPerSession QueuedCanResume NoOrphanRunning
PROPERTIES TerminalIsFinal KeepsPromise DrainsQueue
CHECK_DEADLOCK FALSE
