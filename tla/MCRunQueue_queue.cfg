\* Two sessions, room for three live items: every call on short arrays, and
\* eviction once receipts have filled an array to its retention threshold.
CONSTANTS
  r1 = r1  r2 = r2  r3 = r3
  s1 = s1  s2 = s2  m1 = m1
  NoMsg = NoMsg
  RunId = {r1, r2, r3}
  SessionId = {s1, s2}
  SessionOf <- MCTwoSessions
  MsgId = {m1}
  Max = 3
  MaxLen = 3
  MaxRev = 5
  MaxEdits = 3
  Steered = r2
SPECIFICATION MCSpec
INVARIANTS QTypeOK IdentityUnique OneManualStart
PROPERTIES NoSilentReorder PauseEndsByStart EditsRaiseRevision LiveWorkKept
CHECK_DEADLOCK FALSE
