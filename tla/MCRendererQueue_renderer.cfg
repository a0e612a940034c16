\* Four runs, two slots, room for two: b shares the thread of a and is submitted
\* twice, a takes over, d is a delegate whose trigger may be refused, c is turned
\* away without a slot, and the renderer reloads or dies once.
CONSTANTS
  a = a  b = b  c = c  d = d  e = e  t = t
  NoThread = NoThread
  Run = {a, b, c, d}
  ThreadOf <- MCThreads
  Queueing = {b, d}
  Steering = {a}
  Late = {b, d}
  Delegate = {d}
  Guarded = {d}
  Limit = 2
  MaxQueue = 2
  Submits <- MCSubmits
  Reloads = 1
SPECIFICATION QFairSpec
INVARIANTS CapacityKept RunsOnce NothingLost
PROPERTIES DrainEnds
CHECK_DEADLOCK FALSE
