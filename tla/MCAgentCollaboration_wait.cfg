CONSTANTS
  c1 = c1 c2 = c2 f1 = f1 n1 = n1
  Root = Root Other = Other NoRun = NoRun NoWait = NoWait Stale = Stale Live = Live
  Child = {c1, c2}
  ParentOf <- MCParentOf
  Overlap <- MCOverlap
  Mail = {f1, n1}
  FollowUp = {f1}
  Receiver <- MCReceiver
  Capacity = 2
  Waiters = {Root}
  Outcome = {"completed", "interrupted"}
  MaxCalls = 3
SPECIFICATION Spec
PROPERTY QueuedWorkKept
CHECK_DEADLOCK FALSE
