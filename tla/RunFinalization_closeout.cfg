\* Two renderers, two deaths of the Host, two faults.
CONSTANTS
  Loads = 2
  Crashes = 2
  Faults = 2
SPECIFICATION FFairSpec
INVARIANTS FTypeOK FinishedByOwner CompletedIsLearned AckedIsCompleted
PROPERTIES ClaimIsHeld OwnerFinishes
CHECK_DEADLOCK FALSE
