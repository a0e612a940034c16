\* Two Hosts that overlap, a release from before the cutover, three writes, two deaths.
CONSTANTS
  Host = {h1, h2}
  Writes = 3
  Stops = 2
  Gaps = FALSE
SPECIFICATION SFairSpec
INVARIANTS NothingForgotten
PROPERTIES ComesUp
CHECK_DEADLOCK FALSE
