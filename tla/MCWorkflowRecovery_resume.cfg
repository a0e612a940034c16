\* A checkpoint at any time, one death of the Host.
CONSTANTS
  a = a  b = b  j = j  c1 = c1  c2 = c2  c3 = c3
  Node = {a, b, j}
  Deps <- MCJoin
  Reads <- MCJoinReads
  Needs <- MCJoinReads
  Optional = {b}
  Writers = {b}
  RetryOn <- MCRetry
  MaxAttempts <- MCAttempts
  MaxTotal = 4
  MaxConcurrent = 2
  Call = {c1, c2, c3}
  OutOfTurn = FALSE
  Deaths = 1
SPECIFICATION RSpec
SYMMETRY MCCalls
INVARIANTS CheckpointAccepted CheckpointClosed
CHECK_DEADLOCK FALSE
