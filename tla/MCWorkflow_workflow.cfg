\* A join of two nodes, a writer, an optional artifact, three calls one after the other.
CONSTANTS
  a = a  b = b  j = j  c1 = c1  c2 = c2  c3 = c3
  Node = {a, b, j}
  Deps <- MCJoin
  Reads <- MCJoinReads
  Needs <- MCJoinReads
  Optional = {b}
  Writers = {b}
  RetryOn <- MCRetry
  MaxAttempts <- MCThrice
  MaxTotal = 4
  MaxConcurrent = 2
  Call = {c1, c2, c3}
  OutOfTurn = FALSE
SPECIFICATION WFairSpec
INVARIANTS BudgetKept SlotsCounted LineageFresh
PROPERTIES GraphSpec CallReturns
CHECK_DEADLOCK FALSE
