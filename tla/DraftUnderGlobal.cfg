SPECIFICATION Spec
CONSTANTS
  k1 = k1
  k2 = k2
  n1 = n1
  b1 = b1
  b2 = b2
  bOp = bOp
  bNew = bNew
  w1 = w1
  w2 = w2
  Workers = {w1, w2}
  Keys = {k1, k2}
  RuleNames = {n1}
  NameOf <- MCNameOf
  BinaryOf <- MCBinaryOf
  Edited = {bNew}
  Operator <- MCOperator
  Flagged = {k2}
  NoKey = NoKey
  Kinds <- AllKinds
  RetryLimit = 2
  MaxOps = 3
  MaxFaults = 0
SYMMETRY WorkerSymmetry
CHECK_DEADLOCK FALSE
PROPERTIES
  BlockedUnderGlobal
