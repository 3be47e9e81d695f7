SPECIFICATION Spec
CONSTANTS
  w1 = w1
  w2 = w2
  w3 = w3
  t1 = t1
  t2 = t2
  t3 = t3
  Workers = {w1, w2, w3}
  Txns = {t1, t2}
  Valid <- AllButOne
  MaxRequests = 4
SYMMETRY ThreadSymmetry
INVARIANTS
  TypeOK
  ChainLinked
  HistoryCommitted
  SourcesSealed
  AckSealed
  NoDeadlock
  IInv
\* The bound on requests stops the system.
CHECK_DEADLOCK FALSE
