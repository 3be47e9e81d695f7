SPECIFICATION Spec
CONSTANTS
  w1 = w1
  w2 = w2
  w3 = w3
  t1 = t1
  t2 = t2
  t3 = t3
  Workers = {w1, w2}
  Txns = {t1, t2}
  Valid <- AllButOne
  MaxRequests = 2
SYMMETRY ThreadSymmetry
INVARIANTS
  ReadIsLast
\* The bound on requests stops the system.
CHECK_DEADLOCK FALSE
