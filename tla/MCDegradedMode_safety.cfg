SPECIFICATION Spec
CONSTANTS
  s1 = s1
  f1 = f1
  m = m
  p1 = p1
  p2 = p2
  t1 = t1
  t2 = t2
  Submitters = {s1}
  Manuals = {f1}
  Monitor = m
  Packets = {p1, p2}
  Txns = {t1, t2}
  Content <- Apart
  MaxFailures = 2
  MaxRetry = 2
  BatchSize = 2
  MayCrash = TRUE
  SqliteMayFail = TRUE
SYMMETRY ApartSymmetry
INVARIANTS
  TypeOK
  StatusByFailures
  AckedNotLost
  OneSync
  NeverResent
  IInv
