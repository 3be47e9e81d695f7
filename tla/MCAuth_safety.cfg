SPECIFICATION FairSpec
CONSTANTS
  w1 = w1
  w2 = w2
  w3 = w3
  a1 = a1
  p1 = p1
  p2 = p2
  bad = bad
  d1 = d1
  d2 = d2
  Threads = {w1, w2, w3}
  Agents = {a1}
  Passwords = {p1, p2}
  Malformed = bad
  Devices = {d1, d2}
  MaxAttempts = 3
  JwtExpire = 1
INVARIANTS
  TypeOK
  LoginGuessesBounded
  GuessInv
PROPERTIES
  BlockedIsFinal
  NoNewAccess
  AccessEnds
