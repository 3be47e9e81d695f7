SPECIFICATION Spec
CONSTANTS
  KeyPairs = {k1, k2}
  Devices = {d1, d2}
  Requests <- AllRequests
  Contents <- SomeContents
INVARIANTS
  DateOptional
