SPECIFICATION Spec
CONSTANTS
  Checkers = {monitor, submit}
  MaxFailures = 3
PROPERTIES
  EveryChangeSeen
