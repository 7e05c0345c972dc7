SPECIFICATION FairSpec
CONSTANTS
  c1 = c1
  c2 = c2
  Calls <- MCCalls
INVARIANTS
  VerdictsAreHonest
  ConnectsOnce
PROPERTIES
  CallsEnd
CHECK_DEADLOCK FALSE
