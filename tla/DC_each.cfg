SPECIFICATION MCSpec
CONSTANTS
  l1 = l1
  l2 = l2
  s1 = s1
  s2 = s2
  Chains <- MCChains
  MaxDeposits = 4
  Sockets <- MCSockets
  MaxEvents = 3
INVARIANTS
  EachDelivered
CHECK_DEADLOCK FALSE
