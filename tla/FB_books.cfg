SPECIFICATION MCSpec
CONSTANTS
  a1 = a1
  a2 = a2
  p1 = p1
  p2 = p2
  Accounts <- MCAccounts
  Deployed <- MCDeployed
  Outcomes <- MCOutcomes
  Amounts <- MCAmounts
  MaxLogHistory = 2
  MinStrategyAmount = 2
  U256 = 3
  MaxDecisions = 3
  MaxPositions = 2
  Processes <- MCProcesses
  Motes <- MCMotes
  MaxRecords = 3
SYMMETRY MCSymmetry
INVARIANTS
  ReputationAgrees
  CustodyBalances
  YieldIsAttributed
  SoleWriterKeepsAll
  SnapshotsConsistent
  NothingInvented
PROPERTIES
  ImplementsWindow
CHECK_DEADLOCK FALSE
