SPECIFICATION Spec
CONSTANTS
  a1 = a1
  a2 = a2
  cspr = cspr
  usd = usd
  Zero = Zero
  Accounts <- MCAccounts
  Deployed <- MCDeployed
  Assets <- MCAssets
  Amounts <- MCAmounts
  MaxHistory = 2
  U256 = 7
  MaxEvents = 4
INVARIANTS
  RecentIsLatest
  TotalsMatchHistory
  OffersAreCurrent
CHECK_DEADLOCK FALSE
