SPECIFICATION Spec
CONSTANTS
  a1 = a1
  a2 = a2
  Accounts <- MCAccounts
  Owner <- MCOwner
  Amounts <- MCAmounts
  MaxHistory = 2
  U64 = 16
  Supply = 5
INVARIANT PrincipalWithdrawable
CHECK_DEADLOCK FALSE
