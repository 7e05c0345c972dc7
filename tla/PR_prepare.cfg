SPECIFICATION MCSpec
CONSTANTS
  a1 = a1
  a2 = a2
  h1 = h1
  h2 = h2
  Order <- MCOrder
  MaxRuns = 2
  MaxDeploys = 4
  Tokens <- MCTokens
  Impacts = {10, 11}
  Pools <- MCPools
  MaxPairs = 3
  Amounts = {2}
  Quotes = {2}
  Confidences = {50}
  MinStake = 2
  Attempts <- MCAttempts
  Handlers <- MCHandlers
INVARIANTS
  RecordedIsReal
  ChoiceIsBest
  RejectedNotChosen
  HashMeansAsked
  FallbackServes
PROPERTIES
  EnvMovesForward
  LateCopiesRefused
  NobodyHangs
CHECK_DEADLOCK FALSE
