SPECIFICATION FairSpec
CONSTANTS
  c1 = c1
  c2 = c2
  Cycles <- MCCycles
  Tokens = {"sCSPR"}
  Amounts = {0, 1, 2}
  Quotes = {2}
  Confidences = {49, 50}
  MinStake = 2
  MaxDrawdownPct = 10
  MaxStreak = 2
  Cooldown = 2
INVARIANTS
  TypeOK
  OverrunBounded
PROPERTIES
  CooldownHeld
  FailuresStop
  CyclesEnd
